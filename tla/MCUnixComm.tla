------------------------------ MODULE MCUnixComm ------------------------------
(* UnixComm with the bounds of the configurations.                          *)
EXTENDS UnixComm
=============================================================================
