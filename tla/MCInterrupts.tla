----------------------------- MODULE MCInterrupts -----------------------------
(* Interrupts with the bounds of the configurations.                        *)
EXTENDS Interrupts
=============================================================================
