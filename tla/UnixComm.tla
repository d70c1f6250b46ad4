------------------------------- MODULE UnixComm -------------------------------
(***************************************************************************)
(* Lisp's Unix processes, shells and sockets: the UJ table of the emulator *)
(* (unixcomm.c), the slave process that forks on its behalf (unixfork.c)   *)
(* and the jobs it forks.  Emulator and slave exchange 6-byte packets over *)
(* two pipes; the emulator blocks until its request is answered.  A job    *)
(* writes, ends and is reaped at any time.                                 *)
(*                                                                         *)
(* pc is where Unix_handlecomm is: "idle" between calls, "fork" and        *)
(* "close" waiting for the slave, "accept" in accept(), "wait" in          *)
(* wait_for_comm_processes, "after" behind it, "kill" before SIGKILL.      *)
(***************************************************************************)
EXTENDS Integers, FiniteSetsExt

CONSTANTS
  Fds,        \* descriptors the emulator can still open, all below 128
  Pids,       \* process ids the kernel hands out
  Reuse,      \* TRUE if it has come round to ids it has handed out before
  MaxJobs,    \* bound: jobs forked and clients connected
  MaxData,    \* bound: unread bytes of a job
  KillTries   \* waits before and after SIGKILL (10 in the code)

ASSUME UnixCommAssumption ==
  /\ Fds \subseteq 0 .. 127 /\ Pids \subseteq Nat \ {0}
  /\ Reuse \in BOOLEAN /\ MaxJobs \in Nat /\ MaxData \in Nat /\ KillTries \in Nat \ {0}

VARIABLES
  UJ,      \* slot -> [type, PID, status]
  open,    \* open descriptors
  job,     \* slot -> the job it was opened for, 0 if none
  jobs,    \* job -> [kind, pid, st, out]
  req,     \* request in the pipe to the slave
  rep,     \* reply in the pipe from the slave
  pc,
  op       \* the call in progress: [cmd, slot, dest, errno, tries]

vars == <<UJ, open, job, jobs, req, rep, pc, op>>

Jobs == 1 .. MaxJobs
None == "none"
Types == {"UNUSED", "SHELL", "PROCESS", "SOCKET", "SOSTREAM"}
Streams == {"SHELL", "PROCESS", "SOSTREAM"}

Op(cmd, slot, dest, errno) == [cmd |-> cmd, slot |-> slot, dest |-> dest, errno |-> errno, tries |-> 0]
NoOp == Op(8, 0, 0, "0")

\* FindUnixPipes.
Init ==
  /\ UJ = [s \in Fds |-> [type |-> "UNUSED", PID |-> 0, status |-> -1]]
  /\ open = {} /\ job = [s \in Fds |-> 0]
  /\ jobs = [j \in Jobs |-> [kind |-> None, pid |-> 0, st |-> None, out |-> 0]]
  /\ req = None /\ rep = [k |-> None] /\ pc = "idle"
  /\ op = NoOp

Idle == pc' = "idle" /\ op' = NoOp
valid_slot(s) == UJ[s].type # "UNUSED"
FreeFds == Fds \ open
Unborn == {j \in Jobs : jobs[j].st = None}
Alive(j) == jobs[j].st \in {"new", "run"}
\* The kernel does not hand out the id of a process that has not been reaped.
FreePids == Pids \ {jobs[j].pid : j \in {i \in Jobs : ~Reuse \/ jobs[i].st \in {"new", "run", "zombie"}}}

-----------------------------------------------------------------------------
(* The jobs and the clients of Lisp's sockets.                             *)

SetJob(j, st) == jobs' = [jobs EXCEPT ![j].st = st]

\* The child of a pipe fork connects to the emulator's socket.
JobConnects(j) ==
  /\ jobs[j].kind = "pipe" /\ jobs[j].st = "new" /\ SetJob(j, "run")
  /\ UNCHANGED <<UJ, open, job, req, rep, pc, op>>

JobWrites(j) ==
  /\ jobs[j].st = "run" /\ jobs[j].out < MaxData
  /\ jobs' = [jobs EXCEPT ![j].out = @ + 1]
  /\ UNCHANGED <<UJ, open, job, req, rep, pc, op>>

JobEnds(j) ==
  /\ jobs[j].st = "run"
  /\ SetJob(j, IF jobs[j].kind = "client" THEN "gone" ELSE "zombie")
  /\ UNCHANGED <<UJ, open, job, req, rep, pc, op>>

\* A client connects to a socket of Lisp; pid holds the socket.
ClientConnects(s) ==
  /\ UJ[s].type = "SOCKET" /\ Unborn # {}
  /\ jobs' = [jobs EXCEPT ![Min(Unborn)] = [kind |-> "client", pid |-> -s, st |-> "new", out |-> 0]]
  /\ UNCHANGED <<UJ, open, job, req, rep, pc, op>>

-----------------------------------------------------------------------------
(* The slave, fork_Unix.                                                   *)

\* 'F', 'S' and 'P': fork a job, or fail.
SlaveFork ==
  /\ req \in {"pipe", "pty"} /\ req' = None
  /\ \/ /\ Unborn # {} /\ FreePids # {}
        /\ LET j == Min(Unborn) IN \E p \in FreePids :
             /\ jobs' = [jobs EXCEPT ![j] =
                           [kind |-> req, pid |-> p, st |-> IF req = "pipe" THEN "new" ELSE "run", out |-> 0]]
             /\ rep' = [k |-> "forked", pid |-> p, job |-> j]
     \/ rep' = [k |-> "failed"] /\ UNCHANGED jobs
  /\ UNCHANGED <<UJ, open, job, pc, op>>

\* 'W': reap one job that has ended, if there is one.
SlaveWait ==
  LET zombies == {j \in Jobs : jobs[j].st = "zombie"} IN
  /\ req = "W" /\ req' = None
  /\ \/ \E j \in zombies : SetJob(j, "gone") /\ rep' = [k |-> "W", pid |-> jobs[j].pid, status |-> j]
     \/ zombies = {} /\ rep' = [k |-> "W", pid |-> 0, status |-> 0] /\ UNCHANGED jobs
  /\ UNCHANGED <<UJ, open, job, pc, op>>

\* 'C': the slave only answers.
SlaveClose ==
  /\ req = "C" /\ req' = None /\ rep' = [k |-> "C"]
  /\ UNCHANGED <<UJ, open, job, jobs, pc, op>>

-----------------------------------------------------------------------------
(* wait_for_comm_processes.                                                *)

SendWait == pc' = "wait" /\ req' = "W"

\* SIGIO while the emulator is blocked in SAFEREAD, which tries again but
\* leaves its errno behind.
IOSignal ==
  /\ pc = "wait" /\ op' = [op EXCEPT !.errno = "EINTR"]
  /\ UNCHANGED <<UJ, open, job, jobs, req, rep, pc>>

find_process_slot(pid) == {s \in Fds : UJ[s].PID = pid /\ \A t \in Fds : t < s => UJ[t].PID # pid}

\* A job has ended: note its status and look for another.
WaitNotes ==
  /\ pc = "wait" /\ rep.k = "W" /\ rep.pid # 0
  /\ UJ' = [s \in Fds |-> IF s \in find_process_slot(rep.pid)
                          THEN [UJ[s] EXCEPT !.status = rep.status] ELSE UJ[s]]
  /\ rep' = [k |-> None] /\ SendWait
  /\ UNCHANGED <<open, job, jobs, op>>

\* Variant of WaitDone: the loop never sees that no job is left.
WaitDoneAgain ==
  /\ pc = "wait" /\ rep.k = "W" /\ rep.pid = 0
  /\ rep' = [k |-> None] /\ SendWait
  /\ UNCHANGED <<UJ, open, job, jobs, op>>

WaitDone ==
  /\ pc = "wait" /\ rep.k = "W" /\ rep.pid = 0
  /\ rep' = [k |-> None] /\ pc' = "after"
  /\ UNCHANGED <<UJ, open, job, jobs, req, op>>

-----------------------------------------------------------------------------
(* Unix_handlecomm.                                                        *)

\* 0: a socket for the child to connect to, then 'F' and its command string;
\* 4 and 11: a pseudo-terminal, then 'S' or 'P' and its strings.
Fork(kind) ==
  /\ pc = "idle" /\ FreeFds # {}
  /\ LET fd == Min(FreeFds) IN
       /\ open' = open \cup {fd}
       /\ op' = Op(IF kind = "pipe" THEN 0 ELSE 11, fd, 0, "0")
  /\ req' = kind /\ pc' = "fork"
  /\ UNCHANGED <<UJ, job, jobs, rep>>

\* Variant of NewSlot: the status of the slot's last job stays.
NewSlotKeepsStatus(type, pid, old) == [type |-> type, PID |-> pid, status |-> old.status]

NewSlot(type, pid, old) == [type |-> type, PID |-> pid, status |-> -1]

ForkFails ==
  /\ pc = "fork" /\ rep.k = "failed"
  /\ open' = open \ {op.slot} /\ rep' = [k |-> None] /\ Idle
  /\ UNCHANGED <<UJ, job, jobs, req>>

ForkShell ==
  /\ pc = "fork" /\ rep.k = "forked" /\ op.cmd = 11
  /\ UJ' = [UJ EXCEPT ![op.slot] = NewSlot("SHELL", rep.pid, @)]
  /\ job' = [job EXCEPT ![op.slot] = rep.job]
  /\ rep' = [k |-> None] /\ Idle
  /\ UNCHANGED <<open, jobs, req>>

ForkPipe ==
  /\ pc = "fork" /\ rep.k = "forked" /\ op.cmd = 0 /\ pc' = "accept"
  /\ UNCHANGED <<UJ, open, job, jobs, req, rep, op>>

\* accept() gives the descriptor of the job, or fails for want of one.
AcceptJob ==
  /\ pc = "accept" /\ jobs[rep.job].st # "new"
  /\ \/ /\ FreeFds # {}
        /\ LET fd == Min(FreeFds) IN
             /\ UJ' = [UJ EXCEPT ![fd] = NewSlot("PROCESS", rep.pid, @)]
             /\ job' = [job EXCEPT ![fd] = rep.job]
             /\ open' = (open \ {op.slot}) \cup {fd}
     \/ FreeFds = {} /\ open' = open \ {op.slot} /\ UNCHANGED <<UJ, job>>
  /\ rep' = [k |-> None] /\ Idle
  /\ UNCHANGED <<jobs, req>>

\* 2: read a byte; 9: read a buffer.  Without data the emulator looks for jobs
\* that have ended before it decides what that means.
Read(cmd, s) ==
  LET j == jobs[job[s]] IN
  /\ pc = "idle" /\ UJ[s].type \in Streams
  /\ \/ /\ j.out > 0
        /\ jobs' = [jobs EXCEPT ![job[s]].out = IF cmd = 2 THEN @ - 1 ELSE 0]
        /\ UNCHANGED <<req, pc, op>>
     \/ /\ j.out = 0
        /\ op' = IF Alive(job[s]) THEN Op(cmd, s, -1, "EAGAIN")
                 ELSE IF j.kind = "pty" THEN Op(cmd, s, -1, "EIO") ELSE Op(cmd, s, 0, "0")
        /\ SendWait /\ UNCHANGED jobs
  /\ UNCHANGED <<UJ, open, job, rep>>

\* T: no characters, but the other end is still running; NIL: end of file.  So the
\* code and its comments there have it; the list of commands at the head of the
\* function has the two the other way round.
ReadByteResult ==
  IF UJ[op.slot].status = -1 /\ (op.dest = 0 \/ op.errno = "EAGAIN") THEN "T" ELSE "NIL"

\* Variant of ReadBufferResult: as for a byte.
ReadBufferResultStrict == ReadByteResult

ReadBufferResult ==
  IF UJ[op.slot].status = -1 /\ (op.dest = 0 \/ op.errno \in {"EINTR", "0", "EAGAIN"}) THEN "T" ELSE "NIL"

\* 15: write a buffer; what does not go at once makes the emulator look for
\* jobs that have ended.  1, write a byte, changes nothing.
Write(s) ==
  /\ pc = "idle" /\ UJ[s].type \in Streams
  /\ op' = Op(15, s, -1, IF Alive(job[s]) THEN "EAGAIN" ELSE "EPIPE")
  /\ SendWait
  /\ UNCHANGED <<UJ, open, job, jobs, rep>>

\* 7: the status of a job.
JobStatus(s) ==
  /\ pc = "idle" /\ op' = Op(7, s, 0, "0") /\ SendWait
  /\ UNCHANGED <<UJ, open, job, jobs, rep>>

\* 2, 7, 9 and 15 return; so does 5.
Return ==
  /\ pc = "after" /\ op.cmd # 3 /\ Idle
  /\ UNCHANGED <<UJ, open, job, jobs, req, rep>>

Unused(s) == [UJ[s] EXCEPT !.type = "UNUSED", !.PID = 0]

\* 3: close the descriptor, which may be enough for the job to end ...
Kill(s) ==
  /\ pc = "idle" /\ valid_slot(s)
  /\ open' = open \ {s}
  /\ \/ /\ UJ[s].type \in {"SHELL", "PROCESS"}
        /\ op' = Op(3, s, 0, "0") /\ SendWait /\ UNCHANGED <<UJ, job>>
     \/ /\ UJ[s].type \in {"SOCKET", "SOSTREAM"}
        /\ UJ' = [UJ EXCEPT ![s] = Unused(s)] /\ job' = [job EXCEPT ![s] = 0]
        /\ UNCHANGED <<req, pc, op>>
  /\ UNCHANGED <<jobs, rep>>

\* Variant of Ended: the status is not looked at again before SIGKILL.
EndedUnchecked(s, tries) == UJ[s].status # -1 /\ tries # KillTries - 1

Ended(s, tries) == UJ[s].status # -1

\* ... wait for it, kill it and wait again.
KillWaits ==
  /\ pc = "after" /\ op.cmd = 3 /\ ~Ended(op.slot, op.tries) /\ op.tries < 2 * KillTries - 1
  /\ op' = [op EXCEPT !.tries = @ + 1]
  /\ IF op.tries = KillTries - 1 THEN pc' = "kill" /\ UNCHANGED req ELSE SendWait
  /\ UNCHANGED <<UJ, open, job, jobs, rep>>

\* SIGKILL ends the job, but for a bug of the kernel.
KillSends ==
  LET victim == {j \in Jobs : jobs[j].pid = UJ[op.slot].PID /\ jobs[j].st \in {"new", "run"}} IN
  /\ pc = "kill"
  /\ \/ jobs' = [j \in Jobs |-> IF j \in victim THEN [jobs[j] EXCEPT !.st = "zombie"] ELSE jobs[j]]
     \/ UNCHANGED jobs
  /\ SendWait
  /\ UNCHANGED <<UJ, open, job, rep, op>>

KillReturns ==
  /\ pc = "after" /\ op.cmd = 3 /\ (Ended(op.slot, op.tries) \/ op.tries = 2 * KillTries - 1)
  /\ UJ' = [UJ EXCEPT ![op.slot] = Unused(op.slot)] /\ job' = [job EXCEPT ![op.slot] = 0]
  /\ Idle
  /\ UNCHANGED <<open, jobs, req, rep>>

\* 5: close_unix_descriptors kills every job and closes every descriptor.
KillAll ==
  LET pids == {UJ[s].PID : s \in {t \in Fds : UJ[t].type \in {"SHELL", "PROCESS"}}} IN
  /\ pc = "idle"
  /\ jobs' = [j \in Jobs |-> IF jobs[j].pid \in pids /\ jobs[j].st \in {"new", "run"}
                             THEN [jobs[j] EXCEPT !.st = "zombie"] ELSE jobs[j]]
  /\ UJ' = [s \in Fds |-> IF UJ[s].type \in {"SHELL", "PROCESS"} THEN Unused(s)
                          ELSE [UJ[s] EXCEPT !.type = "UNUSED"]]
  /\ open' = open \ {s \in Fds : valid_slot(s)} /\ job' = [s \in Fds |-> 0]
  /\ op' = Op(5, 0, 0, "0") /\ SendWait
  /\ UNCHANGED <<rep>>

\* 6: tell the slave, then close the descriptor and leave the job alone.
Close(s) ==
  /\ pc = "idle" /\ op' = Op(6, s, 0, "0") /\ req' = "C" /\ pc' = "close"
  /\ UNCHANGED <<UJ, open, job, jobs, rep>>

CloseReturns ==
  /\ pc = "close" /\ rep.k = "C"
  /\ open' = IF valid_slot(op.slot) THEN open \ {op.slot} ELSE open
  /\ UJ' = [UJ EXCEPT ![op.slot] = Unused(op.slot)] /\ job' = [job EXCEPT ![op.slot] = 0]
  /\ rep' = [k |-> None] /\ Idle
  /\ UNCHANGED <<jobs, req>>

\* 12: a socket for clients; if the name is taken nothing is left of it.
CreateSocket ==
  /\ pc = "idle" /\ FreeFds # {}
  /\ LET fd == Min(FreeFds) IN
       /\ UJ' = [UJ EXCEPT ![fd] = NewSlot("SOCKET", -1, @)] /\ open' = open \cup {fd}
  /\ UNCHANGED <<job, jobs, req, rep, pc, op>>

\* 13: accept a client that waits for the socket.
AcceptClient(s) ==
  /\ pc = "idle" /\ UJ[s].type = "SOCKET" /\ FreeFds # {}
  /\ \E j \in Jobs :
       /\ jobs[j].kind = "client" /\ jobs[j].st = "new" /\ jobs[j].pid = -s
       /\ LET fd == Min(FreeFds) IN
            /\ UJ' = [UJ EXCEPT ![fd] = NewSlot("SOSTREAM", -1, @)]
            /\ job' = [job EXCEPT ![fd] = j] /\ open' = open \cup {fd}
       /\ SetJob(j, "run")
  /\ UNCHANGED <<req, rep, pc, op>>

Slave == SlaveFork \/ SlaveWait \/ SlaveClose

Call ==
  \/ \E kind \in {"pipe", "pty"} : Fork(kind)
  \/ \E s \in Fds : \/ \E cmd \in {2, 9} : Read(cmd, s)
                    \/ Write(s) \/ JobStatus(s) \/ Kill(s) \/ Close(s) \/ AcceptClient(s)
  \/ KillAll \/ CreateSocket

Continue ==
  \/ ForkFails \/ ForkShell \/ ForkPipe \/ AcceptJob \/ WaitNotes \/ WaitDone
  \/ Return \/ KillWaits \/ KillSends \/ KillReturns \/ CloseReturns

Next ==
  \/ Call \/ Continue \/ IOSignal \/ Slave
  \/ \E j \in Jobs : JobConnects(j) \/ JobWrites(j) \/ JobEnds(j)
  \/ \E s \in Fds : ClientConnects(s)

Spec == Init /\ [][Next]_vars

\* The emulator and the slave keep running, and a child of a pipe fork gets to
\* its connect().
FairSpec == Spec /\ WF_vars(Continue) /\ WF_vars(Slave) /\ WF_vars(\E j \in Jobs : JobConnects(j))

-----------------------------------------------------------------------------
TypeOK ==
  /\ UJ \in [Fds -> [type : Types, PID : Pids \cup {0, -1}, status : Jobs \cup {-1}]]
  /\ open \subseteq Fds /\ job \in [Fds -> 0 .. MaxJobs]
  /\ req \in {None, "pipe", "pty", "W", "C"}
  /\ \A s \in Fds : valid_slot(s) => (s \in open \/ (op.cmd = 3 /\ op.slot = s))

\* The status of a slot is the status of the job the slot was opened for, and
\* only once that job has been reaped: never one left by the slot's last job,
\* or another job's.
StatusIsOwn ==
  /\ TypeOK
  /\ \A s \in Fds : UJ[s].type \in {"SHELL", "PROCESS"} /\ UJ[s].status # -1 =>
                     UJ[s].status = job[s] /\ jobs[job[s]].st = "gone"

\* SIGKILL goes to the job of the slot, which has not been reaped, so that its
\* process id cannot be another process's by now.
KillsOnlyOwn ==
  pc = "kill" => LET j == jobs[job[op.slot]] IN j.pid = UJ[op.slot].PID /\ j.st # "gone"

\* Reading a buffer reports end of file only when the other end has ended,
\* even if SIGIO interrupts the wait for the slave (command 9 of Unix_handlecomm:
\* NIL is the end there, against the list of commands at its head).
BufferEOFMeansEnded ==
  pc = "after" /\ op.cmd = 9 /\ ReadBufferResult = "NIL" => ~Alive(job[op.slot])

\* Every call returns: the emulator and the slave never wait for each other.
CallReturns == pc # "idle" ~> pc = "idle"
=============================================================================
