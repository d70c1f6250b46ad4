-------------------------- MODULE UnixComm_proofs ---------------------------
(* Proofs about UnixComm, for every set of descriptors and process ids and  *)
(* every number of jobs, as long as the kernel has not come round to process *)
(* ids it has handed out before (~Reuse).                                   *)
EXTENDS UnixComm, WellFoundedInduction, TLAPS

\* Min takes a member: every nonempty set of natural numbers has a least one.
LEMMA MinMember ==
  ASSUME NEW S \in SUBSET Nat, S # {}
  PROVE  Min(S) \in S
<1>1. PICK x \in S : \A y \in S : ~(<<y, x>> \in OpToRel(<, Nat))
  BY NatLessThanWellFounded, WFMin
<1>2. ASSUME NEW y \in S PROVE x <= y
  <2>1. ~(y < x)
    BY <1>1 DEF OpToRel
  <2>2. QED
    BY <2>1
<1>3. QED
  BY <1>1, <1>2 DEF Min

-----------------------------------------------------------------------------
(* The inductive invariant.                                                *)

Forked == {"pipe", "pty"}
Owns(s) == UJ[s].type \in {"SHELL", "PROCESS"}

OpRec == [cmd : Int, slot : Int, dest : Int, errno : {"0", "EAGAIN", "EINTR", "EIO", "EPIPE"}, tries : Int]
States == {None, "new", "run", "zombie", "gone"}
JobRec == [kind : {None, "pipe", "pty", "client"}, pid : Int, st : States, out : Int]
SlotRec == [type : Types, PID : Pids \cup {0, -1}, status : Jobs \cup {-1}]

DataTypes == op \in OpRec /\ jobs \in [Jobs -> JobRec]

\* A job that was forked has a process id, and no other forked job has the same.
PidsApart ==
  /\ \A j \in Jobs : jobs[j].kind \in Forked <=> jobs[j].pid \in Pids
  /\ \A j \in Jobs : jobs[j].kind \in Forked => jobs[j].st # None
  /\ \A j \in Jobs : jobs[j].st = "zombie" => jobs[j].kind \in Forked
  /\ \A j \in Jobs : jobs[j].kind = None => jobs[j].st = None
  /\ \A i, j \in Jobs : jobs[i].kind \in Forked /\ jobs[j].kind \in Forked /\ jobs[i].pid = jobs[j].pid => i = j

\* The emulator has at most one request or reply under way, and waits for it.
Protocol ==
  /\ pc \in {"idle", "fork", "accept", "wait", "after", "kill", "close"}
  /\ pc \in {"idle", "after", "kill"} => req = None /\ rep.k = None
  /\ pc = "fork" => (req \in Forked /\ rep.k = None) \/ (req = None /\ rep.k \in {"forked", "failed"})
  /\ pc = "wait" => (req = "W" /\ rep.k = None) \/ (req = None /\ rep.k = "W")
  /\ pc = "close" => (req = "C" /\ rep.k = None) \/ (req = None /\ rep.k = "C")
  /\ pc = "accept" => req = None /\ rep.k = "forked"

\* StatusIsOwn without the types.
OwnStatus ==
  \A s \in Fds : Owns(s) /\ UJ[s].status # -1 => UJ[s].status = job[s] /\ jobs[job[s]].st = "gone"

\* What the call in progress relies on.
CallState ==
  /\ pc = "idle" => op = NoOp
  /\ pc # "idle" /\ op.cmd # 5 => op.slot \in Fds
  /\ op.cmd = 5 => pc \in {"wait", "after"}
  /\ pc \in {"fork", "accept"} => op.slot \in open /\ ~valid_slot(op.slot) /\ op.cmd \in {0, 11}
  /\ op.cmd = 3 => pc \in {"wait", "after", "kill"} /\ Owns(op.slot)
  /\ pc = "kill" => op.cmd = 3 /\ UJ[op.slot].status = -1
  /\ op.cmd = 9 => /\ pc \in {"wait", "after"} /\ UJ[op.slot].type \in Streams
                   /\ op.errno \notin {"EINTR", "0", "EAGAIN"} => ~Alive(job[op.slot])

\* What a reply says.
ReplyTrue ==
  /\ rep.k = "W" => rep.pid = 0 \/ /\ rep.status \in Jobs /\ jobs[rep.status].kind \in Forked
                                   /\ jobs[rep.status].pid = rep.pid /\ jobs[rep.status].st = "gone"
  /\ rep.k = "forked" => /\ rep.job \in Jobs /\ jobs[rep.job].kind \in Forked
                         /\ jobs[rep.job].pid = rep.pid /\ jobs[rep.job].st # "gone"
                         /\ \A s \in Fds : Owns(s) => job[s] # rep.job

\* The table: a slot with a process id belongs to the job that has it, and no
\* other slot does.
Table ==
  /\ \A s \in Fds : UJ[s].PID \in Pids => Owns(s)
  /\ \A s \in Fds : UJ[s].type \in Streams => job[s] \in Jobs /\ jobs[job[s]].st # None
  /\ \A s \in Fds : Owns(s) => jobs[job[s]].kind \in Forked /\ jobs[job[s]].pid = UJ[s].PID
  /\ \A s, t \in Fds : Owns(s) /\ Owns(t) /\ job[s] = job[t] => s = t
  /\ \A s \in Fds : UJ[s].type = "SOSTREAM" => UJ[s].status = -1

\* A job that has been reaped while its slot does not know yet is the one that
\* the reply on its way tells of.
Reaped ==
  \A s \in Fds : Owns(s) /\ jobs[job[s]].st = "gone" /\ UJ[s].status = -1 => rep.k = "W" /\ rep.pid = UJ[s].PID

IInv == TypeOK /\ OwnStatus /\ DataTypes /\ PidsApart /\ Protocol /\ CallState /\ ReplyTrue /\ Table /\ Reaped

-----------------------------------------------------------------------------
(* How the jobs and the table change.                                      *)

\* Jobs go on: none is born, none comes back to life, and unless reap is one
\* of them no forked job is reaped.
Advance(reap) ==
  /\ jobs' \in [Jobs -> JobRec]
  /\ \A i \in Jobs : /\ jobs'[i].kind = jobs[i].kind /\ jobs'[i].pid = jobs[i].pid
                     /\ jobs'[i].st = None <=> jobs[i].st = None
                     /\ jobs[i].st = "gone" => jobs'[i].st = "gone"
                     /\ jobs'[i].st = "zombie" => jobs[i].kind \in Forked
                     /\ jobs'[i].st \in {"new", "run"} => jobs[i].st \in {"new", "run"}
                     /\ jobs[i].kind \in Forked /\ jobs'[i].st = "gone" => jobs[i].st = "gone" \/ i \in reap

LEMMA OneJob ==
  ASSUME DataTypes, NEW j \in Jobs, NEW r \in JobRec, jobs' = [jobs EXCEPT ![j] = r]
  PROVE  jobs' \in [Jobs -> JobRec] /\ jobs'[j] = r /\ \A i \in Jobs : i # j => jobs'[i] = jobs[i]
BY DEF DataTypes

\* A job connects, writes or ends, or is read from.
LEMMA OneJobAdvances ==
  ASSUME DataTypes, NEW j \in Jobs, NEW st \in States, NEW out \in Int,
         jobs' = [jobs EXCEPT ![j] = [@ EXCEPT !.st = st, !.out = out]],
         jobs[j].st # None, st # None, jobs[j].st = "gone" => st = "gone",
         st \in {"new", "run"} => jobs[j].st \in {"new", "run"},
         st = "zombie" => jobs[j].kind \in Forked, \A i \in Jobs : jobs[i].st = "zombie" => jobs[i].kind \in Forked,
         jobs[j].kind \in Forked /\ st = "gone" => jobs[j].st = "gone"
  PROVE  Advance({})
<1> DEFINE r == [jobs[j] EXCEPT !.st = st, !.out = out]
<1>1. r \in JobRec /\ r.kind = jobs[j].kind /\ r.pid = jobs[j].pid /\ r.st = st
  BY DEF DataTypes, JobRec
<1>2. jobs' = [jobs EXCEPT ![j] = r]
  BY DEF DataTypes
<1> HIDE DEF r
<1>3. jobs' \in [Jobs -> JobRec] /\ jobs'[j] = r /\ \A i \in Jobs : i # j => jobs'[i] = jobs[i]
  BY <1>1, <1>2, OneJob
<1>4. QED
  BY <1>1, <1>3 DEF Advance

\* What stays true when jobs go on and the table does not change.
LEMMA AdvanceKeeps ==
  ASSUME IInv, Advance({}), UNCHANGED <<UJ, job>>
  PROVE  PidsApart' /\ Table' /\ OwnStatus'
<1>1. PidsApart'
  BY DEF Advance, IInv, PidsApart, DataTypes
<1>2. \A s \in Fds : UJ[s].type \in Streams => job[s] \in Jobs
  BY DEF IInv, Table
<1>3. \A s \in Fds : Owns(s) => UJ[s].type \in Streams
  BY DEF Owns, Streams
<1>4. Table'
  BY <1>2, <1>3 DEF Advance, IInv, Table, Owns, PidsApart
<1>5. OwnStatus'
  BY <1>2, <1>3 DEF Advance, IInv, OwnStatus, Owns
<1>6. QED
  BY <1>1, <1>4, <1>5

LEMMA AdvanceKeepsCall ==
  ASSUME IInv, Advance({}), UNCHANGED <<UJ, job, open, req, rep, pc, op>>
  PROVE  IInv'
<1>1. PidsApart' /\ Table' /\ OwnStatus'
  BY AdvanceKeeps
<1>2. \A s \in Fds : UJ[s].type \in Streams => job[s] \in Jobs
  BY DEF IInv, Table
<1>3. \A s \in Fds : Owns(s) => UJ[s].type \in Streams
  BY DEF Owns, Streams
<1>4. TypeOK' /\ Protocol' /\ DataTypes'
  BY DEF IInv, TypeOK, Protocol, DataTypes, Advance, valid_slot
<1>5. CallState'
  BY <1>2 DEF IInv, CallState, Advance, valid_slot, Owns, Alive
<1>6. ReplyTrue'
  BY DEF IInv, ReplyTrue, Advance, Owns
<1>7. Reaped'
  BY <1>2, <1>3 DEF IInv, Reaped, Advance, Owns, Table
<1>8. QED
  BY <1>1, <1>4, <1>5, <1>6, <1>7 DEF IInv

LEMMA JobSteps ==
  ASSUME IInv, NEW j \in Jobs, JobConnects(j) \/ JobWrites(j) \/ JobEnds(j)
  PROVE  IInv'
<1>1. jobs[j] \in JobRec /\ jobs \in [Jobs -> JobRec] /\ DataTypes
  BY DEF IInv, DataTypes
<1>2. PICK st \in States, out \in Int :
        /\ jobs' = [jobs EXCEPT ![j] = [@ EXCEPT !.st = st, !.out = out]]
        /\ jobs[j].st # None /\ st # None /\ (jobs[j].st = "gone" => st = "gone")
        /\ st \in {"new", "run"} => jobs[j].st \in {"new", "run"}
        /\ st = "zombie" => jobs[j].kind \in Forked
        /\ jobs[j].kind \in Forked /\ st = "gone" => jobs[j].st = "gone"
  <2>1. CASE JobConnects(j)
    <3>1. jobs' = [jobs EXCEPT ![j] = [@ EXCEPT !.st = "run", !.out = jobs[j].out]]
      BY <1>1, <2>1 DEF JobConnects, SetJob, JobRec
    <3>2. QED
      BY <1>1, <2>1, <3>1 DEF JobConnects, JobRec, States, None
  <2>2. CASE JobWrites(j)
    <3>1. jobs' = [jobs EXCEPT ![j] = [@ EXCEPT !.st = jobs[j].st, !.out = jobs[j].out + 1]]
      BY <1>1, <2>2 DEF JobWrites, JobRec
    <3>2. jobs[j].st \in States /\ jobs[j].out + 1 \in Int /\ jobs[j].st = "run" /\ jobs[j].st # None
      BY <1>1, <2>2 DEF JobWrites, JobRec, None
    <3>3. QED
      BY <3>1, <3>2
  <2>3. CASE JobEnds(j)
    <3> DEFINE st == IF jobs[j].kind = "client" THEN "gone" ELSE "zombie"
    <3>1. jobs' = [jobs EXCEPT ![j] = [@ EXCEPT !.st = st, !.out = jobs[j].out]]
      BY <1>1, <2>3 DEF JobEnds, SetJob, JobRec
    <3>2. /\ st \in States /\ st # None /\ st \notin {"new", "run"} /\ jobs[j].st = "run"
          /\ jobs[j].kind \in Forked => st # "gone"
          /\ st = "zombie" => jobs[j].kind \in Forked
      BY <1>1, <2>3 DEF JobEnds, States, None, Forked, IInv, PidsApart, JobRec
    <3> HIDE DEF st
    <3>3. QED
      BY <1>1, <3>1, <3>2 DEF JobRec, None
  <2>4. QED
    BY <2>1, <2>2, <2>3
<1>3. Advance({})
  BY <1>1, <1>2, OneJobAdvances DEF IInv, PidsApart
<1>4. QED
  BY <1>3, AdvanceKeepsCall DEF JobConnects, JobWrites, JobEnds

\* A job that is born belongs to no slot yet.
LEMMA NewJobKeeps ==
  ASSUME IInv, NEW j \in Jobs, jobs[j].st = None, NEW r \in JobRec, r.kind # None, r.st \in {"new", "run"},
         r.kind \in Forked <=> r.pid \in Pids, r.kind \in Forked => \A i \in Jobs : jobs[i].pid # r.pid,
         jobs' = [jobs EXCEPT ![j] = r], UNCHANGED <<UJ, job>>
  PROVE  /\ jobs' \in [Jobs -> JobRec] /\ jobs'[j] = r /\ \A i \in Jobs : i # j => jobs'[i] = jobs[i]
         /\ \A s \in Fds : UJ[s].type \in Streams => job[s] \in Jobs /\ job[s] # j
         /\ PidsApart' /\ Table' /\ OwnStatus'
<1>1. /\ jobs' \in [Jobs -> JobRec] /\ jobs'[j] = r /\ \A i \in Jobs : i # j => jobs'[i] = jobs[i]
  BY OneJob DEF IInv
<1>2. \A s \in Fds : UJ[s].type \in Streams => job[s] \in Jobs /\ job[s] # j
  BY DEF IInv, Table
<1>3. \A s \in Fds : Owns(s) => UJ[s].type \in Streams
  BY DEF Owns, Streams
<1>4. jobs[j].kind \notin Forked
  BY DEF IInv, PidsApart
<1>5. PidsApart'
  <2>1. ASSUME NEW i \in Jobs
        PROVE  /\ jobs'[i].kind \in Forked <=> jobs'[i].pid \in Pids
               /\ jobs'[i].kind \in Forked => jobs'[i].st # None
               /\ jobs'[i].st = "zombie" => jobs'[i].kind \in Forked
               /\ jobs'[i].kind = None => jobs'[i].st = None
    BY <1>1, <2>1 DEF IInv, PidsApart, None
  <2>2. ASSUME NEW i \in Jobs, NEW k \in Jobs, jobs'[i].kind \in Forked, jobs'[k].kind \in Forked,
               jobs'[i].pid = jobs'[k].pid
        PROVE  i = k
    BY <1>1, <2>2 DEF IInv, PidsApart
  <2>3. QED
    BY <2>1, <2>2 DEF PidsApart
<1>6. Table'
  BY <1>1, <1>2, <1>3 DEF IInv, Table, Owns
<1>7. OwnStatus'
  BY <1>1, <1>2, <1>3 DEF IInv, OwnStatus, Owns
<1>8. QED
  BY <1>1, <1>2, <1>5, <1>6, <1>7

LEMMA ClientStep ==
  ASSUME IInv, NEW s \in Fds, ClientConnects(s)
  PROVE  IInv'
<1> DEFINE j == Min(Unborn)
           r == [kind |-> "client", pid |-> -s, st |-> "new", out |-> 0]
<1>1. j \in Jobs /\ jobs[j].st = None
  <2>1. Unborn \in SUBSET Nat /\ Unborn # {}
    BY UnixCommAssumption DEF ClientConnects, Unborn, Jobs
  <2>2. j \in Unborn
    BY <2>1, MinMember
  <2>3. QED
    BY <2>2 DEF Unborn
<1>2. r \in JobRec /\ r.kind \notin Forked /\ r.kind # None /\ r.st = "new" /\ r.pid \notin Pids
  BY UnixCommAssumption DEF JobRec, States, Forked, None
<1>3. jobs' = [jobs EXCEPT ![j] = r] /\ UNCHANGED <<UJ, open, job, req, rep, pc, op>>
  BY DEF ClientConnects
<1> HIDE DEF j, r
<1>4. /\ jobs' \in [Jobs -> JobRec] /\ jobs'[j] = r /\ \A i \in Jobs : i # j => jobs'[i] = jobs[i]
      /\ \A t \in Fds : UJ[t].type \in Streams => job[t] \in Jobs /\ job[t] # j
      /\ PidsApart' /\ Table' /\ OwnStatus'
  BY <1>1, <1>2, <1>3, NewJobKeeps
<1>5. TypeOK' /\ Protocol' /\ DataTypes'
  BY <1>3, <1>4 DEF IInv, TypeOK, Protocol, DataTypes, valid_slot
<1>6. CallState'
  BY <1>3, <1>4 DEF IInv, CallState, valid_slot, Owns, Alive
<1>7. ReplyTrue'
  <2>1. jobs[j].kind \notin Forked
    BY <1>1 DEF IInv, PidsApart
  <2>2. QED
    BY <1>3, <1>4, <2>1 DEF IInv, ReplyTrue, Owns
<1>8. Reaped'
  BY <1>3, <1>4 DEF IInv, Reaped, Owns, Streams
<1>9. QED
  BY <1>4, <1>5, <1>6, <1>7, <1>8 DEF IInv

\* The slave forks, or fails to.
LEMMA SlaveForkStep ==
  ASSUME IInv, ~Reuse, SlaveFork
  PROVE  IInv'
<1>1. /\ req \in Forked /\ req' = None /\ pc = "fork" /\ rep.k = None /\ UNCHANGED <<UJ, open, job, pc, op>>
  BY DEF SlaveFork, IInv, TypeOK, Protocol, None, Forked
<1>2. CASE rep' = [k |-> "failed"] /\ UNCHANGED jobs
  <2>1. rep'.k = "failed"
    BY <1>2
  <2>2. TypeOK' /\ Protocol' /\ DataTypes'
    BY <1>1, <1>2, <2>1 DEF IInv, TypeOK, Protocol, DataTypes, valid_slot, None, Forked
  <2>3. CallState' /\ ReplyTrue' /\ OwnStatus' /\ PidsApart' /\ Table'
    BY <1>1, <1>2, <2>1 DEF IInv, CallState, ReplyTrue, OwnStatus, PidsApart, Table, Owns, valid_slot, Alive
  <2>4. Reaped'
    BY <1>1, <1>2, <2>1 DEF IInv, Reaped, Owns, None
  <2>5. QED
    BY <2>2, <2>3, <2>4 DEF IInv
<1>3. ASSUME Unborn # {}, NEW p \in FreePids,
             jobs' = [jobs EXCEPT ![Min(Unborn)] =
                        [kind |-> req, pid |-> p, st |-> IF req = "pipe" THEN "new" ELSE "run", out |-> 0]],
             rep' = [k |-> "forked", pid |-> p, job |-> Min(Unborn)]
      PROVE  IInv'
  <2> DEFINE j == Min(Unborn)
             r == [kind |-> req, pid |-> p, st |-> IF req = "pipe" THEN "new" ELSE "run", out |-> 0]
  <2>1. j \in Jobs /\ jobs[j].st = None
    <3>1. Unborn \in SUBSET Nat /\ Unborn # {}
      BY <1>3, UnixCommAssumption DEF Unborn, Jobs
    <3>2. j \in Unborn
      BY <3>1, MinMember
    <3>3. QED
      BY <3>2 DEF Unborn
  <2>2. p \in Pids /\ p \in Int /\ \A i \in Jobs : jobs[i].pid # p
    BY <1>3, UnixCommAssumption DEF FreePids
  <2>3. r \in JobRec /\ r.kind = req /\ r.kind # None /\ r.st \in {"new", "run"} /\ r.pid = p
    BY <1>1, <2>2 DEF JobRec, States, Forked, None
  <2>4. /\ jobs' = [jobs EXCEPT ![j] = r]
        /\ rep'.k = "forked" /\ rep'.pid = p /\ rep'.job = j
    BY <1>3
  <2> HIDE DEF j, r
  <2>5. /\ jobs' \in [Jobs -> JobRec] /\ jobs'[j] = r /\ \A i \in Jobs : i # j => jobs'[i] = jobs[i]
        /\ \A t \in Fds : UJ[t].type \in Streams => job[t] \in Jobs /\ job[t] # j
        /\ PidsApart' /\ Table' /\ OwnStatus'
    BY <1>1, <2>1, <2>2, <2>3, <2>4, NewJobKeeps
  <2>6. TypeOK' /\ Protocol' /\ DataTypes'
    BY <1>1, <2>4, <2>5 DEF IInv, TypeOK, Protocol, DataTypes, valid_slot, Forked, None
  <2>7. CallState'
    BY <1>1, <2>5 DEF IInv, CallState, valid_slot, Owns, Alive
  <2>8. ReplyTrue'
    BY <1>1, <2>1, <2>3, <2>4, <2>5 DEF ReplyTrue, Owns, Streams
  <2>9. Reaped'
    BY <1>1, <2>4, <2>5 DEF IInv, Reaped, Owns, Streams, None
  <2>10. QED
    BY <2>5, <2>6, <2>7, <2>8, <2>9 DEF IInv
<1>4. QED
  BY <1>2, <1>3 DEF SlaveFork

\* The slave reaps a job that has ended, and says which.
LEMMA SlaveWaitStep ==
  ASSUME IInv, SlaveWait
  PROVE  IInv'
<1>1. req = "W" /\ req' = None /\ pc = "wait" /\ rep.k = None /\ UNCHANGED <<UJ, open, job, pc, op>>
  BY DEF SlaveWait, IInv, TypeOK, Protocol, None, Forked
<1>2. ASSUME rep' = [k |-> "W", pid |-> 0, status |-> 0], UNCHANGED jobs PROVE IInv'
  <2>1. rep'.k = "W" /\ rep'.pid = 0
    BY <1>2
  <2>2. TypeOK' /\ Protocol' /\ DataTypes'
    BY <1>1, <1>2, <2>1 DEF IInv, TypeOK, Protocol, DataTypes, valid_slot, None, Forked
  <2>3. CallState' /\ ReplyTrue' /\ OwnStatus' /\ PidsApart' /\ Table'
    BY <1>1, <1>2, <2>1 DEF IInv, CallState, ReplyTrue, OwnStatus, PidsApart, Table, Owns, valid_slot, Alive
  <2>4. Reaped'
    BY <1>1, <1>2, <2>1 DEF IInv, Reaped, Owns, None
  <2>5. QED
    BY <2>2, <2>3, <2>4 DEF IInv
<1>3. ASSUME NEW j \in Jobs, jobs[j].st = "zombie", SetJob(j, "gone"),
             rep' = [k |-> "W", pid |-> jobs[j].pid, status |-> j]
      PROVE  IInv'
  <2>1. rep'.k = "W" /\ rep'.pid = jobs[j].pid /\ rep'.status = j
    BY <1>3
  <2>2. /\ jobs' \in [Jobs -> JobRec] /\ jobs'[j].kind = jobs[j].kind /\ jobs'[j].pid = jobs[j].pid
        /\ jobs'[j].st = "gone" /\ \A i \in Jobs : i # j => jobs'[i] = jobs[i]
    <3> DEFINE r == [jobs[j] EXCEPT !.st = "gone"]
    <3>1. jobs[j] \in JobRec /\ jobs \in [Jobs -> JobRec]
      BY DEF IInv, DataTypes
    <3>2. r \in JobRec /\ r.kind = jobs[j].kind /\ r.pid = jobs[j].pid /\ r.st = "gone"
      BY <3>1 DEF JobRec, States
    <3>3. jobs' = [jobs EXCEPT ![j] = r]
      BY <1>3, <3>1 DEF SetJob
    <3> HIDE DEF r
    <3>4. QED
      BY <3>2, <3>3, OneJob DEF IInv
  <2>3. \A t \in Fds : UJ[t].type \in Streams => job[t] \in Jobs
    BY DEF IInv, Table
  <2>4. \A t \in Fds : Owns(t) => UJ[t].type \in Streams
    BY DEF Owns, Streams
  <2>5. jobs[j].kind \in Forked /\ jobs[j].pid \in Pids
    BY <1>3 DEF IInv, PidsApart
  <2>6. TypeOK' /\ Protocol' /\ DataTypes'
    BY <1>1, <2>1, <2>2 DEF IInv, TypeOK, Protocol, DataTypes, valid_slot, None
  <2>7. PidsApart'
    BY <2>2, <1>3 DEF IInv, PidsApart, None
  <2>8. CallState'
    BY <1>1, <1>3, <2>2, <2>3 DEF IInv, CallState, valid_slot, Owns, Alive
  <2>9. ReplyTrue'
    BY <2>1, <2>2, <2>5 DEF ReplyTrue
  <2>10. Table'
    BY <1>1, <1>3, <2>2, <2>3, <2>4 DEF IInv, Table, Owns, None
  <2>11. OwnStatus'
    BY <1>1, <1>3, <2>2, <2>3, <2>4 DEF IInv, OwnStatus, Owns
  <2>12. Reaped'
    BY <1>1, <2>1, <2>2, <2>3, <2>4 DEF IInv, Reaped, Owns, Table, None
  <2>13. QED
    BY <2>6, <2>7, <2>8, <2>9, <2>10, <2>11, <2>12 DEF IInv
<1>4. QED
  BY <1>2, <1>3 DEF SlaveWait

-----------------------------------------------------------------------------
(* The steps of the emulator.                                              *)

\* One slot changes.
LEMMA OneSlot ==
  ASSUME TypeOK, NEW fd \in Fds, NEW r \in SlotRec, UJ' = [UJ EXCEPT ![fd] = r]
  PROVE  UJ' \in [Fds -> SlotRec] /\ UJ'[fd] = r /\ \A s \in Fds : s # fd => UJ'[s] = UJ[s]
BY DEF TypeOK, SlotRec

LEMMA OneJobOf ==
  ASSUME TypeOK, NEW fd \in Fds, NEW j \in 0 .. MaxJobs, job' = [job EXCEPT ![fd] = j]
  PROVE  job' \in [Fds -> 0 .. MaxJobs] /\ job'[fd] = j /\ \A s \in Fds : s # fd => job'[s] = job[s]
BY DEF TypeOK

\* A descriptor that is free has no slot in use: not even the one that a kill
\* has closed, since the emulator does nothing else while it kills.
LEMMA FreshFd ==
  ASSUME IInv, FreeFds # {}, op.cmd # 3
  PROVE  Min(FreeFds) \in Fds /\ Min(FreeFds) \notin open /\ UJ[Min(FreeFds)].type = "UNUSED"
<1>1. FreeFds \in SUBSET Nat
  <2>1. \A s \in FreeFds : s \in 0 .. 127
    BY UnixCommAssumption DEF FreeFds
  <2>2. QED
    BY <2>1
<1>2. Min(FreeFds) \in FreeFds
  BY <1>1, MinMember
<1>3. QED
  BY <1>2 DEF FreeFds, IInv, TypeOK, valid_slot

\* The facts about types that the steps need.
LEMMA SlotsTyped ==
  ASSUME IInv
  PROVE  /\ UJ \in [Fds -> SlotRec] /\ open \subseteq Fds /\ job \in [Fds -> 0 .. MaxJobs]
         /\ \A s \in Fds : UJ[s].type \in Streams => job[s] \in Jobs
         /\ \A s \in Fds : Owns(s) => UJ[s].type \in Streams
BY DEF IInv, TypeOK, Table, Owns, Streams, SlotRec

\* A slot that comes to be free, while no reply tells of a job.
LEMMA SlotFreed ==
  ASSUME IInv, NEW fd \in Fds, rep.k # "W",
         UJ' = [UJ EXCEPT ![fd] = Unused(fd)], job' = [job EXCEPT ![fd] = 0], UNCHANGED jobs
  PROVE  /\ UJ' \in [Fds -> SlotRec] /\ job' \in [Fds -> 0 .. MaxJobs]
         /\ UJ'[fd].type = "UNUSED" /\ \A s \in Fds : s # fd => UJ'[s] = UJ[s] /\ job'[s] = job[s]
         /\ PidsApart' /\ Table' /\ OwnStatus' /\ Reaped'
<1> DEFINE r == Unused(fd)
<1>1. r \in SlotRec /\ r.type = "UNUSED" /\ r.PID = 0
  BY SlotsTyped DEF Unused, SlotRec, Types
<1>2. UJ' = [UJ EXCEPT ![fd] = r]
  OBVIOUS
<1> HIDE DEF r
<1>3. UJ' \in [Fds -> SlotRec] /\ UJ'[fd] = r /\ \A s \in Fds : s # fd => UJ'[s] = UJ[s]
  BY <1>1, <1>2, OneSlot DEF IInv
<1>4. job' \in [Fds -> 0 .. MaxJobs] /\ job'[fd] = 0 /\ \A s \in Fds : s # fd => job'[s] = job[s]
  <2>1. 0 \in 0 .. MaxJobs
    BY UnixCommAssumption
  <2>2. QED
    BY <2>1, OneJobOf DEF IInv
<1>5. Table'
  BY <1>1, <1>3, <1>4, UnixCommAssumption DEF IInv, Table, Owns, Streams
<1>6. OwnStatus' /\ Reaped'
  BY <1>1, <1>3, <1>4 DEF IInv, OwnStatus, Reaped, Owns
<1>7. QED
  BY <1>1, <1>3, <1>4, <1>5, <1>6 DEF IInv, PidsApart, DataTypes

LEMMA OpTyped ==
  ASSUME NEW cmd \in Int, NEW slot \in Int, NEW dest \in Int, NEW errno \in {"0", "EAGAIN", "EINTR", "EIO", "EPIPE"}
  PROVE  /\ Op(cmd, slot, dest, errno) \in OpRec
         /\ Op(cmd, slot, dest, errno).cmd = cmd /\ Op(cmd, slot, dest, errno).slot = slot
         /\ Op(cmd, slot, dest, errno).dest = dest /\ Op(cmd, slot, dest, errno).errno = errno
         /\ Op(cmd, slot, dest, errno).tries = 0
BY DEF Op, OpRec

LEMMA NoOpTyped ==
  NoOp \in OpRec /\ NoOp.cmd = 8 /\ NoOp.slot = 0
<1>1. 8 \in Int /\ 0 \in Int /\ "0" \in {"0", "EAGAIN", "EINTR", "EIO", "EPIPE"}
  OBVIOUS
<1>2. QED
  BY <1>1, OpTyped DEF NoOp

LEMMA FdInt ==
  ASSUME NEW s \in Fds
  PROVE  s \in Int /\ s \in Nat
<1>1. s \in 0 .. 127
  BY UnixCommAssumption
<1>2. QED
  BY <1>1

\* A call that changes neither the table nor the jobs.
LEMMA TableKept ==
  ASSUME IInv, UNCHANGED <<UJ, job, jobs>>
  PROVE  PidsApart' /\ Table' /\ OwnStatus'
BY DEF IInv, PidsApart, Table, OwnStatus, Owns

LEMMA ForkStep ==
  ASSUME IInv, NEW kind \in Forked, Fork(kind)
  PROVE  IInv'
<1> DEFINE fd == Min(FreeFds)
           cmd == IF kind = "pipe" THEN 0 ELSE 11
<1>1. pc = "idle" /\ op = NoOp /\ req = None /\ rep.k = None
  BY DEF Fork, IInv, CallState, Protocol
<1>2. fd \in Fds /\ fd \notin open /\ UJ[fd].type = "UNUSED"
  BY <1>1, NoOpTyped, FreshFd DEF Fork
<1>3. cmd \in {0, 11}
  OBVIOUS
<1>4. op' = Op(cmd, fd, 0, "0") /\ open' = open \cup {fd} /\ req' = kind /\ pc' = "fork" /\ UNCHANGED <<UJ, job, jobs, rep>>
  BY DEF Fork
<1> HIDE DEF fd, cmd
<1>5. op' \in OpRec /\ op'.cmd \in {0, 11} /\ op'.slot = fd
  BY <1>2, <1>3, <1>4, FdInt, OpTyped
<1>6. TypeOK'
  BY <1>1, <1>2, <1>4, <1>5, NoOpTyped DEF IInv, TypeOK, valid_slot, Forked
<1>7. PidsApart' /\ Table' /\ OwnStatus'
  BY <1>4, TableKept
<1>8. DataTypes' /\ Protocol'
  BY <1>1, <1>4, <1>5 DEF IInv, DataTypes, Protocol
<1>9. CallState'
  BY <1>2, <1>4, <1>5 DEF CallState, valid_slot
<1>10. ReplyTrue' /\ Reaped'
  BY <1>1, <1>4 DEF IInv, ReplyTrue, Reaped, Owns, None
<1>11. QED
  BY <1>6, <1>7, <1>8, <1>9, <1>10 DEF IInv

LEMMA ForkFailsStep ==
  ASSUME IInv, ForkFails
  PROVE  IInv'
<1>1. pc = "fork" /\ rep.k = "failed" /\ req = None /\ op.slot \in Fds /\ ~valid_slot(op.slot) /\ op.cmd # 3
  BY DEF ForkFails, IInv, Protocol, CallState, None
<1>2. /\ open' = open \ {op.slot} /\ rep'.k = None /\ pc' = "idle" /\ op' = NoOp /\ UNCHANGED <<UJ, job, jobs, req>>
  BY DEF ForkFails, Idle
<1>3. PidsApart' /\ Table' /\ OwnStatus'
  BY <1>2, TableKept
<1>4. TypeOK'
  BY <1>1, <1>2 DEF IInv, TypeOK, valid_slot
<1>5. DataTypes' /\ Protocol' /\ CallState'
  BY <1>1, <1>2, NoOpTyped DEF IInv, DataTypes, Protocol, CallState
<1>6. ReplyTrue' /\ Reaped'
  BY <1>1, <1>2 DEF IInv, ReplyTrue, Reaped, Owns, None
<1>7. QED
  BY <1>3, <1>4, <1>5, <1>6 DEF IInv

\* The slot of the job that was forked: fd for a shell, the descriptor that
\* accept() gives for a pipe.
LEMMA JobSlot ==
  ASSUME IInv, rep.k = "forked", NEW fd \in Fds, UJ[fd].type = "UNUSED", NEW type \in {"SHELL", "PROCESS"},
         UJ' = [UJ EXCEPT ![fd] = NewSlot(type, rep.pid, @)], job' = [job EXCEPT ![fd] = rep.job],
         UNCHANGED jobs, rep'.k = None
  PROVE  /\ UJ' \in [Fds -> SlotRec] /\ job' \in [Fds -> 0 .. MaxJobs]
         /\ UJ'[fd].type = type /\ \A s \in Fds : s # fd => UJ'[s] = UJ[s] /\ job'[s] = job[s]
         /\ PidsApart' /\ Table' /\ OwnStatus' /\ Reaped' /\ ReplyTrue'
<1> DEFINE r == [type |-> type, PID |-> rep.pid, status |-> -1]
<1>1. /\ rep.job \in Jobs /\ jobs[rep.job].kind \in Forked /\ jobs[rep.job].pid = rep.pid
      /\ jobs[rep.job].st # "gone" /\ jobs[rep.job].st # None /\ rep.pid \in Pids
      /\ \A s \in Fds : Owns(s) => job[s] # rep.job
  BY DEF IInv, ReplyTrue, PidsApart
<1>2. r \in SlotRec /\ r.type = type /\ r.PID = rep.pid /\ r.status = -1
  BY <1>1 DEF SlotRec, Types
<1>3. UJ' = [UJ EXCEPT ![fd] = r]
  BY SlotsTyped DEF NewSlot
<1> HIDE DEF r
<1>4. UJ' \in [Fds -> SlotRec] /\ UJ'[fd] = r /\ \A s \in Fds : s # fd => UJ'[s] = UJ[s]
  BY <1>2, <1>3, OneSlot DEF IInv
<1>5. job' \in [Fds -> 0 .. MaxJobs] /\ job'[fd] = rep.job /\ \A s \in Fds : s # fd => job'[s] = job[s]
  <2>1. rep.job \in 0 .. MaxJobs
    BY <1>1, UnixCommAssumption DEF Jobs
  <2>2. QED
    BY <2>1, OneJobOf DEF IInv
<1>6. Table'
  BY <1>1, <1>2, <1>4, <1>5 DEF IInv, Table, Owns, Streams
<1>7. OwnStatus' /\ Reaped'
  BY <1>1, <1>2, <1>4, <1>5 DEF IInv, OwnStatus, Reaped, Owns
<1>8. PidsApart' /\ ReplyTrue'
  BY DEF IInv, PidsApart, ReplyTrue, None
<1>9. QED
  BY <1>2, <1>4, <1>5, <1>6, <1>7, <1>8

LEMMA ForkShellStep ==
  ASSUME IInv, ForkShell
  PROVE  IInv'
<1>1. /\ pc = "fork" /\ rep.k = "forked" /\ req = None /\ op.slot \in Fds /\ op.slot \in open
      /\ UJ[op.slot].type = "UNUSED" /\ op.cmd = 11
  BY DEF ForkShell, IInv, Protocol, CallState, None, valid_slot
<1>2. /\ UJ' = [UJ EXCEPT ![op.slot] = NewSlot("SHELL", rep.pid, @)] /\ job' = [job EXCEPT ![op.slot] = rep.job]
      /\ rep'.k = None /\ pc' = "idle" /\ op' = NoOp /\ UNCHANGED <<open, jobs, req>>
  BY DEF ForkShell, Idle
<1>3. /\ UJ' \in [Fds -> SlotRec] /\ job' \in [Fds -> 0 .. MaxJobs]
      /\ UJ'[op.slot].type = "SHELL" /\ \A s \in Fds : s # op.slot => UJ'[s] = UJ[s] /\ job'[s] = job[s]
      /\ PidsApart' /\ Table' /\ OwnStatus' /\ Reaped' /\ ReplyTrue'
  BY <1>1, <1>2, JobSlot
<1>4. TypeOK'
  BY <1>1, <1>2, <1>3 DEF IInv, TypeOK, valid_slot, SlotRec
<1>5. DataTypes' /\ Protocol' /\ CallState'
  BY <1>1, <1>2, NoOpTyped DEF IInv, DataTypes, Protocol, CallState
<1>6. QED
  BY <1>3, <1>4, <1>5 DEF IInv

LEMMA ForkPipeStep ==
  ASSUME IInv, ForkPipe
  PROVE  IInv'
<1>1. pc = "fork" /\ rep.k = "forked" /\ req = None /\ op.cmd = 0 /\ pc' = "accept" /\ UNCHANGED <<UJ, open, job, jobs, req, rep, op>>
  BY DEF ForkPipe, IInv, Protocol, None
<1>2. PidsApart' /\ Table' /\ OwnStatus'
  BY <1>1, TableKept
<1>3. TypeOK' /\ DataTypes' /\ Protocol' /\ CallState' /\ ReplyTrue' /\ Reaped'
  BY <1>1 DEF IInv, TypeOK, DataTypes, Protocol, CallState, ReplyTrue, Reaped, Owns, valid_slot, Alive
<1>4. QED
  BY <1>2, <1>3 DEF IInv

LEMMA AcceptJobStep ==
  ASSUME IInv, AcceptJob
  PROVE  IInv'
<1>1. /\ pc = "accept" /\ rep.k = "forked" /\ req = None /\ op.slot \in Fds /\ op.slot \in open
      /\ UJ[op.slot].type = "UNUSED" /\ op.cmd \in {0, 11} /\ op.cmd # 3
  BY DEF AcceptJob, IInv, Protocol, CallState, None, valid_slot
<1>2. rep'.k = None /\ pc' = "idle" /\ op' = NoOp /\ UNCHANGED <<jobs, req>>
  BY DEF AcceptJob, Idle
<1>3. DataTypes' /\ Protocol' /\ CallState'
  BY <1>1, <1>2, NoOpTyped DEF IInv, DataTypes, Protocol, CallState
<1>4. CASE FreeFds # {}
  <2> DEFINE fd == Min(FreeFds)
  <2>1. fd \in Fds /\ fd \notin open /\ UJ[fd].type = "UNUSED"
    BY <1>1, <1>4, FreshFd
  <2>2. /\ UJ' = [UJ EXCEPT ![fd] = NewSlot("PROCESS", rep.pid, @)] /\ job' = [job EXCEPT ![fd] = rep.job]
        /\ open' = (open \ {op.slot}) \cup {fd}
    BY <1>4 DEF AcceptJob
  <2> HIDE DEF fd
  <2>3. /\ UJ' \in [Fds -> SlotRec] /\ job' \in [Fds -> 0 .. MaxJobs]
        /\ UJ'[fd].type = "PROCESS" /\ \A s \in Fds : s # fd => UJ'[s] = UJ[s] /\ job'[s] = job[s]
        /\ PidsApart' /\ Table' /\ OwnStatus' /\ Reaped' /\ ReplyTrue'
    BY <1>1, <1>2, <2>1, <2>2, JobSlot
  <2>4. TypeOK'
    BY <1>1, <1>2, <2>1, <2>2, <2>3 DEF IInv, TypeOK, valid_slot, SlotRec
  <2>5. QED
    BY <1>3, <2>3, <2>4 DEF IInv
<1>5. CASE FreeFds = {}
  <2> open' = open \ {op.slot} /\ UNCHANGED <<UJ, job>>
    BY <1>5 DEF AcceptJob
  <2>1. PidsApart' /\ Table' /\ OwnStatus'
    BY <1>2, <1>5, TableKept
  <2>2. TypeOK'
    BY <1>1, <1>2, <1>5 DEF IInv, TypeOK, valid_slot
  <2>3. ReplyTrue' /\ Reaped'
    BY <1>1, <1>2, <1>5 DEF IInv, ReplyTrue, Reaped, Owns, None
  <2>4. QED
    BY <1>3, <2>1, <2>2, <2>3 DEF IInv
<1>6. QED
  BY <1>4, <1>5

\* The calls that send 'W' and change nothing else.
LEMMA WaitSent ==
  ASSUME IInv, pc \in {"idle", "after", "kill"}, SendWait, op' \in OpRec, Advance({}),
         UNCHANGED <<UJ, job, rep>>, open' \subseteq Fds,
         \A s \in Fds : valid_slot(s) => s \in open' \/ (op'.cmd = 3 /\ op'.slot = s),
         op'.cmd # 5 => op'.slot \in Fds,
         op'.cmd = 3 => Owns(op'.slot),
         op'.cmd = 9 => /\ UJ[op'.slot].type \in Streams
                        /\ op'.errno \notin {"EINTR", "0", "EAGAIN"} => ~Alive(job[op'.slot])
  PROVE  IInv'
<1>1. pc' = "wait" /\ req' = "W" /\ rep.k = None /\ rep'.k = None
  BY DEF SendWait, IInv, Protocol
<1>2. PidsApart' /\ Table' /\ OwnStatus'
  BY AdvanceKeeps
<1>3. TypeOK' /\ Protocol' /\ DataTypes'
  BY <1>1 DEF IInv, TypeOK, Protocol, DataTypes, Advance, valid_slot
<1>4. CallState'
  <2>1. op'.cmd = 9 => op'.slot \in Fds /\ job[op'.slot] \in Jobs
    BY SlotsTyped
  <2>2. QED
    BY <1>1, <2>1 DEF CallState, Owns, Alive, Advance
<1>5. ReplyTrue'
  BY <1>1 DEF ReplyTrue, None
<1>6. Reaped'
  BY <1>1, SlotsTyped DEF IInv, Reaped, Table, Owns, Advance, None
<1>7. QED
  BY <1>2, <1>3, <1>4, <1>5, <1>6 DEF IInv

LEMMA JobsKept ==
  ASSUME IInv, UNCHANGED jobs
  PROVE  Advance({})
BY DEF IInv, DataTypes, PidsApart, Advance

\* What the emulator knows between calls.
LEMMA IdleState ==
  ASSUME IInv, pc = "idle"
  PROVE  /\ op = NoOp /\ op.cmd = 8 /\ req = None /\ rep.k = None
         /\ \A s \in Fds : valid_slot(s) => s \in open
<1>1. op = NoOp /\ req = None /\ rep.k = None
  BY DEF IInv, CallState, Protocol
<1>2. QED
  BY <1>1, NoOpTyped DEF IInv, TypeOK

LEMMA ReadStep ==
  ASSUME IInv, NEW cmd \in {2, 9}, NEW s \in Fds, Read(cmd, s)
  PROVE  IInv'
<1>1. pc = "idle" /\ UJ[s].type \in Streams /\ UNCHANGED <<UJ, open, job, rep>>
  BY DEF Read
<1>2. job[s] \in Jobs /\ jobs[job[s]].st # None /\ jobs[job[s]] \in JobRec /\ jobs \in [Jobs -> JobRec]
  BY <1>1 DEF IInv, Table, DataTypes
<1>3. CASE jobs[job[s]].out > 0
  <2> DEFINE j == job[s]
             out == IF cmd = 2 THEN jobs[j].out - 1 ELSE 0
  <2>1. jobs' = [jobs EXCEPT ![j].out = out] /\ UNCHANGED <<req, pc, op>>
    BY <1>3, <1>2 DEF Read, JobRec
  <2>2. out \in Int /\ j \in Jobs /\ jobs[j].st \in States
    BY <1>2 DEF JobRec
  <2> HIDE DEF j, out
  <2>3. jobs' = [jobs EXCEPT ![j] = [@ EXCEPT !.st = jobs[j].st, !.out = out]]
    BY <1>2, <2>1, <2>2 DEF JobRec
  <2>4. DataTypes /\ \A i \in Jobs : jobs[i].st = "zombie" => jobs[i].kind \in Forked
    BY DEF IInv, PidsApart
  <2>5. Advance({})
    BY <1>2, <2>2, <2>3, <2>4, OneJobAdvances DEF j
  <2>6. QED
    BY <1>1, <2>1, <2>5, AdvanceKeepsCall
<1>4. CASE ~(jobs[job[s]].out > 0)
  <2>1. /\ op' = IF Alive(job[s]) THEN Op(cmd, s, -1, "EAGAIN")
                 ELSE IF jobs[job[s]].kind = "pty" THEN Op(cmd, s, -1, "EIO") ELSE Op(cmd, s, 0, "0")
        /\ SendWait /\ UNCHANGED jobs
    BY <1>4 DEF Read
  <2>2. cmd \in Int /\ s \in Int /\ -1 \in Int /\ 0 \in Int
    BY FdInt
  <2>3. op' \in OpRec /\ op'.cmd = cmd /\ op'.slot = s /\ (op'.errno = "EAGAIN" \/ ~Alive(job[s]))
    <3>1. PICK dest \in Int, errno \in {"0", "EAGAIN", "EINTR", "EIO", "EPIPE"} :
            op' = Op(cmd, s, dest, errno) /\ (errno = "EAGAIN" \/ ~Alive(job[s]))
      BY <2>1, <2>2
    <3>2. QED
      BY <2>2, <3>1, OpTyped
  <2>4. Advance({})
    BY <2>1, JobsKept
  <2>5. open' \subseteq Fds /\ \A t \in Fds : valid_slot(t) => t \in open'
    BY <1>1, IdleState DEF IInv, TypeOK
  <2>6. cmd # 3 /\ cmd # 5
    OBVIOUS
  <2>7. QED
    BY <1>1, <2>1, <2>3, <2>4, <2>5, <2>6, WaitSent
<1>5. QED
  BY <1>3, <1>4

LEMMA WriteStep ==
  ASSUME IInv, NEW s \in Fds, Write(s) \/ JobStatus(s)
  PROVE  IInv'
<1>1. pc = "idle" /\ SendWait /\ UNCHANGED <<UJ, open, job, jobs, rep>>
  BY DEF Write, JobStatus
<1>2. s \in Int /\ -1 \in Int /\ 0 \in Int /\ 15 \in Int /\ 7 \in Int
  BY FdInt
<1>3. op' \in OpRec /\ op'.cmd \in {7, 15} /\ op'.slot = s
  <2>1. CASE Write(s)
    <3> DEFINE e == IF Alive(job[s]) THEN "EAGAIN" ELSE "EPIPE"
    <3>1. op' = Op(15, s, -1, e) /\ e \in {"0", "EAGAIN", "EINTR", "EIO", "EPIPE"}
      BY <2>1 DEF Write
    <3> HIDE DEF e
    <3>2. Op(15, s, -1, e) \in OpRec /\ Op(15, s, -1, e).cmd = 15 /\ Op(15, s, -1, e).slot = s
      BY <1>2, <3>1, OpTyped
    <3>3. QED
      BY <3>1, <3>2
  <2>2. CASE JobStatus(s)
    BY <1>2, <2>2, OpTyped DEF JobStatus
  <2>3. QED
    BY <2>1, <2>2
<1>4. Advance({})
  BY <1>1, JobsKept
<1>5. open' \subseteq Fds /\ \A t \in Fds : valid_slot(t) => t \in open'
  BY <1>1, IdleState DEF IInv, TypeOK
<1>6. QED
  BY <1>1, <1>3, <1>4, <1>5, WaitSent

LEMMA ReturnStep ==
  ASSUME IInv, Return
  PROVE  IInv'
<1>1. /\ pc = "after" /\ op.cmd # 3 /\ pc' = "idle" /\ op' = NoOp /\ UNCHANGED <<UJ, open, job, jobs, req, rep>>
      /\ req = None /\ rep.k = None
  BY DEF Return, Idle, IInv, Protocol
<1>2. PidsApart' /\ Table' /\ OwnStatus'
  BY <1>1, TableKept
<1>3. TypeOK' /\ DataTypes' /\ Protocol' /\ CallState' /\ ReplyTrue' /\ Reaped'
  BY <1>1, NoOpTyped DEF IInv, TypeOK, DataTypes, Protocol, CallState, ReplyTrue, Reaped, Owns, valid_slot
<1>4. QED
  BY <1>2, <1>3 DEF IInv

LEMMA KillStep ==
  ASSUME IInv, NEW s \in Fds, Kill(s)
  PROVE  IInv'
<1>1. pc = "idle" /\ valid_slot(s) /\ open' = open \ {s} /\ UNCHANGED <<jobs, rep>>
  BY DEF Kill
<1>2. CASE Owns(s)
  <2>1. op' = Op(3, s, 0, "0") /\ SendWait /\ UNCHANGED <<UJ, job>>
    BY <1>2 DEF Kill, Owns
  <2>2. op' \in OpRec /\ op'.cmd = 3 /\ op'.slot = s
    BY <2>1, FdInt, OpTyped
  <2>3. Advance({})
    BY <1>1, JobsKept
  <2>4. open' \subseteq Fds /\ \A t \in Fds : valid_slot(t) => t \in open' \/ t = s
    BY <1>1, IdleState DEF IInv, TypeOK
  <2>5. QED
    BY <1>1, <1>2, <2>1, <2>2, <2>3, <2>4, WaitSent
<1>3. CASE ~Owns(s)
  <2>1. UJ' = [UJ EXCEPT ![s] = Unused(s)] /\ job' = [job EXCEPT ![s] = 0] /\ UNCHANGED <<req, pc, op>>
    BY <1>3 DEF Kill, Owns
  <2>2. op = NoOp /\ op.cmd = 8 /\ req = None /\ rep.k = None /\ rep.k # "W"
    BY <1>1, IdleState DEF None
  <2>3. /\ UJ' \in [Fds -> SlotRec] /\ job' \in [Fds -> 0 .. MaxJobs]
        /\ UJ'[s].type = "UNUSED" /\ \A t \in Fds : t # s => UJ'[t] = UJ[t] /\ job'[t] = job[t]
        /\ PidsApart' /\ Table' /\ OwnStatus' /\ Reaped'
    BY <1>1, <2>1, <2>2, SlotFreed
  <2>4. TypeOK'
    BY <1>1, <2>1, <2>2, <2>3 DEF IInv, TypeOK, valid_slot, SlotRec
  <2>5. DataTypes' /\ Protocol' /\ CallState' /\ ReplyTrue'
    BY <1>1, <2>1, <2>2 DEF IInv, DataTypes, Protocol, CallState, ReplyTrue, None
  <2>6. QED
    BY <2>3, <2>4, <2>5 DEF IInv
<1>4. QED
  BY <1>2, <1>3

LEMMA KillWaitsStep ==
  ASSUME IInv, KillWaits
  PROVE  IInv'
<1>1. pc = "after" /\ op.cmd = 3 /\ UJ[op.slot].status = -1 /\ UNCHANGED <<UJ, open, job, jobs, rep>>
  BY DEF KillWaits, Ended
<1>2. op.slot \in Fds /\ Owns(op.slot) /\ req = None /\ rep.k = None
  BY <1>1 DEF IInv, CallState, Protocol
<1>3. op' \in OpRec /\ op'.cmd = 3 /\ op'.slot = op.slot
  BY <1>1 DEF KillWaits, IInv, DataTypes, OpRec
<1>4. CASE SendWait
  <2>1. Advance({})
    BY <1>1, JobsKept
  <2>2. open' \subseteq Fds /\ \A t \in Fds : valid_slot(t) => t \in open' \/ t = op.slot
    BY <1>1 DEF IInv, TypeOK
  <2>3. QED
    BY <1>1, <1>2, <1>3, <1>4, <2>1, <2>2, WaitSent
<1>5. CASE pc' = "kill" /\ UNCHANGED req
  <2>1. PidsApart' /\ Table' /\ OwnStatus'
    BY <1>1, TableKept
  <2>2. TypeOK' /\ DataTypes' /\ Protocol' /\ ReplyTrue' /\ Reaped'
    BY <1>1, <1>2, <1>3, <1>5 DEF IInv, TypeOK, DataTypes, Protocol, ReplyTrue, Reaped, Owns, valid_slot
  <2>3. CallState'
    BY <1>1, <1>2, <1>3, <1>5 DEF CallState, Owns
  <2>4. QED
    BY <2>1, <2>2, <2>3 DEF IInv
<1>6. QED
  BY <1>4, <1>5 DEF KillWaits

LEMMA KillSendsStep ==
  ASSUME IInv, KillSends
  PROVE  IInv'
<1>1. pc = "kill" /\ SendWait /\ UNCHANGED <<UJ, open, job, rep, op>>
  BY DEF KillSends
<1>2. op.cmd = 3 /\ op.slot \in Fds /\ Owns(op.slot) /\ op \in OpRec
  BY <1>1 DEF IInv, CallState, DataTypes
<1>3. Advance({})
  <2>1. CASE UNCHANGED jobs
    BY <2>1, JobsKept
  <2>2. CASE jobs' # jobs
    <3> DEFINE victim == {j \in Jobs : jobs[j].pid = UJ[op.slot].PID /\ jobs[j].st \in {"new", "run"}}
    <3>1. jobs' = [j \in Jobs |-> IF j \in victim THEN [jobs[j] EXCEPT !.st = "zombie"] ELSE jobs[j]]
      BY <2>2 DEF KillSends
    <3>2. UJ[op.slot].PID \in Pids
      BY <1>2, SlotsTyped DEF IInv, Table, PidsApart
    <3>3. ASSUME NEW i \in Jobs
          PROVE  /\ jobs'[i] \in JobRec /\ jobs'[i].kind = jobs[i].kind /\ jobs'[i].pid = jobs[i].pid
                 /\ jobs'[i].st = jobs[i].st \/ (/\ jobs'[i].st = "zombie" /\ jobs[i].st \in {"new", "run"}
                                                 /\ jobs[i].kind \in Forked)
      <4>1. jobs[i] \in JobRec
        BY DEF IInv, DataTypes
      <4>2. CASE i \in victim
        <5>1. jobs[i].kind \in Forked
          BY <3>2, <4>2 DEF IInv, PidsApart
        <5>2. QED
          BY <3>1, <4>1, <4>2, <5>1 DEF JobRec, States
      <4>3. CASE i \notin victim
        BY <3>1, <4>1, <4>3
      <4>4. QED
        BY <4>2, <4>3
    <3>4. jobs' \in [Jobs -> JobRec]
      BY <3>1, <3>3
    <3> HIDE DEF victim
    <3>5. QED
      BY <3>3, <3>4 DEF Advance, None, IInv, PidsApart
  <2>3. QED
    BY <2>1, <2>2
<1>4. open' \subseteq Fds /\ \A t \in Fds : valid_slot(t) => t \in open' \/ t = op.slot
  BY <1>1 DEF IInv, TypeOK
<1>5. QED
  BY <1>1, <1>2, <1>3, <1>4, WaitSent

LEMMA KillReturnsStep ==
  ASSUME IInv, KillReturns
  PROVE  IInv'
<1>1. /\ pc = "after" /\ op.cmd = 3 /\ pc' = "idle" /\ op' = NoOp /\ UNCHANGED <<open, jobs, req, rep>>
      /\ UJ' = [UJ EXCEPT ![op.slot] = Unused(op.slot)] /\ job' = [job EXCEPT ![op.slot] = 0]
  BY DEF KillReturns, Idle
<1>2. op.slot \in Fds /\ req = None /\ rep.k = None /\ rep.k # "W"
  BY <1>1 DEF IInv, CallState, Protocol, None
<1>3. /\ UJ' \in [Fds -> SlotRec] /\ job' \in [Fds -> 0 .. MaxJobs]
      /\ UJ'[op.slot].type = "UNUSED" /\ \A t \in Fds : t # op.slot => UJ'[t] = UJ[t] /\ job'[t] = job[t]
      /\ PidsApart' /\ Table' /\ OwnStatus' /\ Reaped'
  BY <1>1, <1>2, SlotFreed
<1>4. TypeOK'
  BY <1>1, <1>2, <1>3 DEF IInv, TypeOK, valid_slot, SlotRec
<1>5. DataTypes' /\ Protocol' /\ CallState' /\ ReplyTrue'
  BY <1>1, <1>2, NoOpTyped DEF IInv, DataTypes, Protocol, CallState, ReplyTrue, None
<1>6. QED
  BY <1>3, <1>4, <1>5 DEF IInv

LEMMA KillAllStep ==
  ASSUME IInv, KillAll
  PROVE  IInv'
<1> DEFINE pids == {UJ[s].PID : s \in {t \in Fds : UJ[t].type \in {"SHELL", "PROCESS"}}}
<1>1. /\ pc = "idle" /\ op = NoOp /\ op.cmd = 8 /\ req = None /\ rep.k = None
      /\ \A s \in Fds : valid_slot(s) => s \in open
  BY IdleState DEF KillAll
<1>2. /\ pc' = "wait" /\ req' = "W" /\ op' = Op(5, 0, 0, "0") /\ UNCHANGED rep
      /\ open' = open \ {s \in Fds : valid_slot(s)} /\ job' = [s \in Fds |-> 0]
  BY DEF KillAll, SendWait
<1>3. op' \in OpRec /\ op'.cmd = 5
  BY <1>2, OpTyped
<1>4. ASSUME NEW s \in Fds
      PROVE  UJ'[s] \in SlotRec /\ UJ'[s].type = "UNUSED" /\ UJ'[s].PID \notin Pids
  <2>1. UJ[s] \in SlotRec
    BY SlotsTyped
  <2>2. 0 \notin Pids
    BY UnixCommAssumption
  <2>3. CASE Owns(s)
    <3>1. UJ'[s] = Unused(s)
      BY <2>3 DEF KillAll, Owns
    <3>2. QED
      BY <2>1, <2>2, <3>1 DEF Unused, SlotRec, Types
  <2>4. CASE ~Owns(s)
    <3>1. UJ'[s] = [UJ[s] EXCEPT !.type = "UNUSED"] /\ UJ[s].PID \notin Pids
      BY <2>4 DEF KillAll, Owns, IInv, Table
    <3>2. QED
      BY <2>1, <3>1 DEF SlotRec, Types
  <2>5. QED
    BY <2>3, <2>4
<1>5. UJ' \in [Fds -> SlotRec]
  BY <1>4 DEF KillAll
<1>6. ASSUME NEW i \in Jobs
      PROVE  /\ jobs'[i] \in JobRec /\ jobs'[i].kind = jobs[i].kind /\ jobs'[i].pid = jobs[i].pid
             /\ jobs'[i].st = jobs[i].st \/ (/\ jobs'[i].st = "zombie" /\ jobs[i].st \in {"new", "run"}
                                             /\ jobs[i].kind \in Forked)
  <2>1. jobs[i] \in JobRec
    BY DEF IInv, DataTypes
  <2>2. jobs'[i] = IF jobs[i].pid \in pids /\ jobs[i].st \in {"new", "run"}
                   THEN [jobs[i] EXCEPT !.st = "zombie"] ELSE jobs[i]
    BY DEF KillAll
  <2>3. CASE jobs[i].pid \in pids /\ jobs[i].st \in {"new", "run"}
    <3>1. pids \subseteq Pids
      BY SlotsTyped DEF IInv, Table, PidsApart, Owns
    <3>2. jobs[i].kind \in Forked
      BY <2>3, <3>1 DEF IInv, PidsApart
    <3>3. QED
      BY <2>1, <2>2, <2>3, <3>2 DEF JobRec, States
  <2>4. CASE ~(jobs[i].pid \in pids /\ jobs[i].st \in {"new", "run"})
    BY <2>1, <2>2, <2>4
  <2>5. QED
    BY <2>3, <2>4
<1>7. jobs' \in [Jobs -> JobRec]
  BY <1>6 DEF KillAll
<1>8. PidsApart'
  BY <1>6 DEF IInv, PidsApart, None
<1>9. Table' /\ OwnStatus' /\ Reaped'
  BY <1>4 DEF Table, OwnStatus, Reaped, Owns, Streams
<1>10. TypeOK'
  <2>1. job' \in [Fds -> 0 .. MaxJobs]
    <3>1. 0 \in 0 .. MaxJobs
      BY UnixCommAssumption
    <3>2. QED
      BY <1>2, <3>1
  <2>2. QED
    BY <1>2, <1>4, <1>5, <2>1 DEF IInv, TypeOK, valid_slot, SlotRec
<1>11. DataTypes' /\ Protocol' /\ CallState' /\ ReplyTrue'
  BY <1>1, <1>2, <1>3, <1>7 DEF DataTypes, Protocol, CallState, ReplyTrue, None
<1>12. QED
  BY <1>8, <1>9, <1>10, <1>11 DEF IInv

LEMMA CloseStep ==
  ASSUME IInv, NEW s \in Fds, Close(s)
  PROVE  IInv'
<1>1. /\ pc = "idle" /\ op = NoOp /\ op.cmd = 8 /\ req = None /\ rep.k = None
      /\ \A t \in Fds : valid_slot(t) => t \in open
  BY IdleState DEF Close
<1>2. op' = Op(6, s, 0, "0") /\ req' = "C" /\ pc' = "close" /\ UNCHANGED <<UJ, open, job, jobs, rep>>
  BY DEF Close
<1>3. op' \in OpRec /\ op'.cmd = 6 /\ op'.slot = s
  BY <1>2, FdInt, OpTyped
<1>4. PidsApart' /\ Table' /\ OwnStatus'
  BY <1>2, TableKept
<1>5. TypeOK' /\ DataTypes' /\ Protocol' /\ CallState'
  BY <1>1, <1>2, <1>3 DEF IInv, TypeOK, DataTypes, Protocol, CallState, valid_slot, Forked
<1>6. ReplyTrue' /\ Reaped'
  BY <1>1, <1>2 DEF IInv, ReplyTrue, Reaped, Owns, None
<1>7. QED
  BY <1>4, <1>5, <1>6 DEF IInv

LEMMA CloseReturnsStep ==
  ASSUME IInv, CloseReturns
  PROVE  IInv'
<1>1. /\ pc = "close" /\ rep.k = "C" /\ req = None /\ rep.k # "W" /\ pc' = "idle" /\ op' = NoOp /\ rep'.k = None
      /\ open' = IF valid_slot(op.slot) THEN open \ {op.slot} ELSE open
      /\ UJ' = [UJ EXCEPT ![op.slot] = Unused(op.slot)] /\ job' = [job EXCEPT ![op.slot] = 0]
      /\ UNCHANGED <<jobs, req>>
  BY DEF CloseReturns, Idle, IInv, Protocol, None
<1>2. op.cmd # 3 /\ op.cmd # 5
  BY <1>1 DEF IInv, CallState
<1>3. op.slot \in Fds
  BY <1>1, <1>2 DEF IInv, CallState
<1>4. /\ UJ' \in [Fds -> SlotRec] /\ job' \in [Fds -> 0 .. MaxJobs]
      /\ UJ'[op.slot].type = "UNUSED" /\ \A t \in Fds : t # op.slot => UJ'[t] = UJ[t] /\ job'[t] = job[t]
      /\ PidsApart' /\ Table' /\ OwnStatus'
  BY <1>1, <1>3, SlotFreed
<1>5. TypeOK'
  BY <1>1, <1>2, <1>3, <1>4 DEF IInv, TypeOK, valid_slot, SlotRec
<1>6. DataTypes' /\ Protocol' /\ CallState' /\ ReplyTrue'
  BY <1>1, NoOpTyped DEF IInv, DataTypes, Protocol, CallState, ReplyTrue, None
<1>7. Reaped'
  BY <1>1, <1>4 DEF IInv, Reaped, Owns
<1>8. QED
  BY <1>4, <1>5, <1>6, <1>7 DEF IInv

LEMMA CreateSocketStep ==
  ASSUME IInv, CreateSocket
  PROVE  IInv'
<1> DEFINE fd == Min(FreeFds)
           r == [type |-> "SOCKET", PID |-> -1, status |-> -1]
<1>1. /\ pc = "idle" /\ op = NoOp /\ op.cmd = 8 /\ req = None /\ rep.k = None
      /\ \A t \in Fds : valid_slot(t) => t \in open
  BY IdleState DEF CreateSocket
<1>2. fd \in Fds /\ fd \notin open /\ UJ[fd].type = "UNUSED"
  BY <1>1, FreshFd DEF CreateSocket
<1>3. r \in SlotRec /\ r.type = "SOCKET" /\ r.PID = -1 /\ -1 \notin Pids
  BY UnixCommAssumption DEF SlotRec, Types
<1>4. UJ' = [UJ EXCEPT ![fd] = r] /\ open' = open \cup {fd} /\ UNCHANGED <<job, jobs, req, rep, pc, op>>
  BY <1>2, SlotsTyped DEF CreateSocket, NewSlot
<1> HIDE DEF fd, r
<1>5. UJ' \in [Fds -> SlotRec] /\ UJ'[fd] = r /\ \A s \in Fds : s # fd => UJ'[s] = UJ[s]
  BY <1>2, <1>3, <1>4, OneSlot DEF IInv
<1>6. TypeOK'
  BY <1>1, <1>2, <1>4, <1>5 DEF IInv, TypeOK, valid_slot, SlotRec
<1>7. PidsApart' /\ DataTypes' /\ Protocol' /\ CallState' /\ ReplyTrue'
  BY <1>1, <1>4 DEF IInv, PidsApart, DataTypes, Protocol, CallState, ReplyTrue, None
<1>8. Table' /\ OwnStatus' /\ Reaped'
  BY <1>3, <1>4, <1>5 DEF IInv, Table, OwnStatus, Reaped, Owns, Streams
<1>9. QED
  BY <1>6, <1>7, <1>8 DEF IInv

LEMMA AcceptClientStep ==
  ASSUME IInv, NEW s \in Fds, AcceptClient(s)
  PROVE  IInv'
<1> DEFINE fd == Min(FreeFds)
           r == [type |-> "SOSTREAM", PID |-> -1, status |-> -1]
<1>1. /\ pc = "idle" /\ op = NoOp /\ op.cmd = 8 /\ req = None /\ rep.k = None
      /\ \A t \in Fds : valid_slot(t) => t \in open
  BY IdleState DEF AcceptClient
<1>2. PICK j \in Jobs : /\ jobs[j].kind = "client" /\ jobs[j].st = "new" /\ SetJob(j, "run")
                        /\ UJ' = [UJ EXCEPT ![fd] = NewSlot("SOSTREAM", -1, @)]
                        /\ job' = [job EXCEPT ![fd] = j] /\ open' = open \cup {fd}
  BY DEF AcceptClient
<1>3. fd \in Fds /\ fd \notin open /\ UJ[fd].type = "UNUSED" /\ UNCHANGED <<req, rep, pc, op>>
  BY <1>1, FreshFd DEF AcceptClient
<1>4. r \in SlotRec /\ r.type = "SOSTREAM" /\ r.PID = -1 /\ r.status = -1 /\ -1 \notin Pids
  BY UnixCommAssumption DEF SlotRec, Types
<1>5. UJ' = [UJ EXCEPT ![fd] = r]
  BY <1>2, <1>3, SlotsTyped DEF NewSlot
<1> HIDE DEF fd, r
<1>6. UJ' \in [Fds -> SlotRec] /\ UJ'[fd] = r /\ \A t \in Fds : t # fd => UJ'[t] = UJ[t]
  BY <1>3, <1>4, <1>5, OneSlot DEF IInv
<1>7. job' \in [Fds -> 0 .. MaxJobs] /\ job'[fd] = j /\ \A t \in Fds : t # fd => job'[t] = job[t]
  <2>1. j \in 0 .. MaxJobs
    BY UnixCommAssumption DEF Jobs
  <2>2. QED
    BY <1>2, <1>3, <2>1, OneJobOf DEF IInv
<1>8. /\ jobs' \in [Jobs -> JobRec] /\ jobs'[j].kind = "client" /\ jobs'[j].pid = jobs[j].pid
      /\ jobs'[j].st = "run" /\ \A i \in Jobs : i # j => jobs'[i] = jobs[i]
  <2> DEFINE q == [jobs[j] EXCEPT !.st = "run"]
  <2>1. jobs[j] \in JobRec /\ jobs \in [Jobs -> JobRec]
    BY DEF IInv, DataTypes
  <2>2. q \in JobRec /\ q.kind = "client" /\ q.pid = jobs[j].pid /\ q.st = "run"
    BY <1>2, <2>1 DEF JobRec, States
  <2>3. jobs' = [jobs EXCEPT ![j] = q]
    BY <1>2, <2>1 DEF SetJob
  <2> HIDE DEF q
  <2>4. QED
    BY <2>2, <2>3, OneJob DEF IInv
<1>9. TypeOK'
  BY <1>1, <1>2, <1>3, <1>6, <1>7 DEF IInv, TypeOK, valid_slot, SlotRec
<1>10. PidsApart'
  BY <1>2, <1>8 DEF IInv, PidsApart, None, Forked
<1>11. DataTypes' /\ Protocol' /\ CallState' /\ ReplyTrue'
  BY <1>1, <1>3, <1>8 DEF IInv, DataTypes, Protocol, CallState, ReplyTrue, None
<1>12. \A t \in Fds : Owns(t)' => /\ Owns(t) /\ UJ'[t] = UJ[t] /\ job'[t] = job[t] /\ job[t] \in Jobs
                                  /\ job[t] # j /\ jobs'[job[t]] = jobs[job[t]]
  <2>1. \A t \in Fds : Owns(t) => job[t] \in Jobs /\ job[t] # j
    BY <1>2, SlotsTyped DEF IInv, Table, Forked
  <2>2. QED
    BY <1>4, <1>6, <1>7, <1>8, <2>1 DEF Owns
<1>13. Table'
  <2>1. \A t \in Fds : UJ'[t].type \in Streams => job'[t] \in Jobs /\ jobs'[job'[t]].st # None
    BY <1>2, <1>6, <1>7, <1>8 DEF IInv, Table, None
  <2>2. \A t \in Fds : UJ'[t].PID \in Pids => Owns(t)'
    BY <1>4, <1>6 DEF IInv, Table, Owns
  <2>3. \A t \in Fds : UJ'[t].type = "SOSTREAM" => UJ'[t].status = -1
    BY <1>4, <1>6 DEF IInv, Table
  <2>4. QED
    BY <1>12, <2>1, <2>2, <2>3 DEF IInv, Table, Owns
<1>14. OwnStatus' /\ Reaped'
  BY <1>3, <1>12 DEF IInv, OwnStatus, Reaped, Owns
<1>15. QED
  BY <1>9, <1>10, <1>11, <1>13, <1>14 DEF IInv

LEMMA IOSignalStep ==
  ASSUME IInv, IOSignal
  PROVE  IInv'
<1>1. /\ pc = "wait" /\ op' = [op EXCEPT !.errno = "EINTR"] /\ UNCHANGED <<UJ, open, job, jobs, req, rep, pc>>
  BY DEF IOSignal
<1>2. op' \in OpRec /\ op'.cmd = op.cmd /\ op'.slot = op.slot /\ op'.errno = "EINTR"
  BY <1>1 DEF IInv, DataTypes, OpRec
<1>3. PidsApart' /\ Table' /\ OwnStatus'
  BY <1>1, TableKept
<1>4. TypeOK' /\ DataTypes' /\ Protocol' /\ CallState' /\ ReplyTrue' /\ Reaped'
  BY <1>1, <1>2 DEF IInv, TypeOK, DataTypes, Protocol, CallState, ReplyTrue, Reaped, Owns, valid_slot
<1>5. QED
  BY <1>3, <1>4 DEF IInv

\* The slot that find_process_slot gives for the job that was reaped is the
\* slot of that job.
LEMMA WaitNotesStep ==
  ASSUME IInv, WaitNotes
  PROVE  IInv'
<1>1. /\ pc = "wait" /\ rep.k = "W" /\ rep.pid # 0 /\ rep'.k = None /\ pc' = "wait" /\ req' = "W"
      /\ UNCHANGED <<open, job, jobs, op>>
  BY DEF WaitNotes, SendWait
<1>2. /\ rep.status \in Jobs /\ jobs[rep.status].kind \in Forked /\ jobs[rep.status].pid = rep.pid
      /\ jobs[rep.status].st = "gone" /\ rep.pid \in Pids
  BY <1>1 DEF IInv, ReplyTrue, PidsApart
<1>3. ASSUME NEW s \in Fds, UJ[s].PID = rep.pid
      PROVE  Owns(s) /\ job[s] = rep.status /\ s \in find_process_slot(rep.pid)
  <2>1. Owns(s) /\ job[s] = rep.status
    BY <1>2, <1>3, SlotsTyped DEF IInv, Table, PidsApart
  <2>2. ASSUME NEW t \in Fds, UJ[t].PID = rep.pid PROVE t = s
    <3>1. Owns(t) /\ job[t] = rep.status
      BY <1>2, <2>2, SlotsTyped DEF IInv, Table, PidsApart
    <3>2. QED
      BY <2>1, <3>1 DEF IInv, Table
  <2>3. \A t \in Fds : t < s => UJ[t].PID # rep.pid
    BY <2>2, FdInt
  <2>4. QED
    BY <1>3, <2>1, <2>3 DEF find_process_slot
<1>4. ASSUME NEW s \in Fds
      PROVE  /\ UJ'[s] \in SlotRec /\ UJ'[s].type = UJ[s].type /\ UJ'[s].PID = UJ[s].PID
             /\ UJ[s].PID = rep.pid => UJ'[s].status = rep.status
             /\ UJ[s].PID # rep.pid => UJ'[s].status = UJ[s].status
  <2>1. UJ[s] \in SlotRec
    BY SlotsTyped
  <2>2. CASE UJ[s].PID = rep.pid
    <3>1. UJ'[s] = [UJ[s] EXCEPT !.status = rep.status]
      BY <1>3, <2>2 DEF WaitNotes
    <3>2. QED
      BY <1>2, <2>1, <2>2, <3>1 DEF SlotRec
  <2>3. CASE UJ[s].PID # rep.pid
    <3>1. UJ'[s] = UJ[s]
      BY <2>3 DEF WaitNotes, find_process_slot
    <3>2. QED
      BY <2>1, <2>3, <3>1
  <2>4. QED
    BY <2>2, <2>3
<1>5. UJ' \in [Fds -> SlotRec]
  BY <1>4 DEF WaitNotes
<1>6. TypeOK'
  BY <1>1, <1>4, <1>5 DEF IInv, TypeOK, valid_slot, SlotRec
<1>7. PidsApart' /\ DataTypes' /\ Protocol' /\ ReplyTrue'
  BY <1>1 DEF IInv, PidsApart, DataTypes, Protocol, ReplyTrue, None
<1>8. CallState'
  BY <1>1, <1>4 DEF IInv, CallState, Owns, Alive
<1>9. Table'
  <2>1. \A s \in Fds : UJ[s].type = "SOSTREAM" => UJ[s].PID # rep.pid
    BY <1>2 DEF IInv, Table, Owns
  <2>2. QED
    BY <1>1, <1>4, <2>1 DEF IInv, Table, Owns
<1>10. OwnStatus'
  BY <1>1, <1>2, <1>3, <1>4 DEF IInv, OwnStatus, Owns
<1>11. Reaped'
  <2>1. -1 # rep.status
    BY <1>2, UnixCommAssumption DEF Jobs
  <2>2. QED
    BY <1>1, <1>4, <2>1 DEF IInv, Reaped, Owns
<1>12. QED
  BY <1>6, <1>7, <1>8, <1>9, <1>10, <1>11 DEF IInv

LEMMA WaitDoneStep ==
  ASSUME IInv, WaitDone
  PROVE  IInv'
<1>1. /\ pc = "wait" /\ rep.k = "W" /\ rep.pid = 0 /\ req = None /\ rep'.k = None /\ pc' = "after"
      /\ UNCHANGED <<UJ, open, job, jobs, req, op>>
  BY DEF WaitDone, IInv, Protocol, None
<1>2. PidsApart' /\ Table' /\ OwnStatus'
  BY <1>1, TableKept
<1>3. TypeOK' /\ DataTypes' /\ Protocol' /\ CallState' /\ ReplyTrue'
  BY <1>1 DEF IInv, TypeOK, DataTypes, Protocol, CallState, ReplyTrue, Owns, valid_slot, Alive, None
<1>4. Reaped'
  <2>1. 0 \notin Pids
    BY UnixCommAssumption
  <2>2. \A s \in Fds : Owns(s) => UJ[s].PID \in Pids
    BY SlotsTyped DEF IInv, Table, PidsApart
  <2>3. QED
    BY <1>1, <2>1, <2>2 DEF IInv, Reaped, Owns
<1>5. QED
  BY <1>2, <1>3, <1>4 DEF IInv

LEMMA SlaveCloseStep ==
  ASSUME IInv, SlaveClose
  PROVE  IInv'
<1>1. /\ req = "C" /\ pc = "close" /\ rep.k = None /\ req' = None /\ rep'.k = "C"
      /\ UNCHANGED <<UJ, open, job, jobs, pc, op>>
  BY DEF SlaveClose, IInv, Protocol, None, Forked
<1>2. PidsApart' /\ Table' /\ OwnStatus'
  BY <1>1, TableKept
<1>3. TypeOK' /\ DataTypes' /\ Protocol' /\ CallState' /\ ReplyTrue' /\ Reaped'
  BY <1>1 DEF IInv, TypeOK, DataTypes, Protocol, CallState, ReplyTrue, Reaped, Owns, valid_slot, Alive, None
<1>4. QED
  BY <1>2, <1>3 DEF IInv

-----------------------------------------------------------------------------
(* The theorems.                                                           *)

LEMMA Initially ==
  ASSUME Init
  PROVE  IInv
<1>1. UJ \in [Fds -> SlotRec] /\ \A s \in Fds : UJ[s].type = "UNUSED" /\ UJ[s].PID \notin Pids
  BY UnixCommAssumption DEF Init, SlotRec, Types
<1>2. jobs \in [Jobs -> JobRec] /\ \A j \in Jobs : jobs[j].kind = None /\ jobs[j].st = None /\ jobs[j].pid \notin Pids
  BY UnixCommAssumption DEF Init, JobRec, States
<1>3. rep.k = None /\ req = None /\ pc = "idle" /\ op = NoOp /\ open = {}
  BY DEF Init
<1>4. job \in [Fds -> 0 .. MaxJobs]
  <2>1. 0 \in 0 .. MaxJobs
    BY UnixCommAssumption
  <2>2. QED
    BY <2>1 DEF Init
<1>5. TypeOK /\ DataTypes /\ Protocol
  BY <1>1, <1>2, <1>3, <1>4, NoOpTyped DEF TypeOK, DataTypes, Protocol, SlotRec, valid_slot
<1>6. PidsApart
  BY <1>2 DEF PidsApart, Forked, None
<1>7. CallState /\ ReplyTrue
  BY <1>3, NoOpTyped DEF CallState, ReplyTrue, None
<1>8. Table /\ OwnStatus /\ Reaped
  BY <1>1 DEF Table, OwnStatus, Reaped, Owns, Streams
<1>9. QED
  BY <1>5, <1>6, <1>7, <1>8 DEF IInv

\* Every step keeps the invariant.
LEMMA Inductive ==
  ASSUME IInv, ~Reuse, [Next]_vars
  PROVE  IInv'
<1>1. CASE UNCHANGED vars
  BY <1>1, JobsKept, AdvanceKeepsCall DEF vars
<1>2. CASE Call
  <2>1. ASSUME NEW kind \in {"pipe", "pty"}, Fork(kind) PROVE IInv'
    BY <2>1, ForkStep DEF Forked
  <2>2. ASSUME NEW s \in Fds, NEW cmd \in {2, 9}, Read(cmd, s) PROVE IInv'
    BY <2>2, ReadStep
  <2>3. ASSUME NEW s \in Fds, Write(s) \/ JobStatus(s) PROVE IInv'
    BY <2>3, WriteStep
  <2>4. ASSUME NEW s \in Fds, Kill(s) PROVE IInv'
    BY <2>4, KillStep
  <2>5. ASSUME NEW s \in Fds, Close(s) PROVE IInv'
    BY <2>5, CloseStep
  <2>6. ASSUME NEW s \in Fds, AcceptClient(s) PROVE IInv'
    BY <2>6, AcceptClientStep
  <2>7. QED
    BY <1>2, <2>1, <2>2, <2>3, <2>4, <2>5, <2>6, KillAllStep, CreateSocketStep DEF Call
<1>3. CASE Continue
  BY <1>3, ForkFailsStep, ForkShellStep, ForkPipeStep, AcceptJobStep, WaitNotesStep, WaitDoneStep, ReturnStep,
     KillWaitsStep, KillSendsStep, KillReturnsStep, CloseReturnsStep DEF Continue
<1>4. CASE IOSignal \/ Slave
  BY <1>4, IOSignalStep, SlaveForkStep, SlaveWaitStep, SlaveCloseStep DEF Slave
<1>5. CASE \E j \in Jobs : JobConnects(j) \/ JobWrites(j) \/ JobEnds(j)
  BY <1>5, JobSteps
<1>6. CASE \E s \in Fds : ClientConnects(s)
  BY <1>6, ClientStep
<1>7. QED
  BY <1>1, <1>2, <1>3, <1>4, <1>5, <1>6 DEF Next

LEMMA Invariant ==
  ASSUME ~Reuse
  PROVE  Spec => []IInv
<1>1. Init => IInv
  BY Initially
<1>2. IInv /\ [Next]_vars => IInv'
  BY Inductive
<1>3. QED
  BY <1>1, <1>2, PTL DEF Spec

\* The status of a slot is its own job's, whatever the emulator, the slave and
\* the jobs do: find_process_slot never writes the status of a job into the slot
\* of another.
THEOREM StatusesAreOwn ==
  ASSUME ~Reuse
  PROVE  Spec => []StatusIsOwn
<1>1. IInv => StatusIsOwn
  BY DEF IInv, OwnStatus, StatusIsOwn, Owns
<1>2. QED
  BY <1>1, Invariant, PTL

\* SIGKILL goes to the job of the slot that is killed, and never to a process id
\* that the slave has already reaped.
THEOREM KillReachesOwnJob ==
  ASSUME ~Reuse
  PROVE  Spec => []KillsOnlyOwn
<1>1. IInv => KillsOnlyOwn
  <2> SUFFICES ASSUME IInv, pc = "kill"
               PROVE  jobs[job[op.slot]].pid = UJ[op.slot].PID /\ jobs[job[op.slot]].st # "gone"
    BY DEF KillsOnlyOwn
  <2>1. op.slot \in Fds /\ Owns(op.slot) /\ UJ[op.slot].status = -1 /\ rep.k # "W"
    BY DEF IInv, CallState, Protocol, None
  <2>2. QED
    BY <2>1 DEF IInv, Table, Reaped
<1>2. QED
  BY <1>1, Invariant, PTL

\* Reading a buffer never takes a job that is still running for one that has
\* ended, whatever SIGIO does to errno while the emulator waits for the slave.
THEOREM EOFMeansEnded ==
  ASSUME ~Reuse
  PROVE  Spec => []BufferEOFMeansEnded
<1>1. IInv => BufferEOFMeansEnded
  <2> SUFFICES ASSUME IInv, pc = "after", op.cmd = 9, ReadBufferResult = "NIL"
               PROVE  ~Alive(job[op.slot])
    BY DEF BufferEOFMeansEnded
  <2>1. op.slot \in Fds /\ UJ[op.slot].type \in Streams
    BY DEF IInv, CallState
  <2>2. CASE UJ[op.slot].status = -1
    <3>1. op.errno \notin {"EINTR", "0", "EAGAIN"}
      BY <2>2 DEF ReadBufferResult
    <3>2. QED
      BY <3>1 DEF IInv, CallState
  <2>3. CASE UJ[op.slot].status # -1
    <3>1. Owns(op.slot)
      BY <2>1, <2>3 DEF IInv, Table, Owns, Streams
    <3>2. QED
      BY <2>1, <2>3, <3>1 DEF IInv, OwnStatus, Alive
  <2>4. QED
    BY <2>2, <2>3
<1>2. QED
  BY <1>1, Invariant, PTL
=============================================================================
