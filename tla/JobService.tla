----------------------------- MODULE JobService -----------------------------
(***************************************************************************)
(* What a queue of jobs promises (JobQueue.java): jobs begin in the order  *)
(* in which they were queued, one at a time, and each of them unless one   *)
(* before it does not return.                                              *)
(***************************************************************************)
EXTENDS Sequences

CONSTANTS Job, None

VARIABLES
  pending,  \* jobs that have not begun
  serving,  \* the job that runs, or None
  dead      \* a job ended with an exception: nothing is served any more

vars == <<pending, serving, dead>>

Init == pending = <<>> /\ serving = None /\ dead = FALSE

Submit(j) == pending' = Append(pending, j) /\ UNCHANGED <<serving, dead>>

Serve ==
  /\ serving = None /\ ~dead /\ pending # <<>>
  /\ serving' = Head(pending)
  /\ pending' = Tail(pending)
  /\ UNCHANGED dead

Complete == serving # None /\ serving' = None /\ UNCHANGED <<pending, dead>>

Fail == serving # None /\ serving' = None /\ dead' = TRUE /\ UNCHANGED pending

Next == (\E j \in Job : Submit(j)) \/ Serve \/ Complete \/ Fail

Spec == Init /\ [][Next]_vars

FairSpec == Spec /\ WF_vars(Serve)
=============================================================================
