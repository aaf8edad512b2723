--------------------------- MODULE JobQueueProofs ---------------------------
(***************************************************************************)
(* Proofs about JobQueue, for any jobs, any threads and a list of any      *)
(* length: one worker at a time, none missing, and jobs begin in order.    *)
(***************************************************************************)
EXTENDS JobQueue, SequenceTheorems, TLAPS

JobInv == JobTypeOK /\ OneWorker

LEMMA JobInitially == JobInit => JobInv
BY JobAssumption DEF JobInit, JobInv, JobTypeOK, OneWorker

LEMMA TakePreserves == ASSUME JobInv, NEW t \in Thread, Take(t) PROVE JobInv'
<1>1. Head(jobs) \in Job /\ Tail(jobs) \in Seq(Job)
  BY DEF JobInv, JobTypeOK, Take
<1>2. JobTypeOK'
  BY <1>1 DEF JobInv, JobTypeOK, Take
<1>3. node'[t] # None /\ pc'[t] = "run"
  BY <1>1, JobAssumption DEF JobInv, JobTypeOK, Take
<1>4. OneWorker'
  BY <1>2, <1>3 DEF JobInv, JobTypeOK, OneWorker, Take
<1>5. QED
  BY <1>2, <1>4 DEF JobInv

LEMMA EnqueuePreserves == ASSUME JobInv, NEW j \in Job, Enqueue(j) PROVE JobInv'
<1>1. jobs' \in Seq(Job)
  BY DEF JobInv, JobTypeOK, Enqueue
<1>2. CASE worker # None /\ UNCHANGED <<worker, pc>>
  BY <1>1, <1>2 DEF JobInv, JobTypeOK, OneWorker, Enqueue
<1>3. ASSUME worker = None, NEW t \in Thread, pc[t] = "off", worker' = t,
             pc' = [pc EXCEPT ![t] = "take"]
      PROVE  JobInv'
  BY <1>1, <1>3, JobAssumption DEF JobInv, JobTypeOK, OneWorker, Enqueue
<1>4. QED
  BY <1>2, <1>3 DEF Enqueue, StartWorker

LEMMA EndPreserves ==
  ASSUME JobInv, NEW t \in Thread, End(t) \/ Return(t) \/ Throw(t)
  PROVE  JobInv'
<1>1. CASE End(t)
  BY <1>1 DEF JobInv, JobTypeOK, OneWorker, End
<1>2. CASE Return(t)
  BY <1>2 DEF JobInv, JobTypeOK, OneWorker, Return
<1>3. CASE Throw(t)
  BY <1>3 DEF JobInv, JobTypeOK, OneWorker, Throw
<1>4. QED
  BY <1>1, <1>2, <1>3

LEMMA JobStep == JobInv /\ [JobNext]_jobVars => JobInv'
<1> SUFFICES ASSUME JobInv, [JobNext]_jobVars PROVE JobInv'
  OBVIOUS
<1>1. CASE UNCHANGED jobVars
  BY <1>1 DEF jobVars, JobInv, JobTypeOK, OneWorker
<1>2. QED
  BY <1>1, EnqueuePreserves, TakePreserves, EndPreserves DEF JobNext

(* At most one thread runs jobs, the one that m_thread names, and while    *)
(* jobs wait there is one (JobQueue.enqueue and JobThread.run).            *)
THEOREM WorkersAreOne == JobSpec => []OneWorker
<1>1. JobInv => OneWorker
  BY DEF JobInv
<1>2. QED
  BY <1>1, JobInitially, JobStep, PTL DEF JobSpec

-----------------------------------------------------------------------------
(* The refinement: who serves is the thread that runs, if any.             *)

LEMMA ServingRunning ==
  ASSUME JobInv, NEW t \in Thread, pc[t] = "run"
  PROVE  Serving = node[t] /\ Serving # None /\ ~Dead
<1>1. worker = t /\ t # None
  BY JobAssumption DEF JobInv, OneWorker
<1>2. Running = {t}
  BY <1>1 DEF Running, JobInv, OneWorker
<1>3. Serving = node[t]
  BY <1>2 DEF Serving
<1>4. QED
  BY <1>1, <1>3 DEF Dead, JobInv, OneWorker

LEMMA ServingNobody ==
  ASSUME \A t \in Thread : pc[t] # "run"
  PROVE  Serving = None
BY DEF Serving, Running

LEMMA ServingIdle ==
  ASSUME JobInv, NEW t \in Thread, pc[t] = "take"
  PROVE  Serving = None /\ ~Dead
<1>1. worker = t /\ \A s \in Thread : pc[s] # "run"
  BY DEF JobInv, OneWorker
<1>2. QED
  BY <1>1, ServingNobody DEF Dead

LEMMA EnqueueServes ==
  ASSUME JobInv, JobInv', NEW j \in Job, Enqueue(j)
  PROVE  Service!Submit(j)
<1>1. jobs' = Append(jobs, j) /\ node' = node
  BY DEF Enqueue
<1>2. CASE worker # None /\ UNCHANGED <<worker, pc>>
  BY <1>1, <1>2 DEF Service!Submit, Serving, Running, Dead
<1>3. ASSUME worker = None, NEW t \in Thread, pc[t] = "off", worker' = t,
             pc' = [pc EXCEPT ![t] = "take"]
      PROVE  Service!Submit(j)
  <2>1. Serving = None
    <3>1. \A s \in Thread : pc[s] # "run"
      BY <1>3, JobAssumption DEF JobInv, OneWorker
    <3>2. QED
      BY <3>1, ServingNobody
  <2>2. pc'[t] = "take"
    BY <1>3 DEF JobInv, JobTypeOK
  <2>3. Serving' = None /\ ~Dead'
    <3>1. \A s \in Thread : pc'[s] # "run"
      BY <1>3, <2>2 DEF JobInv, OneWorker
    <3>2. Running' = {}
      BY <3>1 DEF Running
    <3>3. QED
      BY <3>2, <2>2, <1>3 DEF Serving, Dead
  <2>4. ~Dead
    BY <1>3 DEF Dead
  <2>5. QED
    BY <1>1, <2>1, <2>3, <2>4 DEF Service!Submit, Dead
<1>4. QED
  BY <1>2, <1>3 DEF Enqueue, StartWorker

LEMMA ServingNext ==
  ASSUME JobInv, JobInv', NEW t \in Thread, pc[t] # "off", pc'[t] \in {"take", "off"},
         \A s \in Thread \ {t} : pc'[s] = pc[s]
  PROVE  Serving' = None
<1>1. \A s \in Thread : pc'[s] # "run"
  BY DEF JobInv, OneWorker
<1>2. Running' = {}
  BY <1>1 DEF Running
<1>3. QED
  BY <1>2 DEF Serving

LEMMA TakeServes == ASSUME JobInv, JobInv', NEW t \in Thread, Take(t) PROVE Service!Serve
<1>1. /\ pc[t] = "take" /\ jobs # <<>> /\ jobs' = Tail(jobs) /\ worker' = worker
      /\ node'[t] = Head(jobs) /\ pc'[t] = "run"
  BY DEF Take, JobInv, JobTypeOK
<1>2. Serving = None /\ ~Dead
  BY <1>1, ServingIdle
<1>3. Running' = {t}
  BY <1>1 DEF Running, JobInv, OneWorker
<1>4. Serving' = Head(jobs)
  BY <1>1, <1>3 DEF Serving
<1>5. Dead' = Dead
  BY <1>1, <1>2 DEF Dead, JobInv, OneWorker
<1>6. QED
  BY <1>1, <1>2, <1>4, <1>5 DEF Service!Serve

LEMMA RestServes ==
  ASSUME JobInv, JobInv', NEW t \in Thread, End(t) \/ Return(t) \/ Throw(t)
  PROVE  Service!Complete \/ Service!Fail \/ UNCHANGED <<jobs, Serving, Dead>>
<1>1. CASE End(t)
  <2>1. /\ pc[t] = "take" /\ jobs' = jobs /\ worker' = None /\ pc'[t] = "off"
        /\ \A s \in Thread \ {t} : pc'[s] = pc[s]
    BY <1>1 DEF End, JobInv, JobTypeOK
  <2>2. Serving = None /\ ~Dead /\ Serving' = None /\ ~Dead'
    BY <2>1, ServingIdle, ServingNext DEF Dead
  <2>3. QED
    BY <2>1, <2>2 DEF Dead
<1>2. CASE Return(t)
  <2>1. /\ pc[t] = "run" /\ jobs' = jobs /\ worker' = worker /\ pc'[t] = "take"
        /\ \A s \in Thread \ {t} : pc'[s] = pc[s]
    BY <1>2 DEF Return, JobInv, JobTypeOK
  <2>2. Serving # None /\ ~Dead /\ Serving' = None
    BY <2>1, ServingRunning, ServingNext
  <2>3. worker = t
    BY <2>1 DEF JobInv, OneWorker
  <2>4. Dead' = Dead
    BY <2>1, <2>2, <2>3 DEF Dead
  <2>5. QED
    BY <2>1, <2>2, <2>4 DEF Service!Complete
<1>3. CASE Throw(t)
  <2>1. /\ pc[t] = "run" /\ jobs' = jobs /\ worker' = worker /\ pc'[t] = "off"
        /\ \A s \in Thread \ {t} : pc'[s] = pc[s]
    BY <1>3 DEF Throw, JobInv, JobTypeOK
  <2>2. Serving # None /\ Serving' = None
    BY <2>1, ServingRunning, ServingNext
  <2>3. worker = t /\ t # None
    BY <2>1, JobAssumption DEF JobInv, OneWorker
  <2>4. Dead' = TRUE
    BY <2>1, <2>3 DEF Dead
  <2>5. QED
    BY <2>1, <2>2, <2>4 DEF Service!Fail
<1>4. QED
  BY <1>1, <1>2, <1>3

LEMMA JobInitMaps == JobInit => Service!Init
<1> SUFFICES ASSUME JobInit PROVE Service!Init
  OBVIOUS
<1>1. \A t \in Thread : pc[t] # "run"
  BY DEF JobInit
<1>2. Serving = None
  BY <1>1, ServingNobody
<1>3. QED
  BY <1>2 DEF JobInit, Service!Init, Dead

(* The queue implements JobService: every job begins once, in the order of *)
(* enqueue, and none beside another.                                       *)
THEOREM QueueServesInOrder == JobSpec => ServesInOrder
<1>1. JobInv /\ JobInv' /\ [JobNext]_jobVars => [Service!Next]_<<jobs, Serving, Dead>>
  <2> SUFFICES ASSUME JobInv, JobInv', [JobNext]_jobVars
               PROVE  Service!Next \/ UNCHANGED <<jobs, Serving, Dead>>
    OBVIOUS
  <2>1. CASE UNCHANGED jobVars
    BY <2>1 DEF jobVars, Serving, Running, Dead
  <2>2. ASSUME NEW j \in Job, Enqueue(j) PROVE Service!Next
    BY <2>2, EnqueueServes DEF Service!Next
  <2>3. ASSUME NEW t \in Thread, Take(t) PROVE Service!Next
    BY <2>3, TakeServes DEF Service!Next
  <2>4. ASSUME NEW t \in Thread, End(t) \/ Return(t) \/ Throw(t)
        PROVE  Service!Next \/ UNCHANGED <<jobs, Serving, Dead>>
    BY <2>4, RestServes DEF Service!Next
  <2>5. QED
    BY <2>1, <2>2, <2>3, <2>4 DEF JobNext
<1>2. QED
  BY <1>1, JobInitially, JobStep, JobInitMaps, PTL DEF JobSpec, ServesInOrder, Service!Spec,
     Service!vars
-----------------------------------------------------------------------------
(* A job that throws.                                                      *)

LEMMA DeadStays ==
  ASSUME JobInv, [JobNext]_jobVars, Dead
  PROVE  Dead' /\ UNCHANGED <<worker, pc, node>>
<1>1. \A t \in Thread : pc[t] = "off"
  BY DEF Dead, JobInv, OneWorker
<1>2. ASSUME NEW t \in Thread, Take(t) \/ End(t) \/ Return(t) \/ Throw(t) PROVE FALSE
  BY <1>1, <1>2 DEF Take, End, Return, Throw
<1>3. ASSUME NEW j \in Job, Enqueue(j) PROVE UNCHANGED <<worker, pc, node>>
  BY <1>3 DEF Enqueue, StartWorker, Dead
<1>4. UNCHANGED <<worker, pc, node>>
  BY <1>2, <1>3 DEF JobNext, jobVars
<1>5. QED
  BY <1>4 DEF Dead

(* A thread that ends with an exception leaves m_thread set, so enqueue    *)
(* never starts another: from then on no job begins, however many are      *)
(* queued (JobQueue.enqueue, JobThread.run).                               *)
THEOREM DeadWorkersAreNotReplaced ==
  JobSpec => [][Dead => Dead' /\ UNCHANGED <<worker, pc, node>>]_jobVars
<1>1. JobInv /\ [JobNext]_jobVars => [Dead => Dead' /\ UNCHANGED <<worker, pc, node>>]_jobVars
  BY DeadStays
<1>2. QED
  BY <1>1, JobInitially, JobStep, PTL DEF JobSpec
=============================================================================
