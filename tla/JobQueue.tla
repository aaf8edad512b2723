------------------------------ MODULE JobQueue ------------------------------
(***************************************************************************)
(* concurrent.jobs.JobQueue of the driver and of the client library: a     *)
(* list of jobs and a worker thread that exists only while there are jobs. *)
(*                                                                         *)
(* A step is what a thread does while it holds m_semaphore, or a job.  Any *)
(* thread may queue jobs, the worker too, from within a job.               *)
(***************************************************************************)
EXTENDS Naturals, Sequences

CONSTANTS
  Job,     \* the jobs
  Thread,  \* the threads that may become worker
  None     \* null

ASSUME JobAssumption == None \notin Job /\ None \notin Thread

VARIABLES
  jobs,    \* the list from m_first to m_last
  worker,  \* m_thread
  pc,      \* where a thread is: it does not run, looks for a job, runs one
  node     \* the job a thread runs

jobVars == <<jobs, worker, pc, node>>

JobTypeOK ==
  /\ jobs \in Seq(Job)
  /\ worker \in Thread \cup {None}
  /\ pc \in [Thread -> {"off", "take", "run"}]
  /\ node \in [Thread -> Job \cup {None}]

JobInit ==
  /\ jobs = <<>>
  /\ worker = None
  /\ pc = [t \in Thread |-> "off"]
  /\ node = [t \in Thread |-> None]

SlipStartWorker ==
  \E t \in Thread :
    pc[t] = "off" /\ worker' = t /\ pc' = [pc EXCEPT ![t] = "take"]

(* A worker is started if there is none. *)
StartWorker ==
  \/ worker # None /\ UNCHANGED <<worker, pc>>
  \/ /\ worker = None
     /\ \E t \in Thread :
          /\ pc[t] = "off"
          /\ worker' = t
          /\ pc' = [pc EXCEPT ![t] = "take"]

SlipEnqueue(j) ==
  /\ jobs' = Append(jobs, j)
  /\ IF jobs = <<>> THEN UNCHANGED <<worker, pc>> ELSE StartWorker
  /\ UNCHANGED node

Enqueue(j) ==
  /\ jobs' = Append(jobs, j)
  /\ StartWorker
  /\ UNCHANGED node

Take(t) ==
  /\ pc[t] = "take" /\ jobs # <<>>
  /\ jobs' = Tail(jobs)
  /\ node' = [node EXCEPT ![t] = Head(jobs)]
  /\ pc' = [pc EXCEPT ![t] = "run"]
  /\ UNCHANGED worker

(* No job is left: the worker ends, and says so before it lets go of the   *)
(* semaphore.                                                              *)
SlipEnd(t) ==
  /\ pc[t] = "take" /\ jobs = <<>>
  /\ pc' = [pc EXCEPT ![t] = "off"]
  /\ UNCHANGED <<jobs, worker, node>>

End(t) ==
  /\ pc[t] = "take" /\ jobs = <<>>
  /\ worker' = None
  /\ pc' = [pc EXCEPT ![t] = "off"]
  /\ UNCHANGED <<jobs, node>>

Return(t) ==
  /\ pc[t] = "run"
  /\ node' = [node EXCEPT ![t] = None]
  /\ pc' = [pc EXCEPT ![t] = "take"]
  /\ UNCHANGED <<jobs, worker>>

(* A job throws: the thread ends, and m_thread still names it. *)
Throw(t) ==
  /\ pc[t] = "run"
  /\ node' = [node EXCEPT ![t] = None]
  /\ pc' = [pc EXCEPT ![t] = "off"]
  /\ UNCHANGED <<jobs, worker>>

JobNext ==
  \/ \E j \in Job : Enqueue(j)
  \/ \E t \in Thread : Take(t) \/ End(t) \/ Return(t) \/ Throw(t)

JobSpec == JobInit /\ [][JobNext]_jobVars

-----------------------------------------------------------------------------
(* Two threads never run jobs at once: who runs is who m_thread names; and *)
(* no job is left in the list when the last worker ends.                   *)
OneWorker ==
  /\ \A t \in Thread : pc[t] # "off" => worker = t
  /\ \A t \in Thread : pc[t] = "run" <=> node[t] # None
  /\ jobs # <<>> => worker # None

Running == {t \in Thread : pc[t] = "run"}

Serving == IF Running = {} THEN None ELSE node[CHOOSE t \in Running : TRUE]

Dead == worker # None /\ pc[worker] = "off"

Service == INSTANCE JobService
             WITH pending <- jobs, serving <- Serving, dead <- Dead

(* Jobs begin in the order of enqueue, one at a time, each once            *)
(* (JobQueue.java).                                                        *)
ServesInOrder == Service!Spec

(* And each one does begin, unless one before it does not return: a job    *)
(* queued while the worker decides to end finds a worker.                  *)
ServesAll == Service!FairSpec
=============================================================================
