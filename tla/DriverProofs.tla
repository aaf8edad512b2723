---------------------------- MODULE DriverProofs ----------------------------
(***************************************************************************)
(* Proofs about Driver, for any number of clients, requests and            *)
(* notifications: its queue serves in order, its state and its Flow agree, *)
(* the jobs of a client never touch the robot of another, and what stops   *)
(* the driver for good.                                                    *)
(***************************************************************************)
EXTENDS Driver, JobQueueProofs

CloseOf(c) == [kind |-> "close", client |-> c]

Queued(j) == \E k \in 1..Len(jobs) : jobs[k] = j

Runs(j) == \E t \in Thread : pc[t] = "run" /\ node[t] = j

(* A thread is at a place of the job it runs, and not in between jobs. *)
AtInJob ==
  \A t \in Thread :
    /\ at[t] # "begin" => pc[t] = "run"
    /\ at[t] \in {"handshake", "status"} => node[t].kind = "open"
    /\ at[t] \in {"halt", "set", "go"} => node[t].kind = "move"
    /\ at[t] = "ask" => node[t].kind \in {"halt", "read"}
    /\ at[t] = "notify" => node[t].kind = "notice"
    /\ at[t] = "stuck" => node[t].kind # "close"

(* Clients come one after another. *)
OneClient ==
  /\ \A c \in Client : c < conn => link[c] = "closed"
  /\ \A c \in Client : c > conn => link[c] = "none"
  /\ acceptor \in {"start", "listen"} => conn = 0 \/ link[conn] = "closed"
  /\ acceptor = "publish" => conn # 0 /\ link[conn] = "none"

(* Jobs are of clients that came; one that closes is of a client that left.*)
JobsOfClients ==
  /\ rmFlow <= conn
  /\ \A j \in Job : (Queued(j) \/ Runs(j)) /\ j.client # 0 =>
       /\ j.client <= conn
       /\ link[j.client] # "none"
       /\ j.kind = "close" => link[j.client] = "closed"

(* The order the queue keeps: by clients, and what closes comes last.      *)
Before(a, b) ==
  \/ b.client = 0
  \/ a.client < b.client
  \/ a.client = b.client /\ a.kind # "close"

QueueOrdered ==
  /\ \A i, k \in 1..Len(jobs) : i < k => Before(jobs[i], jobs[k])
  /\ \A t \in Thread : pc[t] = "run" => \A k \in 1..Len(jobs) : Before(node[t], jobs[k])

(* Nothing is left of a client that left, or it is still to be closed.     *)
CloseAhead ==
  \A c \in Client : link[c] = "closed" =>
    \/ Queued(CloseOf(c)) \/ Runs(CloseOf(c))
    \/ /\ rmFlow # c
       /\ \A j \in Job : j.client = c => ~Queued(j) /\ ~Runs(j)

(* No job is older than the robot's Flow. *)
FlowFirst ==
  rmFlow # NoFlow =>
    \A j \in Job : Queued(j) \/ Runs(j) => j.client = 0 \/ j.client >= rmFlow

OrderInv == OneClient /\ JobsOfClients /\ QueueOrdered /\ CloseAhead /\ FlowFirst

-----------------------------------------------------------------------------
(* Every step of the driver is a step of its queue, or leaves it alone.    *)

LEMMA RequestIsJob ==
  ASSUME NEW c \in Client, NEW kind \in Kind \cup {"close"}
  PROVE  [kind |-> kind, client |-> c] \in Job /\ Notice \in Job
BY DriverAssumption DEF JobType, Notice

LEMMA WorkIsJobStep ==
  ASSUME NEW t \in Thread, Work(t)
  PROVE  JobNext \/ UNCHANGED jobVars
<1>1. CASE Take(t) \/ End(t)
  BY <1>1 DEF JobNext
<1>2. CASE OpenRefused(t) \/ OpenFails(t) \/ CheckStatus(t) \/ Close(t) \/ NotOnline(t) \/ Move(t)
  BY <1>2 DEF JobNext, OpenRefused, OpenFails, CheckStatus, Close, NotOnline, Move, Finish
<1>3. CASE Ask(t) \/ RequestFails(t) \/ NotifyNobody(t) \/ SendNotification(t) \/ NullFlow(t)
  BY <1>3 DEF JobNext, Ask, RequestFails, NotifyNobody, SendNotification, NullFlow, Finish
<1>4. CASE \/ OpenPort(t) \/ Handshake(t) \/ BeginMove(t) \/ BeginAsk(t) \/ HaltFirst(t)
           \/ SetMovement(t) \/ GetStuck(t) \/ NotifyClient(t) \/ SecondLook(t)
           \/ NotificationFails(t)
  BY <1>4 DEF OpenPort, Handshake, BeginMove, BeginAsk, HaltFirst, SetMovement, GetStuck,
              NotifyClient, SecondLook, NotificationFails, Goto
<1>5. QED
  BY <1>1, <1>2, <1>3, <1>4 DEF Work

LEMMA StepIsJobStep == [Next]_vars => [JobNext]_jobVars
<1> SUFFICES ASSUME [Next]_vars PROVE JobNext \/ UNCHANGED jobVars
  OBVIOUS
<1>1. CASE UNCHANGED vars
  BY <1>1 DEF vars
<1>2. CASE Accept \/ AcceptFails \/ ClientConnects \/ StartFlow \/ RobotVanishes
  BY <1>2 DEF Accept, AcceptFails, ClientConnects, StartFlow, RobotVanishes
<1>3. CASE Notify
  <2>1. Notice \in Job
    BY DriverAssumption DEF JobType, Notice
  <2>2. QED
    BY <1>3, <2>1 DEF Notify, JobNext
<1>4. ASSUME NEW c \in Client, NEW kind \in Kind, ClientRequest(c, kind) PROVE JobNext
  BY <1>4, RequestIsJob DEF ClientRequest, JobNext
<1>5. ASSUME NEW c \in Client, onFlowClosed(c) PROVE JobNext
  BY <1>5, RequestIsJob DEF onFlowClosed, JobNext
<1>6. ASSUME NEW c \in Client, ClientVanishes(c) \/ RetryFails(c) PROVE UNCHANGED jobVars
  BY <1>6 DEF ClientVanishes, RetryFails
<1>7. QED
  BY <1>1, <1>2, <1>3, <1>4, <1>5, <1>6, WorkIsJobStep DEF Next

LEMMA DriverUsesQueue == Spec => JobSpec
<1>1. Init => JobInit
  BY DEF Init
<1>2. QED
  BY <1>1, StepIsJobStep, PTL DEF Spec, JobSpec

(* The queue of the driver serves in order, one job at a time, with what   *)
(* the driver's jobs do, threads that die and jobs that hang included.     *)
THEOREM DriverServesInOrder == Spec => ServesInOrder /\ []OneWorker
BY DriverUsesQueue, QueueServesInOrder, WorkersAreOne, PTL

-----------------------------------------------------------------------------
(* Types, places, and the state of the robot's connection.                 *)

StateInv == TypeOK /\ OneWorker /\ AtInJob /\ FlowMatchesState /\ MovingIsKnown

LEMMA JobsHaveClients ==
  \A j \in Job :
    /\ j.kind \in Kind \cup {"close", "notice"}
    /\ j.client \in {0} \cup Client
    /\ j.kind = "notice" <=> j.client = 0
    /\ j.kind = "notice" => j = Notice
BY DriverAssumption DEF JobType, Client, Kind, Notice

LEMMA ClientsAreNumbers ==
  /\ \A c \in Client : c \in Nat /\ c # NoFlow
  /\ NoFlow = 0
BY DriverAssumption DEF Client, NoFlow

(* A step of the worker that stays in its job. *)
LEMMA StaysInJob ==
  ASSUME StateInv, NEW t \in Thread, NEW place \in At, pc[t] = "run", Goto(t, place)
  PROVE  /\ at' \in [Thread -> At] /\ at'[t] = place
         /\ \A s \in Thread \ {t} : at[s] = "begin" /\ at'[s] = "begin"
         /\ JobTypeOK' /\ OneWorker'
BY DEF StateInv, TypeOK, AtInJob, OneWorker, JobTypeOK, Goto, jobVars

(* A step that ends its job. *)
LEMMA EndsJob ==
  ASSUME StateInv, NEW t \in Thread, Return(t) \/ Throw(t), at' = [at EXCEPT ![t] = "begin"]
  PROVE  at' = [s \in Thread |-> "begin"] /\ JobTypeOK' /\ OneWorker'
<1>1. pc[t] = "run"
  BY DEF Return, Throw
<1>2. \A s \in Thread \ {t} : at[s] = "begin"
  BY <1>1 DEF StateInv, AtInJob, OneWorker
<1>3. JobInv'
  BY EndPreserves DEF StateInv, JobInv, TypeOK
<1>4. QED
  BY <1>2, <1>3 DEF StateInv, TypeOK, JobInv

LEMMA EndKeepsState ==
  ASSUME StateInv, NEW t \in Thread, Return(t) \/ Throw(t), at' = [at EXCEPT ![t] = "begin"],
         UNCHANGED <<conn, link, cmState, cmFlow, acceptor, held, requests, notices>>,
         target' \in {NoFlow} \cup Client,
         rmState' \in {"Closed", "Idle", "Moving"}, rmFlow' \in {NoFlow} \cup Client,
         line' \in {"up", "down"}, rmHeld' \in BOOLEAN, robot' \in BOOLEAN, unsure' \in BOOLEAN,
         (rmState' # "Closed") <=> (rmFlow' # NoFlow), MovingIsKnown'
  PROVE  StateInv'
<1>1. at' = [s \in Thread |-> "begin"] /\ JobTypeOK' /\ OneWorker'
  BY EndsJob
<1>2. TypeOK'
  BY <1>1 DEF StateInv, TypeOK, At
<1>3. FlowMatchesState'
  BY <1>1 DEF FlowMatchesState, Online
<1>4. AtInJob'
  BY <1>1 DEF AtInJob
<1>5. QED
  BY <1>1, <1>2, <1>3, <1>4 DEF StateInv

(* A job that runs and is at its beginning finds the connection settled.   *)
LEMMA BetweenOpenings ==
  ASSUME StateInv, NEW t \in Thread, pc[t] = "run",
         at[t] \notin {"handshake", "status", "stuck"}
  PROVE  rmState \in {"Closed", "Idle", "Moving"} /\ ((rmState # "Closed") <=> (rmFlow # NoFlow))
<1>1. \A s \in Thread \ {t} : at[s] = "begin"
  BY DEF StateInv, AtInJob, OneWorker
<1>2. rmState # "Opening"
  BY <1>1 DEF StateInv, FlowMatchesState
<1>3. QED
  BY <1>2 DEF StateInv, FlowMatchesState, TypeOK, Online

LEMMA EndingsKeepState ==
  ASSUME StateInv, NEW t \in Thread,
         \/ OpenRefused(t) \/ NotOnline(t) \/ Close(t) \/ Move(t) \/ Ask(t)
         \/ RequestFails(t) \/ NotifyNobody(t) \/ SendNotification(t) \/ NullFlow(t)
  PROVE  StateInv'
<1> USE DEF Doing
<1>1. CASE OpenRefused(t) \/ NotOnline(t) \/ NotifyNobody(t) \/ SendNotification(t) \/ NullFlow(t)
  <2>1. /\ pc[t] = "run" /\ at[t] \in {"begin", "notify"}
        /\ Return(t) \/ Throw(t)
        /\ at' = [at EXCEPT ![t] = "begin"]
        /\ UNCHANGED <<conn, link, cmState, cmFlow, acceptor>>
        /\ target' \in {target, NoFlow}
        /\ UNCHANGED <<rmState, rmFlow, line, rmHeld, robot, unsure, held, countVars>>
    BY <1>1 DEF OpenRefused, NotOnline, NotifyNobody, SendNotification, NullFlow, Finish, clientVars
  <2>2. MovingIsKnown'
    BY <2>1 DEF StateInv, MovingIsKnown, Online
  <2>3. QED
    BY <2>1, <2>2, BetweenOpenings, EndKeepsState DEF StateInv, TypeOK, countVars
<1>2. CASE Close(t)
  <2>1. /\ pc[t] = "run" /\ at[t] = "begin" /\ Return(t)
        /\ at' = [at EXCEPT ![t] = "begin"]
        /\ UNCHANGED <<rmHeld, robot, unsure, clientVars, held, countVars>>
    BY <1>2 DEF Close, Finish
  <2>2. CASE rmFlow # NoFlow
    <3>1. line' = "down" /\ rmFlow' = NoFlow /\ rmState' = "Closed"
      BY <1>2, <2>2 DEF Close
    <3>2. MovingIsKnown'
      BY <3>1 DEF MovingIsKnown, Online
    <3>3. QED
      BY <2>1, <3>1, <3>2, EndKeepsState DEF StateInv, TypeOK, clientVars, countVars
  <2>3. CASE rmFlow = NoFlow
    <3>1. UNCHANGED <<line, rmFlow, rmState>>
      BY <1>2, <2>3 DEF Close
    <3>2. MovingIsKnown'
      BY <2>1, <3>1 DEF StateInv, MovingIsKnown, Online
    <3>3. QED
      BY <2>1, <3>1, <3>2, BetweenOpenings, EndKeepsState
      DEF StateInv, TypeOK, clientVars, countVars
  <2>4. QED
    BY <2>2, <2>3
<1>3. CASE Move(t) \/ Ask(t) \/ RequestFails(t)
  <2>1. /\ pc[t] = "run" /\ at[t] \in {"halt", "set", "go", "ask"} /\ Return(t)
        /\ at' = [at EXCEPT ![t] = "begin"]
        /\ UNCHANGED <<rmFlow, line, clientVars, held, countVars>>
    BY <1>3 DEF Move, Ask, RequestFails, Finish, Replied
  <2>2. Online /\ rmFlow # NoFlow
    BY <2>1 DEF StateInv, FlowMatchesState
  <2>3. /\ rmState' \in {"Idle", "Moving"} /\ MovingIsKnown'
        /\ rmHeld' \in BOOLEAN /\ robot' \in BOOLEAN /\ unsure' \in BOOLEAN
    <3>1. CASE Move(t)
      BY <3>1 DEF Move, Replied, MovingIsKnown, StateInv, TypeOK
    <3>2. CASE Ask(t)
      BY <3>2, <2>2 DEF Ask, Replied, MovingIsKnown, StateInv, TypeOK, Online
    <3>3. CASE RequestFails(t)
      <4>1. rmHeld' \in BOOLEAN /\ rmState' = rmState /\ rmState \in {"Idle", "Moving"}
        BY <3>3, <2>2 DEF RequestFails, GivesUp, Online
      <4>2. robot' \in BOOLEAN /\ unsure' \in BOOLEAN
        BY <3>3 DEF RequestFails, StateInv, TypeOK
      <4>3. \/ (robot' => robot) /\ unsure' = unsure
            \/ robot' => unsure'
        BY <3>3 DEF RequestFails, StateInv, TypeOK
      <4>4. QED
        BY <4>1, <4>2, <4>3, <2>2 DEF MovingIsKnown, StateInv, Online
    <3>4. QED
      BY <1>3, <3>1, <3>2, <3>3
  <2>4. QED
    BY <2>1, <2>2, <2>3, EndKeepsState DEF StateInv, TypeOK, clientVars, countVars
<1>4. QED
  BY <1>1, <1>2, <1>3

LEMMA OpenEndsKeepState ==
  ASSUME StateInv, NEW t \in Thread, OpenFails(t) \/ CheckStatus(t)
  PROVE  StateInv'
<1>1. /\ pc[t] = "run" /\ node[t].kind = "open" /\ at[t] \in {"handshake", "status"}
      /\ Return(t) /\ at' = [at EXCEPT ![t] = "begin"]
      /\ UNCHANGED <<unsure, clientVars, held, countVars>>
  BY DEF OpenFails, CheckStatus, Doing, Finish
<1>2. rmState = "Opening" /\ rmFlow = NoFlow
  BY <1>1 DEF StateInv, FlowMatchesState, Online
<1>3. node[t].client \in Client
  <2>1. node[t] \in Job
    BY <1>1 DEF StateInv, TypeOK, JobTypeOK, OneWorker
  <2>2. QED
    BY <1>1, <2>1, JobsHaveClients
<1>4. CASE OpenFails(t)
  <2>1. rmState' = "Closed" /\ line' = "down" /\ rmFlow' = rmFlow /\ rmHeld' \in BOOLEAN
    BY <1>4 DEF OpenFails, GivesUp
  <2>2. robot' \in BOOLEAN /\ unsure' \in BOOLEAN
    BY <1>4 DEF OpenFails, StateInv, TypeOK
  <2>3. MovingIsKnown'
    BY <2>1 DEF MovingIsKnown, Online
  <2>4. QED
    BY <1>1, <1>2, <2>1, <2>2, <2>3, EndKeepsState DEF StateInv, TypeOK, clientVars, countVars
<1>5. CASE CheckStatus(t)
  <2>1. /\ rmState' \in {"Idle", "Moving"} /\ rmFlow' = node[t].client
        /\ robot' = robot /\ (robot => rmState' = "Moving")
        /\ UNCHANGED <<line, rmHeld>>
    BY <1>5 DEF CheckStatus, Replied
  <2>2. MovingIsKnown'
    BY <2>1 DEF MovingIsKnown, Online
  <2>3. rmFlow' \in Client /\ rmFlow' # NoFlow
    BY <1>3, <2>1, ClientsAreNumbers
  <2>4. QED
    BY <1>1, <2>1, <2>2, <2>3, EndKeepsState DEF StateInv, TypeOK, clientVars, countVars
<1>6. QED
  BY <1>4, <1>5

LEMMA StaysKeepState ==
  ASSUME StateInv, NEW t \in Thread,
         \/ OpenPort(t) \/ Handshake(t) \/ BeginMove(t) \/ BeginAsk(t) \/ HaltFirst(t)
         \/ SetMovement(t) \/ GetStuck(t) \/ NotifyClient(t) \/ SecondLook(t)
         \/ NotificationFails(t)
  PROVE  StateInv'
<1> USE DEF Doing
<1>1. CASE OpenPort(t)
  <2>1. Goto(t, "handshake") /\ pc[t] = "run" /\ node[t].kind = "open" /\ "handshake" \in At
    BY <1>1 DEF OpenPort, At
  <2>2. rmState' = "Opening" /\ rmFlow' = rmFlow /\ rmState = "Closed"
    BY <1>1 DEF OpenPort
  <2>3. TypeOK'
    BY <1>1, <2>1, StaysInJob DEF OpenPort, StateInv, TypeOK, clientVars, countVars
  <2>4. FlowMatchesState'
    BY <2>1, <2>2, StaysInJob DEF StateInv, FlowMatchesState, Online
  <2>5. AtInJob'
    BY <2>1, StaysInJob DEF AtInJob, Goto, jobVars
  <2>6. QED
    BY <2>1, <2>2, <2>3, <2>4, <2>5, StaysInJob DEF StateInv, MovingIsKnown, Online
<1>2. CASE Handshake(t)
  <2>1. Goto(t, "status") /\ pc[t] = "run" /\ node[t].kind = "open" /\ "status" \in At
    BY <1>2 DEF Handshake, At
  <2>2. rmState' = rmState /\ rmFlow' = rmFlow /\ at[t] = "handshake" /\ robot' = FALSE
    BY <1>2 DEF Handshake
  <2>3. TypeOK'
    BY <1>2, <2>1, StaysInJob DEF Handshake, Replied, StateInv, TypeOK, clientVars, countVars
  <2>4. FlowMatchesState'
    BY <2>1, <2>2, StaysInJob DEF StateInv, FlowMatchesState, Online
  <2>5. AtInJob'
    BY <2>1, StaysInJob DEF AtInJob, Goto, jobVars
  <2>6. QED
    BY <2>1, <2>2, <2>3, <2>4, <2>5, StaysInJob DEF StateInv, MovingIsKnown
<1>3. CASE BeginMove(t) \/ BeginAsk(t) \/ HaltFirst(t) \/ SetMovement(t)
  <2>1. PICK place \in {"halt", "set", "go", "ask"} :
          /\ Goto(t, place)
          /\ place = "ask" => node[t].kind \in {"halt", "read"}
          /\ place # "ask" => node[t].kind = "move"
    BY <1>3 DEF BeginMove, BeginAsk, HaltFirst, SetMovement
  <2>2. pc[t] = "run" /\ place \in At /\ at[t] \in {"begin", "halt", "set"}
    BY <1>3 DEF BeginMove, BeginAsk, HaltFirst, SetMovement, At
  <2>3. /\ UNCHANGED <<rmState, rmFlow, line, rmHeld, unsure, clientVars, held, countVars>>
        /\ robot' \in BOOLEAN /\ (robot' => robot)
    <3>1. robot' = FALSE \/ robot' = robot
      BY <1>3 DEF BeginMove, BeginAsk, HaltFirst, SetMovement
    <3>2. robot' \in BOOLEAN /\ (robot' => robot)
      <4>1. robot \in BOOLEAN
        BY DEF StateInv, TypeOK
      <4>2. CASE robot' = FALSE
        BY <4>2
      <4>3. CASE robot' = robot
        BY <4>1, <4>3
      <4>4. QED
        BY <3>1, <4>2, <4>3
    <3>3. UNCHANGED <<rmState, rmFlow, line, rmHeld, unsure, clientVars, held, countVars>>
      BY <1>3 DEF BeginMove, BeginAsk, HaltFirst, SetMovement, Replied
    <3>4. QED
      BY <3>2, <3>3
  <2>4. Online
    BY <1>3 DEF BeginMove, BeginAsk, HaltFirst, SetMovement, StateInv, FlowMatchesState
  <2>5. TypeOK'
    BY <2>1, <2>2, <2>3, StaysInJob DEF StateInv, TypeOK, clientVars, countVars
  <2>6. FlowMatchesState'
    BY <2>1, <2>2, <2>3, <2>4, StaysInJob DEF StateInv, FlowMatchesState, Online
  <2>7. AtInJob'
    BY <2>1, <2>2, StaysInJob DEF AtInJob, Goto, jobVars
  <2>8. QED
    BY <2>1, <2>2, <2>3, <2>5, <2>6, <2>7, StaysInJob DEF StateInv, MovingIsKnown, Online
<1>4. CASE GetStuck(t) \/ NotificationFails(t)
  <2>1. Goto(t, "stuck") /\ pc[t] = "run" /\ "stuck" \in At
    BY <1>4 DEF GetStuck, NotificationFails, At
  <2>2. /\ UNCHANGED <<rmState, rmFlow, line, robot, unsure, clientVars, countVars>>
        /\ rmHeld' \in BOOLEAN /\ held' \subseteq Client
    BY <1>4 DEF GetStuck, NotificationFails, StateInv, TypeOK
  <2>3. /\ node[t].kind # "close"
        /\ at[t] \in {"handshake", "status", "halt", "set", "go", "ask", "notify"}
        /\ node[t].kind = "open" <=> at[t] \in {"handshake", "status"}
    BY <1>4 DEF GetStuck, NotificationFails, StateInv, AtInJob
  <2>4. TypeOK'
    BY <2>1, <2>2, StaysInJob DEF StateInv, TypeOK, clientVars, countVars
  <2>5. FlowMatchesState'
    BY <2>1, <2>2, <2>3, StaysInJob DEF StateInv, FlowMatchesState, Online, Goto, jobVars
  <2>6. AtInJob'
    BY <2>1, <2>3, StaysInJob DEF AtInJob, Goto, jobVars
  <2>7. QED
    BY <2>1, <2>2, <2>4, <2>5, <2>6, StaysInJob DEF StateInv, MovingIsKnown, Online
<1>5. CASE NotifyClient(t)
  <2>1. /\ Goto(t, "notify") /\ pc[t] = "run" /\ "notify" \in At /\ node[t].kind = "notice"
        /\ at[t] = "begin"
        /\ UNCHANGED <<rmState, rmFlow, line, rmHeld, robot, unsure, clientVars, held, countVars>>
    BY <1>5 DEF NotifyClient, At
  <2>2. TypeOK'
    BY <2>1, StaysInJob DEF StateInv, TypeOK, clientVars, countVars
  <2>3. FlowMatchesState'
    BY <2>1, StaysInJob DEF StateInv, FlowMatchesState, Online
  <2>4. AtInJob'
    BY <2>1, StaysInJob DEF AtInJob, Goto, jobVars
  <2>5. QED
    BY <2>1, <2>2, <2>3, <2>4, StaysInJob DEF StateInv, MovingIsKnown, Online
<1>6. CASE SecondLook(t)
  <2>1. /\ UNCHANGED <<cmState, cmFlow, acceptor, conn, link, jobVars, workerVars, held, countVars>>
        /\ target' = cmFlow
    BY <1>6 DEF SecondLook
  <2>2. TypeOK' /\ OneWorker'
    BY <2>1 DEF StateInv, TypeOK, JobTypeOK, OneWorker, jobVars, workerVars, countVars
  <2>3. AtInJob' /\ FlowMatchesState' /\ MovingIsKnown'
    BY <2>1 DEF StateInv, AtInJob, FlowMatchesState, MovingIsKnown, Online, jobVars, workerVars
  <2>4. QED
    BY <2>2, <2>3 DEF StateInv
<1>7. QED
  BY <1>1, <1>2, <1>3, <1>4, <1>5, <1>6

(* What other threads do leaves the jobs that run where they are. *)
LEMMA OthersKeepState ==
  ASSUME StateInv, JobInv',
         UNCHANGED <<at, node, rmState, rmFlow, rmHeld, unsure, target>>,
         \A t \in Thread : pc[t] # "off" => pc'[t] = pc[t],
         line' \in {"up", "down"}, robot' \in BOOLEAN, robot' => robot,
         cmState' \in {"Stopped", "Accepting", "Connected"}, cmFlow' \in {NoFlow} \cup Client,
         acceptor' \in {"none", "start", "listen", "publish"}, conn' \in {0} \cup Client,
         link' \in [Client -> {"none", "up", "down", "closed"}], held' \subseteq Client,
         requests' \in 0..MaxRequests, notices' \in 0..MaxNotices
  PROVE  StateInv'
<1>1. TypeOK'
  BY DEF StateInv, TypeOK, JobInv
<1>2. AtInJob'
  BY DEF StateInv, AtInJob
<1>3. FlowMatchesState'
  BY DEF StateInv, FlowMatchesState, Online
<1>4. MovingIsKnown'
  BY DEF StateInv, MovingIsKnown, Online
<1>5. QED
  BY <1>1, <1>2, <1>3, <1>4 DEF StateInv, JobInv

LEMMA JobInvNext == ASSUME StateInv, [Next]_vars PROVE JobInv'
BY StepIsJobStep, JobStep DEF StateInv, TypeOK, JobInv

LEMMA EnqueueKeepsRunning ==
  ASSUME StateInv, NEW j, Enqueue(j)
  PROVE  node' = node /\ \A t \in Thread : pc[t] # "off" => pc'[t] = pc[t]
BY DEF Enqueue, StartWorker, StateInv, TypeOK, JobTypeOK

LEMMA CountsGrow ==
  ASSUME TypeOK
  PROVE  /\ requests < MaxRequests => requests + 1 \in 0..MaxRequests
         /\ notices < MaxNotices => notices + 1 \in 0..MaxNotices
         /\ conn < MaxClients => conn + 1 \in Client
BY DriverAssumption DEF TypeOK, Client

LEMMA StateStep == StateInv /\ [Next]_vars => StateInv'
<1> SUFFICES ASSUME StateInv, [Next]_vars PROVE StateInv'
  OBVIOUS
<1>1. CASE UNCHANGED vars
  BY <1>1 DEF vars, workerVars, clientVars, countVars, jobVars, StateInv, TypeOK, JobTypeOK, OneWorker,
              AtInJob, FlowMatchesState, MovingIsKnown, Online
<1>2. JobInv'
  BY JobInvNext
<1>3. CASE Accept \/ AcceptFails \/ ClientConnects
  <2>1. /\ UNCHANGED <<cmFlow, link, target, jobVars, workerVars, held, countVars>>
        /\ cmState' \in {"Stopped", "Accepting", "Connected"}
        /\ acceptor' \in {"none", "start", "listen", "publish"}
        /\ conn' = conn \/ (conn < MaxClients /\ conn' = conn + 1)
    BY <1>3 DEF Accept, AcceptFails, ClientConnects
  <2>2. conn' \in {0} \cup Client
    BY <2>1, CountsGrow DEF StateInv, TypeOK
  <2>3. QED
    BY <1>2, <2>1, <2>2, OthersKeepState DEF StateInv, TypeOK, workerVars, countVars, jobVars
<1>4. CASE StartFlow
  <2>1. /\ UNCHANGED <<cmState, conn, target, held, jobVars, workerVars, countVars>>
        /\ cmFlow' = conn /\ link' = [link EXCEPT ![conn] = "up"] /\ acceptor' = "none"
    BY <1>4 DEF StartFlow
  <2>2. QED
    BY <1>2, <2>1, OthersKeepState, ClientsAreNumbers
    DEF StateInv, TypeOK, workerVars, countVars, jobVars
<1>5. CASE RobotVanishes
  BY <1>2, <1>5, OthersKeepState DEF RobotVanishes, StateInv, TypeOK, clientVars, countVars, jobVars
<1>6. CASE Notify
  <2>1. /\ UNCHANGED <<at, rmState, rmFlow, line, rmHeld, unsure, clientVars, held, requests>>
        /\ Enqueue(Notice) /\ notices < MaxNotices /\ notices' = notices + 1
        /\ robot' \in {robot, FALSE}
    BY <1>6 DEF Notify
  <2>2. robot' \in BOOLEAN /\ (robot' => robot)
    <3>1. robot \in BOOLEAN
      BY DEF StateInv, TypeOK
    <3>2. robot' = robot \/ robot' = FALSE
      BY <2>1
    <3>3. CASE robot' = FALSE
      BY <3>3
    <3>4. CASE robot' = robot
      BY <3>1, <3>4
    <3>5. QED
      BY <3>2, <3>3, <3>4
  <2>3. QED
    BY <1>2, <2>1, <2>2, OthersKeepState, EnqueueKeepsRunning, CountsGrow
    DEF StateInv, TypeOK, clientVars
<1>7. ASSUME NEW c \in Client, NEW kind \in Kind, ClientRequest(c, kind) PROVE StateInv'
  <2>1. /\ UNCHANGED <<workerVars, clientVars, held, notices>>
        /\ Enqueue([kind |-> kind, client |-> c])
        /\ requests < MaxRequests /\ requests' = requests + 1
    BY <1>7 DEF ClientRequest
  <2>2. QED
    BY <1>2, <2>1, OthersKeepState, EnqueueKeepsRunning, CountsGrow
    DEF StateInv, TypeOK, clientVars, workerVars
<1>8. ASSUME NEW c \in Client, ClientVanishes(c) \/ RetryFails(c) PROVE StateInv'
  <2>1. /\ UNCHANGED <<cmState, cmFlow, acceptor, conn, target, jobVars, workerVars, countVars>>
        /\ link' = link \/ link' = [link EXCEPT ![c] = "down"]
        /\ held' = held \/ held' = held \cup {c}
    BY <1>8 DEF ClientVanishes, RetryFails, clientVars
  <2>2. link' \in [Client -> {"none", "up", "down", "closed"}] /\ held' \subseteq Client
    BY <2>1 DEF StateInv, TypeOK
  <2>3. QED
    BY <1>2, <2>1, <2>2, OthersKeepState DEF StateInv, TypeOK, workerVars, countVars, jobVars
<1>9. ASSUME NEW c \in Client, onFlowClosed(c) PROVE StateInv'
  <2>1. /\ UNCHANGED <<conn, target, workerVars, held, countVars>>
        /\ Enqueue([kind |-> "close", client |-> c])
        /\ link' = [link EXCEPT ![c] = "closed"] /\ cmFlow' = NoFlow /\ cmState' = "Stopped"
        /\ acceptor' = "start"
    BY <1>9 DEF onFlowClosed
  <2>2. QED
    BY <1>2, <2>1, OthersKeepState, EnqueueKeepsRunning
    DEF StateInv, TypeOK, workerVars, countVars
<1>10. ASSUME NEW t \in Thread, Take(t) \/ End(t),
              UNCHANGED <<workerVars, clientVars, held, countVars>>
       PROVE  StateInv'
  <2>1. pc[t] = "take" /\ at[t] = "begin" /\ at' = at
    BY <1>10 DEF Take, End, StateInv, AtInJob, workerVars
  <2>2. \A s \in Thread : at[s] = "begin"
    BY <2>1 DEF StateInv, AtInJob, OneWorker
  <2>3. TypeOK'
    BY <1>2, <1>10 DEF StateInv, TypeOK, JobInv, workerVars, clientVars, countVars
  <2>4. AtInJob' /\ FlowMatchesState' /\ MovingIsKnown'
    BY <1>10, <2>1, <2>2
    DEF AtInJob, StateInv, FlowMatchesState, MovingIsKnown, Online, workerVars
  <2>5. QED
    BY <1>2, <2>3, <2>4 DEF StateInv, JobInv
<1>11. ASSUME NEW t \in Thread, Work(t) PROVE StateInv'
  BY <1>10, <1>11, EndingsKeepState, OpenEndsKeepState, StaysKeepState DEF Work
<1>12. QED
  BY <1>1, <1>3, <1>4, <1>5, <1>6, <1>7, <1>8, <1>9, <1>11 DEF Next

LEMMA StateInitially == Init => StateInv
<1> SUFFICES ASSUME Init PROVE StateInv
  OBVIOUS
<1>1. JobInv
  BY JobInitially DEF Init
<1>2. TypeOK
  <2>1. 0 \in 0..MaxRequests /\ 0 \in 0..MaxNotices
    BY DriverAssumption
  <2>2. at \in [Thread -> At] /\ link \in [Client -> {"none", "up", "down", "closed"}]
    BY DEF Init, At
  <2>3. rmHeld \in BOOLEAN /\ robot \in BOOLEAN /\ unsure \in BOOLEAN
    BY DEF Init
  <2>4. QED
    BY <1>1, <2>1, <2>2, <2>3 DEF Init, JobInv, TypeOK
<1>3. QED
  BY <1>1, <1>2 DEF Init, JobInv, StateInv, AtInJob, FlowMatchesState, MovingIsKnown, Online

LEMMA StateInvariance == Spec => []StateInv
BY StateInitially, StateStep, PTL DEF Spec

THEOREM DriverTypeCorrect == Spec => []TypeOK
<1>1. StateInv => TypeOK
  BY DEF StateInv
<1>2. QED
  BY <1>1, StateInvariance, PTL

(* No job ever sends on a null Flow to the robot: the state says open just *)
(* while there is a Flow (RobotManager.internalMove and the others).       *)
THEOREM FlowAndStateAgree == Spec => []FlowMatchesState
<1>1. StateInv => FlowMatchesState
  BY DEF StateInv
<1>2. QED
  BY <1>1, StateInvariance, PTL

(* A robot that moves is halted before the next movement, unless a Move    *)
(* got no reply (RobotManager.internalMove).                               *)
THEOREM MovingRobotsAreKnown == Spec => []MovingIsKnown
<1>1. StateInv => MovingIsKnown
  BY DEF StateInv
<1>2. QED
  BY <1>1, StateInvariance, PTL

-----------------------------------------------------------------------------
(* Whose jobs are where.  How a step changes what is queued and what runs: *)

LEMMA JobsAreJobs ==
  ASSUME StateInv
  PROVE  /\ Len(jobs) \in Nat
         /\ \A k \in 1..Len(jobs) : jobs[k] \in Job
         /\ \A t \in Thread : pc[t] = "run" => node[t] \in Job
<1>1. jobs \in Seq(Job)
  BY DEF StateInv, TypeOK, JobTypeOK
<1>2. Len(jobs) \in Nat /\ \A k \in 1..Len(jobs) : jobs[k] \in Job
  BY <1>1
<1>3. \A t \in Thread : pc[t] = "run" => node[t] \in Job
  BY DEF StateInv, TypeOK, JobTypeOK, OneWorker
<1>4. QED
  BY <1>2, <1>3

LEMMA JobFields ==
  ASSUME NEW j \in Job
  PROVE  /\ j.client \in Nat
         /\ j.client # 0 => j.client \in Client
         /\ j.kind = "close" => j.client \in Client /\ j = CloseOf(j.client)
BY JobsHaveClients, ClientsAreNumbers, DriverAssumption DEF JobType, CloseOf, Kind

LEMMA CloseIsJob == \A c \in Client : CloseOf(c) \in Job /\ CloseOf(c).client = c /\ CloseOf(c).kind = "close"
BY RequestIsJob DEF CloseOf

LEMMA AppendsJob ==
  ASSUME StateInv, NEW j \in Job, Enqueue(j)
  PROVE  /\ Len(jobs') = Len(jobs) + 1
         /\ \A k \in 1..Len(jobs) : jobs'[k] = jobs[k]
         /\ jobs'[Len(jobs) + 1] = j
         /\ \A x \in Job : Queued(x)' <=> Queued(x) \/ x = j
         /\ \A x \in Job : Runs(x)' <=> Runs(x)
         /\ node' = node /\ \A t \in Thread : pc'[t] = "run" <=> pc[t] = "run"
<1>1. jobs \in Seq(Job) /\ jobs' = Append(jobs, j) /\ Len(jobs) \in Nat
  BY DEF StateInv, TypeOK, JobTypeOK, Enqueue
<1>2. /\ Len(jobs') = Len(jobs) + 1
      /\ \A k \in 1..Len(jobs) : jobs'[k] = jobs[k]
      /\ jobs'[Len(jobs) + 1] = j
  BY <1>1
<1>3. \A x \in Job : Queued(x)' <=> Queued(x) \/ x = j
  <2> SUFFICES ASSUME NEW x \in Job PROVE Queued(x)' <=> Queued(x) \/ x = j
    OBVIOUS
  <2>1. ASSUME Queued(x) PROVE Queued(x)'
    BY <1>1, <1>2, <2>1 DEF Queued
  <2>2. Len(jobs) + 1 \in 1..Len(jobs')
    BY <1>1, <1>2
  <2>3. ASSUME x = j PROVE Queued(x)'
    BY <1>2, <2>2, <2>3 DEF Queued
  <2>4. ASSUME Queued(x)' PROVE Queued(x) \/ x = j
    BY <1>1, <1>2, <2>4 DEF Queued
  <2>5. QED
    BY <2>1, <2>3, <2>4
<1>4. node' = node /\ \A t \in Thread : pc'[t] = "run" <=> pc[t] = "run"
  BY DEF Enqueue, StartWorker, StateInv, TypeOK, JobTypeOK
<1>5. \A x \in Job : Runs(x)' <=> Runs(x)
  BY <1>4 DEF Runs
<1>6. QED
  BY <1>2, <1>3, <1>4, <1>5

LEMMA TakesJob ==
  ASSUME StateInv, NEW t \in Thread, Take(t)
  PROVE  /\ Len(jobs) # 0 /\ Len(jobs') = Len(jobs) - 1
         /\ \A k \in 1..Len(jobs') : jobs'[k] = jobs[k + 1]
         /\ jobs[1] \in Job /\ Queued(jobs[1]) /\ node'[t] = jobs[1]
         /\ \A s \in Thread : pc'[s] = "run" <=> s = t
         /\ \A x \in Job : Runs(x)' <=> x = jobs[1]
         /\ \A x \in Job : Queued(x) <=> Queued(x)' \/ x = jobs[1]
<1>1. /\ jobs \in Seq(Job) /\ jobs # <<>> /\ jobs' = Tail(jobs)
      /\ node'[t] = Head(jobs) /\ pc'[t] = "run"
  BY DEF Take, StateInv, TypeOK, JobTypeOK
<1>2. /\ Len(jobs) \in Nat /\ Len(jobs) # 0 /\ Len(jobs') = Len(jobs) - 1
      /\ \A k \in 1..Len(jobs') : jobs'[k] = jobs[k + 1]
      /\ jobs[1] = Head(jobs) /\ jobs[1] \in Job
  BY <1>1
<1>3. Queued(jobs[1])
  BY <1>2 DEF Queued
<1>4. \A s \in Thread : pc'[s] = "run" <=> s = t
  BY DEF Take, StateInv, OneWorker, TypeOK, JobTypeOK
<1>5. \A x \in Job : Runs(x)' <=> x = jobs[1]
  BY <1>1, <1>2, <1>4 DEF Runs
<1>6. \A x \in Job : Queued(x) <=> Queued(x)' \/ x = jobs[1]
  <2> SUFFICES ASSUME NEW x \in Job PROVE Queued(x) <=> Queued(x)' \/ x = jobs[1]
    OBVIOUS
  <2>1. ASSUME Queued(x) PROVE Queued(x)' \/ x = jobs[1]
    <3>1. PICK k \in 1..Len(jobs) : jobs[k] = x
      BY <2>1 DEF Queued
    <3>2. CASE k = 1
      BY <3>1, <3>2
    <3>3. CASE k # 1
      <4>1. k - 1 \in 1..Len(jobs') /\ (k - 1) + 1 = k
        BY <1>2, <3>3
      <4>2. jobs'[k - 1] = x
        BY <1>2, <3>1, <4>1
      <4>3. QED
        BY <4>1, <4>2 DEF Queued
    <3>4. QED
      BY <3>2, <3>3
  <2>2. ASSUME Queued(x)' PROVE Queued(x)
    <3>1. PICK k \in 1..Len(jobs') : jobs'[k] = x
      BY <2>2 DEF Queued
    <3>2. k + 1 \in 1..Len(jobs) /\ jobs[k + 1] = x
      BY <1>2, <3>1
    <3>3. QED
      BY <3>2 DEF Queued
  <2>3. QED
    BY <1>3, <2>1, <2>2
<1>7. QED
  BY <1>1, <1>2, <1>3, <1>4, <1>5, <1>6

LEMMA EndsWhatRuns ==
  ASSUME StateInv, NEW t \in Thread, Return(t) \/ Throw(t)
  PROVE  /\ jobs' = jobs /\ pc[t] = "run" /\ node[t] \in Job
         /\ \A s \in Thread : pc'[s] # "run"
         /\ \A x \in Job : ~Runs(x)'
         /\ \A x \in Job : Runs(x) <=> x = node[t]
         /\ \A x \in Job : Queued(x)' <=> Queued(x)
<1>1. jobs' = jobs /\ pc[t] = "run" /\ pc'[t] # "run" /\ \A s \in Thread \ {t} : pc'[s] = pc[s]
  BY DEF Return, Throw, StateInv, TypeOK, JobTypeOK
<1>2. \A s \in Thread \ {t} : pc[s] # "run"
  BY <1>1 DEF StateInv, OneWorker
<1>3. \A s \in Thread : pc'[s] # "run"
  BY <1>1, <1>2
<1>4. (\A x \in Job : ~Runs(x)') /\ (\A x \in Job : Runs(x) <=> x = node[t])
  BY <1>1, <1>2, <1>3 DEF Runs
<1>5. \A x \in Job : Queued(x)' <=> Queued(x)
  BY <1>1 DEF Queued
<1>6. QED
  BY <1>1, <1>3, <1>4, <1>5, JobsAreJobs

(* What is queued is a notification, a request of the client that is       *)
(* connected, or what closes its connection.                               *)
LEMMA EnqueueKeepsOrder ==
  ASSUME StateInv, OrderInv, NEW j \in Job, Enqueue(j), rmFlow' = rmFlow, conn' = conn,
         j.client # 0 => j.client = conn /\ link[conn] \in {"up", "down"},
         \/ j.kind # "close" /\ link' = link /\ acceptor' = acceptor
         \/ /\ conn \in Client /\ j = CloseOf(conn) /\ link[conn] = "down"
            /\ link' = [link EXCEPT ![conn] = "closed"] /\ acceptor' = "start"
  PROVE  OrderInv'
<1>1. /\ Len(jobs) \in Nat /\ Len(jobs') = Len(jobs) + 1
      /\ \A k \in 1..Len(jobs) : jobs'[k] = jobs[k] /\ jobs[k] \in Job /\ Queued(jobs[k])
      /\ jobs'[Len(jobs) + 1] = j
      /\ \A x \in Job : Queued(x)' <=> Queued(x) \/ x = j
      /\ \A x \in Job : Runs(x)' <=> Runs(x)
      /\ node' = node /\ \A t \in Thread : pc'[t] = "run" <=> pc[t] = "run"
      /\ \A t \in Thread : pc[t] = "run" => node[t] \in Job /\ Runs(node[t])
  BY AppendsJob, JobsAreJobs DEF Queued, Runs
<1>2. /\ conn \in Nat /\ rmFlow \in Nat /\ link \in [Client -> {"none", "up", "down", "closed"}]
      /\ \A c \in Client : c \in Nat
      /\ \A x \in Job : x.client \in Nat /\ (x.client # 0 => x.client \in Client)
  BY ClientsAreNumbers, JobFields DEF StateInv, TypeOK
<1>3. \A c \in Client : /\ link'[c] # link[c] => c = conn /\ link'[c] = "closed" /\ j = CloseOf(conn)
                        /\ link[c] = "closed" => link'[c] = "closed"
                        /\ link[c] = "none" <=> link'[c] = "none"
  BY <1>2
<1>4. OneClient'
  BY <1>2, <1>3 DEF OrderInv, OneClient
<1>5. JobsOfClients'
  <2> SUFFICES ASSUME NEW x \in Job, Queued(x)' \/ Runs(x)', x.client # 0
               PROVE  /\ x.client <= conn /\ link'[x.client] # "none"
                      /\ x.kind = "close" => link'[x.client] = "closed"
    BY DEF JobsOfClients, OrderInv
  <2>1. CASE Queued(x) \/ Runs(x)
    BY <1>2, <1>3, <2>1 DEF OrderInv, JobsOfClients
  <2>2. CASE x = j
    <3>1. x.client = conn /\ conn \in Client /\ link[conn] \in {"up", "down"}
      BY <1>2, <2>2
    <3>2. x.kind = "close" => link'[conn] = "closed"
      BY <1>2, <2>2
    <3>3. QED
      BY <1>2, <1>3, <3>1, <3>2
  <2>3. QED
    BY <1>1, <2>1, <2>2
<1>6. \A x \in Job : Queued(x) \/ Runs(x) => Before(x, j)
  <2> SUFFICES ASSUME NEW x \in Job, Queued(x) \/ Runs(x), j.client # 0 PROVE Before(x, j)
    BY DEF Before
  <2>1. j.client = conn /\ link[conn] # "closed"
    OBVIOUS
  <2>2. CASE x.client = 0
    BY <1>2, <2>1, <2>2 DEF Before
  <2>3. CASE x.client # 0
    <3>1. x.client <= conn /\ (x.kind = "close" => link[x.client] = "closed")
      BY <2>3 DEF OrderInv, JobsOfClients
    <3>2. QED
      BY <1>2, <2>1, <3>1 DEF Before
  <2>4. QED
    BY <2>2, <2>3
<1>7. QueueOrdered'
  <2>1. ASSUME NEW i \in 1..Len(jobs'), NEW k \in 1..Len(jobs'), i < k
        PROVE  Before(jobs'[i], jobs'[k])
    <3>1. CASE k \in 1..Len(jobs)
      <4>1. i \in 1..Len(jobs)
        BY <1>1, <2>1, <3>1
      <4>2. QED
        BY <1>1, <2>1, <3>1, <4>1 DEF OrderInv, QueueOrdered
    <3>2. CASE k = Len(jobs) + 1
      <4>1. i \in 1..Len(jobs)
        BY <1>1, <2>1, <3>2
      <4>2. QED
        BY <1>1, <1>6, <3>2, <4>1
    <3>3. QED
      BY <1>1, <3>1, <3>2
  <2>2. ASSUME NEW t \in Thread, pc'[t] = "run", NEW k \in 1..Len(jobs')
        PROVE  Before(node'[t], jobs'[k])
    <3>1. CASE k \in 1..Len(jobs)
      BY <1>1, <2>2, <3>1 DEF OrderInv, QueueOrdered
    <3>2. CASE k = Len(jobs) + 1
      BY <1>1, <1>6, <2>2, <3>2
    <3>3. QED
      BY <1>1, <3>1, <3>2
  <2>3. QED
    BY <2>1, <2>2 DEF QueueOrdered, Before
<1>8. CloseAhead'
  <2> SUFFICES ASSUME NEW c \in Client, link'[c] = "closed"
               PROVE  \/ Queued(CloseOf(c))' \/ Runs(CloseOf(c))'
                      \/ /\ rmFlow' # c
                         /\ \A x \in Job : x.client = c => ~Queued(x)' /\ ~Runs(x)'
    BY DEF CloseAhead, CloseOf
  <2>1. CASE link[c] = "closed"
    <3>1. j.client # c
      BY <1>2, <2>1, ClientsAreNumbers
    <3>2. QED
      BY <1>1, <2>1, <3>1, CloseIsJob DEF OrderInv, CloseAhead
  <2>2. CASE link[c] # "closed"
    BY <1>1, <1>3, <2>2, CloseIsJob
  <2>3. QED
    BY <2>1, <2>2
<1>9. FlowFirst'
  BY <1>1, <1>2 DEF OrderInv, FlowFirst, JobsOfClients
<1>10. QED
  BY <1>4, <1>5, <1>7, <1>8, <1>9 DEF OrderInv

LEMMA TakeKeepsOrder ==
  ASSUME StateInv, OrderInv, NEW t \in Thread, Take(t), UNCHANGED <<rmFlow, conn, link, acceptor>>
  PROVE  OrderInv'
<1>1. /\ Len(jobs) \in Nat /\ Len(jobs) # 0 /\ Len(jobs') = Len(jobs) - 1
      /\ \A k \in 1..Len(jobs') : jobs'[k] = jobs[k + 1]
      /\ jobs[1] \in Job /\ Queued(jobs[1]) /\ node'[t] = jobs[1]
      /\ \A s \in Thread : pc'[s] = "run" <=> s = t
      /\ \A x \in Job : Runs(x)' <=> x = jobs[1]
      /\ \A x \in Job : Queued(x) <=> Queued(x)' \/ x = jobs[1]
  BY TakesJob, JobsAreJobs
<1>2. \A x \in Job : ~Runs(x)
  <2>1. \A s \in Thread : pc[s] # "run"
    BY DEF Take, StateInv, OneWorker
  <2>2. QED
    BY <2>1 DEF Runs
<1>3. OneClient'
  BY DEF OrderInv, OneClient
<1>4. JobsOfClients' /\ FlowFirst'
  BY <1>1 DEF OrderInv, JobsOfClients, FlowFirst
<1>5. QueueOrdered'
  <2>1. ASSUME NEW i \in 1..Len(jobs'), NEW k \in 1..Len(jobs'), i < k
        PROVE  Before(jobs'[i], jobs'[k])
    <3>1. i + 1 \in 1..Len(jobs) /\ k + 1 \in 1..Len(jobs) /\ i + 1 < k + 1
      BY <1>1, <2>1
    <3>2. QED
      BY <1>1, <3>1 DEF OrderInv, QueueOrdered
  <2>2. ASSUME NEW s \in Thread, pc'[s] = "run", NEW k \in 1..Len(jobs')
        PROVE  Before(node'[s], jobs'[k])
    <3>1. 1 \in 1..Len(jobs) /\ k + 1 \in 1..Len(jobs) /\ 1 < k + 1
      BY <1>1
    <3>2. QED
      BY <1>1, <2>2, <3>1 DEF OrderInv, QueueOrdered
  <2>3. QED
    BY <2>1, <2>2 DEF QueueOrdered, Before
<1>6. CloseAhead'
  <2> SUFFICES ASSUME NEW c \in Client, link[c] = "closed"
               PROVE  \/ Queued(CloseOf(c))' \/ Runs(CloseOf(c))'
                      \/ /\ rmFlow # c
                         /\ \A x \in Job : x.client = c => ~Queued(x)' /\ ~Runs(x)'
    BY DEF CloseAhead, CloseOf
  <2>1. \/ Queued(CloseOf(c))
        \/ rmFlow # c /\ \A x \in Job : x.client = c => ~Queued(x)
    BY <1>2, CloseIsJob DEF OrderInv, CloseAhead
  <2>2. QED
    BY <1>1, <2>1, CloseIsJob
<1>7. QED
  BY <1>3, <1>4, <1>5, <1>6 DEF OrderInv

LEMMA EndKeepsOrder ==
  ASSUME StateInv, OrderInv, NEW t \in Thread, Return(t) \/ Throw(t),
         UNCHANGED <<conn, link, acceptor>>,
         \/ node[t].kind # "close" /\ rmFlow' = rmFlow
         \/ node[t].kind = "open" /\ rmFlow' = node[t].client
         \/ node[t].kind = "close" /\ rmFlow' = NoFlow
  PROVE  OrderInv'
<1>1. /\ jobs' = jobs /\ pc[t] = "run" /\ node[t] \in Job /\ Runs(node[t])
      /\ \A s \in Thread : pc'[s] # "run"
      /\ \A x \in Job : ~Runs(x)'
      /\ \A x \in Job : Runs(x) <=> x = node[t]
      /\ \A x \in Job : Queued(x)' <=> Queued(x)
  BY EndsWhatRuns
<1>2. /\ conn \in Nat /\ rmFlow \in Nat /\ NoFlow = 0
      /\ \A c \in Client : c \in Nat /\ c # 0
      /\ \A x \in Job : x.client \in Nat
      /\ node[t].kind = "open" => node[t].client # 0
  BY <1>1, ClientsAreNumbers, JobFields, JobsHaveClients DEF StateInv, TypeOK
<1>3. \A x \in Job : Queued(x) => Before(node[t], x)
  BY <1>1 DEF Queued, OrderInv, QueueOrdered
<1>4. OneClient'
  BY DEF OrderInv, OneClient
<1>5. JobsOfClients'
  <2>1. rmFlow' <= conn
    BY <1>1, <1>2 DEF OrderInv, JobsOfClients
  <2>2. QED
    BY <1>1, <2>1 DEF OrderInv, JobsOfClients
<1>6. QueueOrdered'
  BY <1>1 DEF OrderInv, QueueOrdered
<1>7. CloseAhead'
  <2> SUFFICES ASSUME NEW c \in Client, link[c] = "closed"
               PROVE  \/ Queued(CloseOf(c))
                      \/ rmFlow' # c /\ \A x \in Job : x.client = c => ~Queued(x)
    BY <1>1, CloseIsJob DEF CloseAhead, CloseOf
  <2>1. CASE Runs(CloseOf(c))
    <3>1. node[t] = CloseOf(c) /\ node[t].kind = "close" /\ node[t].client = c
      BY <1>1, <2>1, CloseIsJob
    <3>2. rmFlow' # c
      BY <1>2, <3>1
    <3>3. \A x \in Job : x.client = c => ~Queued(x)
      BY <1>2, <1>3, <3>1 DEF Before
    <3>4. QED
      BY <3>2, <3>3
  <2>2. CASE rmFlow # c /\ \A x \in Job : x.client = c => ~Queued(x) /\ ~Runs(x)
    BY <1>1, <1>2, <2>2
  <2>3. QED
    BY <2>1, <2>2 DEF OrderInv, CloseAhead
<1>8. FlowFirst'
  <2>1. CASE rmFlow' = rmFlow
    BY <1>1, <2>1 DEF OrderInv, FlowFirst
  <2>2. CASE node[t].kind = "open" /\ rmFlow' = node[t].client
    BY <1>1, <1>2, <1>3, <2>2 DEF FlowFirst, Before
  <2>3. CASE rmFlow' = NoFlow
    BY <2>3 DEF FlowFirst
  <2>4. QED
    BY <2>1, <2>2, <2>3
<1>9. QED
  BY <1>4, <1>5, <1>6, <1>7, <1>8 DEF OrderInv

(* Jobs stay where they are, and no connection is closed. *)
LEMMA ConnectKeepsOrder ==
  ASSUME StateInv, OrderInv, OneClient', UNCHANGED <<jobs, node, rmFlow>>,
         \A t \in Thread : pc'[t] = "run" <=> pc[t] = "run",
         conn' \in Nat, conn <= conn',
         \A c \in Client : link'[c] = "closed" <=> link[c] = "closed",
         \A c \in Client : link[c] # "none" => link'[c] # "none"
  PROVE  OrderInv'
<1>1. \A x \in Job : (Queued(x)' <=> Queued(x)) /\ (Runs(x)' <=> Runs(x))
  BY DEF Queued, Runs
<1>2. /\ conn \in Nat /\ rmFlow \in Nat
      /\ \A x \in Job : x.client \in Nat /\ (x.client # 0 => x.client \in Client)
  BY ClientsAreNumbers, JobFields DEF StateInv, TypeOK
<1>3. JobsOfClients'
  BY <1>1, <1>2 DEF OrderInv, JobsOfClients
<1>4. QueueOrdered'
  BY DEF OrderInv, QueueOrdered
<1>5. CloseAhead'
  BY <1>1, CloseIsJob DEF OrderInv, CloseAhead, CloseOf
<1>6. FlowFirst'
  BY <1>1 DEF OrderInv, FlowFirst
<1>7. QED
  BY <1>3, <1>4, <1>5, <1>6 DEF OrderInv

LEMMA OrderStep == StateInv /\ OrderInv /\ [Next]_vars => OrderInv'
<1> SUFFICES ASSUME StateInv, OrderInv, [Next]_vars PROVE OrderInv'
  OBVIOUS
<1>1. /\ conn \in Nat /\ link \in [Client -> {"none", "up", "down", "closed"}]
      /\ \A c \in Client : c \in Nat /\ c # 0
      /\ conn # 0 => conn \in Client
  BY ClientsAreNumbers DEF StateInv, TypeOK
<1>2. ASSUME UNCHANGED <<jobVars, rmFlow, conn, link, acceptor>> PROVE OrderInv'
  <2>1. OneClient'
    BY <1>2 DEF OrderInv, OneClient
  <2>2. QED
    BY <1>1, <1>2, <2>1, ConnectKeepsOrder DEF jobVars
<1>3. CASE Accept \/ AcceptFails \/ ClientConnects
  <2>1. /\ UNCHANGED <<link, jobVars, rmFlow>>
        /\ acceptor \in {"start", "listen"}
        /\ \/ conn' = conn /\ acceptor' \in {"none", "listen"}
           \/ conn < MaxClients /\ conn' = conn + 1 /\ acceptor' = "publish"
    BY <1>3 DEF Accept, AcceptFails, ClientConnects, workerVars
  <2>2. OneClient'
    <3>1. CASE conn' = conn /\ acceptor' \in {"none", "listen"}
      BY <2>1, <3>1 DEF OrderInv, OneClient
    <3>2. CASE conn < MaxClients /\ conn' = conn + 1 /\ acceptor' = "publish"
      <4>1. conn' \in Client /\ link[conn'] = "none"
        BY <1>1, <3>2, DriverAssumption DEF OrderInv, OneClient, Client
      <4>2. \A c \in Client : c < conn' => link[c] = "closed"
        BY <1>1, <2>1, <3>2 DEF OrderInv, OneClient
      <4>3. QED
        BY <1>1, <2>1, <3>2, <4>1, <4>2 DEF OrderInv, OneClient
    <3>3. QED
      BY <2>1, <3>1, <3>2
  <2>3. QED
    BY <1>1, <2>1, <2>2, ConnectKeepsOrder DEF jobVars
<1>4. CASE StartFlow
  <2>1. /\ UNCHANGED <<conn, jobVars, rmFlow>> /\ acceptor = "publish" /\ acceptor' = "none"
        /\ link' = [link EXCEPT ![conn] = "up"]
    BY <1>4 DEF StartFlow, workerVars
  <2>2. conn \in Client /\ link[conn] = "none"
    BY <1>1, <2>1 DEF OrderInv, OneClient
  <2>3. OneClient'
    BY <1>1, <2>1, <2>2 DEF OrderInv, OneClient
  <2>4. QED
    BY <1>1, <2>1, <2>2, <2>3, ConnectKeepsOrder DEF jobVars
<1>5. CASE RobotVanishes
  BY <1>2, <1>5 DEF RobotVanishes, clientVars
<1>6. CASE Notify
  <2>1. Notice \in Job /\ Notice.client = 0 /\ Notice.kind # "close"
    BY DriverAssumption DEF JobType, Notice
  <2>2. QED
    BY <1>6, <2>1, EnqueueKeepsOrder DEF Notify, clientVars
<1>7. ASSUME NEW c \in Client, link[c] \in {"up", "down"} PROVE c = conn
  BY <1>1, <1>7 DEF OrderInv, OneClient
<1>8. ASSUME NEW c \in Client, NEW kind \in Kind, ClientRequest(c, kind) PROVE OrderInv'
  <2>1. [kind |-> kind, client |-> c] \in Job /\ kind # "close"
    BY RequestIsJob DEF Kind
  <2>2. QED
    BY <1>7, <1>8, <2>1, EnqueueKeepsOrder DEF ClientRequest, workerVars, clientVars
<1>9. ASSUME NEW c \in Client, onFlowClosed(c) PROVE OrderInv'
  <2>1. c = conn /\ link[c] = "down" /\ CloseOf(c) \in Job /\ CloseOf(c).client = c
    BY <1>7, <1>9, CloseIsJob DEF onFlowClosed
  <2>2. Enqueue(CloseOf(c)) /\ rmFlow' = rmFlow /\ conn' = conn /\ acceptor' = "start"
        /\ link' = [link EXCEPT ![c] = "closed"]
    BY <1>9 DEF onFlowClosed, workerVars, CloseOf
  <2>3. QED
    BY <2>1, <2>2, EnqueueKeepsOrder
<1>10. ASSUME NEW c \in Client, ClientVanishes(c) PROVE OrderInv'
  <2>1. /\ UNCHANGED <<conn, acceptor, jobVars, rmFlow>> /\ link[c] = "up"
        /\ link' = [link EXCEPT ![c] = "down"]
    BY <1>10 DEF ClientVanishes, workerVars
  <2>2. c = conn
    BY <1>7, <2>1
  <2>3. OneClient'
    BY <1>1, <2>1, <2>2 DEF OrderInv, OneClient
  <2>4. QED
    BY <1>1, <2>1, <2>3, ConnectKeepsOrder DEF jobVars
<1>11. ASSUME NEW t \in Thread, Work(t) PROVE OrderInv'
  <2>1. CASE Take(t) /\ UNCHANGED <<workerVars, clientVars, held, countVars>>
    BY <2>1, TakeKeepsOrder DEF workerVars, clientVars
  <2>2. CASE End(t) /\ UNCHANGED <<workerVars, clientVars, held, countVars>>
    <3>1. /\ UNCHANGED <<jobs, node, rmFlow, clientVars>>
          /\ \A s \in Thread : pc'[s] = "run" <=> pc[s] = "run"
      BY <2>2 DEF End, workerVars, StateInv, TypeOK, JobTypeOK
    <3>2. OneClient'
      BY <3>1 DEF clientVars, OrderInv, OneClient
    <3>3. QED
      BY <1>1, <3>1, <3>2, ConnectKeepsOrder DEF clientVars
  <2>3. CASE \/ OpenPort(t) \/ Handshake(t) \/ BeginMove(t) \/ BeginAsk(t) \/ HaltFirst(t)
             \/ SetMovement(t) \/ GetStuck(t) \/ NotifyClient(t) \/ SecondLook(t)
             \/ NotificationFails(t)
    BY <1>2, <2>3 DEF OpenPort, Handshake, BeginMove, BeginAsk, HaltFirst, SetMovement, GetStuck,
                      NotifyClient, SecondLook, NotificationFails, Goto, clientVars, workerVars
  <2>4. CASE \/ OpenRefused(t) \/ OpenFails(t) \/ NotOnline(t) \/ Move(t) \/ Ask(t)
             \/ RequestFails(t) \/ NotifyNobody(t) \/ SendNotification(t) \/ NullFlow(t)
    <3>1. /\ Return(t) \/ Throw(t)
          /\ UNCHANGED <<conn, link, acceptor, rmFlow>> /\ node[t].kind # "close"
      BY <2>4 DEF OpenRefused, OpenFails, NotOnline, Move, Ask, RequestFails, NotifyNobody,
                  SendNotification, NullFlow, Finish, Doing, clientVars
    <3>2. QED
      BY <3>1, EndKeepsOrder
  <2>5. CASE CheckStatus(t)
    <3>1. /\ Return(t) /\ UNCHANGED <<conn, link, acceptor>>
          /\ node[t].kind = "open" /\ rmFlow' = node[t].client
      BY <2>5 DEF CheckStatus, Finish, Doing, clientVars
    <3>2. QED
      BY <3>1, EndKeepsOrder
  <2>6. CASE Close(t)
    <3>1. /\ Return(t) /\ UNCHANGED <<conn, link, acceptor>>
          /\ node[t].kind = "close" /\ rmFlow' = NoFlow
      BY <2>6 DEF Close, Finish, Doing, clientVars
    <3>2. QED
      BY <3>1, EndKeepsOrder
  <2>7. QED
    BY <1>11, <2>1, <2>2, <2>3, <2>4, <2>5, <2>6 DEF Work
<1>12. ASSUME NEW c \in Client, RetryFails(c) PROVE OrderInv'
  BY <1>2, <1>12 DEF RetryFails, workerVars, clientVars
<1>13. CASE UNCHANGED vars
  BY <1>2, <1>13 DEF vars, workerVars, clientVars
<1>14. QED
  BY <1>3, <1>4, <1>5, <1>6, <1>8, <1>9, <1>10, <1>11, <1>12, <1>13 DEF Next

LEMMA OrderInitially == Init => OrderInv
<1> SUFFICES ASSUME Init PROVE OrderInv
  OBVIOUS
<1>1. jobs = <<>> /\ Len(jobs) = 0 /\ \A t \in Thread : pc[t] # "run"
  BY DEF Init, JobInit
<1>2. \A x : ~Queued(x) /\ ~Runs(x)
  BY <1>1 DEF Queued, Runs
<1>3. OneClient
  BY ClientsAreNumbers DEF Init, OneClient, Client
<1>4. JobsOfClients /\ CloseAhead /\ FlowFirst
  BY <1>2 DEF Init, JobsOfClients, CloseAhead, FlowFirst, NoFlow
<1>5. QueueOrdered
  BY <1>1 DEF QueueOrdered
<1>6. QED
  BY <1>3, <1>4, <1>5 DEF OrderInv

LEMMA ItsClient == StateInv /\ OrderInv => RobotOfItsClient
<1> SUFFICES ASSUME StateInv, OrderInv, NEW t \in Thread, pc[t] = "run",
                    node[t].client # 0, rmFlow # NoFlow
             PROVE  rmFlow = node[t].client
  BY DEF RobotOfItsClient
<1> DEFINE c == rmFlow
           d == node[t].client
<1>1. /\ node[t] \in Job /\ Runs(node[t]) /\ d \in Nat /\ c \in Nat /\ c \in Client /\ conn \in Nat
  BY JobsAreJobs, JobFields, ClientsAreNumbers DEF Runs, StateInv, TypeOK
<1>2. d >= c
  BY <1>1 DEF OrderInv, FlowFirst
<1>3. ASSUME d > c PROVE FALSE
  <2>1. link[c] = "closed"
    BY <1>1, <1>3 DEF OrderInv, JobsOfClients, OneClient
  <2>2. \A x \in Job : Runs(x) => x = node[t]
    BY DEF Runs, StateInv, OneWorker
  <2>3. Queued(CloseOf(c))
    BY <1>1, <1>3, <2>1, <2>2, CloseIsJob DEF OrderInv, CloseAhead
  <2>4. Before(node[t], CloseOf(c))
    BY <2>3 DEF Queued, OrderInv, QueueOrdered
  <2>5. QED
    BY <1>1, <1>3, <2>4, CloseIsJob, ClientsAreNumbers DEF Before
<1>4. QED
  BY <1>1, <1>2, <1>3

(* The jobs of a client never touch a robot that was opened for another:   *)
(* what closes the connection of one client is queued after all of its     *)
(* jobs and before the first of the next (ClientManager.onFlowClosed).     *)
THEOREM RobotsKeepTheirClient == Spec => []RobotOfItsClient
<1>1. Init => StateInv /\ OrderInv
  BY StateInitially, OrderInitially
<1>2. StateInv /\ OrderInv /\ [Next]_vars => (StateInv /\ OrderInv)'
  BY StateStep, OrderStep
<1>3. QED
  BY <1>1, <1>2, ItsClient, PTL DEF Spec
-----------------------------------------------------------------------------
(* What stops the driver, and that nothing else does.                      *)

Halted == Dead \/ \E t \in Thread : at[t] = "stuck"

LEMMA OthersLeaveJobs ==
  ASSUME StateInv, Next, \A t \in Thread : ~Work(t)
  PROVE  /\ UNCHANGED <<at, node, rmHeld>>
         /\ \A t \in Thread : pc[t] # "off" => pc'[t] = pc[t]
<1>1. CASE Accept \/ AcceptFails \/ ClientConnects \/ StartFlow \/ RobotVanishes
  BY <1>1 DEF Accept, AcceptFails, ClientConnects, StartFlow, RobotVanishes, workerVars, jobVars
<1>2. CASE Notify
  BY <1>2, EnqueueKeepsRunning DEF Notify
<1>3. ASSUME NEW c \in Client, NEW kind \in Kind, ClientRequest(c, kind)
      PROVE  /\ UNCHANGED <<at, node, rmHeld>>
             /\ \A t \in Thread : pc[t] # "off" => pc'[t] = pc[t]
  BY <1>3, EnqueueKeepsRunning DEF ClientRequest, workerVars
<1>4. ASSUME NEW c \in Client, ClientVanishes(c) \/ RetryFails(c) \/ onFlowClosed(c)
      PROVE  /\ UNCHANGED <<at, node, rmHeld>>
             /\ \A t \in Thread : pc[t] # "off" => pc'[t] = pc[t]
  BY <1>4, EnqueueKeepsRunning DEF ClientVanishes, RetryFails, onFlowClosed, workerVars, jobVars
<1>5. QED
  BY <1>1, <1>2, <1>3, <1>4 DEF Next

LEMMA HaltedStays ==
  ASSUME StateInv, [Next]_vars, Halted
  PROVE  Halted' /\ UNCHANGED node
<1>1. CASE Dead
  BY <1>1, StepIsJobStep, DeadStays DEF Halted, StateInv, TypeOK, JobInv
<1>2. ASSUME NEW t \in Thread, at[t] = "stuck"
      PROVE  at'[t] = "stuck" /\ UNCHANGED node
  <2>1. pc[t] = "run" /\ \A u \in Thread \ {t} : pc[u] = "off"
    BY <1>2 DEF StateInv, AtInJob, OneWorker
  <2>2. ASSUME NEW u \in Thread, Work(u) PROVE FALSE
    <3>1. \A kinds : \A place \in At \ {"stuck"} : ~Doing(u, kinds, place)
      BY <1>2, <2>1 DEF Doing
    <3>2. ~Take(u) /\ ~End(u) /\ ~GetStuck(u)
      BY <1>2, <2>1 DEF Take, End, GetStuck
    <3>3. ~OpenRefused(u) /\ ~OpenPort(u) /\ ~Handshake(u) /\ ~CheckStatus(u) /\ ~OpenFails(u)
      BY <3>1 DEF OpenRefused, OpenPort, Handshake, CheckStatus, OpenFails, At
    <3>4. ~Close(u) /\ ~NotOnline(u) /\ ~BeginMove(u) /\ ~BeginAsk(u) /\ ~HaltFirst(u)
      BY <3>1 DEF Close, NotOnline, BeginMove, BeginAsk, HaltFirst, At
    <3>5. ~SetMovement(u) /\ ~Move(u) /\ ~Ask(u) /\ ~RequestFails(u)
      BY <3>1 DEF SetMovement, Move, Ask, RequestFails, At
    <3>6. /\ ~NotifyNobody(u) /\ ~NotifyClient(u) /\ ~SecondLook(u) /\ ~SendNotification(u)
          /\ ~NotificationFails(u) /\ ~NullFlow(u)
      BY <3>1 DEF NotifyNobody, NotifyClient, SecondLook, SendNotification, NotificationFails, NullFlow, At
    <3>7. QED
      BY <2>2, <3>2, <3>3, <3>4, <3>5, <3>6 DEF Work
  <2>3. QED
    BY <1>2, <2>2, OthersLeaveJobs DEF vars, workerVars, jobVars
<1>3. QED
  BY <1>1, <1>2 DEF Halted

(* Once the worker has died or waits for a lost mutex, the driver serves   *)
(* nobody any more: no job begins, neither one that closes the robot nor   *)
(* one of a client that comes later.                                       *)
THEOREM DriverStopsForGood == Spec => [][Halted => Halted' /\ UNCHANGED node]_vars
<1>1. StateInv /\ [Next]_vars => [Halted => Halted' /\ UNCHANGED node]_vars
  BY HaltedStays
<1>2. QED
  BY <1>1, StateInvariance, PTL DEF Spec

LEMMA OnlyThrowKills ==
  ASSUME JobInv, [JobNext]_jobVars, Dead', \A t \in Thread : ~Throw(t)
  PROVE  Dead
<1> SUFFICES ASSUME ~Dead PROVE FALSE
  OBVIOUS
<1>1. worker' # None /\ pc'[worker'] = "off"
  BY DEF Dead
<1>2. CASE UNCHANGED jobVars
  BY <1>1, <1>2 DEF jobVars, Dead
<1>3. ASSUME NEW j \in Job, Enqueue(j) PROVE FALSE
  <2>1. CASE UNCHANGED <<worker, pc>>
    BY <1>1, <2>1 DEF Dead
  <2>2. ASSUME NEW t \in Thread, worker' = t, pc' = [pc EXCEPT ![t] = "take"] PROVE FALSE
    BY <1>1, <2>2 DEF JobInv, JobTypeOK
  <2>3. QED
    BY <1>3, <2>1, <2>2 DEF Enqueue, StartWorker
<1>4. ASSUME NEW t \in Thread, Take(t) \/ End(t) \/ Return(t) PROVE FALSE
  <2>1. worker = t
    BY <1>4 DEF Take, End, Return, JobInv, OneWorker
  <2>2. CASE End(t)
    BY <1>1, <2>2 DEF End
  <2>3. CASE Take(t) \/ Return(t)
    BY <1>1, <2>1, <2>3 DEF Take, Return, JobInv, JobTypeOK
  <2>4. QED
    BY <1>4, <2>2, <2>3
<1>5. QED
  BY <1>2, <1>3, <1>4 DEF JobNext

(* The worker dies in one place only: of a notification whose client left  *)
(* between the two looks at m_flow (ClientManager.sendNotification).       *)
THEOREM OnlyNullFlowKills == Spec => [][Dead' => Dead \/ \E t \in Thread : NullFlow(t)]_vars
<1>1. ASSUME StateInv, [Next]_vars, Dead', ~Dead
      PROVE  \E t \in Thread : NullFlow(t)
  <2>1. PICK t \in Thread : Throw(t)
    BY <1>1, StepIsJobStep, OnlyThrowKills DEF StateInv, TypeOK, JobInv
  <2>2. pc[t] = "run" /\ pc'[t] = "off"
    BY <2>1, <1>1 DEF Throw, StateInv, TypeOK, JobTypeOK
  <2>3. PICK u \in Thread : Work(u)
    BY <1>1, <2>2, OthersLeaveJobs DEF vars, jobVars
  <2>4. u = t
    <3>1. pc[u] # "off"
      BY <2>3 DEF Work, Take, End, Doing, OpenRefused, OpenPort, Handshake, CheckStatus, OpenFails, Close,
             NotOnline, BeginMove, BeginAsk, HaltFirst, SetMovement, Move, Ask, RequestFails, GetStuck,
             NotifyNobody, NotifyClient, SecondLook, SendNotification, NotificationFails, NullFlow
    <3>2. QED
      BY <1>1, <2>2, <3>1 DEF StateInv, OneWorker
  <2>5. ~Take(t) /\ ~End(t) /\ ~Return(t)
    BY <1>1, <2>2 DEF Take, End, Return, StateInv, TypeOK, JobTypeOK
  <2>6. \A place : ~Goto(t, place)
    BY <2>2 DEF Goto, jobVars
  <2>7. ~SecondLook(t)
    BY <2>2 DEF SecondLook, jobVars
  <2>8. QED
    BY <2>3, <2>4, <2>5, <2>6, <2>7
    DEF Work, Finish, OpenRefused, OpenPort, Handshake, CheckStatus, OpenFails, Close, NotOnline, BeginMove,
        BeginAsk, HaltFirst, SetMovement, Move, Ask, RequestFails, GetStuck, NotifyNobody, NotifyClient,
        SendNotification, NotificationFails
<1>2. StateInv /\ [Next]_vars => [Dead' => Dead \/ \E t \in Thread : NullFlow(t)]_vars
  BY <1>1
<1>3. QED
  BY <1>2, StateInvariance, PTL DEF Spec

(* Everything else that breaks goes back to a failed send: if no send      *)
(* fails, no mutex is lost and nobody waits for one, so that what          *)
(* GoneClientReleasesRobot assumes fails by the death of the worker only.  *)
THEOREM OnlyFailedSendsBreak == ~SendsFail => (Spec => [](Broken => Dead))
<1> SUFFICES ASSUME ~SendsFail PROVE Spec => [](Broken => Dead)
  OBVIOUS
<1> DEFINE Sound == /\ held = {} /\ rmHeld = FALSE
                    /\ \A t \in Thread : at[t] # "stuck"
<1>1. Init => Sound
  BY DEF Init
<1>2. StateInv /\ Sound /\ [Next]_vars => Sound'
  <2> SUFFICES ASSUME StateInv, Sound, [Next]_vars PROVE Sound'
    OBVIOUS
  <2>1. at \in [Thread -> At] /\ rmHeld = FALSE /\ held = {}
    BY DEF StateInv, TypeOK
  <2>2. ~GivesUp \/ rmHeld' = FALSE
    BY DEF GivesUp
  <2>3. ASSUME NEW t \in Thread, Work(t) PROVE Sound'
    <3>1. ~GetStuck(t) /\ ~NotificationFails(t)
      BY <2>1 DEF GetStuck, NotificationFails
    <3>2. held' = held
      BY <2>3, <3>1
      DEF Work, OpenRefused, OpenPort, Handshake, CheckStatus, OpenFails, Close, NotOnline, BeginMove,
          BeginAsk, HaltFirst, SetMovement, Move, Ask, RequestFails, NotifyNobody, NotifyClient,
          SecondLook, SendNotification, NullFlow
    <3>3. rmHeld' = FALSE
      BY <2>1, <2>2, <2>3, <3>1
      DEF Work, Replied, OpenRefused, OpenPort, Handshake, CheckStatus, OpenFails, Close, NotOnline, BeginMove,
          BeginAsk, HaltFirst, SetMovement, Move, Ask, RequestFails, NotifyNobody, NotifyClient,
          SecondLook, SendNotification, NullFlow, workerVars
    <3>4. at' = at \/ \E place \in At \ {"stuck"} : at' = [at EXCEPT ![t] = place]
      BY <2>3, <3>1
      DEF Work, Finish, Goto, At, OpenRefused, OpenPort, Handshake, CheckStatus, OpenFails, Close, NotOnline,
          BeginMove, BeginAsk, HaltFirst, SetMovement, Move, Ask, RequestFails, NotifyNobody, NotifyClient,
          SecondLook, SendNotification, NullFlow, workerVars
    <3>5. QED
      BY <2>1, <3>2, <3>3, <3>4
  <2>4. held' = {} \/ \E t \in Thread : Work(t)
    BY <2>1 DEF Next, vars, Accept, AcceptFails, ClientConnects, StartFlow, RobotVanishes, Notify,
                ClientRequest, ClientVanishes, RetryFails, onFlowClosed
  <2>5. QED
    BY <2>1, <2>3, <2>4, OthersLeaveJobs DEF vars, workerVars
<1>3. Sound => (Broken => Dead)
  BY DEF Broken
<1> HIDE DEF Sound
<1>4. QED
  BY <1>1, <1>2, <1>3, StateInvariance, PTL DEF Spec
=============================================================================
