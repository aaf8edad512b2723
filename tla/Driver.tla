------------------------------- MODULE Driver -------------------------------
(***************************************************************************)
(* The driver: RobotManager, which does all it does in jobs of one         *)
(* JobQueue, and ClientManager, which serves one client after another.     *)
(*                                                                         *)
(* Threads: the worker of the queue; the thread that accepts a client; the *)
(* receive thread of a client's channel, which queues the client's         *)
(* requests and reports the end of its Flow; the receive thread of the     *)
(* robot's channel, which queues notifications.                            *)
(*                                                                         *)
(* The Flows are abstract.  BotUtils.sendRequestAndRetry is one step that  *)
(* gets a reply or gives up; both peers may vanish.  What is kept of       *)
(* Flow.java is that a failed send never releases its mutex: who sends     *)
(* next on that Flow waits for ever, and so does the thread that would     *)
(* report its end.                                                         *)
(***************************************************************************)
EXTENDS JobQueue

CONSTANTS
  MaxClients,   \* bounds: clients that connect one after another,
  MaxRequests,  \* what all of them request,
  MaxNotices,   \* and notifications of the robot
  SendsFail     \* whether a send may fail when the peer has vanished

Client == 1..MaxClients

NoFlow == 0     \* null, for a Flow

Kind == {"open", "move", "halt", "read"}

(* What is in the queue.  Notifications of the robot belong to no client.  *)
JobType ==
  [kind : Kind \cup {"close"}, client : Client] \cup {[kind |-> "notice", client |-> 0]}

Notice == [kind |-> "notice", client |-> 0]

ASSUME DriverAssumption ==
  /\ MaxClients \in Nat /\ MaxRequests \in Nat /\ MaxNotices \in Nat
  /\ SendsFail \in BOOLEAN
  /\ Job = JobType

VARIABLES
  at,        \* where a thread is in its job
  rmState,   \* RobotManager.m_state
  rmFlow,    \* RobotManager.m_flow: the client it was opened for, or NoFlow
  line,      \* whether the robot is there, on the Flow opened last
  rmHeld,    \* whether the mutex of that Flow is lost
  robot,     \* whether the robot was told to move since it was told to halt
  unsure,    \* a Move got no reply since the robot's Flow was opened
  cmState,   \* ClientManager.m_state
  cmFlow,    \* ClientManager.m_flow: the client it leads to, or NoFlow
  acceptor,  \* the thread in ClientManager.accept
  conn,      \* the client that connected last
  link,      \* what has become of a client's connection
  target,    \* the Flow sendNotification read last and sends on, or NoFlow
  held,      \* clients with a Flow whose mutex is lost
  requests, notices   \* how many there were

workerVars == <<at, rmState, rmFlow, line, rmHeld, robot, unsure>>
clientVars == <<cmState, cmFlow, acceptor, conn, link, target>>
countVars  == <<requests, notices>>
vars == <<jobVars, workerVars, clientVars, held, countVars>>

At == {"begin", "handshake", "status", "halt", "set", "go", "ask", "notify", "stuck"}

TypeOK ==
  /\ JobTypeOK
  /\ at \in [Thread -> At]
  /\ rmState \in {"Closed", "Opening", "Idle", "Moving"}
  /\ rmFlow \in {NoFlow} \cup Client
  /\ line \in {"up", "down"}
  /\ rmHeld \in BOOLEAN /\ robot \in BOOLEAN /\ unsure \in BOOLEAN
  /\ cmState \in {"Stopped", "Accepting", "Connected"}
  /\ cmFlow \in {NoFlow} \cup Client
  /\ acceptor \in {"none", "start", "listen", "publish"}
  /\ conn \in {0} \cup Client
  /\ link \in [Client -> {"none", "up", "down", "closed"}]
  /\ target \in {NoFlow} \cup Client
  /\ held \subseteq Client
  /\ requests \in 0..MaxRequests /\ notices \in 0..MaxNotices

Init ==
  /\ JobInit
  /\ at = [t \in Thread |-> "begin"]
  /\ rmState = "Closed" /\ rmFlow = NoFlow
  /\ line = "down" /\ rmHeld = FALSE /\ robot = FALSE /\ unsure = FALSE
  /\ cmState = "Stopped" /\ cmFlow = NoFlow /\ acceptor = "start"
  /\ conn = 0 /\ link = [c \in Client |-> "none"] /\ target = NoFlow
  /\ held = {}
  /\ requests = 0 /\ notices = 0

-----------------------------------------------------------------------------
(* ClientManager.accept *)

Accept ==
  /\ acceptor = "start"
  /\ cmState' = "Accepting"
  /\ acceptor' = "listen"
  /\ UNCHANGED <<cmFlow, conn, link, target, jobVars, workerVars, held, countVars>>

(* The port cannot be had, or the stream not be opened: the thread ends,   *)
(* and nothing starts another.                                             *)
AcceptFails ==
  /\ acceptor = "listen"
  /\ cmState' = "Stopped"
  /\ acceptor' = "none"
  /\ UNCHANGED <<cmFlow, conn, link, target, jobVars, workerVars, held, countVars>>

(* m_state says Connected before m_flow is set. *)
ClientConnects ==
  /\ acceptor = "listen" /\ conn < MaxClients
  /\ conn' = conn + 1
  /\ cmState' = "Connected"
  /\ acceptor' = "publish"
  /\ UNCHANGED <<cmFlow, link, target, jobVars, workerVars, held, countVars>>

(* The Flow is started and the client is sent a ping. *)
StartFlow ==
  /\ acceptor = "publish"
  /\ cmFlow' = conn
  /\ link' = [link EXCEPT ![conn] = "up"]
  /\ acceptor' = "none"
  /\ UNCHANGED <<cmState, conn, target, held, jobVars, workerVars, countVars>>

-----------------------------------------------------------------------------
(* A client and the receive thread of its channel *)

ClientRequest(c, kind) ==
  /\ link[c] = "up" /\ requests < MaxRequests
  /\ Enqueue([kind |-> kind, client |-> c])
  /\ requests' = requests + 1
  /\ UNCHANGED <<workerVars, clientVars, held, notices>>

(* The client leaves, or the driver stops the Flow of a client that does   *)
(* not answer its ping.                                                    *)
ClientVanishes(c) ==
  /\ link[c] = "up"
  /\ link' = [link EXCEPT ![c] = "down"]
  /\ UNCHANGED <<cmState, cmFlow, acceptor, conn, target, jobVars, workerVars, held, countVars>>

(* A ping or a notification without an answer is repeated, by a thread     *)
(* that is not the worker.  Whether the client owes an answer is left out. *)
RetryFails(c) ==
  /\ SendsFail /\ link[c] = "down" /\ c \notin held
  /\ held' = held \cup {c}
  /\ UNCHANGED <<jobVars, workerVars, clientVars, countVars>>

(* ClientManager.onFlowClosed: the robot is closed by a job, and another   *)
(* thread accepts the next client.                                         *)
SlipClosed(c) ==
  /\ link[c] = "down" /\ c \notin held
  /\ link' = [link EXCEPT ![c] = "closed"]
  /\ cmFlow' = NoFlow
  /\ cmState' = "Stopped"
  /\ acceptor' = "start"
  /\ UNCHANGED <<conn, target, jobVars, workerVars, held, countVars>>

onFlowClosed(c) ==
  /\ link[c] = "down" /\ c \notin held
  /\ link' = [link EXCEPT ![c] = "closed"]
  /\ cmFlow' = NoFlow
  /\ cmState' = "Stopped"
  /\ Enqueue([kind |-> "close", client |-> c])
  /\ acceptor' = "start"
  /\ UNCHANGED <<conn, target, workerVars, held, countVars>>

-----------------------------------------------------------------------------
(* The robot, and the receive thread of its channel *)

RobotVanishes ==
  /\ line = "up"
  /\ line' = "down"
  /\ UNCHANGED <<at, rmState, rmFlow, rmHeld, robot, unsure, jobVars, clientVars, held, countVars>>

(* RobotManager.MessageCallback: a movement ended, finished or aborted. *)
Notify ==
  /\ line = "up" /\ notices < MaxNotices
  /\ robot' \in {robot, FALSE}
  /\ Enqueue(Notice)
  /\ notices' = notices + 1
  /\ UNCHANGED <<at, rmState, rmFlow, line, rmHeld, unsure, clientVars, held, requests>>

-----------------------------------------------------------------------------
(* The worker: the jobs of RobotManager *)

Doing(t, kinds, place) == pc[t] = "run" /\ node[t].kind \in kinds /\ at[t] = place

Goto(t, place) == at' = [at EXCEPT ![t] = place] /\ UNCHANGED jobVars

Finish(t) == Return(t) /\ at' = [at EXCEPT ![t] = "begin"]

(* sendRequestAndRetry on the robot's Flow: there is a reply; or there is  *)
(* none in time, or the last try could not be sent.                        *)
Replied == line = "up" /\ ~rmHeld /\ UNCHANGED <<line, rmHeld>>

GivesUp ==
  /\ ~rmHeld /\ rmHeld' \in BOOLEAN
  /\ rmHeld' => SendsFail /\ line = "down"

(* An earlier try could not be sent, or something before it: the next one  *)
(* waits for the mutex.                                                    *)
GetStuck(t) ==
  /\ pc[t] = "run" /\ at[t] \in {"handshake", "status", "halt", "set", "go", "ask"}
  /\ rmHeld \/ (SendsFail /\ line = "down")
  /\ rmHeld' = TRUE
  /\ Goto(t, "stuck")
  /\ UNCHANGED <<rmState, rmFlow, line, robot, unsure, clientVars, held, countVars>>

Online == rmState \in {"Idle", "Moving"}

(* internalOpen: connected already, or the port cannot be opened. *)
OpenRefused(t) ==
  /\ Doing(t, {"open"}, "begin")
  /\ Finish(t)
  /\ UNCHANGED <<rmState, rmFlow, line, rmHeld, robot, unsure, clientVars, held, countVars>>

OpenPort(t) ==
  /\ Doing(t, {"open"}, "begin")
  /\ rmState = "Closed"
  /\ rmState' = "Opening"
  /\ line' = "up" /\ rmHeld' = FALSE
  /\ Goto(t, "handshake")
  /\ UNCHANGED <<rmFlow, robot, unsure, clientVars, held, countVars>>

(* The firmware halts when it is greeted. *)
Handshake(t) ==
  /\ Doing(t, {"open"}, "handshake")
  /\ Replied
  /\ robot' = FALSE /\ unsure' = FALSE
  /\ Goto(t, "status")
  /\ UNCHANGED <<rmState, rmFlow, clientVars, held, countVars>>

(* No reply, or not the expected one: the Flow is stopped. *)
OpenFails(t) ==
  /\ \/ Doing(t, {"open"}, "handshake") /\ robot' \in {robot, FALSE}
     \/ Doing(t, {"open"}, "status") /\ UNCHANGED robot
  /\ GivesUp
  /\ rmState' = "Closed"
  /\ line' = "down"
  /\ Finish(t)
  /\ UNCHANGED <<rmFlow, unsure, clientVars, held, countVars>>

(* The robot tells whether it moves. *)
CheckStatus(t) ==
  /\ Doing(t, {"open"}, "status")
  /\ Replied
  /\ rmFlow' = node[t].client
  /\ rmState' \in {"Idle", "Moving"}
  /\ robot => rmState' = "Moving"
  /\ Finish(t)
  /\ UNCHANGED <<robot, unsure, clientVars, held, countVars>>

(* internalClose: the robot is not told to halt. *)
SlipClose(t) ==
  /\ Doing(t, {"close"}, "begin")
  /\ IF rmFlow # NoFlow THEN line' = "down" /\ rmFlow' = NoFlow
                        ELSE UNCHANGED <<line, rmFlow>>
  /\ Finish(t)
  /\ UNCHANGED <<rmState, rmHeld, robot, unsure, clientVars, held, countVars>>

SlipKeepFlow(t) ==
  /\ Doing(t, {"close"}, "begin")
  /\ Finish(t)
  /\ UNCHANGED <<rmState, rmFlow, line, rmHeld, robot, unsure, clientVars, held, countVars>>

Close(t) ==
  /\ Doing(t, {"close"}, "begin")
  /\ IF rmFlow # NoFlow
       THEN line' = "down" /\ rmFlow' = NoFlow /\ rmState' = "Closed"
       ELSE UNCHANGED <<line, rmFlow, rmState>>
  /\ Finish(t)
  /\ UNCHANGED <<rmHeld, robot, unsure, clientVars, held, countVars>>

(* internalMove, internalHalt, internalReadSensor *)
NotOnline(t) ==
  /\ Doing(t, {"move", "halt", "read"}, "begin")
  /\ ~Online
  /\ Finish(t)
  /\ UNCHANGED <<rmState, rmFlow, line, rmHeld, robot, unsure, clientVars, held, countVars>>

(* The robot is told to halt first if it was told to move. *)
BeginMove(t) ==
  /\ Doing(t, {"move"}, "begin") /\ Online
  /\ Goto(t, IF rmState = "Moving" THEN "halt" ELSE "set")
  /\ UNCHANGED <<rmState, rmFlow, line, rmHeld, robot, unsure, clientVars, held, countVars>>

BeginAsk(t) ==
  /\ Doing(t, {"halt", "read"}, "begin") /\ Online
  /\ Goto(t, "ask")
  /\ UNCHANGED <<rmState, rmFlow, line, rmHeld, robot, unsure, clientVars, held, countVars>>

HaltFirst(t) ==
  /\ Doing(t, {"move"}, "halt")
  /\ Replied
  /\ robot' = FALSE
  /\ Goto(t, "set")
  /\ UNCHANGED <<rmState, rmFlow, unsure, clientVars, held, countVars>>

SetMovement(t) ==
  /\ Doing(t, {"move"}, "set")
  /\ Replied
  /\ Goto(t, "go")
  /\ UNCHANGED <<rmState, rmFlow, robot, unsure, clientVars, held, countVars>>

SlipMove(t) ==
  /\ Doing(t, {"move"}, "go")
  /\ Replied
  /\ robot' = TRUE
  /\ Finish(t)
  /\ UNCHANGED <<rmState, rmFlow, unsure, clientVars, held, countVars>>

Move(t) ==
  /\ Doing(t, {"move"}, "go")
  /\ Replied
  /\ robot' = TRUE
  /\ rmState' = "Moving"
  /\ Finish(t)
  /\ UNCHANGED <<rmFlow, unsure, clientVars, held, countVars>>

(* The state stays Moving when the robot was halted. *)
Ask(t) ==
  /\ Doing(t, {"halt", "read"}, "ask")
  /\ Replied
  /\ robot' = (robot /\ node[t].kind = "read")
  /\ Finish(t)
  /\ UNCHANGED <<rmState, rmFlow, unsure, clientVars, held, countVars>>

(* No reply, or the movement is refused.  The robot may have done what it  *)
(* was told all the same, and the state does not change.                   *)
RequestFails(t) ==
  /\ \/ /\ Doing(t, {"move"}, "halt") \/ Doing(t, {"halt"}, "ask")
        /\ robot' \in {robot, FALSE}
        /\ UNCHANGED unsure
     \/ /\ Doing(t, {"move"}, "set") \/ Doing(t, {"read"}, "ask")
        /\ UNCHANGED <<robot, unsure>>
     \/ /\ Doing(t, {"move"}, "go")
        /\ robot' \in {robot, TRUE}
        /\ unsure' = (unsure \/ robot')
  /\ GivesUp
  /\ Finish(t)
  /\ UNCHANGED <<rmState, rmFlow, line, clientVars, held, countVars>>

(* A notification is for the client that is connected now, if any: first   *)
(* the question whether there is one, under the lock ...                   *)
NotifyNobody(t) ==
  /\ Doing(t, {"notice"}, "begin")
  /\ cmState # "Connected" \/ cmFlow = NoFlow
  /\ Finish(t)
  /\ UNCHANGED <<rmState, rmFlow, line, rmHeld, robot, unsure, clientVars, held, countVars>>

NotifyClient(t) ==
  /\ Doing(t, {"notice"}, "begin")
  /\ cmState = "Connected" /\ cmFlow # NoFlow
  /\ Goto(t, "notify")
  /\ UNCHANGED <<rmState, rmFlow, line, rmHeld, robot, unsure, clientVars, held, countVars>>

(* ... then the Flow is read again, without it: it may be null by now, and *)
(* it may be closed before the notification is sent on it.                 *)
SecondLook(t) ==
  /\ Doing(t, {"notice"}, "notify")
  /\ target = NoFlow /\ cmFlow # NoFlow
  /\ target' = cmFlow
  /\ UNCHANGED <<cmState, cmFlow, acceptor, conn, link, jobVars, workerVars, held, countVars>>

SendNotification(t) ==
  /\ Doing(t, {"notice"}, "notify")
  /\ target \notin held \cup {NoFlow}
  /\ target' = NoFlow
  /\ Finish(t)
  /\ UNCHANGED <<cmState, cmFlow, acceptor, conn, link>>
  /\ UNCHANGED <<rmState, rmFlow, line, rmHeld, robot, unsure, held, countVars>>

NotificationFails(t) ==
  /\ Doing(t, {"notice"}, "notify")
  /\ target # NoFlow
  /\ target \in held \/ (SendsFail /\ link[target] \in {"down", "closed"})
  /\ held' = held \cup {target}
  /\ Goto(t, "stuck")
  /\ UNCHANGED <<rmState, rmFlow, line, rmHeld, robot, unsure, clientVars, countVars>>

NullFlow(t) ==
  /\ Doing(t, {"notice"}, "notify")
  /\ target = NoFlow /\ cmFlow = NoFlow
  /\ Throw(t)
  /\ at' = [at EXCEPT ![t] = "begin"]
  /\ UNCHANGED <<rmState, rmFlow, line, rmHeld, robot, unsure, clientVars, held, countVars>>

Work(t) ==
  \/ (Take(t) \/ End(t)) /\ UNCHANGED <<workerVars, clientVars, held, countVars>>
  \/ OpenRefused(t) \/ OpenPort(t) \/ Handshake(t) \/ CheckStatus(t) \/ OpenFails(t)
  \/ Close(t) \/ NotOnline(t) \/ BeginMove(t) \/ BeginAsk(t) \/ HaltFirst(t)
  \/ SetMovement(t) \/ Move(t) \/ Ask(t) \/ RequestFails(t) \/ GetStuck(t)
  \/ NotifyNobody(t) \/ NotifyClient(t) \/ SecondLook(t) \/ SendNotification(t)
  \/ NotificationFails(t) \/ NullFlow(t)

Next ==
  \/ Accept \/ AcceptFails \/ ClientConnects \/ StartFlow
  \/ RobotVanishes \/ Notify
  \/ \E c \in Client :
       \/ \E kind \in Kind : ClientRequest(c, kind)
       \/ ClientVanishes(c) \/ RetryFails(c) \/ onFlowClosed(c)
  \/ \E t \in Thread : Work(t)

(* The peers are not fair: they need not come, answer, or leave. *)
Spec ==
  /\ Init /\ [][Next]_vars
  /\ WF_vars(Accept) /\ WF_vars(StartFlow)
  /\ \A c \in Client : WF_vars(onFlowClosed(c))
  /\ \A t \in Thread : WF_vars(Work(t))

-----------------------------------------------------------------------------
(* The state says that there is a Flow exactly when there is one, so no    *)
(* job sends on a null Flow (internalMove and the others look at m_state   *)
(* and use m_flow).                                                        *)
FlowMatchesState ==
  /\ Online <=> rmFlow # NoFlow
  /\ rmState = "Opening" <=>
       \E t \in Thread : at[t] \in {"handshake", "status"} \/
                         (at[t] = "stuck" /\ node[t].kind = "open")
  /\ \A t \in Thread : at[t] \in {"halt", "set", "go", "ask"} => Online

(* What a client requests, and what closes its connection, touches no      *)
(* robot that was opened for another client: the connection left by one    *)
(* client is closed before the first job of the next (onFlowClosed,        *)
(* internalClose).                                                         *)
RobotOfItsClient ==
  \A t \in Thread :
    pc[t] = "run" /\ node[t].client # 0 /\ rmFlow # NoFlow => rmFlow = node[t].client

(* A robot that was told to move is known as moving, so that the next      *)
(* movement halts it first, unless a Move got no reply (internalMove).     *)
MovingIsKnown ==
  robot /\ Online => rmState = "Moving" \/ unsure

(* Nothing failed that the driver does not recover from. *)
Broken ==
  Dead \/ held # {} \/ \E t \in Thread : at[t] = "stuck"

(* The robot is released when its client is gone, however many jobs are in *)
(* the queue and wherever the client's thread stops, if nothing broke.     *)
GoneClientReleasesRobot ==
  []~Broken =>
    \A c \in Client : (link[c] \in {"down", "closed"}) ~> (rmFlow # c)

(* Every job that was queued begins (JobQueue.enqueue). *)
QueuedJobsBegin ==
  \A j \in Job :
    (\E i \in DOMAIN jobs : jobs[i] = j) ~> (\E t \in Thread : node[t] = j)
=============================================================================
