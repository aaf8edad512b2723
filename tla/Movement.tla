------------------------------ MODULE Movement ------------------------------
(***************************************************************************)
(* Movements of the robot, with the threads that meet in                   *)
(* bot::firmware::MovementManager:                                         *)
(*   - the receive thread of the channel, which runs the request handlers  *)
(*     of UartManager one after the other: they stage a movement, start    *)
(*     it, or halt the robot;                                              *)
(*   - the movement thread, MovementManager::run, which runs the           *)
(*     operations and has the UartManager notify how each of them ended;   *)
(*   - the threads of MagnetometerAdjuster, which measure the              *)
(*     magnetometer while an adjusting operation turns the robot.          *)
(* MovementManager::m_mutex guards only short sections in which a thread   *)
(* waits for nobody, so that each of these sections is a single step here. *)
(*                                                                         *)
(* A movement is named by the label its SetMovement request carries.       *)
(***************************************************************************)
EXTENDS Naturals, Sequences

CONSTANTS
  MaxOps,    \* SetMovement requests that are accepted (bounds the model)
  MaxCycles, \* cycles of steps in the longest loop (bounds the model)
  None,      \* NULL
  Halt       \* m_halt, the operation that stands for a halt

Op   == 1..MaxOps
Kind == {"walk", "turn", "adjust"}

ASSUME MovementAssumption ==
  /\ MaxOps \in Nat
  /\ MaxCycles \in Nat
  /\ None # Halt
  /\ {None, Halt} \cap Op = {}

VARIABLES
  kind,       \* which class of operation a label stands for
  lastOp,     \* SetMovement requests accepted so far
  operation,  \* UartManager: m_operation, the movement staged to be started
  adjustNext, \* UartManager: m_willAdjust, an adjustment is staged instead
  adjustId,   \* UartManager: m_adjustId, its label
  next,       \* m_nextOperation
  willAdjust, \* m_willAdjust of the MovementManager
  current,    \* m_currentOperation
  isAdjusting,\* m_isAdjusting
  pc,         \* where the movement thread is
  todo,       \* cycles the loop it is in has left
  ok,         \* its verdict on the movement that just ended
  adjuster,   \* the MagnetometerAdjuster started along with a movement
  held,       \* m_adjusterObject: the movement it was started with
  cut,        \* history: the current movement saw that it had to stop
  halted,     \* history: no movement was started by a request since a halt
  started,    \* history: the movements that began, in order
  told        \* history: the notifications handed to the UartManager

handed == <<kind, lastOp, operation, adjustNext, adjustId>>
posted == <<next, willAdjust>>
run    == <<current, isAdjusting, pc, todo, ok, adjuster, held, cut, started,
            told>>
vars   == <<handed, posted, run, halted>>

PC == {"wait", "align", "guard", "steps", "ended", "verify", "report", "advance"}

TypeOK ==
  /\ kind \in [Op -> Kind]
  /\ lastOp \in 0..MaxOps
  /\ operation \in Op \cup {None}
  /\ adjustId \in Op \cup {None}
  /\ next \in Op \cup {None, Halt}
  /\ current \in Op \cup {None}
  /\ {adjustNext, willAdjust, isAdjusting, ok, cut, halted} \subseteq BOOLEAN
  /\ pc \in PC
  /\ todo \in 0..MaxCycles
  /\ adjuster \in [Op -> {"off", "measuring", "stopping"}]
  /\ held \in Op \cup {None}
  /\ started \in Seq(Op)
  /\ told \in Seq([op : Op, how : {"finished", "aborted"}])

Init ==
  /\ kind = [n \in Op |-> "walk"]
  /\ lastOp = 0
  /\ operation = None
  /\ adjustNext = FALSE
  /\ adjustId = None
  /\ next = None
  /\ willAdjust = FALSE
  /\ current = None
  /\ isAdjusting = FALSE
  /\ pc = "wait"
  /\ todo = 0
  /\ ok = TRUE
  /\ adjuster = [n \in Op |-> "off"]
  /\ held = None
  /\ cut = FALSE
  /\ halted = FALSE
  /\ started = <<>>
  /\ told = <<>>

(* Definitions named Slip... are wrong variants of the definition after    *)
(* them, a mistake each that the properties below have to notice.          *)

-----------------------------------------------------------------------------
(* The receive thread: the request handlers of UartManager. *)

(* A request that names a known movement replaces what was staged; for an  *)
(* adjustment only its label is kept.  Any other leaves all as it was.     *)
OnSetMovementRequest(k) ==
  /\ lastOp < MaxOps
  /\ lastOp' = lastOp + 1
  /\ kind' = [kind EXCEPT ![lastOp + 1] = k]
  /\ IF k = "adjust"
     THEN operation' = None /\ adjustId' = lastOp + 1
     ELSE operation' = lastOp + 1 /\ UNCHANGED adjustId
  /\ adjustNext' = (k = "adjust")
  /\ UNCHANGED <<posted, run, halted>>

(* MovementManager::move and MovementManager::adjust. *)
SlipForgetToClear(op, adjusts) == next' = op /\ willAdjust' = (willAdjust \/ adjusts)
Post(op, adjusts) == next' = op /\ willAdjust' = adjusts

OnMoveRequest ==
  /\ \/ /\ adjustNext
        /\ Post(adjustId, TRUE)
        /\ adjustNext' = FALSE
        /\ UNCHANGED operation
     \/ /\ ~adjustNext
        /\ operation # None
        /\ Post(operation, FALSE)
        /\ operation' = None
        /\ UNCHANGED adjustNext
  /\ halted' = FALSE
  /\ UNCHANGED <<kind, lastOp, adjustId, run>>

(* Both halt requests and handshakes halt; what is staged stays staged. *)
SlipHaltIfRunning ==
  /\ IF current # None THEN Post(Halt, FALSE) ELSE UNCHANGED posted
  /\ halted' = TRUE
  /\ UNCHANGED <<handed, run>>

OnHaltRequest ==
  /\ Post(Halt, FALSE)
  /\ halted' = TRUE
  /\ UNCHANGED <<handed, run>>

-----------------------------------------------------------------------------
(* The movement thread. *)

At(from, to) == pc = from /\ pc' = to

ShouldStop == next # None

IsMoving == next # Halt /\ (current # None \/ next # None)

Unposted == UNCHANGED <<handed, posted, halted>>
Unended  == UNCHANGED <<current, isAdjusting, ok, adjuster, held, started, told>>

(* Where the run of an operation begins.  A WalkOperation may first have   *)
(* to turn; PunchOperation and its like start with their loop.             *)
Entry == [walk |-> "align", turn |-> "steps", adjust |-> "guard"]

(* The transition to the movement that is posted; a halt is dropped. *)
Begin ==
  /\ current' = next
  /\ isAdjusting' = willAdjust
  /\ willAdjust' = FALSE
  /\ next' = None
  /\ pc' = Entry[kind[next]]
  /\ \E cycles \in 0..MaxCycles : todo' = cycles
  /\ cut' = FALSE
  /\ started' = Append(started, next)
  /\ IF willAdjust THEN /\ adjuster' = [adjuster EXCEPT ![next] = "measuring"]
                        /\ held' = next
                   ELSE UNCHANGED <<adjuster, held>>

(* The thread wakes up, with no movement to run, and finds one posted. *)
WaitOver ==
  /\ pc = "wait"
  /\ IF next \in Op
     THEN Begin
     ELSE /\ next = Halt
          /\ next' = None
          /\ UNCHANGED <<willAdjust, current, isAdjusting, pc, todo, adjuster,
                         held, cut, started>>
  /\ UNCHANGED <<handed, halted, ok, told>>

(* Most loops count their cycles.  A rotation, the one before a walk or    *)
(* one asked for (a "turn", as are movements that count), goes on until    *)
(* the magnetometer reports the target angle: what is left of it after a   *)
(* cycle is whatever is read then, and it need not ever end.               *)
Rotates == pc = "align" \/ kind[current] = "turn"

Remaining == IF Rotates THEN 0..MaxCycles ELSE {todo - 1}

(* A cycle of steps is done, and the loop goes on... *)
SlipNeverLook ==
  /\ pc \in {"align", "steps"}
  /\ todo > 0
  /\ todo' \in Remaining
  /\ Unposted /\ Unended
  /\ UNCHANGED <<pc, cut>>

Cycle ==
  /\ pc \in {"align", "steps"}
  /\ todo > 0
  /\ ~ShouldStop
  /\ todo' \in Remaining
  /\ Unposted /\ Unended
  /\ UNCHANGED <<pc, cut>>

(* ... or its last cycle was the last one... *)
AfterLoop(from) ==
  \/ from = "align" /\ At("align", "guard")
  \/ from = "steps" /\ At("steps", "ended")

LoopOver(from) ==
  /\ AfterLoop(from)
  /\ todo = 0
  /\ Unposted /\ Unended
  /\ UNCHANGED <<todo, cut>>

(* ... or it breaks off, for something is posted.                          *)
SlipConsume(from) ==
  /\ AfterLoop(from)
  /\ todo > 0
  /\ ShouldStop
  /\ cut' = TRUE
  /\ next' = None
  /\ Unended
  /\ UNCHANGED <<handed, willAdjust, halted, todo>>

StopEarly(from) ==
  /\ AfterLoop(from)
  /\ todo > 0
  /\ ShouldStop
  /\ cut' = TRUE
  /\ Unposted /\ Unended
  /\ UNCHANGED todo

(* WalkOperation and AdjustOperation ask if the robot is (still) moving    *)
(* before their main loop.                                                 *)
Guard ==
  /\ \/ At("guard", "steps") /\ IsMoving /\ (\E cycles \in 0..MaxCycles : todo' = cycles)
                             /\ UNCHANGED cut
     \/ At("guard", "ended") /\ ~IsMoving /\ cut' = TRUE /\ UNCHANGED todo
  /\ Unposted /\ Unended

(* The operation has returned: its adjuster, if any, is told to stop and   *)
(* is not waited for (only for 10 ms).                                     *)
SlipJoin ==
  /\ At("ended", "verify")
  /\ ~isAdjusting
  /\ Unposted
  /\ UNCHANGED <<current, isAdjusting, todo, ok, adjuster, held, cut, started, told>>

SlipDropAdjuster ==
  /\ At("ended", "verify")
  /\ held' = None
  /\ Unposted
  /\ UNCHANGED <<current, isAdjusting, todo, ok, adjuster, cut, started, told>>

StopAdjuster ==
  /\ At("ended", "verify")
  /\ IF isAdjusting THEN /\ held # None
                         /\ adjuster' = [adjuster EXCEPT ![held] = "stopping"]
                         /\ held' = None
                    ELSE UNCHANGED <<adjuster, held>>
  /\ Unposted
  /\ UNCHANGED <<current, isAdjusting, todo, ok, cut, started, told>>

(* The verdict: what is posted by now aborted the movement. *)
Verify ==
  /\ At("verify", "report")
  /\ ok' = (next = None)
  /\ Unposted
  /\ UNCHANGED <<current, isAdjusting, todo, adjuster, held, cut, started, told>>

(* sendMovementFinishedNotification or sendMovementAbortedNotification. *)
Report ==
  /\ At("report", "advance")
  /\ told' = Append(told, [op |-> current, how |-> IF ok THEN "finished" ELSE "aborted"])
  /\ Unposted
  /\ UNCHANGED <<current, isAdjusting, todo, ok, adjuster, held, cut, started>>

(* On to the movement that is posted, if any. *)
SlipRunAgain ==
  /\ pc = "advance"
  /\ IF next \in Op
     THEN Begin
     ELSE /\ next' = None
          /\ pc' = Entry[kind[current]]
          /\ UNCHANGED <<willAdjust, current, isAdjusting, todo, adjuster, held,
                         cut, started>>
  /\ UNCHANGED <<handed, halted, ok, told>>

SlipTakeHalt ==
  /\ pc = "advance"
  /\ IF next \in Op
     THEN Begin
     ELSE /\ next' = None
          /\ current' = next
          /\ pc' = "wait"
          /\ UNCHANGED <<willAdjust, isAdjusting, todo, adjuster, held, cut, started>>
  /\ UNCHANGED <<handed, halted, ok, told>>

Advance ==
  /\ pc = "advance"
  /\ IF next \in Op
     THEN Begin
     ELSE /\ next' = None
          /\ current' = None
          /\ pc' = "wait"
          /\ UNCHANGED <<willAdjust, isAdjusting, todo, adjuster, held, cut, started>>
  /\ UNCHANGED <<handed, halted, ok, told>>

-----------------------------------------------------------------------------
(* An adjuster wakes up, finds it has to stop and corrects the             *)
(* magnetometer with what it measured.                                     *)
Correct(n) ==
  /\ adjuster[n] = "stopping"
  /\ adjuster' = [adjuster EXCEPT ![n] = "off"]
  /\ Unposted
  /\ UNCHANGED <<current, isAdjusting, pc, todo, ok, held, cut, started, told>>

Receive == (\E k \in Kind : OnSetMovementRequest(k)) \/ OnMoveRequest \/ OnHaltRequest

Mover ==
  \/ WaitOver
  \/ Cycle
  \/ \E from \in {"align", "steps"} : LoopOver(from) \/ StopEarly(from)
  \/ Guard
  \/ StopAdjuster
  \/ Verify
  \/ Report
  \/ Advance

Next == Receive \/ Mover \/ \E n \in Op : Correct(n)

Spec == Init /\ [][Next]_vars

(* The scheduler runs every thread that can run; no request need arrive. *)
FairSpec == Spec /\ WF_vars(Mover) /\ \A n \in Op : WF_vars(Correct(n))

-----------------------------------------------------------------------------
(* The movements notified so far, in order. *)
Notified == [i \in DOMAIN told |-> told[i].op]

Adjusting(n) ==
  n = current /\ kind[n] = "adjust" /\ pc \in {"guard", "steps", "ended"}

(* A movement that saw it had to stop is never reported as finished: what  *)
(* it saw posted (shouldStop, isMoving) is still there when run verifies.  *)
CutIsAborted ==
  /\ pc \in {"ended", "verify"} /\ cut => next # None
  /\ pc = "report" /\ cut => ~ok

(* Every movement that began is notified, once, in the order they began,   *)
(* before the next one begins: run never loses or repeats a notification.  *)
StartedIsToldOnce ==
  IF current = None \/ pc = "advance"
  THEN started = Notified
  ELSE started = Append(Notified, current)

(* An adjuster measures exactly while an adjusting movement runs, and it   *)
(* is the one m_adjusterObject can stop: the two m_willAdjust flags, of    *)
(* the UartManager and of the MovementManager, follow the operation they   *)
(* were set for, however many others replace it.                           *)
AdjusterPaired ==
  /\ \A n \in Op : adjuster[n] = "measuring" <=> Adjusting(n)
  /\ held = IF \E n \in Op : Adjusting(n) THEN current ELSE None

(* After a halt no movement begins until a request starts one: a halt also *)
(* cancels a movement that was posted and had not begun.                   *)
HaltCancels == [][started' # started => ~halted]_vars

(* A halted robot comes to rest, or is told to move again, even if it is   *)
(* in a rotation that would never end by itself (movements.cpp 692).       *)
HaltStops == halted ~> (current = None \/ ~halted)

(* The magnetometer lets rotations end: no loop runs for ever. *)
LoopsEnd == []<>(pc \notin {"align", "steps"} \/ todo = 0)

(* A movement that began is eventually notified, one way or the other,     *)
(* unless it is a rotation that never ends.                                *)
StartedIsTold ==
  LoopsEnd => \A n \in Op : (current = n) ~> (\E i \in DOMAIN told : told[i].op = n)

(* An adjuster that measures eventually corrects the magnetometer. *)
AdjusterEnds == \A n \in Op : (adjuster[n] = "measuring") ~> (adjuster[n] = "off")

(* What CheckStatus answers (isMoving): a robot said not to be moving is   *)
(* not moving its legs.                                                    *)
StillMeansStill == ~IsMoving => pc \notin {"align", "guard", "steps"}
=============================================================================
