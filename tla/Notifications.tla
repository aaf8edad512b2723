---------------------------- MODULE Notifications ----------------------------
(***************************************************************************)
(* bot::firmware::NotificationSender over a Flow: the end of a movement is *)
(* announced by a request that is sent again each time no reply comes, a   *)
(* fixed number of times in all.  NotificationSender::onReply is the       *)
(* callback of every request here, so it decides whether a callback of     *)
(* Flow calls send again, in the thread and under the locks Flow runs it.  *)
(***************************************************************************)
EXTENDS Flow, FiniteSets

CONSTANTS
  Notifications,  \* the notifications UartManager::sendNotification makes
  Nobody,         \* no notification
  Tries           \* how often one is sent at most: 16 in the code

ASSUME NotificationAssumption ==
  /\ Nobody \notin Notifications
  /\ Tries \in Nat \ {0}
  /\ Resends

VARIABLES
  begun,      \* notifications whose NotificationSender was created
  remaining,  \* m_remaining
  told,       \* how often m_callback->onReply ran
  onBehalf,   \* the notification for which a thread has entered Flow::send
  owner       \* the notification a request was sent for

notifyVars == <<begun, remaining, told, onBehalf, owner>>
vars == <<flowVars, notifyVars>>

NotifyInit ==
  /\ Init
  /\ begun = {}
  /\ remaining = [s \in Notifications |-> Tries]
  /\ told = [s \in Notifications |-> 0]
  /\ onBehalf = [t \in Threads |-> Nobody]
  /\ owner = [n \in Id |-> Nobody]

-----------------------------------------------------------------------------
(* UartManager::sendNotification: a sender is created and sends. *)
Notify(c, s) ==
  /\ s \notin begun
  /\ Call(c)
  /\ begun' = begun \cup {s}
  /\ onBehalf' = [onBehalf EXCEPT ![c] = s]
  /\ UNCHANGED <<remaining, told, owner>>

Number(t) ==
  /\ Lock(t)
  /\ owner' = [owner EXCEPT ![lastId + 1] = onBehalf[t]]
  /\ onBehalf' = [onBehalf EXCEPT ![t] = Nobody]
  /\ UNCHANGED <<begun, remaining, told>>

SlipOneMore(s) == remaining[s] > 0

(* Is a notification without a reply sent again? *)
SendsAgain(s) == remaining[s] > 1

Answered(n) == verdict[n] = "reply"

(* NotificationSender::onReply for request n, run by thread t. *)
OnReply(t, n, resend) ==
  LET s == owner[n]
  IN  /\ resend = (~Answered(n) /\ SendsAgain(s))
      /\ onBehalf' = [onBehalf EXCEPT ![t] = IF resend THEN s ELSE Nobody]
      /\ IF Answered(n)
           THEN /\ told' = [told EXCEPT ![s] = @ + 1]
                /\ UNCHANGED remaining
           ELSE /\ remaining' = [remaining EXCEPT ![s] = IF @ > 0 THEN @ - 1 ELSE 0]
                /\ UNCHANGED told
      /\ UNCHANGED <<begun, owner>>

AnswerFailed(t, resend) ==
  FailedCallback(t, resend) /\ OnReply(t, sending[t], resend)

AnswerUnlinked(t, resend) ==
  Deliver(t, resend) /\ OnReply(t, Head(owed[t]), resend)

ThreadStep(t) ==
  \/ Number(t)
  \/ (Written(t) \/ NotWritten(t)) /\ UNCHANGED notifyVars
  \/ (\E d \in Timeouts : Insert(t, EffectiveTimeout(d))) /\ UNCHANGED notifyVars
  \/ \E resend \in BOOLEAN : AnswerFailed(t, resend) \/ AnswerUnlinked(t, resend)
  \/ Finish(t) /\ UNCHANGED notifyVars

NotifyNext ==
  \/ \E c \in Callers, s \in Notifications : Notify(c, s)
  \/ \E t \in Threads : ThreadStep(t)
  \/ Receive /\ UNCHANGED notifyVars
  \/ \E k \in Timers : TimeoutThread(k) /\ UNCHANGED notifyVars
  \/ Environment /\ UNCHANGED notifyVars

NotifySpec == NotifyInit /\ [][NotifyNext]_vars

(* As in Flow: ready threads run, and time passes. *)
NotifyFairSpec ==
  /\ NotifySpec
  /\ \A t \in Threads : WF_vars(ThreadStep(t))
  /\ \A k \in Timers : WF_vars(TimeoutThread(k) /\ UNCHANGED notifyVars)
  /\ WF_vars(OnChannelClosed /\ UNCHANGED notifyVars)
  /\ WF_vars(Tick /\ UNCHANGED notifyVars)

-----------------------------------------------------------------------------
Requests(s) == {n \in Id : owner[n] = s}
Outstanding(s) ==
  {n \in Requests(s) :
     \/ n \in ToSet(waiting)
     \/ \E t \in Threads : n = sending[t] \/ n \in ToSet(owed[t])}
AboutToSend(s) == {t \in Threads : onBehalf[t] = s}

(* m_remaining counts the sends left, whatever threads run the retries:    *)
(* sends done or begun and sends left add up to Tries.  In particular no   *)
(* notification is sent more than Tries times, and one whose attempts are  *)
(* used up was sent Tries times.                                           *)
RetryAccounting ==
  \A s \in begun :
    LET sent == Cardinality(Requests(s)) + Cardinality(AboutToSend(s))
    IN  IF remaining[s] = 0 THEN sent = Tries
                            ELSE sent = Tries - remaining[s] + 1

(* The Message object is shared by all attempts and renumbered by each     *)
(* (Flow::send calls setId), so an attempt must not start while the node    *)
(* of another, found by the id of that object, is in the list.             *)
OneAttemptAtATime ==
  \A s \in Notifications :
    Cardinality(Outstanding(s)) + Cardinality(AboutToSend(s)) <= 1

(* After the reply m_callback and m_flow are NULL: nothing of this         *)
(* notification may come later, a second reply or an attempt.              *)
SilentOnceTold ==
  \A s \in Notifications :
    /\ told[s] <= 1
    /\ told[s] = 1 => AboutToSend(s) = {} /\ Outstanding(s) = {}

(* A thread inside a callback that Flow::send runs with m_mutex held, back *)
(* at m_mutex->down().                                                     *)
StuckOnItself == \E t \in Threads : pc[t] = "lock" /\ mutex = t

Settled(s) == told[s] = 1 \/ remaining[s] = 0

(* Every notification is acknowledged or tried Tries times, unless a write *)
(* failure makes a thread deadlock with itself: lost messages, and retries *)
(* run by any of the threads, do not stop it.                              *)
EverySendSettles == \A s \in Notifications : s \in begun ~> Settled(s) \/ StuckOnItself
=============================================================================
