-------------------------------- MODULE Flow --------------------------------
(***************************************************************************)
(* The request/reply layer of the firmware, protocol::Flow, with every     *)
(* thread that runs its code:                                              *)
(*   - the callers of Flow::send (the movement thread's notifications);    *)
(*   - the receive thread of the channel, which calls onMessage and        *)
(*     onChannelClosed;                                                    *)
(*   - the timeout threads, created by send when m_timeoutThread is NULL   *)
(*     and running Flow::receive until no request waits.                   *)
(* All of them run the callbacks of the requests they resolve, outside     *)
(* m_mutex except on the failure path of send, and a callback may itself   *)
(* call send (bot::firmware::NotificationSender does).                     *)
(*                                                                         *)
(* A request is named by the value of m_lastId it was given.  Absolute     *)
(* times are kept as the time left until they are reached, which is all    *)
(* the code's comparisons depend on; Tick is the passing of time.          *)
(***************************************************************************)
EXTENDS Naturals, Sequences, SequencesExt

CONSTANTS
  Callers,         \* threads that call Flow::send of their own accord
  Receiver,        \* the receive thread of the channel
  Timers,          \* identities for timeout threads (as many as MaxSends suffice)
  NoThread,        \* "nobody": free mutex, NULL m_timeoutThread
  MaxSends,        \* number of calls of send (bounds the model)
  IdSpace,         \* number of ids a header can carry: 2^16 in the code
  Timeouts,        \* the timeouts callers ask for
  MinimalTimeout,  \* m_minimalTimeout
  Resends,         \* may a callback call send again?
  WriteFailures,   \* may the stream accept less than a whole message?
  Closable         \* may the channel be closed?

Threads == Callers \cup {Receiver} \cup Timers
Id      == 1..MaxSends

ASSUME FlowAssumption ==
  /\ Receiver \notin Callers \cup Timers
  /\ Callers \cap Timers = {}
  /\ NoThread \notin Threads
  /\ MaxSends \in Nat
  /\ IdSpace \in Nat \ {0}
  /\ Timeouts \subseteq Nat
  /\ MinimalTimeout \in Nat \ {0}
  /\ {Resends, WriteFailures, Closable} \subseteq BOOLEAN

VARIABLES
  mutex,     \* who holds m_mutex
  waiting,   \* m_waitingReply, the linked list of requests without an answer
  left,      \* time left until absoluteTimeout, per request that waits (else 0)
  timer,     \* m_timeoutThread
  lastId,    \* m_lastId
  issued,    \* calls of send begun so far
  pc,        \* where each thread is
  sending,   \* the request a thread is sending
  owed,      \* requests a thread has unlinked and whose callback it must run
  nap,       \* Flow::receive: how long the thread will sleep (0: it will end)
  inflight,  \* requests whose reply may still arrive
  open,      \* the stream is open
  closed,    \* onChannelClosed has run
  verdict,   \* what the callback of a request is (to be) told
  calls      \* how often the callback of a request has run

flowVars == <<mutex, waiting, left, timer, lastId, issued, pc, sending, owed,
              nap, inflight, open, closed, verdict, calls>>

PC == {"idle", "lock", "write", "insert", "failed", "deliver", "check", "sleep"}

TypeOK ==
  /\ mutex \in Threads \cup {NoThread}
  /\ waiting \in Seq(Id)
  /\ left \in [Id -> Nat]
  /\ timer \in Timers \cup {NoThread}
  /\ lastId \in 0..MaxSends
  /\ issued \in 0..MaxSends
  /\ pc \in [Threads -> PC]
  /\ sending \in [Threads -> 0..MaxSends]
  /\ owed \in [Threads -> Seq(Id)]
  /\ nap \in [Timers -> Nat]
  /\ inflight \in SUBSET Id
  /\ open \in BOOLEAN
  /\ closed \in BOOLEAN
  /\ verdict \in [Id -> {"none", "reply", "error"}]
  /\ calls \in [Id -> Nat]

Init ==
  /\ mutex = NoThread
  /\ waiting = <<>>
  /\ left = [n \in Id |-> 0]
  /\ timer = NoThread
  /\ lastId = 0
  /\ issued = 0
  /\ pc = [t \in Threads |-> "idle"]
  /\ sending = [t \in Threads |-> 0]
  /\ owed = [t \in Threads |-> <<>>]
  /\ nap = [k \in Timers |-> 0]
  /\ inflight = {}
  /\ open = TRUE
  /\ closed = FALSE
  /\ verdict = [n \in Id |-> "none"]
  /\ calls = [n \in Id |-> 0]

(* Definitions named Slip... are wrong variants of the definition after     *)
(* them, a mistake each that the properties below have to notice.          *)

At(t, from, to) == pc[t] = from /\ pc' = [pc EXCEPT ![t] = to]

SlipStillLocked == UNCHANGED mutex
Unlock == mutex' = NoThread

(* The id a reply to request n carries: the header has a 16-bit field. *)
SlipPreviousId(n) == (n - 1) % IdSpace
WireId(n) == n % IdSpace

-----------------------------------------------------------------------------
(* Flow::send. *)

Call(c) ==
  /\ issued < MaxSends
  /\ issued' = issued + 1
  /\ At(c, "idle", "lock")
  /\ UNCHANGED <<mutex, waiting, left, timer, lastId, sending, owed, nap,
                 inflight, open, closed, verdict, calls>>

(* m_mutex->down(), then the request gets the next id. *)
Lock(t) ==
  /\ At(t, "lock", "write")
  /\ mutex = NoThread
  /\ lastId < MaxSends
  /\ mutex' = t
  /\ lastId' = lastId + 1
  /\ sending' = [sending EXCEPT ![t] = lastId + 1]
  /\ UNCHANGED <<waiting, left, timer, issued, owed, nap, inflight, open,
                 closed, verdict, calls>>

SlipUnlockThenInsert(t) ==
  /\ open
  /\ At(t, "write", "insert")
  /\ Unlock
  /\ inflight' = inflight \cup {sending[t]}
  /\ UNCHANGED <<waiting, left, timer, lastId, issued, sending, owed,
                 nap, open, closed, verdict, calls>>

(* m_channel->send returned true: from now on the peer may answer. *)
Written(t) ==
  /\ open
  /\ At(t, "write", "insert")
  /\ inflight' = inflight \cup {sending[t]}
  /\ UNCHANGED <<mutex, waiting, left, timer, lastId, issued, sending, owed,
                 nap, open, closed, verdict, calls>>

(* m_channel->send returned false: short write, or the stream is closed. *)
NotWritten(t) ==
  /\ WriteFailures \/ ~open
  /\ At(t, "write", "failed")
  /\ verdict' = [verdict EXCEPT ![sending[t]] = "error"]
  /\ UNCHANGED <<mutex, waiting, left, timer, lastId, issued, sending, owed,
                 nap, inflight, open, closed, calls>>

SlipSubtract(d) == d - MinimalTimeout
EffectiveTimeout(d) == IF d < MinimalTimeout THEN MinimalTimeout ELSE d

SlipAppend(p, d) == p = Len(waiting) + 1

(* p is the place of a node that expires in d: before the first node that  *)
(* expires later.                                                          *)
IsPlaceFor(p, d) ==
  /\ \A i \in 1..(p - 1) : left[waiting[i]] <= d
  /\ p <= Len(waiting) => left[waiting[p]] > d

(* The node goes into the list, a timeout thread is created if there is    *)
(* none, and m_mutex->up().                                                *)
Insert(t, d) ==
  /\ pc[t] = "insert"
  /\ left' = [left EXCEPT ![sending[t]] = d]
  /\ \E p \in 1..(Len(waiting) + 1) :
       /\ IsPlaceFor(p, d)
       /\ waiting' = InsertAt(waiting, p, sending[t])
  /\ IF timer = NoThread
       THEN \E k \in Timers :
              /\ pc[k] = "idle"
              /\ timer' = k
              /\ pc' = [pc EXCEPT ![t] = "deliver", ![k] = "check"]
       ELSE UNCHANGED timer /\ pc' = [pc EXCEPT ![t] = "deliver"]
  /\ Unlock
  /\ sending' = [sending EXCEPT ![t] = 0]
  /\ UNCHANGED <<lastId, issued, owed, nap, inflight, open, closed, verdict,
                 calls>>

(* callback->onReply(message, NULL, 1) with m_mutex still held; it may     *)
(* call send, otherwise it returns and m_mutex->up().                      *)
FailedCallback(t, resend) ==
  /\ pc[t] = "failed"
  /\ calls' = [calls EXCEPT ![sending[t]] = @ + 1]
  /\ sending' = [sending EXCEPT ![t] = 0]
  /\ IF resend
       THEN /\ Resends /\ issued < MaxSends
            /\ issued' = issued + 1
            /\ pc' = [pc EXCEPT ![t] = "lock"]
            /\ UNCHANGED mutex
       ELSE /\ pc' = [pc EXCEPT ![t] = "deliver"]
            /\ Unlock
            /\ UNCHANGED issued
  /\ UNCHANGED <<waiting, left, timer, lastId, owed, nap, inflight, open,
                 closed, verdict>>

-----------------------------------------------------------------------------
(* Callbacks run outside m_mutex, in the order of the unlinked nodes. *)
Deliver(t, resend) ==
  /\ pc[t] = "deliver"
  /\ owed[t] # <<>>
  /\ calls' = [calls EXCEPT ![Head(owed[t])] = @ + 1]
  /\ owed' = [owed EXCEPT ![t] = Tail(@)]
  /\ IF resend
       THEN /\ Resends /\ issued < MaxSends
            /\ issued' = issued + 1
            /\ pc' = [pc EXCEPT ![t] = "lock"]
       ELSE UNCHANGED <<issued, pc>>
  /\ UNCHANGED <<mutex, waiting, left, timer, lastId, sending, nap, inflight,
                 open, closed, verdict>>

(* No callback is left: a timeout thread sleeps or ends, the others return. *)
Finish(t) ==
  /\ owed[t] = <<>>
  /\ \/ At(t, "deliver", "idle") /\ (t \in Timers => nap[t] = 0)
     \/ At(t, "deliver", "sleep") /\ t \in Timers /\ nap[t] > 0
  /\ UNCHANGED <<mutex, waiting, left, timer, lastId, issued, sending, owed,
                 nap, inflight, open, closed, verdict, calls>>

-----------------------------------------------------------------------------
(* The receive thread. *)

SlipKeepLinked(i) == waiting

(* The list without its i-th node. *)
Unlinked(i) == RemoveAt(waiting, i)

(* onMessage with the reply to request n: the first node whose id equals   *)
(* the 16-bit id of the message is unlinked; without one the reply is      *)
(* dropped.  It does not look at the stream, which may have been closed    *)
(* since the message was read (see Close).                                 *)
ReceiveReply(n) ==
  /\ ~closed
  /\ pc[Receiver] = "idle"
  /\ mutex = NoThread
  /\ n \in inflight
  /\ inflight' = inflight \ {n}
  /\ \/ \E i \in 1..Len(waiting) :
          /\ waiting[i] = WireId(n)
          /\ waiting' = Unlinked(i)
          /\ owed' = [owed EXCEPT ![Receiver] = <<waiting[i]>>]
          /\ verdict' = [verdict EXCEPT ![waiting[i]] = "reply"]
          /\ left' = [left EXCEPT ![waiting[i]] = 0]
          /\ pc' = [pc EXCEPT ![Receiver] = "deliver"]
     \/ /\ \A i \in 1..Len(waiting) : waiting[i] # WireId(n)
        /\ UNCHANGED <<waiting, owed, verdict, left, pc>>
  /\ UNCHANGED <<mutex, timer, lastId, issued, sending, nap, open,
                 closed, calls>>

(* onChannelClosed, once, when Channel::receive leaves its loop. *)
OnChannelClosed ==
  /\ ~open /\ ~closed
  /\ At(Receiver, "idle", "deliver")
  /\ mutex = NoThread
  /\ closed' = TRUE
  /\ owed' = [owed EXCEPT ![Receiver] = waiting]
  /\ verdict' = [n \in Id |-> IF n \in ToSet(waiting) THEN "error" ELSE verdict[n]]
  /\ waiting' = <<>>
  /\ left' = [n \in Id |-> 0]
  /\ UNCHANGED <<mutex, timer, lastId, issued, sending, nap, inflight,
                 open, calls>>

-----------------------------------------------------------------------------
(* The timeout thread, Flow::receive. *)

SlipExpiresSoon(e) ==
  /\ \A i \in 1..e : left[waiting[i]] <= 1
  /\ e < Len(waiting) => left[waiting[e + 1]] > 1

(* The first e nodes are the ones that have expired. *)
IsExpiredPrefix(e) ==
  /\ \A i \in 1..e : left[waiting[i]] = 0
  /\ e < Len(waiting) => left[waiting[e + 1]] > 0

SlipDropLast(e) == SubSeq(waiting, 1, IF e = 0 THEN 0 ELSE e - 1)
Expired(e) == SubSeq(waiting, 1, e)

SlipKeepTimer(e)   == timer
SlipForgetTimer(e) == NoThread

SlipKeepExpired(e) == waiting
Beyond(e) == SubSeq(waiting, e + 1, Len(waiting))

(* m_timeoutThread after a pass that unlinked e nodes. *)
TimerAfter(e) == IF e = Len(waiting) THEN NoThread ELSE timer

(* One locked pass: unlink what has expired; if nothing waits any longer   *)
(* m_timeoutThread = NULL and the thread will end, otherwise it will sleep *)
(* until the new head expires.                                             *)
Check(k) ==
  /\ mutex = NoThread
  /\ At(k, "check", "deliver")
  /\ \E e \in 0..Len(waiting) :
       /\ IsExpiredPrefix(e)
       /\ owed' = [owed EXCEPT ![k] = Expired(e)]
       /\ waiting' = Beyond(e)
       /\ verdict' = [n \in Id |-> IF n \in ToSet(Expired(e))
                                     THEN "error" ELSE verdict[n]]
       /\ timer' = TimerAfter(e)
       /\ nap' = [nap EXCEPT ![k] = IF e = Len(waiting) THEN 0
                                    ELSE left[waiting[e + 1]]]
  /\ UNCHANGED <<mutex, left, lastId, issued, sending, inflight, open, closed,
                 calls>>

Wake(k) ==
  /\ nap[k] = 0
  /\ At(k, "sleep", "check")
  /\ UNCHANGED <<mutex, waiting, left, timer, lastId, issued, sending, owed,
                 nap, inflight, open, closed, verdict, calls>>

-----------------------------------------------------------------------------
(* The environment.  A request or a reply the radio link loses is one that *)
(* stays in inflight: nothing makes ReceiveReply happen.                   *)

(* The stream is closed: Flow::stop, or a failed read.  The receive loop   *)
(* looks at the stream between two messages, so that one reply it has in   *)
(* hand may still reach onMessage.                                         *)
Close ==
  /\ Closable /\ open
  /\ open' = FALSE
  /\ \/ inflight' = {}
     \/ \E n \in inflight : pc[Receiver] = "idle" /\ inflight' = {n}
  /\ UNCHANGED <<mutex, waiting, left, timer, lastId, issued, pc, sending,
                 owed, nap, closed, verdict, calls>>

Sleeping == {k \in Timers : pc[k] = "sleep"}

Tick ==
  /\ \/ \E i \in 1..Len(waiting) : left[waiting[i]] > 0
     \/ \E k \in Sleeping : nap[k] > 0
  /\ left' = [n \in Id |-> IF left[n] = 0 THEN 0 ELSE left[n] - 1]
  /\ nap' = [k \in Timers |-> IF k \in Sleeping /\ nap[k] > 0
                                THEN nap[k] - 1 ELSE nap[k]]
  /\ UNCHANGED <<mutex, waiting, timer, lastId, issued, pc, sending, owed,
                 inflight, open, closed, verdict, calls>>

-----------------------------------------------------------------------------
Send(t) ==
  \/ Lock(t)
  \/ Written(t)
  \/ NotWritten(t)
  \/ \E d \in Timeouts : Insert(t, EffectiveTimeout(d))

Callback(t) ==
  \E resend \in BOOLEAN : FailedCallback(t, resend) \/ Deliver(t, resend)

Receive == (\E n \in Id : ReceiveReply(n)) \/ OnChannelClosed

TimeoutThread(k) == Check(k) \/ Wake(k)

Environment == Close \/ Tick

Next ==
  \/ \E c \in Callers : Call(c)
  \/ \E t \in Threads : Send(t) \/ Callback(t) \/ Finish(t)
  \/ Receive
  \/ \E k \in Timers : TimeoutThread(k)
  \/ Environment

Spec == Init /\ [][Next]_flowVars

(* Every ready thread is eventually scheduled, and time passes. *)
Fairness ==
  /\ \A t \in Threads : WF_flowVars(Send(t) \/ Callback(t) \/ Finish(t))
  /\ \A k \in Timers : WF_flowVars(TimeoutThread(k))
  /\ WF_flowVars(OnChannelClosed)
  /\ WF_flowVars(Tick)

FairSpec == Spec /\ Fairness
-----------------------------------------------------------------------------
(* Properties. *)

(* No request is answered twice, however a reply, its timeout, the closing *)
(* of the channel and a failed write race for it (Flow.cpp 136, 216, 254,  *)
(* 302 all run callbacks).                                                 *)
AtMostOnce == \A n \in Id : calls[n] <= 1

(* No request is forgotten: until its callback has run, a request is being *)
(* sent, waits in the list, or is owed by the thread that unlinked it.     *)
NeverForgotten ==
  \A n \in 1..lastId :
    \/ calls[n] > 0
    \/ n \in ToSet(waiting)
    \/ \E t \in Threads : n = sending[t] \/ n \in ToSet(owed[t])

(* Where a request may be, the invariant behind AtMostOnce and             *)
(* NeverForgotten: only the holder of the mutex is sending one, the list   *)
(* and the unlinked chains never share a node, and a request that is in    *)
(* any of these places has not had its callback.                           *)
Working(t) == pc[t] \in {"write", "insert", "failed"}

SenderCustody(t) ==
  /\ Working(t) =>
       /\ mutex = t /\ sending[t] \in 1..lastId
       /\ sending[t] \notin ToSet(waiting)
       /\ calls[sending[t]] = 0
       /\ verdict[sending[t]] = "none" <=> pc[t] # "failed"
  /\ ~Working(t) => sending[t] = 0
  /\ pc[t] \in {"idle", "check", "sleep"} => owed[t] = <<>>

ListCustody ==
  /\ IsInjective(waiting)
  /\ \A n \in ToSet(waiting) : n <= lastId /\ verdict[n] = "none" /\ calls[n] = 0

ChainCustody(t) ==
  /\ IsInjective(owed[t])
  /\ \A n \in ToSet(owed[t]) :
       /\ n <= lastId /\ verdict[n] # "none" /\ calls[n] = 0
       /\ \A u \in Threads : sending[u] # n /\ (n \in ToSet(owed[u]) => u = t)

OtherCustody ==
  \A n \in Id :
    /\ n > lastId => verdict[n] = "none" /\ calls[n] = 0
    /\ calls[n] > 0 => verdict[n] # "none"

Custody ==
  /\ \A t \in Threads : SenderCustody(t) /\ ChainCustody(t)
  /\ ListCustody
  /\ OtherCustody

(* The list is sorted by expiry although threads insert into and unlink    *)
(* from it concurrently; the timeout thread only looks at its head.        *)
DeadlineOrder ==
  \A i, j \in 1..Len(waiting) : i < j => left[waiting[i]] <= left[waiting[j]]

(* While a request waits, m_timeoutThread is a thread that will look at    *)
(* the list again: send must not trust a thread that has decided to end.   *)
TimerPresent ==
  waiting # <<>> =>
    /\ timer \in Timers
    /\ nap[timer] > 0 \/ pc[timer] \in {"check", "sleep"}

(* Only m_timeoutThread looks at the list again: older timeout threads     *)
(* finish their callbacks and end.                                         *)
OneTimer ==
  \A k \in Timers :
    nap[k] > 0 \/ pc[k] \in {"check", "sleep"} => timer = k

(* When onMessage gets the mutex, a reply that can arrive finds its        *)
(* request in the list unless the request was resolved before: the peer    *)
(* may answer before send has inserted the node.                           *)
RegisteredBeforeReply ==
  mutex = NoThread =>
    \A n \in inflight : verdict[n] = "none" => n \in ToSet(waiting)

(* A reply is given to the request it answers, and to no other. *)
ReplyReachesItsRequest ==
  [][\A n \in Id :
       ReceiveReply(n) =>
         /\ n \in ToSet(waiting) => verdict'[n] = "reply"
         /\ \A m \in Id \ {n} : verdict'[m] = verdict[m]]_flowVars

(* A request is told "no answer" by a timeout thread only after its        *)
(* timeout has passed, unless the message could not be written or the      *)
(* channel was closed.                                                     *)
NoEarlyTimeout ==
  [][\A n \in Id :
       verdict[n] = "none" /\ verdict'[n] = "error" =>
         \/ left[n] = 0 /\ n \in ToSet(waiting)
         \/ ~closed /\ closed'
         \/ \E t \in Threads : pc'[t] = "failed" /\ sending[t] = n]_flowVars

(* send fires the callback when the message is not sent ("nao enviou,      *)
(* entao dispara callback", Flow.cpp 134): a call of send that was begun   *)
(* gets its id and goes on.                                                *)
SendProceeds == \A t \in Threads : pc[t] = "lock" ~> pc[t] # "lock"

(* The refinement: what the callers of Flow know of their requests. *)
Known ==
  [n \in Id |-> IF n > lastId THEN "new"
                ELSE IF calls[n] = 0 THEN "pending" ELSE verdict[n]]

Promise == INSTANCE RequestReply WITH status <- Known

ImplementsPromise == Promise!Spec
ImplementsFairPromise == Promise!FairSpec
=============================================================================
