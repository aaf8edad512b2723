------------------------- MODULE NotificationProofs -------------------------
(***************************************************************************)
(* Proofs about Notifications: what NotificationSender promises of its     *)
(* attempts, on top of what FlowProofs shows of the Flow they go through.  *)
(* A request is open from its number until its callback; a notification    *)
(* lives in one open request, or in one thread about to send for it, or    *)
(* not at all.                                                             *)
(***************************************************************************)
EXTENDS Notifications, FlowProofs, FiniteSetTheorems

(* Every step of the composition is a step of the Flow or none.            *)
LEMMA StepOfFlow == [NotifyNext]_vars => [Next]_flowVars
BY DEF NotifyNext, Notify, ThreadStep, Number, AnswerFailed, AnswerUnlinked,
       vars, Next, Send, Callback

(* What holds of the Flow by itself holds of it below NotificationSender:  *)
(* sending again from a callback, in the thread and under the locks of the *)
(* Flow, is among the steps Flow allows.                                   *)
THEOREM NotificationsUseFlow == NotifySpec => Spec
<1>1. NotifyInit => Init
  BY DEF NotifyInit
<1> QED
  BY <1>1, StepOfFlow, PTL DEF NotifySpec, Spec

LEMMA FlowInvariance == NotifySpec => []IInv
  BY NotificationsUseFlow, Invariance, PTL
-----------------------------------------------------------------------------
(* The inductive invariant.                                                *)

NotifyTypes ==
  /\ begun \subseteq Notifications
  /\ remaining \in [Notifications -> 0..Tries]
  /\ told \in [Notifications -> Nat]
  /\ onBehalf \in [Threads -> begun \cup {Nobody}]
  /\ owner \in [Id -> begun \cup {Nobody}]

(* A request has an owner from the moment it has its number, and a thread  *)
(* that has entered send acts for somebody until then.                     *)
Attribution ==
  /\ \A n \in Id : owner[n] = Nobody <=> n > lastId
  /\ \A t \in Threads : onBehalf[t] = Nobody <=> pc[t] # "lock"

Open(s) == {n \in Id : owner[n] = s /\ calls[n] = 0}

OneLife(s) ==
  /\ \A t, u \in AboutToSend(s) : t = u
  /\ \A m, n \in Open(s) : m = n
  /\ AboutToSend(s) = {} \/ Open(s) = {}

Over(s) == AboutToSend(s) = {} /\ Open(s) = {}

Lives ==
  \A s \in Notifications :
    /\ OneLife(s)
    /\ told[s] <= 1 /\ (told[s] = 1 => Over(s))
    /\ s \notin begun => remaining[s] = Tries /\ told[s] = 0

NInv == NotifyTypes /\ Attribution /\ Lives /\ RetryAccounting

(* An open request is what the properties call outstanding: by Custody and *)
(* NeverForgotten a request without its callback is held somewhere, and    *)
(* what is held has not had its callback.                                  *)
LEMMA OutstandingIsOpen ==
  ASSUME IInv, NInv, NEW s \in Notifications
  PROVE  Outstanding(s) = Open(s)
<1> USE FlowAssumption, NotificationAssumption
<1>1. ASSUME NEW n \in Id, owner[n] = s
      PROVE  calls[n] = 0 <=> \/ n \in ToSet(waiting)
                              \/ \E t \in Threads : n = sending[t] \/ n \in ToSet(owed[t])
  <2>1. n \in 1..lastId
    BY <1>1 DEF NInv, Attribution, IInv, TypeOK, Id
  <2>2. calls[n] \in Nat
    BY DEF IInv, TypeOK
  <2>3. ASSUME calls[n] # 0
        PROVE  n \notin ToSet(waiting) /\ \A t \in Threads : n # sending[t] /\ n \notin ToSet(owed[t])
    BY <2>1, <2>3 DEF IInv, Custody, ListCustody, SenderCustody, ChainCustody, Id
  <2>4. calls[n] = 0 => \/ n \in ToSet(waiting)
                        \/ \E t \in Threads : n = sending[t] \/ n \in ToSet(owed[t])
    BY <2>1, <2>2 DEF IInv, NeverForgotten
  <2> QED
    BY <2>3, <2>4
<1> QED
  BY <1>1 DEF Outstanding, Requests, Open
-----------------------------------------------------------------------------
LEMMA NotifyInitially == NotifyInit => NInv
<1> USE FlowAssumption, NotificationAssumption
<1> SUFFICES ASSUME NotifyInit PROVE NInv
  OBVIOUS
<1>1. NotifyTypes /\ Attribution
  BY DEF NotifyInit, Init, NotifyTypes, Attribution, Id
<1>2. ASSUME NEW s \in Notifications PROVE AboutToSend(s) = {} /\ Open(s) = {} /\ told[s] = 0 /\ remaining[s] = Tries
  BY DEF NotifyInit, AboutToSend, Open
<1>3. Lives
  BY <1>2 DEF Lives, OneLife, NotifyInit
<1>4. RetryAccounting
  BY DEF RetryAccounting, NotifyInit
<1> QED
  BY <1>1, <1>3, <1>4 DEF NInv

LEMMA RequestsFinite ==
  ASSUME NEW s
  PROVE  IsFiniteSet(Requests(s)) /\ Cardinality(Requests(s)) \in Nat
<1>1. IsFiniteSet(Id)
  BY FlowAssumption, FS_Interval DEF Id
<1>2. Requests(s) \in SUBSET Id
  BY DEF Requests
<1> QED
  BY <1>1, <1>2, FS_Subset, FS_CardinalityType

(* How often a notification was sent, or is about to be.                   *)
Sent(s) == Cardinality(Requests(s)) + Cardinality(AboutToSend(s))

LEMMA SentCounts ==
  ASSUME NInv, NEW s \in Notifications
  PROVE  \/ AboutToSend(s) = {} /\ Cardinality(AboutToSend(s)) = 0
         \/ Cardinality(AboutToSend(s)) = 1 /\ \E t \in Threads : AboutToSend(s) = {t}
<1>1. AboutToSend(s) = {} \/ \E t \in Threads : AboutToSend(s) = {t}
  BY DEF NInv, Lives, OneLife, AboutToSend
<1> QED
  BY <1>1, FS_EmptySet, FS_Singleton

(* A step of the Flow in which no thread enters or leaves send, no request *)
(* is numbered and no callback runs.                                       *)
LEMMA QuietStep ==
  ASSUME IInv, NInv, UNCHANGED notifyVars, UNCHANGED <<lastId, calls>>,
         \A t \in Threads : pc'[t] = "lock" <=> pc[t] = "lock"
  PROVE  NInv'
<1>1. UNCHANGED <<begun, remaining, told, onBehalf, owner>>
  BY DEF notifyVars
<1>2. NotifyTypes' /\ Attribution'
  BY <1>1 DEF NInv, NotifyTypes, Attribution
<1>3. ASSUME NEW s
      PROVE  AboutToSend(s)' = AboutToSend(s) /\ Open(s)' = Open(s) /\ Requests(s)' = Requests(s)
  BY <1>1 DEF AboutToSend, Open, Requests
<1>4. Lives'
  BY <1>1, <1>3 DEF NInv, Lives, OneLife, Over
<1>5. RetryAccounting'
  BY <1>1, <1>3 DEF NInv, RetryAccounting
<1> QED
  BY <1>2, <1>4, <1>5 DEF NInv

LEMMA NotifyPreserves ==
  ASSUME IInv, NInv, NEW c \in Callers, NEW s \in Notifications, Notify(c, s)
  PROVE  NInv'
<1> USE FlowAssumption, NotificationAssumption
<1>1. /\ c \in Threads /\ pc[c] = "idle" /\ pc' = [pc EXCEPT ![c] = "lock"]
      /\ s \notin begun /\ begun' = begun \cup {s} /\ onBehalf' = [onBehalf EXCEPT ![c] = s]
      /\ UNCHANGED <<remaining, told, owner, lastId, calls>>
  BY DEF Notify, Call, At, Threads
<1>2. /\ onBehalf \in [Threads -> begun \cup {Nobody}] /\ owner \in [Id -> begun \cup {Nobody}]
      /\ begun \subseteq Notifications /\ s # Nobody
  BY DEF NInv, NotifyTypes
<1>3. NotifyTypes'
  BY <1>1, <1>2 DEF NInv, NotifyTypes
<1>4. Attribution'
  BY <1>1, <1>2 DEF NInv, Attribution, IInv, TypeOK
<1>5. AboutToSend(s) = {} /\ Open(s) = {} /\ Requests(s) = {}
  BY <1>1, <1>2 DEF AboutToSend, Open, Requests
<1>6. AboutToSend(s)' = {c} /\ Open(s)' = {} /\ Requests(s)' = {}
  BY <1>1, <1>2, <1>5 DEF AboutToSend, Open, Requests
<1>7. ASSUME NEW r \in Notifications, r # s
      PROVE  AboutToSend(r)' = AboutToSend(r) /\ Open(r)' = Open(r) /\ Requests(r)' = Requests(r)
  <2>1. onBehalf[c] = Nobody
    BY <1>1 DEF NInv, Attribution
  <2> QED
    BY <1>1, <1>2, <1>7, <2>1 DEF AboutToSend, Open, Requests
<1>8. remaining[s] = Tries /\ told[s] = 0
  BY <1>1 DEF NInv, Lives
<1>9. Lives'
  BY <1>1, <1>6, <1>7, <1>8 DEF NInv, Lives, OneLife, Over
<1>10. RetryAccounting'
  <2>1. Cardinality({}) = 0 /\ Cardinality({c}) = 1
    BY FS_EmptySet, FS_Singleton
  <2>2. ASSUME NEW r \in begun, r # s
        PROVE  (Cardinality(Requests(r)) + Cardinality(AboutToSend(r)))'
                 = Cardinality(Requests(r)) + Cardinality(AboutToSend(r))
    BY <1>2, <1>7, <2>2
  <2>3. (Cardinality(Requests(s)) + Cardinality(AboutToSend(s)))' = Tries - remaining'[s] + 1 /\ remaining'[s] # 0
    BY <1>1, <1>6, <1>8, <2>1
  <2> QED
    BY <1>1, <2>2, <2>3 DEF NInv, RetryAccounting
<1> QED
  BY <1>3, <1>4, <1>9, <1>10 DEF NInv

LEMMA NumberPreserves ==
  ASSUME IInv, NInv, NEW t \in Threads, Number(t)
  PROVE  NInv'
<1> USE FlowAssumption, NotificationAssumption
<1>0. PICK s, m : s = onBehalf[t] /\ m = lastId + 1
  OBVIOUS
<1>1. /\ pc[t] = "lock" /\ pc' = [pc EXCEPT ![t] = "write"]
      /\ lastId' = m /\ owner' = [owner EXCEPT ![m] = s] /\ onBehalf' = [onBehalf EXCEPT ![t] = Nobody]
      /\ UNCHANGED <<begun, remaining, told, calls>>
  BY <1>0 DEF Number, Lock, At
<1>2. m \in Id /\ lastId \in Nat /\ calls[m] = 0
  BY <1>0 DEF Number, Lock, IInv, TypeOK, Id, Custody, OtherCustody
<1>3. /\ onBehalf \in [Threads -> begun \cup {Nobody}] /\ owner \in [Id -> begun \cup {Nobody}]
      /\ begun \subseteq Notifications /\ pc \in [Threads -> PC]
  BY DEF NInv, NotifyTypes, IInv, TypeOK
<1>4. s \in begun /\ s # Nobody /\ owner[m] = Nobody
  BY <1>0, <1>1, <1>2, <1>3 DEF NInv, Attribution, Id
<1>5. NotifyTypes'
  BY <1>1, <1>3, <1>4 DEF NInv, NotifyTypes
<1>6. Attribution'
  <2>1. \A n \in Id : n # m => (n > m <=> n > lastId)
    BY <1>0, <1>2 DEF Id
  <2>2. ASSUME NEW n \in Id PROVE owner'[n] = Nobody <=> n > lastId'
    <3>1. CASE n = m
      BY <1>1, <1>2, <1>3, <1>4, <3>1 DEF Id
    <3>2. CASE n # m
      BY <1>1, <1>2, <1>3, <2>1, <3>2 DEF NInv, Attribution
    <3> QED
      BY <3>1, <3>2
  <2>3. \A u \in Threads : onBehalf'[u] = Nobody <=> pc'[u] # "lock"
    BY <1>1, <1>3 DEF NInv, Attribution
  <2> QED
    BY <2>2, <2>3 DEF Attribution
<1>7. AboutToSend(s) = {t} /\ Open(s) = {}
  BY <1>0, <1>3, <1>4 DEF NInv, Lives, OneLife, AboutToSend
<1>8. /\ AboutToSend(s)' = {} /\ Open(s)' = {m}
      /\ Requests(s)' = Requests(s) \cup {m} /\ m \notin Requests(s)
  BY <1>1, <1>2, <1>3, <1>4, <1>7 DEF AboutToSend, Open, Requests
<1>9. ASSUME NEW r \in Notifications, r # s
      PROVE  AboutToSend(r)' = AboutToSend(r) /\ Open(r)' = Open(r) /\ Requests(r)' = Requests(r)
  BY <1>0, <1>1, <1>2, <1>3, <1>4, <1>9 DEF AboutToSend, Open, Requests
<1>10. told[s] # 1
  BY <1>3, <1>4, <1>7 DEF NInv, Lives, Over
<1>11. Lives'
  <2>1. OneLife(s)'
    BY <1>8 DEF OneLife
  <2> QED
    BY <1>1, <1>3, <1>4, <1>9, <1>10, <2>1 DEF NInv, Lives, OneLife, Over
<1>12. RetryAccounting'
  <2>1. Sent(s)' = Sent(s)
    <3>1. Cardinality(Requests(s) \cup {m}) = Cardinality(Requests(s)) + 1
      BY <1>8, RequestsFinite, FS_AddElement
    <3>2. Cardinality({}) = 0 /\ Cardinality({t}) = 1
      BY FS_EmptySet, FS_Singleton
    <3> QED
      BY <1>7, <1>8, <3>1, <3>2, RequestsFinite DEF Sent
  <2>2. ASSUME NEW r \in begun PROVE Sent(r)' = Sent(r)
    <3>1. CASE r # s
      BY <1>3, <1>9, <3>1 DEF Sent
    <3> QED
      BY <2>1, <3>1
  <2> QED
    BY <1>1, <2>2 DEF NInv, RetryAccounting, Sent
<1> QED
  BY <1>5, <1>6, <1>11, <1>12 DEF NInv

(* NotificationSender::onReply ends the request the notification lives in: *)
(* the notification is told, lives on in the thread that sends it again,   *)
(* or ends.                                                                *)
LEMMA OnReplyPreserves ==
  ASSUME IInv, NInv, NEW t \in Threads, NEW n \in Id, NEW resend \in BOOLEAN,
         n <= lastId, calls[n] = 0, pc[t] # "lock", OnReply(t, n, resend),
         calls' = [calls EXCEPT ![n] = @ + 1], lastId' = lastId,
         \A u \in Threads : pc'[u] = "lock" <=> IF u = t THEN resend ELSE pc[u] = "lock"
  PROVE  NInv'
<1> USE FlowAssumption, NotificationAssumption
<1>0. PICK s : s = owner[n]
  OBVIOUS
<1>1. /\ resend = (~Answered(n) /\ SendsAgain(s))
      /\ onBehalf' = [onBehalf EXCEPT ![t] = IF resend THEN s ELSE Nobody]
      /\ UNCHANGED <<begun, owner>>
  BY <1>0 DEF OnReply
<1>2. /\ onBehalf \in [Threads -> begun \cup {Nobody}] /\ owner \in [Id -> begun \cup {Nobody}]
      /\ begun \subseteq Notifications /\ calls \in [Id -> Nat] /\ lastId \in Nat
      /\ remaining \in [Notifications -> 0..Tries] /\ told \in [Notifications -> Nat]
  BY DEF NInv, NotifyTypes, IInv, TypeOK
<1>3. s \in begun /\ s \in Notifications /\ s # Nobody /\ onBehalf[t] = Nobody
  BY <1>0, <1>2 DEF NInv, Attribution, Id
<1>4. /\ Answered(n)  => told' = [told EXCEPT ![s] = @ + 1] /\ remaining' = remaining
      /\ ~Answered(n) => remaining' = [remaining EXCEPT ![s] = IF @ > 0 THEN @ - 1 ELSE 0] /\ told' = told
  BY <1>0 DEF OnReply
<1>5. Open(s) = {n} /\ AboutToSend(s) = {}
  BY <1>0, <1>3 DEF NInv, Lives, OneLife, Open
<1>6. told[s] = 0
  BY <1>2, <1>3, <1>5 DEF NInv, Lives, Over
<1>7. /\ Open(s)' = {} /\ Requests(s)' = Requests(s)
      /\ AboutToSend(s)' = IF resend THEN {t} ELSE {}
  BY <1>1, <1>2, <1>3, <1>5 DEF Open, Requests, AboutToSend
<1>8. ASSUME NEW r \in Notifications, r # s
      PROVE  /\ AboutToSend(r)' = AboutToSend(r) /\ Open(r)' = Open(r) /\ Requests(r)' = Requests(r)
             /\ told'[r] = told[r] /\ remaining'[r] = remaining[r]
  <2>1. AboutToSend(r)' = AboutToSend(r)
    BY <1>1, <1>2, <1>3, <1>8 DEF AboutToSend
  <2>2. Open(r)' = Open(r) /\ Requests(r)' = Requests(r)
    BY <1>0, <1>1, <1>2, <1>8 DEF Open, Requests
  <2>3. told'[r] = told[r] /\ remaining'[r] = remaining[r]
    BY <1>2, <1>4, <1>8
  <2> QED
    BY <2>1, <2>2, <2>3
<1>9. /\ Answered(n)  => ~resend /\ remaining'[s] = remaining[s] /\ told'[s] = 1
      /\ ~Answered(n) => /\ resend <=> remaining[s] > 1
                         /\ remaining'[s] = IF remaining[s] > 0 THEN remaining[s] - 1 ELSE 0
                         /\ told'[s] = 0
      /\ remaining[s] \in 0..Tries
  <2>1. /\ Answered(n) => ~resend
        /\ ~Answered(n) => (resend <=> SendsAgain(s))
    BY <1>0, <1>1, Zenon
  <2>2. SendsAgain(s) <=> remaining[s] > 1
    BY DEF SendsAgain
  <2>3. Answered(n) => remaining'[s] = remaining[s] /\ told'[s] = 1
    BY <1>2, <1>3, <1>4, <1>6
  <2>4. ~Answered(n) => /\ remaining'[s] = IF remaining[s] > 0 THEN remaining[s] - 1 ELSE 0
                        /\ told'[s] = 0
    BY <1>2, <1>3, <1>4, <1>6
  <2> QED
    BY <1>2, <1>3, <2>1, <2>2, <2>3, <2>4
<1>10. NotifyTypes'
  <2>1. remaining' \in [Notifications -> 0..Tries] /\ told' \in [Notifications -> Nat]
    <3>1. remaining'[s] \in 0..Tries /\ told'[s] \in Nat
      BY <1>9
    <3> QED
      BY <1>2, <1>3, <1>4, <3>1
  <2> QED
    BY <1>1, <1>2, <1>3, <2>1 DEF NotifyTypes
<1>11. Attribution'
  BY <1>1, <1>2, <1>3 DEF NInv, Attribution
<1>12. Lives'
  <2>1. OneLife(s)' /\ (told'[s] = 1 => Over(s)')
    BY <1>7, <1>9 DEF OneLife, Over
  <2> QED
    BY <1>1, <1>3, <1>8, <1>9, <2>1 DEF NInv, Lives, OneLife, Over
<1>13. RetryAccounting'
  <2>1. Cardinality({}) = 0 /\ Cardinality({t}) = 1
    BY FS_EmptySet, FS_Singleton
  <2>2. Sent(s) \in Nat /\ Sent(s)' = Sent(s) + IF resend THEN 1 ELSE 0
    BY <1>5, <1>7, <2>1, RequestsFinite DEF Sent
  <2>3. Sent(s) = IF remaining[s] = 0 THEN Tries ELSE Tries - remaining[s] + 1
    BY <1>3 DEF NInv, RetryAccounting, Sent
  <2>5. Sent(s)' = IF remaining'[s] = 0 THEN Tries ELSE Tries - remaining'[s] + 1
    <3>1. CASE Answered(n)
      BY <1>9, <2>2, <2>3, <3>1
    <3>2. CASE ~Answered(n)
      BY <1>9, <2>2, <2>3, <3>2
    <3> QED
      BY <3>1, <3>2
  <2>6. ASSUME NEW r \in begun, r # s
        PROVE  Sent(r)' = Sent(r) /\ remaining'[r] = remaining[r]
    BY <1>2, <1>8, <2>6 DEF Sent
  <2> QED
    BY <1>1, <2>5, <2>6 DEF NInv, RetryAccounting, Sent
<1> QED
  BY <1>10, <1>11, <1>12, <1>13 DEF NInv

LEMMA AnswerFailedPreserves ==
  ASSUME IInv, NInv, NEW t \in Threads, NEW resend \in BOOLEAN, AnswerFailed(t, resend)
  PROVE  NInv'
<1>1. pc[t] = "failed" /\ sending[t] \in 1..lastId /\ calls[sending[t]] = 0
  BY DEF AnswerFailed, FailedCallback, IInv, Custody, SenderCustody, Working
<1>2. sending[t] \in Id /\ sending[t] <= lastId
  BY <1>1, FlowAssumption DEF IInv, TypeOK, Id
<1>3. /\ OnReply(t, sending[t], resend) /\ lastId' = lastId
      /\ calls' = [calls EXCEPT ![sending[t]] = @ + 1]
  BY DEF AnswerFailed, FailedCallback
<1>4. \A u \in Threads : pc'[u] = "lock" <=> IF u = t THEN resend ELSE pc[u] = "lock"
  BY <1>1 DEF AnswerFailed, FailedCallback, IInv, TypeOK
<1> QED
  BY <1>1, <1>2, <1>3, <1>4, OnReplyPreserves

LEMMA AnswerUnlinkedPreserves ==
  ASSUME IInv, NInv, NEW t \in Threads, NEW resend \in BOOLEAN, AnswerUnlinked(t, resend)
  PROVE  NInv'
<1> DEFINE n == Head(owed[t])
<1>1. pc[t] = "deliver" /\ owed[t] # <<>> /\ owed[t] \in Seq(Id)
  BY DEF AnswerUnlinked, Deliver, IInv, TypeOK
<1>2. n \in Id /\ n \in ToSet(owed[t])
  BY <1>1, TailElements DEF IInv, Custody, ChainCustody
<1>3. n <= lastId /\ calls[n] = 0
  BY <1>2 DEF IInv, Custody, ChainCustody
<1>4. /\ OnReply(t, n, resend) /\ lastId' = lastId
      /\ calls' = [calls EXCEPT ![n] = @ + 1]
  BY DEF AnswerUnlinked, Deliver
<1>5. \A u \in Threads : pc'[u] = "lock" <=> IF u = t THEN resend ELSE pc[u] = "lock"
  BY <1>1 DEF AnswerUnlinked, Deliver, IInv, TypeOK
<1> HIDE DEF n
<1> QED
  BY <1>1, <1>2, <1>3, <1>4, <1>5, OnReplyPreserves

LEMMA NotifyStep == IInv /\ NInv /\ [NotifyNext]_vars => NInv'
<1> SUFFICES ASSUME IInv, NInv, [NotifyNext]_vars PROVE NInv'
  OBVIOUS
<1> DEFINE Quiet == /\ UNCHANGED notifyVars /\ UNCHANGED <<lastId, calls>>
                    /\ \A t \in Threads : pc'[t] = "lock" <=> pc[t] = "lock"
<1>1. Quiet => NInv'
  BY QuietStep
<1>2. CASE UNCHANGED vars
  BY <1>1, <1>2 DEF vars, flowVars
<1>3. ASSUME NEW t \in Threads, Written(t) \/ NotWritten(t) \/ Finish(t), UNCHANGED notifyVars PROVE Quiet
  BY <1>3 DEF Written, NotWritten, Finish, At, IInv, TypeOK
<1>4. ASSUME NEW t \in Threads, NEW d, Insert(t, d), UNCHANGED notifyVars PROVE Quiet
  <2>1. ASSUME NEW u \in Threads PROVE pc'[u] = "lock" <=> pc[u] = "lock"
    BY <1>4 DEF Insert, IInv, TypeOK
  <2> QED
    BY <1>4, <2>1 DEF Insert
<1>5. ASSUME Receive, UNCHANGED notifyVars PROVE Quiet
  BY <1>5 DEF Receive, ReceiveReply, OnChannelClosed, At, IInv, TypeOK
<1>6. ASSUME NEW k \in Timers, TimeoutThread(k), UNCHANGED notifyVars PROVE Quiet
  BY <1>6 DEF TimeoutThread, Check, Wake, At, IInv, TypeOK
<1>7. ASSUME Environment, UNCHANGED notifyVars PROVE Quiet
  BY <1>7 DEF Environment, Close, Tick
<1> HIDE DEF Quiet
<1>8. ASSUME NEW t \in Threads, ThreadStep(t) PROVE NInv'
  BY <1>1, <1>3, <1>4, <1>8, NumberPreserves, AnswerFailedPreserves, AnswerUnlinkedPreserves DEF ThreadStep
<1> QED
  BY <1>1, <1>2, <1>5, <1>6, <1>7, <1>8, NotifyPreserves DEF NotifyNext

(* The inductive invariant of the notifications over the one of the Flow.  *)
THEOREM NotifyInvariance == NotifySpec => []NInv
  BY NotifyInitially, NotifyStep, FlowInvariance, PTL DEF NotifySpec

(* m_remaining counts the sends left through every retry, whatever thread  *)
(* runs it: no notification is sent more than Tries times, and one that is *)
(* given up was sent Tries times.                                          *)
THEOREM AttemptsAreCounted == NotifySpec => []RetryAccounting
<1>1. NInv => RetryAccounting
  BY DEF NInv
<1> QED
  BY <1>1, NotifyInvariance, PTL

(* The attempts of a notification share one Message, and none begins while *)
(* another is under way.                                                   *)
THEOREM AttemptsDoNotOverlap == NotifySpec => []OneAttemptAtATime
<1>1. ASSUME IInv, NInv, NEW s \in Notifications
      PROVE  Cardinality(Outstanding(s)) + Cardinality(AboutToSend(s)) <= 1
  <2>1. Outstanding(s) = Open(s)
    BY <1>1, OutstandingIsOpen
  <2>2. Open(s) = {} \/ \E n \in Id : Open(s) = {n}
    BY <1>1 DEF NInv, Lives, OneLife, Open
  <2>3. IF Open(s) = {} THEN Cardinality(Open(s)) = 0 ELSE Cardinality(Open(s)) = 1
    BY <2>2, FS_EmptySet, FS_Singleton
  <2>4. IF AboutToSend(s) = {} THEN Cardinality(AboutToSend(s)) = 0 ELSE Cardinality(AboutToSend(s)) = 1
    BY <1>1, SentCounts
  <2>5. AboutToSend(s) = {} \/ Open(s) = {}
    BY <1>1 DEF NInv, Lives, OneLife
  <2> QED
    BY <2>1, <2>3, <2>4, <2>5
<1>2. IInv /\ NInv => OneAttemptAtATime
  BY <1>1 DEF OneAttemptAtATime
<1> QED
  BY <1>2, FlowInvariance, NotifyInvariance, PTL

(* A notification is told of its reply once, and nothing of it is left by  *)
(* then: no attempt, and no request a late reply could still resolve.      *)
THEOREM ToldIsOver == NotifySpec => []SilentOnceTold
<1>1. IInv /\ NInv => SilentOnceTold
  BY OutstandingIsOpen DEF NInv, Lives, Over, SilentOnceTold
<1> QED
  BY <1>1, FlowInvariance, NotifyInvariance, PTL
-----------------------------------------------------------------------------
(* onReply under m_mutex.                                                  *)

LEMMA StuckWaits == StuckOnItself <=> \E t \in Threads : WaitsForItself(t)
  BY DEF StuckOnItself, WaitsForItself

(* As long as every message is written, onReply is never run with m_mutex  *)
(* held, and its sends cannot deadlock: it takes a short write, or a       *)
(* stream that was closed, for a notification to wait for itself.          *)
THEOREM RetriesDeadlockOnlyAfterFailure ==
  ~WriteFailures /\ ~Closable => (NotifySpec => []~StuckOnItself)
<1> SUFFICES ASSUME ~WriteFailures, ~Closable PROVE NotifySpec => []~StuckOnItself
  OBVIOUS
<1>1. Spec => [](\A t \in Threads : ~WaitsForItself(t))
  BY SelfDeadlockHasItsCause
<1>2. (\A t \in Threads : ~WaitsForItself(t)) => ~StuckOnItself
  BY StuckWaits
<1> QED
  BY <1>1, <1>2, NotificationsUseFlow, PTL

(* Once a notification waits for itself it does so for good: no other      *)
(* thread frees m_mutex, no notification is numbered or sent again, and no *)
(* reply or timeout resolves what is in the list.                          *)
THEOREM StuckNotificationsStaySo ==
  NotifySpec => [][StuckOnItself => StuckOnItself' /\ UNCHANGED <<lastId, waiting, owner>>]_vars
<1>1. ASSUME IInv, [NotifyNext]_vars, StuckOnItself
      PROVE  StuckOnItself' /\ UNCHANGED <<lastId, waiting, owner>>
  <2>1. PICK t \in Threads : WaitsForItself(t)
    BY <1>1, StuckWaits
  <2>2. WaitsForItself(t)' /\ UNCHANGED <<lastId, waiting>>
    BY <1>1, <2>1, StepOfFlow, SelfDeadlockStays
  <2>3. StuckOnItself'
    BY <2>2 DEF StuckOnItself, WaitsForItself
  <2>4. ASSUME NEW u \in Threads, Number(u) PROVE FALSE
    BY <2>1, <2>4, FlowAssumption DEF Number, Lock, WaitsForItself
  <2>5. UNCHANGED owner
    BY <1>1, <2>4 DEF NotifyNext, ThreadStep, Notify, AnswerFailed, AnswerUnlinked, OnReply, notifyVars, vars
  <2> QED
    BY <2>2, <2>3, <2>5
<1>2. IInv /\ [NotifyNext]_vars =>
        [StuckOnItself => StuckOnItself' /\ UNCHANGED <<lastId, waiting, owner>>]_vars
  BY <1>1
<1> QED
  BY <1>2, FlowInvariance, PTL DEF NotifySpec
=============================================================================
