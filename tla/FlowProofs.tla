----------------------------- MODULE FlowProofs -----------------------------
(***************************************************************************)
(* Proofs about Flow, for any number of callers and timeout threads, any   *)
(* timeouts and any number of requests: where each request is (Custody),   *)
(* that no callback runs twice and none is lost, that Flow implements      *)
(* RequestReply, that the list is sorted and watched by one thread, what   *)
(* replies and timeouts resolve, who holds m_mutex and what happens when   *)
(* it is never released; and which of this holds of the Java twin.         *)
(***************************************************************************)
EXTENDS JavaFlow, ListLemmas, FiniteSetTheorems

(* TypeOK alone is not inductive: what send inserts is a request only      *)
(* because the thread that inserts holds one (Custody).                    *)
IInv == TypeOK /\ Custody /\ AtMostOnce /\ NeverForgotten

LEMMA NoElements == ToSet(<<>>) = {}
  BY DEF ToSet

LEMMA OneElement == ASSUME NEW S, NEW x \in S
                    PROVE  <<x>> \in Seq(S) /\ ToSet(<<x>>) = {x} /\ IsInjective(<<x>>)
<1> DEFINE s == <<x>>
<1>1. s \in Seq(S) /\ Len(s) = 1 /\ s[1] = x
  OBVIOUS
<1> HIDE DEF s
<1>2. \A y : y \in ToSet(s) <=> \E i \in 1..Len(s) : y = s[i]
  BY <1>1, ElementIndex
<1>3. ToSet(s) = {x}
  BY <1>1, <1>2
<1>4. IsInjective(s)
  <2>1. \A i, j \in 1..Len(s) : s[i] = s[j] => i = j
    BY <1>1
  <2>2. QED
    BY <1>1, <2>1, InjectiveIndex
<1> QED
  BY <1>1, <1>3, <1>4 DEF s

LEMMA ElementsOf == ASSUME NEW S, NEW s \in Seq(S) PROVE ToSet(s) \subseteq S
<1>1. \A i \in 1..Len(s) : s[i] \in S
  BY ElementOfSeq
<1> QED
  BY <1>1, ElementIndex

LEMMA InitIInv == Init => IInv
<1> SUFFICES ASSUME Init PROVE IInv
  OBVIOUS
<1> USE FlowAssumption
<1>1. <<>> \in Seq(Id) /\ IsInjective(<<>>)
  BY DEF IsInjective
<1>2. TypeOK
  <2>1. /\ left \in [Id -> Nat] /\ calls \in [Id -> Nat]
        /\ verdict \in [Id -> {"none", "reply", "error"}]
        /\ inflight \in SUBSET Id
    BY DEF Init
  <2>2. lastId \in 0..MaxSends /\ issued \in 0..MaxSends
    BY DEF Init
  <2>3. /\ pc \in [Threads -> PC] /\ sending \in [Threads -> 0..MaxSends]
        /\ owed \in [Threads -> Seq(Id)] /\ nap \in [Timers -> Nat]
    BY <1>1 DEF Init, PC
  <2>4. QED
    BY <1>1, <2>1, <2>2, <2>3 DEF Init, TypeOK
<1>3. ASSUME NEW t \in Threads PROVE SenderCustody(t) /\ ChainCustody(t)
  BY <1>1, NoElements DEF Init, SenderCustody, ChainCustody, Working
<1>4. ListCustody
  BY <1>1, NoElements DEF Init, ListCustody
<1>5. OtherCustody /\ AtMostOnce
  BY DEF Init, OtherCustody, AtMostOnce
<1>6. NeverForgotten
  BY DEF Init, NeverForgotten
<1> QED
  BY <1>2, <1>3, <1>4, <1>5, <1>6 DEF IInv, Custody

LEMMA CallPreserves ==
  ASSUME IInv, NEW c \in Callers, Call(c) PROVE IInv'
<1> USE FlowAssumption DEF IInv, Call, At
<1>1. c \in Threads /\ issued + 1 \in 0..MaxSends
  BY DEF Threads, TypeOK
<1>2. TypeOK'
  BY <1>1 DEF TypeOK, PC
<1>3. ASSUME NEW u \in Threads PROVE SenderCustody(u)' /\ ChainCustody(u)'
  BY <1>1 DEF Custody, SenderCustody, ChainCustody, Working, TypeOK
<1>4. ListCustody' /\ OtherCustody' /\ AtMostOnce' /\ NeverForgotten'
  BY DEF Custody, ListCustody, OtherCustody, AtMostOnce, NeverForgotten
<1> QED
  BY <1>2, <1>3, <1>4 DEF Custody

LEMMA LockPreserves ==
  ASSUME IInv, NEW t \in Threads, Lock(t) PROVE IInv'
<1> USE FlowAssumption DEF IInv, Lock, At
<1>1. TypeOK'
  BY DEF TypeOK, Threads, PC
<1>2. lastId + 1 \in Id /\ lastId \in Nat
  BY DEF TypeOK, Id
<1>3. verdict[lastId + 1] = "none" /\ calls[lastId + 1] = 0
  BY <1>2 DEF Custody, OtherCustody
<1>4. lastId + 1 \notin ToSet(waiting)
  BY <1>2 DEF Custody, ListCustody
<1>5. \A u \in Threads : lastId + 1 \notin ToSet(owed[u])
  BY <1>2 DEF Custody, ChainCustody
<1>6. ASSUME NEW u \in Threads PROVE SenderCustody(u)'
  <2>1. CASE u = t
    BY <1>2, <1>3, <1>4, <2>1 DEF Custody, SenderCustody, Working, TypeOK
  <2>2. CASE u # t
    BY <1>2, <2>2 DEF Custody, SenderCustody, Working, TypeOK
  <2>3. QED
    BY <2>1, <2>2
<1>7. ASSUME NEW u \in Threads PROVE ChainCustody(u)'
  <2>1. IsInjective(owed'[u])
    BY DEF Custody, ChainCustody
  <2>2. ASSUME NEW n \in ToSet(owed[u])
        PROVE  /\ n <= lastId + 1 /\ verdict[n] # "none" /\ calls[n] = 0
               /\ \A v \in Threads : sending'[v] # n /\ (n \in ToSet(owed[v]) => v = u)
    <3>1. n \in Id
      BY ElementsOf DEF TypeOK
    <3>2. QED
      BY <1>2, <1>5, <3>1 DEF Custody, ChainCustody, TypeOK, Id
  <2>3. QED
    BY <2>1, <2>2 DEF ChainCustody
<1>8. ListCustody'
  <2>1. \A n \in ToSet(waiting) : n \in Id
    BY ElementsOf DEF TypeOK
  <2>2. QED
    BY <1>2, <2>1 DEF Custody, ListCustody, Id
<1>9. OtherCustody' /\ AtMostOnce'
  BY <1>2 DEF Custody, OtherCustody, AtMostOnce, Id
<1>10. NeverForgotten'
  <2>1. ASSUME NEW n \in 1..(lastId + 1)
        PROVE  \/ calls[n] > 0 \/ n \in ToSet(waiting)
               \/ \E u \in Threads : n = sending'[u] \/ n \in ToSet(owed[u])
    <3>1. CASE n = lastId + 1
      BY <3>1 DEF TypeOK
    <3>2. CASE n \in 1..lastId
      <4>1. sending[t] = 0
        BY DEF Custody, SenderCustody, Working
      <4>2. \A u \in Threads : n = sending[u] => n = sending'[u]
        BY <3>2, <4>1 DEF TypeOK
      <4>3. QED
        BY <3>2, <4>2 DEF NeverForgotten
    <3>3. n = lastId + 1 \/ n \in 1..lastId
      BY <1>2
    <3>4. QED
      BY <3>1, <3>2, <3>3
  <2>2. QED
    BY <2>1 DEF NeverForgotten
<1> QED
  BY <1>1, <1>6, <1>7, <1>8, <1>9, <1>10 DEF Custody

LEMMA WrittenPreserves ==
  ASSUME IInv, NEW t \in Threads, Written(t) PROVE IInv'
<1> USE FlowAssumption DEF IInv, Written, At
<1>1. sending[t] \in Id
  BY DEF Custody, SenderCustody, Working, TypeOK, Id
<1>2. TypeOK'
  BY <1>1 DEF TypeOK, PC
<1>3. ASSUME NEW u \in Threads PROVE SenderCustody(u)' /\ ChainCustody(u)'
  BY DEF Custody, SenderCustody, ChainCustody, Working, TypeOK
<1>4. ListCustody' /\ OtherCustody' /\ AtMostOnce' /\ NeverForgotten'
  BY DEF Custody, ListCustody, OtherCustody, AtMostOnce, NeverForgotten
<1> QED
  BY <1>2, <1>3, <1>4 DEF Custody

LEMMA NotWrittenPreserves ==
  ASSUME IInv, NEW t \in Threads, NotWritten(t) PROVE IInv'
<1> USE FlowAssumption DEF IInv, NotWritten, At
<1> DEFINE m == sending[t]
<1>1. /\ m \in Id /\ m \in 1..lastId /\ m \notin ToSet(waiting) /\ calls[m] = 0
      /\ verdict[m] = "none" /\ mutex = t
  BY DEF Custody, SenderCustody, Working, TypeOK, Id
<1>2. TypeOK'
  BY <1>1 DEF TypeOK, PC
<1>3. ASSUME NEW u \in Threads PROVE SenderCustody(u)'
  <2>1. CASE u = t
    BY <1>1, <2>1 DEF Custody, SenderCustody, Working, TypeOK
  <2>2. CASE u # t
    <3>1. pc'[u] = pc[u] /\ ~Working(u)
      BY <1>1, <2>2 DEF Custody, SenderCustody, TypeOK
    <3>2. QED
      BY <3>1 DEF Custody, SenderCustody, Working
  <2>3. QED
    BY <2>1, <2>2
<1>4. ASSUME NEW u \in Threads PROVE ChainCustody(u)'
  <2>1. m \notin ToSet(owed[u])
    BY DEF Custody, ChainCustody
  <2>2. QED
    BY <1>1, <2>1 DEF Custody, ChainCustody, TypeOK
<1>5. ListCustody'
  BY <1>1 DEF Custody, ListCustody, TypeOK
<1>6. OtherCustody' /\ AtMostOnce' /\ NeverForgotten'
  BY <1>1 DEF Custody, OtherCustody, AtMostOnce, NeverForgotten, TypeOK
<1> QED
  BY <1>2, <1>3, <1>4, <1>5, <1>6 DEF Custody

(* The node goes into the list: the request moves from the hands of the    *)
(* sender to the list, and a timeout thread that was idle may be started.  *)
LEMMA InsertPreserves ==
  ASSUME IInv, NEW t \in Threads, NEW d \in Timeouts,
         Insert(t, EffectiveTimeout(d))
  PROVE  IInv'
<1> USE FlowAssumption DEF IInv
<1> DEFINE m == sending[t]
           e == EffectiveTimeout(d)
<1>1. e \in Nat
  BY DEF EffectiveTimeout
<1> HIDE DEF e
<1>2. Insert(t, e)
  BY DEF e
<1>3. /\ m \in Id /\ m \in 1..lastId /\ m \notin ToSet(waiting) /\ calls[m] = 0
      /\ verdict[m] = "none" /\ mutex = t /\ pc[t] = "insert"
  BY <1>2 DEF Insert, Custody, SenderCustody, Working, TypeOK, Id
<1>4. PICK p \in 1..(Len(waiting) + 1) : waiting' = InsertAt(waiting, p, m)
  BY <1>2 DEF Insert
<1>5. waiting' \in Seq(Id)
  BY <1>3, <1>4, InsertAtShape DEF TypeOK
<1>6. /\ ToSet(waiting') = ToSet(waiting) \cup {m}
      /\ IsInjective(waiting')
  BY <1>3, <1>4, InsertAtElements DEF TypeOK, Custody, ListCustody
<1>7. /\ mutex' = NoThread
      /\ sending' = [sending EXCEPT ![t] = 0]
      /\ left' = [left EXCEPT ![m] = e]
      /\ UNCHANGED <<lastId, issued, owed, nap, inflight, open, closed,
                     verdict, calls>>
  BY <1>2 DEF Insert, Unlock
<1>8. \/ timer' = timer /\ pc' = [pc EXCEPT ![t] = "deliver"]
      \/ \E k \in Timers :
           /\ pc[k] = "idle" /\ timer' = k
           /\ pc' = [pc EXCEPT ![t] = "deliver", ![k] = "check"]
  BY <1>2 DEF Insert
<1>9. /\ pc' \in [Threads -> PC]
      /\ timer' \in Timers \cup {NoThread}
      /\ pc'[t] = "deliver"
      /\ \A u \in Threads :
           u # t => pc'[u] = pc[u] \/ (pc[u] = "idle" /\ pc'[u] = "check")
  <2>1. CASE timer' = timer /\ pc' = [pc EXCEPT ![t] = "deliver"]
    BY <2>1 DEF TypeOK, PC
  <2>2. ASSUME NEW k \in Timers, pc[k] = "idle", timer' = k,
               pc' = [pc EXCEPT ![t] = "deliver", ![k] = "check"]
        PROVE  <1>9!1
    BY <1>3, <2>2 DEF TypeOK, PC, Threads
  <2>3. QED
    BY <1>8, <2>1, <2>2
<1>10. TypeOK'
  <2>1. left' \in [Id -> Nat]
    BY <1>1, <1>3, <1>7 DEF TypeOK
  <2>2. sending' \in [Threads -> 0..MaxSends]
    BY <1>7 DEF TypeOK
  <2>3. QED
    BY <1>5, <1>7, <1>9, <2>1, <2>2 DEF TypeOK
<1>11. ASSUME NEW u \in Threads PROVE SenderCustody(u)'
  <2>1. CASE u = t
    BY <1>7, <1>9, <2>1 DEF SenderCustody, Working, TypeOK
  <2>2. CASE u # t
    <3>1. ~Working(u)
      BY <1>3, <2>2 DEF Custody, SenderCustody
    <3>2. sending'[u] = 0 /\ ~Working(u)'
      BY <1>7, <1>9, <2>2, <3>1 DEF Custody, SenderCustody, Working, TypeOK
    <3>3. pc'[u] \in {"idle", "check", "sleep"} => owed'[u] = <<>>
      BY <1>7, <1>9, <2>2 DEF Custody, SenderCustody
    <3>4. QED
      BY <3>2, <3>3 DEF SenderCustody
  <2>3. QED
    BY <2>1, <2>2
<1>12. ASSUME NEW u \in Threads PROVE ChainCustody(u)'
  <2>1. ASSUME NEW n \in ToSet(owed[u]), NEW v \in Threads PROVE sending'[v] # n
    <3>1. n \in Id /\ sending[v] # n
      BY ElementsOf DEF Custody, ChainCustody, TypeOK
    <3>2. QED
      BY <1>7, <3>1 DEF TypeOK, Id
  <2>2. QED
    BY <1>7, <2>1 DEF Custody, ChainCustody
<1>13. ListCustody'
  BY <1>3, <1>6, <1>7 DEF Custody, ListCustody
<1>14. OtherCustody' /\ AtMostOnce'
  BY <1>7 DEF Custody, OtherCustody, AtMostOnce
<1>15. NeverForgotten'
  <2>1. ASSUME NEW n \in 1..lastId
        PROVE  \/ calls[n] > 0 \/ n \in ToSet(waiting')
               \/ \E u \in Threads : n = sending'[u] \/ n \in ToSet(owed[u])
    <3>1. \A u \in Threads : n = sending[u] => n = m \/ n = sending'[u]
      BY <1>7 DEF TypeOK
    <3>2. QED
      BY <1>6, <3>1 DEF NeverForgotten
  <2>2. QED
    BY <1>7, <2>1 DEF NeverForgotten
<1> QED
  BY <1>10, <1>11, <1>12, <1>13, <1>14, <1>15 DEF Custody

(* The callback of a message that could not be written. *)
(* The callback of a request that could not be written runs in the thread  *)
(* that sends it; afterwards this thread does not send it any longer.      *)
LEMMA FailureToldPreserves ==
  ASSUME IInv, NEW t \in Threads, pc[t] = "failed",
         calls' = [calls EXCEPT ![sending[t]] = @ + 1],
         sending' = [sending EXCEPT ![t] = 0],
         pc' \in [Threads -> PC], pc'[t] \in {"lock", "deliver"},
         \A u \in Threads : u # t => pc'[u] = pc[u],
         mutex' \in {t, NoThread}, issued' \in 0..MaxSends,
         UNCHANGED <<waiting, left, timer, lastId, owed, nap, inflight, open,
                     closed, verdict>>
  PROVE  IInv'
<1> USE FlowAssumption DEF IInv
<1> DEFINE m == sending[t]
<1>1. /\ m \in Id /\ m \in 1..lastId /\ m \notin ToSet(waiting) /\ calls[m] = 0
      /\ verdict[m] # "none" /\ mutex = t /\ pc[t] = "failed"
  BY DEF Custody, SenderCustody, Working, TypeOK, Id
<1>2. /\ calls' = [calls EXCEPT ![m] = @ + 1]
      /\ sending' = [sending EXCEPT ![t] = 0]
      /\ UNCHANGED <<waiting, left, timer, lastId, owed, nap, inflight, open,
                     closed, verdict>>
  OBVIOUS
<1>3. /\ pc' \in [Threads -> PC] /\ pc'[t] \in {"lock", "deliver"}
      /\ \A u \in Threads : u # t => pc'[u] = pc[u]
      /\ mutex' \in {t, NoThread}
      /\ issued' \in 0..MaxSends
  OBVIOUS
<1>4. TypeOK'
  <2>1. calls' \in [Id -> Nat] /\ sending' \in [Threads -> 0..MaxSends]
    BY <1>1, <1>2 DEF TypeOK
  <2>2. QED
    BY <1>2, <1>3, <2>1 DEF TypeOK
<1>5. ASSUME NEW u \in Threads PROVE SenderCustody(u)'
  <2>1. CASE u = t
    BY <1>2, <1>3, <2>1 DEF SenderCustody, Working, TypeOK
  <2>2. CASE u # t
    <3>1. ~Working(u)
      BY <1>1, <2>2 DEF Custody, SenderCustody
    <3>2. sending'[u] = 0 /\ ~Working(u)'
      BY <1>2, <1>3, <2>2, <3>1 DEF Custody, SenderCustody, Working, TypeOK
    <3>3. QED
      BY <1>2, <1>3, <2>2, <3>2 DEF Custody, SenderCustody
  <2>3. QED
    BY <2>1, <2>2
<1>6. ASSUME NEW u \in Threads PROVE ChainCustody(u)'
  <2>1. ASSUME NEW n \in ToSet(owed[u])
        PROVE  calls'[n] = 0 /\ \A v \in Threads : sending'[v] # n
    <3>1. n \in Id /\ calls[n] = 0 /\ \A v \in Threads : sending[v] # n
      BY ElementsOf DEF Custody, ChainCustody, TypeOK
    <3>2. QED
      BY <1>1, <1>2, <3>1 DEF TypeOK, Id
  <2>2. QED
    BY <1>2, <2>1 DEF Custody, ChainCustody
<1>7. ListCustody'
  <2>1. ASSUME NEW n \in ToSet(waiting) PROVE n \in Id /\ n # m
    BY <1>1, ElementsOf DEF TypeOK
  <2>2. QED
    BY <1>2, <2>1 DEF Custody, ListCustody, TypeOK
<1>8. OtherCustody' /\ AtMostOnce'
  BY <1>1, <1>2 DEF Custody, OtherCustody, AtMostOnce, TypeOK
<1>9. NeverForgotten'
  <2>1. ASSUME NEW n \in 1..lastId
        PROVE  \/ calls'[n] > 0 \/ n \in ToSet(waiting)
               \/ \E u \in Threads : n = sending'[u] \/ n \in ToSet(owed[u])
    <3>1. CASE n = m
      BY <1>1, <1>2, <3>1 DEF TypeOK
    <3>2. CASE n # m
      <4>1. \A u \in Threads : n = sending[u] => n = sending'[u]
        BY <1>2, <3>2 DEF TypeOK
      <4>2. calls'[n] = calls[n]
        BY <1>2, <3>2 DEF TypeOK
      <4>3. QED
        BY <4>1, <4>2 DEF NeverForgotten
    <3>3. QED
      BY <3>1, <3>2
  <2>2. QED
    BY <1>2, <2>1 DEF NeverForgotten
<1> QED
  BY <1>4, <1>5, <1>6, <1>7, <1>8, <1>9 DEF Custody

(* A thread runs the callback of the first request it has unlinked. *)
LEMMA FailedCallbackPreserves ==
  ASSUME IInv, NEW t \in Threads, NEW resend \in BOOLEAN, FailedCallback(t, resend)
  PROVE  IInv'
<1> USE FlowAssumption
<1>1. pc[t] = "failed" /\ mutex = t /\ pc \in [Threads -> PC] /\ issued \in 0..MaxSends
  BY DEF FailedCallback, IInv, TypeOK, Custody, SenderCustody, Working
<1>2. /\ pc' \in [Threads -> PC] /\ pc'[t] \in {"lock", "deliver"}
      /\ \A u \in Threads : u # t => pc'[u] = pc[u]
      /\ mutex' \in {t, NoThread}
      /\ issued' \in 0..MaxSends
  <2>1. CASE resend
    <3>1. /\ issued < MaxSends /\ issued' = issued + 1 /\ mutex' = mutex
          /\ pc' = [pc EXCEPT ![t] = "lock"]
      BY <2>1 DEF FailedCallback
    <3>2. issued' \in 0..MaxSends
      BY <1>1, <3>1
    <3>3. QED
      BY <1>1, <3>1, <3>2 DEF PC
  <2>2. CASE ~resend
    BY <1>1, <2>2 DEF FailedCallback, Unlock, PC
  <2>3. QED
    BY <2>1, <2>2
<1>3. /\ calls' = [calls EXCEPT ![sending[t]] = @ + 1]
      /\ sending' = [sending EXCEPT ![t] = 0]
      /\ UNCHANGED <<waiting, left, timer, lastId, owed, nap, inflight, open,
                     closed, verdict>>
  BY DEF FailedCallback
<1> QED
  BY <1>1, <1>2, <1>3, FailureToldPreserves

LEMMA DeliverPreserves ==
  ASSUME IInv, NEW t \in Threads, NEW resend \in BOOLEAN, Deliver(t, resend)
  PROVE  IInv'
<1> USE FlowAssumption DEF IInv
<1> DEFINE m == Head(owed[t])
<1>1. /\ owed[t] \in Seq(Id) /\ owed[t] # <<>> /\ IsInjective(owed[t])
      /\ pc[t] = "deliver"
  BY DEF Deliver, Custody, ChainCustody, TypeOK
<1>2. /\ m \in Id /\ m \in ToSet(owed[t])
      /\ Tail(owed[t]) \in Seq(Id) /\ IsInjective(Tail(owed[t]))
      /\ ToSet(Tail(owed[t])) = ToSet(owed[t]) \ {m}
  BY <1>1, TailElements
<1>3. /\ calls[m] = 0 /\ verdict[m] # "none" /\ m <= lastId
      /\ \A u \in Threads : sending[u] # m /\ (m \in ToSet(owed[u]) => u = t)
  BY <1>2 DEF Custody, ChainCustody
<1> HIDE DEF m
<1>4. m \notin ToSet(waiting)
  BY <1>3 DEF Custody, ListCustody
<1>5. /\ calls' = [calls EXCEPT ![m] = @ + 1]
      /\ owed' = [owed EXCEPT ![t] = Tail(@)]
      /\ UNCHANGED <<mutex, waiting, left, timer, lastId, sending, nap, inflight,
                     open, closed, verdict>>
  BY DEF Deliver, m
<1>6. /\ pc' \in [Threads -> PC] /\ pc'[t] \in {"lock", "deliver"}
      /\ \A u \in Threads : u # t => pc'[u] = pc[u]
      /\ issued' \in 0..MaxSends
  <2>1. CASE resend
    <3>1. /\ issued < MaxSends /\ issued' = issued + 1
          /\ pc' = [pc EXCEPT ![t] = "lock"]
      BY <2>1 DEF Deliver
    <3>2. issued' \in 0..MaxSends
      BY <3>1 DEF TypeOK
    <3>3. QED
      BY <3>1, <3>2 DEF TypeOK, PC
  <2>2. CASE ~resend
    BY <1>1, <2>2 DEF Deliver, TypeOK, PC
  <2>3. QED
    BY <2>1, <2>2
<1>7. TypeOK'
  <2>1. calls' \in [Id -> Nat] /\ owed' \in [Threads -> Seq(Id)]
    BY <1>2, <1>5 DEF TypeOK
  <2>2. QED
    BY <1>5, <1>6, <2>1 DEF TypeOK
<1>8. /\ owed'[t] = Tail(owed[t])
      /\ \A u \in Threads : u # t => owed'[u] = owed[u]
      /\ calls'[m] = 1
      /\ \A n \in Id : n # m => calls'[n] = calls[n]
  BY <1>2, <1>3, <1>5 DEF TypeOK
<1>9. ASSUME NEW u \in Threads PROVE SenderCustody(u)'
  <2>1. CASE u = t
    BY <1>1, <1>5, <1>6, <2>1 DEF Custody, SenderCustody, Working
  <2>2. CASE u # t
    <3>1. Working(u) => sending[u] \in Id /\ sending[u] # m
      BY <1>3 DEF Custody, SenderCustody, TypeOK, Id
    <3>2. QED
      BY <1>5, <1>6, <1>8, <2>2, <3>1 DEF Custody, SenderCustody, Working
  <2>3. QED
    BY <2>1, <2>2
<1>10. \A u \in Threads :
         ToSet(owed'[u]) \subseteq ToSet(owed[u]) /\ m \notin ToSet(owed'[u])
  BY <1>2, <1>3, <1>8
<1>11. ASSUME NEW u \in Threads PROVE ChainCustody(u)'
  <2>1. IsInjective(owed'[u])
    BY <1>2, <1>8 DEF Custody, ChainCustody
  <2>2. ASSUME NEW n \in ToSet(owed'[u])
        PROVE  n \in ToSet(owed[u]) /\ n \in Id /\ n # m
    BY <1>10, ElementsOf DEF TypeOK
  <2>3. QED
    BY <1>5, <1>8, <1>10, <2>1, <2>2 DEF Custody, ChainCustody
<1>12. ListCustody'
  <2>1. \A n \in ToSet(waiting) : n \in Id /\ n # m
    BY <1>4, ElementsOf DEF TypeOK
  <2>2. QED
    BY <1>5, <1>8, <2>1 DEF Custody, ListCustody
<1>13. OtherCustody' /\ AtMostOnce'
  <2>1. m \in Id /\ ~(m > lastId)
    BY <1>2, <1>3 DEF TypeOK, Id
  <2>2. OtherCustody'
    BY <1>3, <1>5, <1>8, <2>1 DEF Custody, OtherCustody
  <2>3. AtMostOnce'
    BY <1>8 DEF AtMostOnce
  <2>4. QED
    BY <2>2, <2>3
<1>14. NeverForgotten'
  <2>1. ASSUME NEW n \in 1..lastId
        PROVE  \/ calls'[n] > 0 \/ n \in ToSet(waiting)
               \/ \E u \in Threads : n = sending[u] \/ n \in ToSet(owed'[u])
    <3>1. CASE n = m
      BY <1>8, <3>1
    <3>2. CASE n # m
      <4>1. \A u \in Threads : n \in ToSet(owed[u]) => n \in ToSet(owed'[u])
        BY <1>2, <1>8, <3>2
      <4>2. n \in Id
        BY DEF TypeOK, Id
      <4>3. calls'[n] = calls[n]
        BY <1>8, <3>2, <4>2
      <4>4. QED
        BY <4>1, <4>3 DEF NeverForgotten
    <3>3. QED
      BY <3>1, <3>2
  <2>2. QED
    BY <1>5, <2>1 DEF NeverForgotten
<1> QED
  BY <1>7, <1>9, <1>11, <1>12, <1>13, <1>14 DEF Custody

LEMMA FinishPreserves ==
  ASSUME IInv, NEW t \in Threads, Finish(t) PROVE IInv'
<1> USE FlowAssumption DEF IInv
<1>1. /\ owed[t] = <<>> /\ pc[t] = "deliver"
      /\ \E p \in {"idle", "sleep"} : pc' = [pc EXCEPT ![t] = p]
      /\ UNCHANGED <<mutex, waiting, left, timer, lastId, issued, sending, owed,
                     nap, inflight, open, closed, verdict, calls>>
  BY DEF Finish, At
<1>2. TypeOK'
  BY <1>1 DEF TypeOK, PC
<1>3. ASSUME NEW u \in Threads PROVE SenderCustody(u)' /\ ChainCustody(u)'
  BY <1>1 DEF Custody, SenderCustody, ChainCustody, Working, TypeOK
<1>4. ListCustody' /\ OtherCustody' /\ AtMostOnce' /\ NeverForgotten'
  BY <1>1 DEF Custody, ListCustody, OtherCustody, AtMostOnce, NeverForgotten
<1> QED
  BY <1>2, <1>3, <1>4 DEF Custody

LEMMA WakePreserves ==
  ASSUME IInv, NEW k \in Timers, Wake(k) PROVE IInv'
<1> USE FlowAssumption DEF IInv, Wake, At
<1>1. k \in Threads
  BY DEF Threads
<1>2. TypeOK'
  BY <1>1 DEF TypeOK, PC
<1>3. ASSUME NEW u \in Threads PROVE SenderCustody(u)' /\ ChainCustody(u)'
  BY <1>1 DEF Custody, SenderCustody, ChainCustody, Working, TypeOK
<1>4. ListCustody' /\ OtherCustody' /\ AtMostOnce' /\ NeverForgotten'
  BY DEF Custody, ListCustody, OtherCustody, AtMostOnce, NeverForgotten
<1> QED
  BY <1>2, <1>3, <1>4 DEF Custody

LEMMA EnvironmentPreserves ==
  ASSUME IInv, Environment PROVE IInv'
<1> USE FlowAssumption DEF IInv
<1>1. UNCHANGED <<mutex, waiting, timer, lastId, issued, pc, sending, owed,
                  verdict, calls>>
  BY DEF Environment, Close, Tick
<1>2. left' \in [Id -> Nat] /\ nap' \in [Timers -> Nat]
  <2>1. CASE Tick
    BY <2>1 DEF Tick, TypeOK
  <2>2. CASE Close
    BY <2>2 DEF Close, TypeOK
  <2>3. QED
    BY <2>1, <2>2 DEF Environment
<1>3. inflight' \in SUBSET Id /\ open' \in BOOLEAN /\ closed' \in BOOLEAN
  BY DEF Environment, Close, Tick, TypeOK
<1>4. TypeOK'
  BY <1>1, <1>2, <1>3 DEF TypeOK
<1>5. ASSUME NEW u \in Threads PROVE SenderCustody(u)' /\ ChainCustody(u)'
  BY <1>1 DEF Custody, SenderCustody, ChainCustody, Working
<1>6. ListCustody' /\ OtherCustody' /\ AtMostOnce' /\ NeverForgotten'
  BY <1>1 DEF Custody, ListCustody, OtherCustody, AtMostOnce, NeverForgotten
<1> QED
  BY <1>4, <1>5, <1>6 DEF Custody

(* A reply unlinks the request it names, if that request still waits. *)
LEMMA ReceiveReplyPreserves ==
  ASSUME IInv, NEW n \in Id, ReceiveReply(n) PROVE IInv'
<1> USE FlowAssumption DEF IInv
<1>1. /\ Receiver \in Threads /\ pc[Receiver] = "idle" /\ owed[Receiver] = <<>>
      /\ inflight' = inflight \ {n}
      /\ UNCHANGED <<mutex, timer, lastId, issued, sending, nap, open,
                     closed, calls>>
  BY DEF ReceiveReply, Threads, Custody, SenderCustody
<1>2. CASE UNCHANGED <<waiting, owed, verdict, left, pc>>
  <2>1. TypeOK'
    BY <1>1, <1>2 DEF TypeOK
  <2>2. ASSUME NEW u \in Threads PROVE SenderCustody(u)' /\ ChainCustody(u)'
    BY <1>1, <1>2 DEF Custody, SenderCustody, ChainCustody, Working
  <2>3. ListCustody' /\ OtherCustody' /\ AtMostOnce' /\ NeverForgotten'
    BY <1>1, <1>2 DEF Custody, ListCustody, OtherCustody, AtMostOnce, NeverForgotten
  <2>4. QED
    BY <2>1, <2>2, <2>3 DEF Custody
<1>3. ASSUME NEW i \in 1..Len(waiting),
             waiting' = RemoveAt(waiting, i),
             owed' = [owed EXCEPT ![Receiver] = <<waiting[i]>>],
             verdict' = [verdict EXCEPT ![waiting[i]] = "reply"],
             left' = [left EXCEPT ![waiting[i]] = 0],
             pc' = [pc EXCEPT ![Receiver] = "deliver"]
      PROVE  IInv'
  <2> DEFINE m == waiting[i]
  <2>1. waiting \in Seq(Id) /\ IsInjective(waiting)
    BY DEF TypeOK, Custody, ListCustody
  <2>2. m \in Id /\ m \in ToSet(waiting)
    BY <2>1, ElementOfSeq, ElementIndex
  <2>3. /\ calls[m] = 0 /\ verdict[m] = "none" /\ m <= lastId
    BY <2>2 DEF Custody, ListCustody
  <2>4. \A u \in Threads : sending[u] # m /\ m \notin ToSet(owed[u])
    BY <2>2, <2>3 DEF Custody, SenderCustody, ChainCustody, Id
  <2>5. /\ waiting' \in Seq(Id) /\ IsInjective(waiting')
        /\ ToSet(waiting') = ToSet(waiting) \ {m}
    BY <1>3, <2>1, RemoveAtShape, RemoveAtElements
  <2>6. /\ <<m>> \in Seq(Id) /\ ToSet(<<m>>) = {m} /\ IsInjective(<<m>>)
    BY <2>2, OneElement
  <2> DEFINE chain == <<m>>
  <2>7. /\ owed' = [owed EXCEPT ![Receiver] = chain]
        /\ verdict' = [verdict EXCEPT ![m] = "reply"]
        /\ left' = [left EXCEPT ![m] = 0]
    BY <1>3
  <2>8. chain \in Seq(Id) /\ ToSet(chain) = {m} /\ IsInjective(chain)
    BY <2>6
  <2> HIDE DEF m, chain
  <2>9. TypeOK'
    <3>1. /\ left' \in [Id -> Nat] /\ owed' \in [Threads -> Seq(Id)]
      BY <1>1, <2>7, <2>8 DEF TypeOK
    <3>2. verdict' \in [Id -> {"none", "reply", "error"}]
      BY <2>7 DEF TypeOK
    <3>3. pc' \in [Threads -> PC]
      BY <1>3 DEF TypeOK, PC
    <3>4. QED
      BY <1>1, <2>5, <3>1, <3>2, <3>3 DEF TypeOK
  <2>10. /\ owed'[Receiver] = chain
         /\ \A u \in Threads : u # Receiver => owed'[u] = owed[u] /\ pc'[u] = pc[u]
         /\ pc'[Receiver] = "deliver"
         /\ verdict'[m] = "reply"
         /\ \A x \in Id : x # m => verdict'[x] = verdict[x]
    BY <1>1, <1>3, <2>2, <2>7 DEF TypeOK
  <2>11. ASSUME NEW u \in Threads PROVE SenderCustody(u)'
    <3>1. CASE u = Receiver
      BY <1>1, <2>10, <3>1 DEF Custody, SenderCustody, Working
    <3>2. CASE u # Receiver
      <4>1. Working(u) => sending[u] \in Id /\ sending[u] # m
        BY <2>4 DEF Custody, SenderCustody, TypeOK, Id
      <4>2. QED
        BY <1>1, <2>5, <2>10, <3>2, <4>1 DEF Custody, SenderCustody, Working
    <3>3. QED
      BY <3>1, <3>2
  <2>12. ASSUME NEW u \in Threads PROVE ChainCustody(u)'
    <3>1. CASE u = Receiver
      BY <1>1, <2>3, <2>4, <2>8, <2>10, <3>1 DEF ChainCustody
    <3>2. CASE u # Receiver
      <4>1. ASSUME NEW x \in ToSet(owed[u]) PROVE x \in Id /\ x # m
        BY <2>4, ElementsOf DEF TypeOK
      <4>2. QED
        BY <1>1, <2>8, <2>10, <3>2, <4>1 DEF Custody, ChainCustody
    <3>3. QED
      BY <3>1, <3>2
  <2>13. ListCustody'
    <3>1. \A x \in ToSet(waiting) : x \in Id
      BY <2>1, ElementsOf
    <3>2. QED
      BY <1>1, <2>5, <2>10, <3>1 DEF Custody, ListCustody
  <2>14. OtherCustody' /\ AtMostOnce'
    <3>1. ~(m > lastId)
      BY <2>2, <2>3 DEF TypeOK, Id
    <3>2. QED
      BY <1>1, <2>10, <3>1 DEF Custody, OtherCustody, AtMostOnce
  <2>15. NeverForgotten'
    <3>1. ASSUME NEW x \in 1..lastId
          PROVE  \/ calls[x] > 0 \/ x \in ToSet(waiting')
                 \/ \E u \in Threads : x = sending[u] \/ x \in ToSet(owed'[u])
      <4>1. CASE x = m
        BY <1>1, <2>8, <2>10, <4>1
      <4>2. CASE x # m
        <5>1. \A u \in Threads : x \in ToSet(owed[u]) => x \in ToSet(owed'[u])
          BY <1>1, <2>10, NoElements
        <5>2. QED
          BY <2>5, <4>2, <5>1 DEF NeverForgotten
      <4>3. QED
        BY <4>1, <4>2
    <3>2. QED
      BY <1>1, <3>1 DEF NeverForgotten
  <2>16. QED
    BY <2>9, <2>11, <2>12, <2>13, <2>14, <2>15 DEF Custody
<1>4. QED
  BY <1>2, <1>3 DEF ReceiveReply, Unlinked

(* A thread unlinks the requests of chain from the list and leaves those   *)
(* of rest: what onChannelClosed (all of them) and a pass of the timeout   *)
(* thread (the expired ones) have in common.                               *)
LEMMA UnlinkPreserves ==
  ASSUME IInv, TypeOK', NEW t \in Threads, pc[t] \in {"idle", "check"},
         NEW chain \in Seq(Id), NEW rest \in Seq(Id),
         IsInjective(chain), IsInjective(rest),
         ToSet(chain) \cup ToSet(rest) = ToSet(waiting),
         ToSet(chain) \cap ToSet(rest) = {},
         waiting' = rest,
         owed' = [owed EXCEPT ![t] = chain],
         verdict' = [n \in Id |-> IF n \in ToSet(chain) THEN "error" ELSE verdict[n]],
         pc' = [pc EXCEPT ![t] = "deliver"],
         UNCHANGED <<mutex, lastId, sending, calls>>
  PROVE  IInv'
<1> USE FlowAssumption DEF IInv
<1>1. \A n \in ToSet(waiting) :
        /\ n \in Id /\ n <= lastId /\ verdict[n] = "none" /\ calls[n] = 0
        /\ \A u \in Threads : sending[u] # n /\ n \notin ToSet(owed[u])
  <2>1. \A n \in ToSet(waiting) :
          n \in Id /\ n <= lastId /\ verdict[n] = "none" /\ calls[n] = 0
    BY ElementsOf DEF TypeOK, Custody, ListCustody
  <2>2. ASSUME NEW n \in ToSet(waiting), NEW u \in Threads
        PROVE  sending[u] # n /\ n \notin ToSet(owed[u])
    BY <2>1 DEF Custody, SenderCustody, ChainCustody, Id
  <2>3. QED
    BY <2>1, <2>2
<1>2. /\ owed[t] = <<>> /\ owed'[t] = chain
      /\ \A u \in Threads : u # t => owed'[u] = owed[u] /\ pc'[u] = pc[u]
      /\ pc'[t] = "deliver"
  BY DEF Custody, SenderCustody, TypeOK
<1>3. \A n \in ToSet(chain) : n \in Id /\ verdict'[n] = "error"
  BY ElementsOf
<1>4. \A n \in Id : n \notin ToSet(chain) => verdict'[n] = verdict[n]
  OBVIOUS
<1>5. ASSUME NEW u \in Threads PROVE SenderCustody(u)'
  <2>1. CASE u = t
    BY <1>2, <2>1 DEF Custody, SenderCustody, Working
  <2>2. CASE u # t
    <3>1. Working(u) => sending[u] \in Id /\ sending[u] \notin ToSet(chain)
      BY <1>1 DEF Custody, SenderCustody, TypeOK, Id
    <3>2. QED
      BY <1>2, <1>4, <2>2, <3>1 DEF Custody, SenderCustody, Working
  <2>3. QED
    BY <2>1, <2>2
<1>6. ASSUME NEW u \in Threads PROVE ChainCustody(u)'
  <2>1. CASE u = t
    BY <1>1, <1>2, <1>3, <2>1 DEF ChainCustody
  <2>2. CASE u # t
    <3>1. ASSUME NEW n \in ToSet(owed[u]) PROVE n \in Id /\ n \notin ToSet(chain)
      BY <1>1, ElementsOf DEF TypeOK
    <3>2. QED
      BY <1>2, <1>4, <2>2, <3>1 DEF Custody, ChainCustody
  <2>3. QED
    BY <2>1, <2>2
<1>7. ListCustody'
  BY <1>1, <1>4 DEF ListCustody
<1>8. OtherCustody' /\ AtMostOnce'
  <2>1. \A n \in ToSet(chain) : ~(n > lastId)
    BY <1>1 DEF TypeOK, Id
  <2>2. QED
    BY <1>3, <1>4, <2>1 DEF Custody, OtherCustody, AtMostOnce
<1>9. NeverForgotten'
  <2>1. ASSUME NEW n \in 1..lastId
        PROVE  \/ calls[n] > 0 \/ n \in ToSet(rest)
               \/ \E u \in Threads : n = sending[u] \/ n \in ToSet(owed'[u])
    <3>1. CASE n \in ToSet(chain)
      BY <1>2, <3>1
    <3>2. CASE n \notin ToSet(chain)
      <4>1. \A u \in Threads : n \in ToSet(owed[u]) => n \in ToSet(owed'[u])
        BY <1>2, NoElements
      <4>2. QED
        BY <3>2, <4>1 DEF NeverForgotten
    <3>3. QED
      BY <3>1, <3>2
  <2>2. QED
    BY <2>1 DEF NeverForgotten
<1> QED
  BY <1>5, <1>6, <1>7, <1>8, <1>9 DEF Custody

LEMMA OnChannelClosedPreserves ==
  ASSUME IInv, OnChannelClosed PROVE IInv'
<1> USE FlowAssumption DEF IInv
<1> DEFINE chain == waiting
           rest == <<>>
<1>1. /\ Receiver \in Threads /\ pc[Receiver] = "idle"
      /\ pc' = [pc EXCEPT ![Receiver] = "deliver"]
  BY DEF OnChannelClosed, At, Threads
<1>2. /\ waiting' = rest /\ closed' = TRUE
      /\ owed' = [owed EXCEPT ![Receiver] = chain]
      /\ verdict' = [n \in Id |-> IF n \in ToSet(chain) THEN "error" ELSE verdict[n]]
      /\ left' = [n \in Id |-> 0]
      /\ UNCHANGED <<mutex, timer, lastId, issued, sending, nap, inflight, open,
                     calls>>
  BY DEF OnChannelClosed
<1>3. /\ chain \in Seq(Id) /\ IsInjective(chain)
      /\ rest \in Seq(Id) /\ IsInjective(rest) /\ ToSet(rest) = {}
  BY NoElements DEF TypeOK, Custody, ListCustody, IsInjective
<1>4. TypeOK'
  <2>1. verdict' \in [Id -> {"none", "reply", "error"}] /\ left' \in [Id -> Nat]
    BY <1>2 DEF TypeOK
  <2>2. pc' \in [Threads -> PC] /\ owed' \in [Threads -> Seq(Id)]
    BY <1>1, <1>2 DEF TypeOK, PC
  <2>3. QED
    BY <1>2, <1>3, <2>1, <2>2 DEF TypeOK
<1>5. /\ ToSet(chain) \cup ToSet(rest) = ToSet(waiting)
      /\ ToSet(chain) \cap ToSet(rest) = {}
  BY <1>3
<1> HIDE DEF chain, rest
<1> QED
  BY <1>1, <1>2, <1>3, <1>4, <1>5, UnlinkPreserves

LEMMA CheckPreserves ==
  ASSUME IInv, NEW k \in Timers, Check(k) PROVE IInv'
<1> USE FlowAssumption DEF IInv
<1>1. PICK e \in 0..Len(waiting) :
        /\ owed' = [owed EXCEPT ![k] = SubSeq(waiting, 1, e)]
        /\ waiting' = SubSeq(waiting, e + 1, Len(waiting))
        /\ verdict' = [n \in Id |-> IF n \in ToSet(SubSeq(waiting, 1, e))
                                        THEN "error" ELSE verdict[n]]
        /\ timer' = TimerAfter(e)
        /\ nap' = [nap EXCEPT ![k] = IF e = Len(waiting) THEN 0
                                     ELSE left[waiting[e + 1]]]
  BY DEF Check, Expired, Beyond
<1>2. /\ k \in Threads /\ pc[k] = "check" /\ pc' = [pc EXCEPT ![k] = "deliver"]
      /\ UNCHANGED <<mutex, left, lastId, issued, sending, inflight, open, closed,
                     calls>>
  BY DEF Check, At, Threads
<1> DEFINE chain == SubSeq(waiting, 1, e)
           rest == SubSeq(waiting, e + 1, Len(waiting))
<1>3. waiting \in Seq(Id) /\ IsInjective(waiting)
  BY DEF TypeOK, Custody, ListCustody
<1>4. chain \in Seq(Id) /\ rest \in Seq(Id)
  BY <1>3, CutShape
<1>5. /\ ToSet(chain) \cup ToSet(rest) = ToSet(waiting)
      /\ ToSet(chain) \cap ToSet(rest) = {}
      /\ IsInjective(chain) /\ IsInjective(rest)
  BY <1>3, CutElements
<1>6. timer' \in Timers \cup {NoThread} /\ nap' \in [Timers -> Nat]
  <2>1. timer' \in Timers \cup {NoThread}
    BY <1>1 DEF TypeOK, TimerAfter
  <2>2. CASE e = Len(waiting)
    <3>1. nap' = [nap EXCEPT ![k] = 0]
      BY <1>1, <2>2
    <3>2. QED
      BY <2>1, <3>1 DEF TypeOK
  <2>3. CASE e # Len(waiting)
    <3>1. e + 1 \in 1..Len(waiting)
      BY <1>3, <2>3
    <3>2. left[waiting[e + 1]] \in Nat
      BY <1>3, <3>1, ElementOfSeq DEF TypeOK
    <3>3. nap' = [nap EXCEPT ![k] = left[waiting[e + 1]]]
      BY <1>1, <2>3
    <3>4. QED
      BY <2>1, <3>2, <3>3 DEF TypeOK
  <2>4. QED
    BY <2>2, <2>3
<1>7. /\ waiting' = rest /\ owed' = [owed EXCEPT ![k] = chain]
      /\ verdict' = [n \in Id |-> IF n \in ToSet(chain) THEN "error" ELSE verdict[n]]
  BY <1>1
<1> HIDE DEF chain, rest
<1>8. TypeOK'
  <2>1. verdict' \in [Id -> {"none", "reply", "error"}]
    BY <1>7 DEF TypeOK
  <2>2. pc' \in [Threads -> PC] /\ owed' \in [Threads -> Seq(Id)]
    BY <1>2, <1>4, <1>7 DEF TypeOK, PC
  <2>3. QED
    BY <1>2, <1>4, <1>6, <1>7, <2>1, <2>2 DEF TypeOK
<1> QED
  BY <1>2, <1>4, <1>5, <1>7, <1>8, UnlinkPreserves

LEMMA NextIInv == IInv /\ [Next]_flowVars => IInv'
<1> SUFFICES ASSUME IInv, [Next]_flowVars PROVE IInv'
  OBVIOUS
<1>1. CASE UNCHANGED flowVars
  <2>1. TypeOK'
    BY <1>1 DEF IInv, TypeOK, flowVars
  <2>2. ASSUME NEW u \in Threads PROVE SenderCustody(u)' /\ ChainCustody(u)'
    BY <1>1 DEF IInv, Custody, SenderCustody, ChainCustody, Working, flowVars
  <2>3. ListCustody' /\ OtherCustody' /\ AtMostOnce' /\ NeverForgotten'
    BY <1>1 DEF IInv, Custody, ListCustody, OtherCustody, AtMostOnce,
                NeverForgotten, flowVars
  <2>4. QED
    BY <2>1, <2>2, <2>3 DEF IInv, Custody
<1>2. ASSUME NEW c \in Callers, Call(c) PROVE IInv'
  BY <1>2, CallPreserves
<1>3. ASSUME NEW t \in Threads, Send(t) PROVE IInv'
  BY <1>3, LockPreserves, WrittenPreserves, NotWrittenPreserves, InsertPreserves
     DEF Send
<1>4. ASSUME NEW t \in Threads, Callback(t) PROVE IInv'
  BY <1>4, FailedCallbackPreserves, DeliverPreserves DEF Callback
<1>5. ASSUME NEW t \in Threads, Finish(t) PROVE IInv'
  BY <1>5, FinishPreserves
<1>6. ASSUME Receive PROVE IInv'
  BY <1>6, ReceiveReplyPreserves, OnChannelClosedPreserves DEF Receive
<1>7. ASSUME NEW k \in Timers, TimeoutThread(k) PROVE IInv'
  BY <1>7, CheckPreserves, WakePreserves DEF TimeoutThread
<1>8. CASE Environment
  BY <1>8, EnvironmentPreserves
<1> QED
  BY <1>1, <1>2, <1>3, <1>4, <1>5, <1>6, <1>7, <1>8 DEF Next

(* The inductive invariant of the flow. *)
THEOREM Invariance == Spec => []IInv
  BY InitIInv, NextIInv, PTL DEF Spec

(* Every variable keeps its type. *)
THEOREM TypeCorrect == Spec => []TypeOK
<1>1. IInv => TypeOK
  BY DEF IInv
<1> QED
  BY <1>1, Invariance, PTL

(* A request is in one place at a time: with the thread that sends it, in  *)
(* the list, or in the chain of one thread that unlinked it; only there    *)
(* its callback has still to run (send, onMessage, onChannelClosed and     *)
(* receive hand nodes to each other without losing or sharing one).        *)
THEOREM RequestsInCustody == Spec => []Custody
<1>1. IInv => Custody
  BY DEF IInv
<1> QED
  BY <1>1, Invariance, PTL

(* The callback of a request runs at most once, whichever of reply,        *)
(* timeout, closing and failed write come first.                           *)
THEOREM CallbackAtMostOnce == Spec => []AtMostOnce
<1>1. IInv => AtMostOnce
  BY DEF IInv
<1> QED
  BY <1>1, Invariance, PTL

(* A request whose callback has not run is still held somewhere that will  *)
(* lead to it.                                                             *)
THEOREM NoRequestForgotten == Spec => []NeverForgotten
<1>1. IInv => NeverForgotten
  BY DEF IInv
<1> QED
  BY <1>1, Invariance, PTL
-----------------------------------------------------------------------------
(* The refinement.  A step changes what the callers know of one request at *)
(* most: send numbers it, or its callback tells the verdict.  The verdicts *)
(* other steps decide are of requests whose callback has not run.          *)

LEMMA KnownUnchanged ==
  ASSUME lastId' = lastId, calls' = calls,
         \A n \in Id : calls[n] # 0 => verdict'[n] = verdict[n]
  PROVE  Known' = Known
  BY DEF Known

LEMMA KnownResolved ==
  ASSUME TypeOK, NEW m \in Id, m <= lastId, calls[m] = 0, verdict[m] # "none",
         calls' = [calls EXCEPT ![m] = @ + 1], UNCHANGED <<lastId, verdict>>
  PROVE  Promise!Next
<1>1. verdict[m] \in {"reply", "error"}
  BY DEF TypeOK
<1>2. Known[m] = "pending"
  BY DEF Known, TypeOK, Id
<1>3. ASSUME NEW n \in Id
      PROVE  Known'[n] = IF n = m THEN verdict[m] ELSE Known[n]
  <2>1. CASE n = m
    <3>1. calls'[n] = 1 /\ ~(n > lastId)
      BY <2>1 DEF TypeOK, Id
    <3>2. QED
      BY <2>1, <3>1 DEF Known
  <2>2. CASE n # m
    BY <2>2 DEF Known, TypeOK
  <2>3. QED
    BY <2>1, <2>2
<1>4. Known' = [Known EXCEPT ![m] = verdict[m]]
  <2>1. /\ Known' = [n \in Id |-> Known'[n]]
        /\ Known = [n \in Id |-> Known[n]]
    BY DEF Known
  <2> HIDE DEF Known
  <2>2. QED
    BY <1>3, <2>1
<1>5. Promise!Resolve(m, verdict[m])
  BY <1>2, <1>4 DEF Promise!Resolve
<1> QED
  BY <1>1, <1>5 DEF Promise!Next, Promise!Id, Id

LEMMA LockSubmits ==
  ASSUME IInv, NEW t \in Threads, Lock(t) PROVE Promise!Next
<1> USE FlowAssumption
<1> DEFINE m == lastId + 1
<1>1. m \in Id /\ lastId \in Nat /\ m > lastId
  BY DEF Lock, IInv, TypeOK, Id
<1>2. lastId' = m /\ calls' = calls /\ verdict' = verdict
  BY DEF Lock
<1>3. calls[m] = 0
  BY <1>1 DEF IInv, Custody, OtherCustody
<1>4. Known[m] = "new"
  BY <1>1 DEF Known
<1>5. ASSUME NEW n \in Id, n < m PROVE Known[n] # "new"
  <2>1. ~(n > lastId) /\ verdict[n] \in {"none", "reply", "error"}
    BY <1>1, <1>5 DEF IInv, TypeOK, Id
  <2>2. Known[n] = "pending" \/ Known[n] = verdict[n]
    BY <2>1 DEF Known
  <2>3. QED
    BY <2>1, <2>2
<1>6. ASSUME NEW n \in Id
      PROVE  Known'[n] = IF n = m THEN "pending" ELSE Known[n]
  <2>1. CASE n = m
    BY <1>1, <1>2, <1>3, <2>1 DEF Known
  <2>2. CASE n # m
    <3>1. n > m <=> n > lastId
      BY <1>1, <2>2 DEF Id
    <3>2. QED
      BY <1>2, <2>2, <3>1 DEF Known
  <2>3. QED
    BY <2>1, <2>2
<1>7. Known' = [Known EXCEPT ![m] = "pending"]
  <2>1. /\ Known' = [n \in Id |-> Known'[n]]
        /\ Known = [n \in Id |-> Known[n]]
    BY DEF Known
  <2> HIDE DEF Known
  <2>2. QED
    BY <1>6, <2>1
<1> HIDE DEF m
<1>8. Promise!Submit(m)
  BY <1>4, <1>5, <1>7 DEF Promise!Submit, Promise!Id, Id
<1> QED
  BY <1>1, <1>8 DEF Promise!Next, Promise!Id, Id

LEMMA NextRefines ==
  ASSUME IInv, [Next]_flowVars PROVE Promise!Next \/ Known' = Known
<1> USE FlowAssumption
<1> DEFINE Goal == Promise!Next \/ Known' = Known
<1>1. CASE UNCHANGED flowVars
  BY <1>1, KnownUnchanged DEF flowVars
<1>2. ASSUME NEW c \in Callers, Call(c) PROVE Goal
  BY <1>2, KnownUnchanged DEF Call
<1>3. ASSUME NEW t \in Threads, Send(t) PROVE Goal
  <2>1. CASE Lock(t)
    BY <2>1, LockSubmits
  <2>2. CASE Written(t)
    BY <2>2, KnownUnchanged DEF Written
  <2>3. CASE NotWritten(t)
    <3>1. calls[sending[t]] = 0
      BY <2>3 DEF NotWritten, At, IInv, Custody, SenderCustody, Working
    <3>2. \A n \in Id : calls[n] # 0 => verdict'[n] = verdict[n]
      BY <2>3, <3>1 DEF NotWritten, IInv, TypeOK
    <3>3. QED
      BY <2>3, <3>2, KnownUnchanged DEF NotWritten
  <2>4. ASSUME NEW d \in Timeouts, Insert(t, EffectiveTimeout(d)) PROVE Goal
    BY <2>4, KnownUnchanged DEF Insert
  <2>5. QED
    BY <1>3, <2>1, <2>2, <2>3, <2>4 DEF Send
<1>4. ASSUME NEW t \in Threads, Callback(t) PROVE Goal
  <2>1. ASSUME NEW resend \in BOOLEAN, FailedCallback(t, resend) PROVE Goal
    <3>1. /\ sending[t] \in Id /\ sending[t] <= lastId
          /\ calls[sending[t]] = 0 /\ verdict[sending[t]] # "none"
      BY <2>1 DEF FailedCallback, IInv, TypeOK, Custody, SenderCustody, Working, Id
    <3>2. QED
      BY <2>1, <3>1, KnownResolved DEF FailedCallback, IInv
  <2>2. ASSUME NEW resend \in BOOLEAN, Deliver(t, resend) PROVE Goal
    <3>1. /\ owed[t] \in Seq(Id) /\ owed[t] # <<>> /\ IsInjective(owed[t])
      BY <2>2 DEF Deliver, IInv, TypeOK, Custody, ChainCustody
    <3>2. Head(owed[t]) \in Id /\ Head(owed[t]) \in ToSet(owed[t])
      BY <3>1, TailElements
    <3>3. /\ Head(owed[t]) <= lastId
          /\ calls[Head(owed[t])] = 0 /\ verdict[Head(owed[t])] # "none"
      BY <3>2 DEF IInv, Custody, ChainCustody
    <3>4. QED
      BY <2>2, <3>2, <3>3, KnownResolved DEF Deliver, IInv
  <2>3. QED
    BY <1>4, <2>1, <2>2 DEF Callback
<1>5. ASSUME NEW t \in Threads, Finish(t) PROVE Goal
  BY <1>5, KnownUnchanged DEF Finish
<1>6. ASSUME NEW n \in Id, ReceiveReply(n) PROVE Goal
  <2>1. CASE verdict' = verdict
    BY <1>6, <2>1, KnownUnchanged DEF ReceiveReply
  <2>2. ASSUME NEW i \in 1..Len(waiting),
               verdict' = [verdict EXCEPT ![waiting[i]] = "reply"]
        PROVE  Goal
    <3>1. waiting[i] \in ToSet(waiting)
      BY ElementIndex DEF IInv, TypeOK
    <3>2. calls[waiting[i]] = 0
      BY <3>1 DEF IInv, Custody, ListCustody
    <3>3. \A m \in Id : calls[m] # 0 => verdict'[m] = verdict[m]
      BY <2>2, <3>2 DEF IInv, TypeOK
    <3>4. QED
      BY <1>6, <3>3, KnownUnchanged DEF ReceiveReply
  <2>3. QED
    BY <1>6, <2>1, <2>2 DEF ReceiveReply
<1>7. CASE OnChannelClosed
  <2>1. \A n \in Id : calls[n] # 0 => verdict'[n] = verdict[n]
    BY <1>7 DEF OnChannelClosed, IInv, Custody, ListCustody
  <2>2. QED
    BY <1>7, <2>1, KnownUnchanged DEF OnChannelClosed
<1>8. ASSUME NEW k \in Timers, TimeoutThread(k) PROVE Goal
  <2>1. CASE Check(k)
    <3>1. PICK e \in 0..Len(waiting) :
            verdict' = [n \in Id |-> IF n \in ToSet(SubSeq(waiting, 1, e))
                                        THEN "error" ELSE verdict[n]]
      BY <2>1 DEF Check, Expired
    <3>2. ToSet(SubSeq(waiting, 1, e)) \subseteq ToSet(waiting)
      BY CutElements DEF IInv, TypeOK, Custody, ListCustody
    <3>3. \A n \in Id : calls[n] # 0 => verdict'[n] = verdict[n]
      BY <3>1, <3>2 DEF IInv, Custody, ListCustody
    <3>4. QED
      BY <2>1, <3>3, KnownUnchanged DEF Check
  <2>2. CASE Wake(k)
    BY <2>2, KnownUnchanged DEF Wake
  <2>3. QED
    BY <1>8, <2>1, <2>2 DEF TimeoutThread
<1>9. CASE Environment
  BY <1>9, KnownUnchanged DEF Environment, Close, Tick
<1> QED
  BY <1>1, <1>2, <1>3, <1>4, <1>5, <1>6, <1>7, <1>8, <1>9 DEF Next, Receive

(* What the callers of Flow see is what RequestReply promises: every       *)
(* request goes from new to pending to one final reply or error.           *)
THEOREM FlowImplementsPromise == Spec => ImplementsPromise
<1>1. Init => Promise!Init
  BY FlowAssumption DEF Init, Promise!Init, Known, Promise!Id, Id
<1>2. IInv /\ [Next]_flowVars => [Promise!Next]_Known
  BY NextRefines
<1> QED
  BY <1>1, <1>2, Invariance, PTL DEF Spec, ImplementsPromise, Promise!Spec
-----------------------------------------------------------------------------
(* The list and the timeout thread that watches it.                        *)

(* A thread that looks at the list again, or is about to sleep until it    *)
(* does.                                                                   *)
Watches(k) == nap[k] > 0 \/ pc[k] \in {"check", "sleep"}

TimerLooks == \A k \in Timers : timer = k => Watches(k)

TimerSet == waiting # <<>> => timer # NoThread

TimerInv == OneTimer /\ TimerLooks /\ TimerSet

LEMMA TimerInitially == Init => TimerInv
<1> USE FlowAssumption
<1> SUFFICES ASSUME Init PROVE TimerInv
  OBVIOUS
<1>1. \A k \in Timers : nap[k] = 0 /\ pc[k] = "idle" /\ timer # k
  BY DEF Init, Threads
<1> QED
  BY <1>1 DEF Init, TimerInv, OneTimer, TimerLooks, TimerSet, Watches

(* A step that leaves the list, the timer and the naps alone, and moves no *)
(* thread into or out of its watch.                                        *)
LEMMA WatchKept ==
  ASSUME TypeOK, TimerInv, UNCHANGED <<waiting, timer, nap>>,
         \A k \in Timers : pc'[k] \in {"check", "sleep"} <=> pc[k] \in {"check", "sleep"}
  PROVE  TimerInv'
BY DEF TimerInv, OneTimer, TimerLooks, TimerSet, Watches

LEMMA InsertKeepsTimer ==
  ASSUME TypeOK, TimerInv, NEW t \in Threads, NEW d, Insert(t, d)
  PROVE  TimerInv'
<1> USE FlowAssumption
<1>1. pc[t] = "insert" /\ UNCHANGED nap
  BY DEF Insert
<1>2. CASE timer = NoThread
  <2>1. PICK k \in Timers : pc[k] = "idle" /\ timer' = k /\ pc' = [pc EXCEPT ![t] = "deliver", ![k] = "check"]
    BY <1>2 DEF Insert
  <2>2. pc'[k] = "check" /\ \A u \in Timers : u # k => ~Watches(u) /\ ~Watches(u)'
    BY <1>1, <1>2, <2>1 DEF TypeOK, TimerInv, OneTimer, Watches, Threads
  <2> QED
    BY <2>1, <2>2 DEF TimerInv, OneTimer, TimerLooks, TimerSet, Watches, Threads
<1>3. CASE timer # NoThread
  <2>1. timer' = timer /\ pc' = [pc EXCEPT ![t] = "deliver"]
    BY <1>3 DEF Insert
  <2>2. \A k \in Timers : Watches(k)' <=> Watches(k)
    BY <1>1, <2>1 DEF TypeOK, Watches, Threads
  <2> QED
    BY <1>3, <2>1, <2>2 DEF TimerInv, OneTimer, TimerLooks, TimerSet, Watches
<1> QED
  BY <1>2, <1>3

LEMMA CheckKeepsTimer ==
  ASSUME TypeOK, TimerInv, NEW k \in Timers, Check(k)
  PROVE  TimerInv'
<1> USE FlowAssumption
<1>1. pc[k] = "check" /\ pc' = [pc EXCEPT ![k] = "deliver"]
  BY DEF Check, At
<1>2. timer = k /\ \A u \in Timers : u # k => ~Watches(u)
  BY <1>1 DEF TimerInv, OneTimer, Watches
<1>3. PICK e \in 0..Len(waiting) :
        /\ IsExpiredPrefix(e)
        /\ waiting' = Beyond(e)
        /\ timer' = TimerAfter(e)
        /\ nap' = [nap EXCEPT ![k] = IF e = Len(waiting) THEN 0 ELSE left[waiting[e + 1]]]
  BY DEF Check
<1>4. pc'[k] = "deliver" /\ \A u \in Timers : u # k => pc'[u] = pc[u] /\ nap'[u] = nap[u]
  BY <1>1, <1>3 DEF TypeOK, Threads
<1>5. \A u \in Timers : u # k => ~Watches(u)'
  BY <1>2, <1>4 DEF Watches
<1>6. CASE e = Len(waiting)
  <2>1. timer' = NoThread /\ nap'[k] = 0
    BY <1>3, <1>6 DEF TimerAfter, TypeOK
  <2>2. waiting' = <<>>
    BY <1>3, <1>6 DEF Beyond, TypeOK
  <2>3. ~Watches(k)'
    BY <1>4, <2>1 DEF Watches
  <2> QED
    BY <1>5, <2>1, <2>2, <2>3 DEF TimerInv, OneTimer, TimerLooks, TimerSet, Watches, Threads
<1>7. CASE e # Len(waiting)
  <2>1. Len(waiting) \in Nat /\ e < Len(waiting)
    BY <1>7 DEF TypeOK
  <2>2. timer' = k /\ nap'[k] = left[waiting[e + 1]] /\ left[waiting[e + 1]] > 0
    BY <1>2, <1>3, <1>7, <2>1 DEF TimerAfter, IsExpiredPrefix, TypeOK
  <2> QED
    BY <1>5, <2>2 DEF TimerInv, OneTimer, TimerLooks, TimerSet, Watches, Threads
<1> QED
  BY <1>6, <1>7

LEMMA FinishKeepsTimer ==
  ASSUME TypeOK, TimerInv, NEW t \in Threads, Finish(t)
  PROVE  TimerInv'
<1> USE FlowAssumption
<1>1. pc[t] = "deliver" /\ UNCHANGED <<waiting, timer, nap>>
  BY DEF Finish, At
<1>2. \A k \in Timers : Watches(k)' <=> Watches(k)
  <2>1. CASE pc' = [pc EXCEPT ![t] = "idle"]
    BY <1>1, <2>1 DEF TypeOK, Watches, Threads
  <2>2. CASE pc' = [pc EXCEPT ![t] = "sleep"] /\ nap[t] > 0
    BY <1>1, <2>2 DEF TypeOK, Watches, Threads
  <2> QED
    BY <2>1, <2>2 DEF Finish, At
<1> QED
  BY <1>1, <1>2 DEF TimerInv, OneTimer, TimerLooks, TimerSet, Watches

LEMMA TickKeepsTimer ==
  ASSUME TypeOK, TimerInv, Tick
  PROVE  TimerInv'
<1>1. UNCHANGED <<waiting, timer, pc>>
  BY DEF Tick
<1>2. ASSUME NEW k \in Timers PROVE Watches(k)' <=> Watches(k)
  <2>1. nap[k] \in Nat
    BY DEF TypeOK
  <2>2. nap'[k] = nap[k] \/ (pc[k] = "sleep" /\ nap'[k] = nap[k] - 1)
    BY DEF Tick, Sleeping
  <2> QED
    BY <1>1, <2>1, <2>2 DEF Watches, Tick, Sleeping
<1> QED
  BY <1>1, <1>2 DEF TimerInv, OneTimer, TimerLooks, TimerSet, Watches

LEMMA TimerStep == IInv /\ TimerInv /\ [Next]_flowVars => TimerInv'
<1> SUFFICES ASSUME IInv, TimerInv, [Next]_flowVars PROVE TimerInv'
  OBVIOUS
<1> USE FlowAssumption
<1>0. TypeOK
  BY DEF IInv
<1>1. CASE UNCHANGED flowVars
  BY <1>0, <1>1, WatchKept DEF flowVars
<1>2. ASSUME NEW c \in Callers, Call(c) PROVE TimerInv'
  BY <1>0, <1>2, WatchKept DEF Call, At, TypeOK, Threads
<1>3. ASSUME NEW t \in Threads, Lock(t) \/ Written(t) \/ NotWritten(t) PROVE TimerInv'
  BY <1>0, <1>3, WatchKept DEF Lock, Written, NotWritten, At, TypeOK, Threads
<1>4. ASSUME NEW t \in Threads, NEW d \in Timeouts, Insert(t, EffectiveTimeout(d)) PROVE TimerInv'
  BY <1>0, <1>4, InsertKeepsTimer
<1>5. ASSUME NEW t \in Threads, NEW r \in BOOLEAN, FailedCallback(t, r) \/ Deliver(t, r) PROVE TimerInv'
  BY <1>0, <1>5, WatchKept DEF FailedCallback, Deliver, TypeOK, Threads
<1>6. ASSUME NEW t \in Threads, Finish(t) PROVE TimerInv'
  BY <1>0, <1>6, FinishKeepsTimer
<1>7. CASE Receive
  <2>1. UNCHANGED <<timer, nap>> /\ \A k \in Timers : pc'[k] = pc[k]
    BY <1>0, <1>7 DEF Receive, ReceiveReply, OnChannelClosed, At, TypeOK, Threads
  <2>2. waiting' # <<>> => waiting # <<>>
    <3>1. CASE OnChannelClosed
      BY <3>1 DEF OnChannelClosed
    <3>2. ASSUME NEW n \in Id, ReceiveReply(n) PROVE waiting = waiting' \/ waiting # <<>>
      <4>1. waiting = waiting' \/ \E i \in 1..Len(waiting) : TRUE
        BY <3>2 DEF ReceiveReply
      <4> QED  BY <4>1 DEF TypeOK
    <3> QED
      BY <1>7, <3>1, <3>2 DEF Receive
  <2> QED
    BY <2>1, <2>2 DEF TimerInv, OneTimer, TimerLooks, TimerSet, Watches
<1>8. ASSUME NEW k \in Timers, Check(k) PROVE TimerInv'
  BY <1>0, <1>8, CheckKeepsTimer
<1>9. ASSUME NEW k \in Timers, Wake(k) PROVE TimerInv'
  BY <1>0, <1>9, WatchKept DEF Wake, At, TypeOK, Threads
<1>10. CASE Tick
  BY <1>0, <1>10, TickKeepsTimer
<1>11. CASE Close
  BY <1>0, <1>11, WatchKept DEF Close
<1> QED
  BY <1>1, <1>2, <1>3, <1>4, <1>5, <1>6, <1>7, <1>8, <1>9, <1>10, <1>11
  DEF Next, Send, Callback, TimeoutThread, Environment

LEMMA TimerInvariance == Spec => []TimerInv
  BY TimerInitially, TimerStep, Invariance, PTL DEF Spec

(* While a request waits, m_timeoutThread is a thread that will look at    *)
(* the list again: send creates one exactly when there is none that will.  *)
THEOREM TimerIsPresent == Spec => []TimerPresent
<1>1. TypeOK /\ TimerInv => TimerPresent
  BY DEF TypeOK, TimerInv, TimerLooks, TimerSet, TimerPresent, Watches
<1> QED
  BY <1>1, TimerInvariance, TypeCorrect, PTL

(* No other timeout thread than m_timeoutThread looks at the list again.   *)
THEOREM TimerIsOne == Spec => []OneTimer
<1>1. TimerInv => OneTimer
  BY DEF TimerInv
<1> QED
  BY <1>1, TimerInvariance, PTL
-----------------------------------------------------------------------------
(* The list is sorted.  Inserting keeps it so by the place chosen; time    *)
(* takes the same from everybody.                                          *)

LEMMA InsertShape ==
  ASSUME NEW s \in Seq(Id), NEW e \in Id, NEW p \in 1..(Len(s) + 1), NEW w, w = InsertAt(s, p, e)
  PROVE  /\ Len(w) = Len(s) + 1
         /\ \A i \in 1..(p - 1) : w[i] = s[i]
         /\ w[p] = e
         /\ \A i \in p..Len(s) : w[i + 1] = s[i]
  BY InsertAtShape

LEMMA InsertKeepsSorted ==
  ASSUME IInv, DeadlineOrder, NEW t \in Threads, NEW d \in Nat, Insert(t, d)
  PROVE  DeadlineOrder'
<1> USE FlowAssumption
<1> DEFINE m == sending[t]
<1>1. waiting \in Seq(Id) /\ left \in [Id -> Nat] /\ m \in Id /\ m \notin ToSet(waiting)
  BY DEF Insert, IInv, Custody, SenderCustody, Working, TypeOK, Id
<1>2. left' = [left EXCEPT ![m] = d]
  BY DEF Insert
<1>3. PICK p \in 1..(Len(waiting) + 1) : IsPlaceFor(p, d) /\ waiting' = InsertAt(waiting, p, m)
  BY DEF Insert
<1> HIDE DEF m
<1>4. /\ Len(waiting') = Len(waiting) + 1 /\ Len(waiting) \in Nat
      /\ \A i \in 1..(p - 1) : waiting'[i] = waiting[i]
      /\ waiting'[p] = m
      /\ \A i \in p..Len(waiting) : waiting'[i + 1] = waiting[i]
  <2>1. Len(waiting) \in Nat
    BY <1>1
  <2>2. p \in 1..(Len(waiting) + 1)
    OBVIOUS
  <2>3. waiting' = InsertAt(waiting, p, m)
    BY <1>3
  <2> QED
    BY <1>1, <2>1, <2>2, <2>3, InsertShape
<1>5. ASSUME NEW i \in 1..Len(waiting)
      PROVE  left'[waiting[i]] = left[waiting[i]] /\ left[waiting[i]] \in Nat
  <2>1. waiting[i] \in Id /\ waiting[i] # m
    BY <1>1, ElementOfSeq, ElementIndex
  <2> QED
    BY <1>1, <1>2, <2>1
<1>6. left'[m] = d
  BY <1>1, <1>2
<1>7. \A i \in 1..(p - 1) : left[waiting[i]] <= d
  BY <1>3 DEF IsPlaceFor
<1>8. ASSUME NEW i \in p..Len(waiting) PROVE d <= left[waiting[i]]
  <2>1. p \in 1..Len(waiting) /\ i \in 1..Len(waiting) /\ left[waiting[p]] > d
    BY <1>3, <1>4 DEF IsPlaceFor
  <2>2. left[waiting[p]] <= left[waiting[i]]
    BY <1>5, <2>1 DEF DeadlineOrder
  <2> QED
    BY <1>5, <2>1, <2>2
<1>9. SUFFICES ASSUME NEW i \in 1..Len(waiting'), NEW j \in 1..Len(waiting'), i < j
               PROVE  left'[waiting'[i]] <= left'[waiting'[j]]
  BY DEF DeadlineOrder
<1> DEFINE old(x) == IF x < p THEN x ELSE x - 1
<1>10. ASSUME NEW x \in 1..Len(waiting'), x # p
       PROVE  old(x) \in 1..Len(waiting) /\ waiting'[x] = waiting[old(x)]
  <2>1. CASE x < p
    BY <1>4, <2>1
  <2>2. CASE x > p
    <3>1. x - 1 \in p..Len(waiting) /\ (x - 1) + 1 = x
      BY <1>4, <2>2
    <3> QED  BY <1>4, <2>2, <3>1
  <2> QED  BY <1>10, <2>1, <2>2
<1>11. CASE i = p
  <2>1. j # p /\ old(j) \in p..Len(waiting)
    BY <1>4, <1>9, <1>10, <1>11
  <2>2. waiting'[j] = waiting[old(j)] /\ d <= left[waiting[old(j)]]
    BY <1>8, <1>10, <2>1
  <2>3. left'[waiting'[j]] = left[waiting[old(j)]]
    BY <1>5, <1>10, <2>1, <2>2
  <2> QED
    BY <1>4, <1>6, <1>11, <2>2, <2>3
<1>12. CASE j = p
  <2>1. i # p /\ old(i) \in 1..(p - 1)
    BY <1>9, <1>10, <1>12
  <2>2. waiting'[i] = waiting[old(i)] /\ left[waiting[old(i)]] <= d
    BY <1>7, <1>10, <2>1
  <2>3. left'[waiting'[i]] = left[waiting[old(i)]]
    BY <1>5, <1>10, <2>1, <2>2
  <2> QED
    BY <1>4, <1>6, <1>12, <2>2, <2>3
<1>13. CASE i # p /\ j # p
  <2>1. old(i) < old(j) /\ old(i) \in 1..Len(waiting) /\ old(j) \in 1..Len(waiting)
    BY <1>9, <1>10, <1>13
  <2>2. left[waiting[old(i)]] <= left[waiting[old(j)]]
    BY <2>1 DEF DeadlineOrder
  <2> QED
    BY <1>5, <1>10, <1>13, <2>1, <2>2
<1> QED
  BY <1>11, <1>12, <1>13

LEMMA ReplyKeepsSorted ==
  ASSUME IInv, DeadlineOrder, NEW n \in Id, ReceiveReply(n)
  PROVE  DeadlineOrder'
<1>1. CASE UNCHANGED <<waiting, left>>
  BY <1>1 DEF DeadlineOrder
<1>2. ASSUME NEW i \in 1..Len(waiting), waiting' = RemoveAt(waiting, i), left' = [left EXCEPT ![waiting[i]] = 0]
      PROVE  DeadlineOrder'
  <2>1. waiting \in Seq(Id) /\ left \in [Id -> Nat] /\ Len(waiting) \in Nat
    BY DEF IInv, TypeOK
  <2>2. \A a, b \in 1..Len(waiting) : waiting[a] = waiting[b] => a = b
    BY <2>1, InjectiveIndex DEF IInv, Custody, ListCustody
  <2>3. /\ Len(waiting') = Len(waiting) - 1
        /\ \A x \in 1..(i - 1) : waiting'[x] = waiting[x]
        /\ \A x \in (i + 1)..Len(waiting) : waiting'[x - 1] = waiting[x]
    BY <1>2, <2>1, RemoveAtShape
  <2> DEFINE old(x) == IF x < i THEN x ELSE x + 1
  <2>4. ASSUME NEW x \in 1..Len(waiting')
        PROVE  old(x) \in 1..Len(waiting) /\ old(x) # i /\ waiting'[x] = waiting[old(x)]
    <3>1. CASE x < i
      BY <2>1, <2>3, <3>1
    <3>2. CASE ~(x < i)
      <4>1. x + 1 \in (i + 1)..Len(waiting) /\ (x + 1) - 1 = x
        BY <2>1, <2>3, <3>2
      <4> QED  BY <2>1, <2>3, <3>2, <4>1
    <3> QED  BY <3>1, <3>2
  <2>5. ASSUME NEW x \in 1..Len(waiting), x # i PROVE left'[waiting[x]] = left[waiting[x]]
    <3>1. waiting[x] \in Id /\ waiting[x] # waiting[i]
      BY <2>1, <2>2, <2>5, ElementOfSeq
    <3> QED  BY <1>2, <2>1, <3>1
  <2>6. ASSUME NEW x \in 1..Len(waiting'), NEW y \in 1..Len(waiting'), x < y
        PROVE  left'[waiting'[x]] <= left'[waiting'[y]]
    <3>1. old(x) < old(y)
      BY <2>6
    <3>2. left[waiting[old(x)]] <= left[waiting[old(y)]]
      BY <2>4, <3>1 DEF DeadlineOrder
    <3> QED  BY <2>4, <2>5, <3>2
  <2> QED  BY <2>6 DEF DeadlineOrder
<1> QED
  BY <1>1, <1>2 DEF ReceiveReply, Unlinked

LEMMA CheckKeepsSorted ==
  ASSUME IInv, DeadlineOrder, NEW k \in Timers, Check(k)
  PROVE  DeadlineOrder'
<1>1. PICK e \in 0..Len(waiting) : waiting' = SubSeq(waiting, e + 1, Len(waiting))
  BY DEF Check, Beyond
<1>2. left' = left /\ waiting \in Seq(Id) /\ Len(waiting) \in Nat
  BY DEF Check, IInv, TypeOK
<1>3. Len(waiting') = Len(waiting) - e /\ \A i \in 1..(Len(waiting) - e) : waiting'[i] = waiting[e + i]
  BY <1>1, <1>2, CutShape
<1>4. \A i \in 1..Len(waiting') : e + i \in 1..Len(waiting) /\ waiting'[i] = waiting[e + i]
  BY <1>2, <1>3
<1>5. ASSUME NEW i \in 1..Len(waiting'), NEW j \in 1..Len(waiting'), i < j
      PROVE  left'[waiting'[i]] <= left'[waiting'[j]]
  <2>1. e + i < e + j
    BY <1>5
  <2>2. left[waiting[e + i]] <= left[waiting[e + j]]
    BY <1>4, <2>1 DEF DeadlineOrder
  <2> QED
    BY <1>2, <1>4, <2>2
<1> QED
  BY <1>5 DEF DeadlineOrder

LEMMA TickKeepsSorted ==
  ASSUME IInv, DeadlineOrder, Tick
  PROVE  DeadlineOrder'
<1>1. waiting \in Seq(Id) /\ waiting' = waiting /\ left \in [Id -> Nat]
  BY DEF Tick, IInv, TypeOK
<1>2. \A i \in 1..Len(waiting) : waiting[i] \in Id
  BY <1>1, ElementOfSeq
<1>3. \A n \in Id : left'[n] = IF left[n] = 0 THEN 0 ELSE left[n] - 1
  BY DEF Tick
<1>4. ASSUME NEW i \in 1..Len(waiting), NEW j \in 1..Len(waiting), i < j
      PROVE  left'[waiting[i]] <= left'[waiting[j]]
  <2>1. left[waiting[i]] <= left[waiting[j]] /\ left[waiting[i]] \in Nat /\ left[waiting[j]] \in Nat
    BY <1>1, <1>2, <1>4 DEF DeadlineOrder
  <2> QED
    BY <1>2, <1>3, <2>1
<1> QED
  BY <1>1, <1>4 DEF DeadlineOrder

LEMMA SortedStep == IInv /\ DeadlineOrder /\ [Next]_flowVars => DeadlineOrder'
<1> SUFFICES ASSUME IInv, DeadlineOrder, [Next]_flowVars PROVE DeadlineOrder'
  OBVIOUS
<1>1. CASE UNCHANGED <<waiting, left>>
  BY <1>1 DEF DeadlineOrder
<1>2. ASSUME NEW t \in Threads, NEW d \in Timeouts, Insert(t, EffectiveTimeout(d)) PROVE DeadlineOrder'
  <2>1. EffectiveTimeout(d) \in Nat
    BY FlowAssumption DEF EffectiveTimeout
  <2> QED
    BY <1>2, <2>1, InsertKeepsSorted
<1>3. CASE OnChannelClosed
  <2>1. Len(waiting') = 0
    BY <1>3 DEF OnChannelClosed
  <2> QED
    BY <2>1 DEF DeadlineOrder
<1>4. CASE UNCHANGED flowVars
  BY <1>1, <1>4 DEF flowVars
<1>5. ASSUME NEW c \in Callers, Call(c) PROVE DeadlineOrder'
  BY <1>1, <1>5 DEF Call
<1>6. ASSUME NEW t \in Threads, Lock(t) \/ Written(t) \/ NotWritten(t) \/ Finish(t) PROVE DeadlineOrder'
  BY <1>1, <1>6 DEF Lock, Written, NotWritten, Finish
<1>7. ASSUME NEW t \in Threads, NEW r \in BOOLEAN, FailedCallback(t, r) \/ Deliver(t, r) PROVE DeadlineOrder'
  BY <1>1, <1>7 DEF FailedCallback, Deliver
<1>8. ASSUME NEW k \in Timers, Wake(k) PROVE DeadlineOrder'
  BY <1>1, <1>8 DEF Wake
<1>9. CASE Close
  BY <1>1, <1>9 DEF Close
<1> QED
  BY <1>2, <1>3, <1>4, <1>5, <1>6, <1>7, <1>8, <1>9, ReplyKeepsSorted, CheckKeepsSorted, TickKeepsSorted
  DEF Next, Send, Callback, Receive, TimeoutThread, Environment

(* The list stays sorted by expiry, for any timeouts asked for, so that    *)
(* the head the timeout thread looks at is the first to expire.            *)
THEOREM ListIsSorted == Spec => []DeadlineOrder
<1>1. Init => DeadlineOrder
  BY DEF Init, DeadlineOrder
<1> QED
  BY <1>1, SortedStep, Invariance, PTL DEF Spec
-----------------------------------------------------------------------------
(* A reply finds its request.  The peer may answer from Written on; until  *)
(* the node is in the list, the sender holds the mutex.                    *)
Reachable ==
  \A n \in inflight :
    verdict[n] = "none" =>
      n \in ToSet(waiting) \/ \E t \in Threads : pc[t] = "insert" /\ sending[t] = n

LEMMA InsertKeepsReachable ==
  ASSUME IInv, Reachable, NEW t \in Threads, NEW d, Insert(t, d)
  PROVE  Reachable'
<1> USE FlowAssumption
<1>1. waiting \in Seq(Id) /\ sending[t] \in Id /\ UNCHANGED <<inflight, verdict>>
  BY DEF Insert, IInv, Custody, SenderCustody, Working, TypeOK, Id
<1>2. PICK p \in 1..(Len(waiting) + 1) : waiting' = InsertAt(waiting, p, sending[t])
  BY DEF Insert
<1>3. ToSet(waiting') = ToSet(waiting) \cup {sending[t]}
  BY <1>1, <1>2, InsertAtElements
<1>4. ASSUME NEW u \in Threads, u # t, pc[u] = "insert"
      PROVE  pc'[u] = "insert" /\ sending'[u] = sending[u]
  BY <1>4 DEF Insert, IInv, TypeOK, Threads
<1> QED
  BY <1>1, <1>3, <1>4 DEF Reachable

LEMMA ReplyKeepsReachable ==
  ASSUME IInv, Reachable, NEW n \in Id, ReceiveReply(n)
  PROVE  Reachable'
<1> USE FlowAssumption
<1>1. inflight' \subseteq inflight /\ sending' = sending /\ pc[Receiver] = "idle"
  BY DEF ReceiveReply
<1>2. CASE UNCHANGED <<waiting, verdict, pc>>
  BY <1>1, <1>2 DEF Reachable
<1>3. ASSUME NEW i \in 1..Len(waiting), waiting' = RemoveAt(waiting, i),
             verdict' = [verdict EXCEPT ![waiting[i]] = "reply"],
             pc' = [pc EXCEPT ![Receiver] = "deliver"]
      PROVE  Reachable'
  <2>1. waiting \in Seq(Id) /\ IsInjective(waiting) /\ inflight \subseteq Id
    BY DEF IInv, TypeOK, Custody, ListCustody
  <2>2. waiting[i] \in Id
    BY <2>1, ElementOfSeq
  <2>3. ToSet(waiting') = ToSet(waiting) \ {waiting[i]}
    BY <1>3, <2>1, RemoveAtElements
  <2>4. \A x \in inflight : IF x = waiting[i] THEN verdict'[x] = "reply" ELSE verdict'[x] = verdict[x]
    BY <1>3, <2>1, <2>2 DEF IInv, TypeOK
  <2>5. \A t \in Threads : pc[t] = "insert" => pc'[t] = "insert"
    BY <1>1, <1>3 DEF IInv, TypeOK
  <2> QED
    BY <1>1, <2>3, <2>4, <2>5 DEF Reachable
<1> QED
  BY <1>2, <1>3 DEF ReceiveReply, Unlinked

LEMMA CheckKeepsReachable ==
  ASSUME IInv, Reachable, NEW k \in Timers, Check(k)
  PROVE  Reachable'
<1>1. PICK e \in 0..Len(waiting) :
        /\ waiting' = SubSeq(waiting, e + 1, Len(waiting))
        /\ verdict' = [n \in Id |-> IF n \in ToSet(SubSeq(waiting, 1, e)) THEN "error" ELSE verdict[n]]
  BY DEF Check, Expired, Beyond
<1> DEFINE C == ToSet(SubSeq(waiting, 1, e))
<1>2. waiting \in Seq(Id) /\ IsInjective(waiting) /\ inflight \subseteq Id /\ k \in Threads
  BY DEF IInv, TypeOK, Custody, ListCustody, Threads
<1>3. C \cup ToSet(waiting') = ToSet(waiting)
  BY <1>1, <1>2, CutElements
<1>4. \A n \in inflight : IF n \in C THEN verdict'[n] = "error" ELSE verdict'[n] = verdict[n]
  BY <1>1, <1>2
<1>5. UNCHANGED <<inflight, sending>> /\ \A t \in Threads : pc[t] = "insert" => pc'[t] = "insert"
  BY <1>2 DEF Check, At, IInv, TypeOK
<1> HIDE DEF C
<1> QED
  BY <1>3, <1>4, <1>5 DEF Reachable

LEMMA ReachableStep == IInv /\ Reachable /\ [Next]_flowVars => Reachable'
<1> SUFFICES ASSUME IInv, Reachable, [Next]_flowVars PROVE Reachable'
  OBVIOUS
<1> USE FlowAssumption
<1>1. inflight \subseteq Id /\ \A t \in Threads : pc[t] = "lock" => t \in DOMAIN sending
  BY DEF IInv, TypeOK
<1>2. CASE /\ UNCHANGED <<waiting, verdict, sending>> /\ inflight' \subseteq inflight
           /\ \A t \in Threads : pc[t] = "insert" => pc'[t] = "insert"
  BY <1>2 DEF Reachable
<1>3. CASE UNCHANGED flowVars \/ Close \/ Tick
  <2>1. inflight' \subseteq inflight
    BY <1>3 DEF flowVars, Close, Tick
  <2> QED
    BY <1>2, <1>3, <2>1 DEF flowVars, Close, Tick
<1>4. ASSUME NEW c \in Callers, Call(c) PROVE Reachable'
  BY <1>2, <1>4 DEF Call, At, IInv, TypeOK, Threads
<1>5. ASSUME NEW t \in Threads, Lock(t) PROVE Reachable'
  BY <1>5 DEF Lock, At, IInv, TypeOK, Reachable
<1>6. ASSUME NEW t \in Threads, Written(t) PROVE Reachable'
  BY <1>6 DEF Written, At, IInv, TypeOK, Reachable
<1>7. ASSUME NEW t \in Threads, NotWritten(t) PROVE Reachable'
  <2>1. \A n \in inflight : verdict'[n] = "none" => verdict[n] = "none"
    BY <1>1, <1>7 DEF NotWritten, IInv, TypeOK
  <2>2. UNCHANGED <<waiting, inflight, sending>> /\ \A u \in Threads : pc[u] = "insert" => pc'[u] = "insert"
    BY <1>7 DEF NotWritten, At, IInv, TypeOK
  <2> QED
    BY <2>1, <2>2 DEF Reachable
<1>8. ASSUME NEW t \in Threads, NEW r \in BOOLEAN, FailedCallback(t, r) PROVE Reachable'
  <2>1. UNCHANGED <<waiting, verdict, inflight>>
        /\ \A u \in Threads : pc[u] = "insert" => pc'[u] = "insert" /\ sending'[u] = sending[u]
    BY <1>8 DEF FailedCallback, IInv, TypeOK
  <2> QED
    BY <2>1 DEF Reachable
<1>9. ASSUME NEW t \in Threads, NEW r \in BOOLEAN, Deliver(t, r) PROVE Reachable'
  BY <1>2, <1>9 DEF Deliver, IInv, TypeOK
<1>10. ASSUME NEW t \in Threads, Finish(t) PROVE Reachable'
  BY <1>2, <1>10 DEF Finish, At, IInv, TypeOK
<1>11. ASSUME NEW k \in Timers, Wake(k) PROVE Reachable'
  BY <1>2, <1>11 DEF Wake, At, IInv, TypeOK, Threads
<1>12. CASE OnChannelClosed
  <2>1. \A n \in inflight : verdict'[n] = "none" => verdict[n] = "none" /\ n \notin ToSet(waiting)
    BY <1>1, <1>12 DEF OnChannelClosed
  <2>2. UNCHANGED <<inflight, sending>> /\ \A u \in Threads : pc[u] = "insert" => pc'[u] = "insert"
    BY <1>12 DEF OnChannelClosed, At, IInv, TypeOK
  <2> QED
    BY <2>1, <2>2 DEF Reachable
<1> QED
  BY <1>3, <1>4, <1>5, <1>6, <1>7, <1>8, <1>9, <1>10, <1>11, <1>12,
     InsertKeepsReachable, ReplyKeepsReachable, CheckKeepsReachable
  DEF Next, Send, Callback, Receive, TimeoutThread, Environment

(* However early the peer answers, the receive thread finds the request in *)
(* the list once it has the mutex, unless the request was resolved before. *)
THEOREM RepliesFindTheirRequest == Spec => []RegisteredBeforeReply
<1>1. Init => Reachable
  BY DEF Init, Reachable
<1>2. IInv /\ Reachable => RegisteredBeforeReply
  BY FlowAssumption DEF IInv, Custody, SenderCustody, Working, Reachable, RegisteredBeforeReply
<1> QED
  BY <1>1, <1>2, ReachableStep, Invariance, PTL DEF Spec
-----------------------------------------------------------------------------
(* A request is told "no answer" only when its timeout has passed, its     *)
(* message was not written, or the channel was closed.                     *)
THEOREM NoTimeoutIsEarly == Spec => NoEarlyTimeout
<1> DEFINE NotEarly(n) ==
      verdict[n] = "none" /\ verdict'[n] = "error" =>
        \/ left[n] = 0 /\ n \in ToSet(waiting)
        \/ ~closed /\ closed'
        \/ \E t \in Threads : pc'[t] = "failed" /\ sending[t] = n
<1>1. ASSUME IInv, [Next]_flowVars, NEW n \in Id PROVE NotEarly(n)
  <2> USE <1>1
  <2>1. CASE UNCHANGED verdict
    BY <2>1
  <2>2. ASSUME NEW t \in Threads, NotWritten(t) PROVE NotEarly(n)
    <3>1. pc'[t] = "failed" /\ (n # sending[t] => verdict'[n] = verdict[n])
      BY <2>2 DEF NotWritten, At, IInv, TypeOK
    <3> QED  BY <3>1
  <2>3. ASSUME NEW m \in Id, ReceiveReply(m) PROVE NotEarly(n)
    <3>1. verdict'[n] = verdict[n] \/ verdict'[n] = "reply"
      BY <2>3 DEF ReceiveReply, IInv, TypeOK
    <3> QED  BY <3>1
  <2>4. ASSUME NEW k \in Timers, Check(k) PROVE NotEarly(n)
    <3>1. PICK e \in 0..Len(waiting) :
            /\ \A i \in 1..e : left[waiting[i]] = 0
            /\ verdict' = [x \in Id |-> IF x \in ToSet(SubSeq(waiting, 1, e)) THEN "error" ELSE verdict[x]]
      BY <2>4 DEF Check, IsExpiredPrefix, Expired
    <3>2. waiting \in Seq(Id) /\ Len(waiting) \in Nat
      BY DEF IInv, TypeOK
    <3>3. ASSUME n \in ToSet(SubSeq(waiting, 1, e)) PROVE left[n] = 0 /\ n \in ToSet(waiting)
      <4> DEFINE chain == SubSeq(waiting, 1, e)
      <4>1. chain \in Seq(Id) /\ Len(chain) = e /\ \A i \in 1..e : chain[i] = waiting[i]
        BY <3>2, CutShape
      <4>0. n \in ToSet(chain)
        BY <3>3
      <4> HIDE DEF chain
      <4>2. PICK i \in 1..e : n = chain[i]
        BY <4>0, <4>1, ElementIndex
      <4>3. i \in 1..Len(waiting) /\ n = waiting[i]
        BY <3>2, <4>1, <4>2
      <4> QED  BY <3>1, <3>2, <4>3, ElementIndex
    <3> QED  BY <3>1, <3>3
  <2>5. CASE OnChannelClosed
    BY <2>5 DEF OnChannelClosed
  <2> QED
    BY <2>1, <2>2, <2>3, <2>4, <2>5
    DEF Next, Send, Callback, Receive, TimeoutThread, Environment, flowVars, Call, Lock, Written,
        Insert, FailedCallback, Deliver, Finish, Wake, Close, Tick
<1>2. IInv /\ [Next]_flowVars =>
        [\A n \in Id :
           verdict[n] = "none" /\ verdict'[n] = "error" =>
             \/ left[n] = 0 /\ n \in ToSet(waiting)
             \/ ~closed /\ closed'
             \/ \E t \in Threads : pc'[t] = "failed" /\ sending[t] = n]_flowVars
  BY <1>1
<1> QED
  BY <1>2, Invariance, PTL DEF Spec, NoEarlyTimeout

(* While fewer requests are sent than there are ids, a reply resolves the  *)
(* request it answers and no other.                                        *)
THEOREM RepliesReachTheirRequest == MaxSends < IdSpace => (Spec => ReplyReachesItsRequest)
<1> SUFFICES ASSUME MaxSends < IdSpace PROVE Spec => ReplyReachesItsRequest
  OBVIOUS
<1>1. ASSUME NEW n \in Id PROVE WireId(n) = n
  BY FlowAssumption DEF WireId, Id
<1>2. ASSUME IInv, NEW n \in Id, ReceiveReply(n)
      PROVE  /\ n \in ToSet(waiting) => verdict'[n] = "reply"
             /\ \A m \in Id \ {n} : verdict'[m] = verdict[m]
  <2>1. waiting \in Seq(Id)
    BY <1>2 DEF IInv, TypeOK
  <2>2. n \in ToSet(waiting) => \E i \in 1..Len(waiting) : waiting[i] = n
    BY <2>1, ElementIndex
  <2>3. verdict \in [Id -> {"none", "reply", "error"}] /\ WireId(n) = n
    BY <1>1, <1>2 DEF IInv, TypeOK
  <2>4. CASE \A i \in 1..Len(waiting) : waiting[i] # n
    BY <1>2, <2>2, <2>3, <2>4 DEF ReceiveReply
  <2>5. CASE \E i \in 1..Len(waiting) : waiting[i] = n
    <3>1. verdict' = [verdict EXCEPT ![n] = "reply"]
      BY <1>2, <2>3, <2>5 DEF ReceiveReply
    <3> QED
      BY <2>3, <3>1
  <2> QED
    BY <2>4, <2>5
<1>3. IInv /\ [Next]_flowVars =>
        [\A n \in Id :
           ReceiveReply(n) =>
             /\ n \in ToSet(waiting) => verdict'[n] = "reply"
             /\ \A m \in Id \ {n} : verdict'[m] = verdict[m]]_flowVars
  BY <1>2
<1> QED
  BY <1>3, Invariance, PTL DEF Spec, ReplyReachesItsRequest

(* A request whose number does not fit into the header is never answered:  *)
(* its id is compared whole with the 16 bits of a reply.  Whatever the     *)
(* peer does, its sender is told that there was no answer.                 *)
THEOREM WrappedRequestsGetNoReply ==
  Spec => [](\A n \in Id : verdict[n] = "reply" => n < IdSpace)
<1> DEFINE Fits == \A n \in Id : verdict[n] = "reply" => n < IdSpace
<1>1. Init => Fits
  BY DEF Init
<1>2. IInv /\ Fits /\ [Next]_flowVars => Fits'
  <2> SUFFICES ASSUME IInv, Fits, [Next]_flowVars PROVE Fits'
    OBVIOUS
  <2>1. verdict \in [Id -> {"none", "reply", "error"}] /\ waiting \in Seq(Id)
    BY DEF IInv, TypeOK
  <2>2. CASE UNCHANGED verdict
    BY <2>2
  <2>3. ASSUME NEW t \in Threads, NotWritten(t) PROVE Fits'
    <3>1. \A n \in Id : verdict'[n] = verdict[n] \/ verdict'[n] = "error"
      BY <2>1, <2>3 DEF NotWritten
    <3> QED
      BY <3>1
  <2>4. ASSUME NEW x \in Id, ReceiveReply(x) PROVE Fits'
    <3>1. CASE UNCHANGED verdict
      BY <3>1
    <3>2. ASSUME NEW i \in 1..Len(waiting), waiting[i] = WireId(x),
                 verdict' = [verdict EXCEPT ![waiting[i]] = "reply"]
          PROVE  Fits'
      <4>1. WireId(x) < IdSpace
        BY FlowAssumption DEF WireId, Id
      <4>2. \A n \in Id : n # WireId(x) => verdict'[n] = verdict[n]
        BY <2>1, <3>2
      <4> QED
        BY <4>1, <4>2
    <3> QED
      BY <2>4, <3>1, <3>2 DEF ReceiveReply
  <2>5. ASSUME \A n \in Id : verdict'[n] = verdict[n] \/ verdict'[n] = "error" PROVE Fits'
    BY <2>5
  <2>6. CASE OnChannelClosed
    BY <2>5, <2>6 DEF OnChannelClosed
  <2>7. ASSUME NEW k \in Timers, Check(k) PROVE Fits'
    BY <2>5, <2>7 DEF Check
  <2> QED
    BY <2>2, <2>3, <2>4, <2>6, <2>7
    DEF Next, Send, Callback, Receive, TimeoutThread, Environment, flowVars, Call, Lock, Written,
        Insert, FailedCallback, Deliver, Finish, Wake, Close, Tick
<1> HIDE DEF Fits
<1>3. Spec => []Fits
  BY <1>1, <1>2, Invariance, PTL DEF Spec
<1> QED
  BY <1>3 DEF Fits
-----------------------------------------------------------------------------
(* How many timeout threads there can be at a time, and how long they      *)
(* sleep.                                                                  *)

Busy == {k \in Timers : pc[k] # "idle"}

(* Each timeout thread was created for a request that is in the list or    *)
(* was; the one being sent has none yet.                                   *)
TimersCounted ==
  /\ Cardinality(Busy) <= lastId
  /\ (\E t \in Threads : Working(t)) => Cardinality(Busy) < lastId

(* A step that sends nothing and starts no timeout thread.                 *)
LEMMA TimersNotMore ==
  ASSUME IsFiniteSet(Timers), TypeOK, TimersCounted, lastId' = lastId, Busy' \subseteq Busy,
         (\E t \in Threads : Working(t)') => \E t \in Threads : Working(t)
  PROVE  TimersCounted'
<1>1. IsFiniteSet(Busy)
  BY FS_Subset DEF Busy
<1>2. Cardinality(Busy) \in Nat /\ Cardinality(Busy') \in Nat /\ Cardinality(Busy') <= Cardinality(Busy)
  BY <1>1, FS_Subset, FS_CardinalityType
<1>3. Cardinality(Busy') = Cardinality(Busy)'
  OBVIOUS
<1> QED
  BY <1>2, <1>3 DEF TimersCounted, TypeOK

LEMMA TimersStep ==
  ASSUME IsFiniteSet(Timers), IInv, TimersCounted, [Next]_flowVars PROVE TimersCounted'
<1> USE FlowAssumption
<1>1. TypeOK /\ pc \in [Threads -> PC] /\ lastId \in Nat
  BY DEF IInv, TypeOK
<1>2. \A t \in Threads : Working(t) => mutex = t
  BY DEF IInv, Custody, SenderCustody
<1> DEFINE Quiet == /\ lastId' = lastId
                    /\ Busy' \subseteq Busy
                    /\ \A t \in Threads : Working(t)' => Working(t)
<1>3. Quiet => TimersCounted'
  BY <1>1, TimersNotMore
<1>4. CASE UNCHANGED flowVars \/ Environment
  BY <1>3, <1>4 DEF flowVars, Environment, Close, Tick, Busy, Working
<1>5. ASSUME NEW c \in Callers, Call(c) PROVE Quiet
  BY <1>1, <1>5 DEF Call, At, Busy, Working, Threads
<1>6. ASSUME NEW t \in Threads, Written(t) \/ NotWritten(t) PROVE Quiet
  BY <1>1, <1>6 DEF Written, NotWritten, At, Busy, Working, Threads
<1>7. ASSUME NEW t \in Threads, NEW resend \in BOOLEAN, FailedCallback(t, resend) \/ Deliver(t, resend) PROVE Quiet
  BY <1>1, <1>7 DEF FailedCallback, Deliver, Busy, Working, Threads
<1>8. ASSUME NEW t \in Threads, Finish(t) PROVE Quiet
  BY <1>1, <1>8 DEF Finish, At, Busy, Working, Threads
<1>9. ASSUME Receive PROVE Quiet
  BY <1>1, <1>9 DEF Receive, ReceiveReply, OnChannelClosed, At, Busy, Working, Threads
<1>10. ASSUME NEW k \in Timers, TimeoutThread(k) PROVE Quiet
  BY <1>1, <1>10 DEF TimeoutThread, Check, Wake, At, Busy, Working, Threads
<1> HIDE DEF Quiet
<1>11. IsFiniteSet(Busy) /\ Cardinality(Busy) \in Nat
  BY FS_Subset, FS_CardinalityType DEF Busy
<1>12. ASSUME NEW t \in Threads, Lock(t) PROVE TimersCounted'
  <2>1. Busy' = Busy /\ lastId' = lastId + 1
    BY <1>1, <1>12 DEF Lock, At, Busy, Threads
  <2>2. Cardinality(Busy)' = Cardinality(Busy)
    BY <2>1
  <2> QED
    BY <1>1, <1>11, <2>1, <2>2 DEF TimersCounted
<1>13. ASSUME NEW t \in Threads, NEW d, Insert(t, d) PROVE TimersCounted'
  <2>1. lastId' = lastId /\ \A u \in Threads : ~Working(u)'
    <3>1. \A u \in Threads : Working(u) => u = t
      BY <1>2, <1>13 DEF Insert, Working
    <3>2. \A u \in Threads : pc'[u] = pc[u] \/ pc'[u] \in {"deliver", "check"}
      BY <1>1, <1>13 DEF Insert, Threads
    <3>3. pc'[t] \in {"deliver", "check"}
      BY <1>1, <1>13 DEF Insert, Threads
    <3> QED
      BY <1>13, <3>1, <3>2, <3>3 DEF Insert, Working
  <2>2. Cardinality(Busy) < lastId
    BY <1>13 DEF TimersCounted, Insert, Working
  <2>3. PICK k \in Timers : Busy' \subseteq Busy \cup {k}
    <3>1. CASE timer = NoThread
      <4>1. PICK k \in Timers : pc' = [pc EXCEPT ![t] = "deliver", ![k] = "check"]
        BY <1>13, <3>1 DEF Insert
      <4>2. \A u \in Timers : u # k /\ pc[u] = "idle" => pc'[u] = "idle"
        BY <1>1, <1>13, <4>1 DEF Insert, Threads
      <4> QED
        BY <4>2 DEF Busy
    <3>2. CASE timer # NoThread
      <4>1. timer \in Timers /\ pc' = [pc EXCEPT ![t] = "deliver"]
        BY <1>1, <1>13, <3>2 DEF Insert, TypeOK
      <4>2. \A u \in Timers : pc[u] = "idle" => pc'[u] = "idle"
        BY <1>1, <1>13, <4>1 DEF Insert, Threads
      <4> QED
        BY <4>1, <4>2 DEF Busy
    <3> QED
      BY <3>1, <3>2
  <2>4. Cardinality(Busy') <= Cardinality(Busy) + 1 /\ Cardinality(Busy') \in Nat
    <3> DEFINE more == Busy \cup {k}
    <3>1. IsFiniteSet(more) /\ (Cardinality(more) = Cardinality(Busy) \/ Cardinality(more) = Cardinality(Busy) + 1)
      BY <1>11, FS_AddElement
    <3>2. IsFiniteSet(Busy') /\ Cardinality(Busy') <= Cardinality(more)
      BY <2>3, <3>1, FS_Subset
    <3>3. Cardinality(Busy') \in Nat /\ Cardinality(more) \in Nat
      BY <3>1, <3>2, FS_CardinalityType
    <3> QED
      BY <1>11, <3>1, <3>2, <3>3
  <2>5. Cardinality(Busy') = Cardinality(Busy)'
    OBVIOUS
  <2> QED
    BY <1>1, <1>11, <2>1, <2>2, <2>4, <2>5 DEF TimersCounted
<1> QED
  BY <1>3, <1>4, <1>5, <1>6, <1>7, <1>8, <1>9, <1>10, <1>12, <1>13
  DEF Next, Send, Callback

(* There are never more timeout threads than requests were sent, those     *)
(* that still run callbacks included.  So with as many identities as sends *)
(* Insert always finds one, as send in the code always gets its thread.    *)
THEOREM TimersSuffice ==
  ASSUME IsFiniteSet(Timers), Cardinality(Timers) >= MaxSends
  PROVE  Spec => [](\A t \in Threads : pc[t] = "insert" => \E k \in Timers : pc[k] = "idle")
<1>1. Init => TimersCounted
  <2> SUFFICES ASSUME Init PROVE TimersCounted
    OBVIOUS
  <2>1. Busy = {} /\ lastId = 0 /\ \A t \in Threads : ~Working(t)
    BY FlowAssumption DEF Init, Busy, Working, Threads
  <2> QED
    BY <2>1, FS_EmptySet DEF TimersCounted
<1>2. IInv /\ TimersCounted /\ [Next]_flowVars => TimersCounted'
  BY TimersStep
<1>3. TypeOK /\ TimersCounted => \A t \in Threads : pc[t] = "insert" => \E k \in Timers : pc[k] = "idle"
  <2> SUFFICES ASSUME TypeOK, TimersCounted, NEW t \in Threads, pc[t] = "insert", Timers \subseteq Busy
               PROVE  FALSE
    BY DEF Busy
  <2>1. Busy = Timers
    BY DEF Busy
  <2>2. Cardinality(Timers) \in Nat /\ Cardinality(Busy) < lastId
    BY FS_CardinalityType DEF TimersCounted, Working
  <2> QED
    BY <2>1, <2>2, FlowAssumption DEF TypeOK
<1> QED
  BY <1>1, <1>2, <1>3, Invariance, TypeCorrect, PTL DEF Spec

(* With timeouts of D at most the timeout thread never sleeps longer than  *)
(* D.  It does not wake for a request that is inserted while it sleeps and *)
(* expires earlier, but that one waits no longer than D for it either.     *)
THEOREM SleepIsBounded ==
  ASSUME NEW D \in Nat, \A d \in Timeouts : EffectiveTimeout(d) <= D
  PROVE  Spec => [](\A k \in Timers : nap[k] <= D)
<1> DEFINE Bounded == /\ \A n \in Id : left[n] <= D
                      /\ \A k \in Timers : nap[k] <= D
<1>1. Init => Bounded
  BY DEF Init
<1>2. IInv /\ Bounded /\ [Next]_flowVars => Bounded'
  <2> SUFFICES ASSUME IInv, Bounded, [Next]_flowVars PROVE Bounded'
    OBVIOUS
  <2>1. left \in [Id -> Nat] /\ nap \in [Timers -> Nat] /\ waiting \in Seq(Id) /\ Len(waiting) \in Nat
    BY DEF IInv, TypeOK
  <2>2. CASE UNCHANGED <<left, nap>>
    BY <2>2
  <2>3. ASSUME NEW t \in Threads, NEW d \in Timeouts, Insert(t, EffectiveTimeout(d)) PROVE Bounded'
    <3>1. left' = [left EXCEPT ![sending[t]] = EffectiveTimeout(d)] /\ nap' = nap
      BY <2>3 DEF Insert
    <3>2. EffectiveTimeout(d) <= D
      BY <2>3
    <3> HIDE DEF EffectiveTimeout
    <3> QED
      BY <2>1, <3>1, <3>2
  <2>4. ASSUME NEW n \in Id, ReceiveReply(n) PROVE Bounded'
    BY <2>1, <2>4 DEF ReceiveReply
  <2>5. CASE OnChannelClosed
    BY <2>5 DEF OnChannelClosed
  <2>6. ASSUME NEW k \in Timers, Check(k) PROVE Bounded'
    <3>1. PICK e \in 0..Len(waiting) :
            nap' = [nap EXCEPT ![k] = IF e = Len(waiting) THEN 0 ELSE left[waiting[e + 1]]]
      BY <2>6 DEF Check
    <3>2. e # Len(waiting) => waiting[e + 1] \in Id
      BY <2>1
    <3> QED
      BY <2>1, <2>6, <3>1, <3>2 DEF Check
  <2>7. CASE Tick
    BY <2>1, <2>7 DEF Tick
  <2> QED
    BY <2>2, <2>3, <2>4, <2>5, <2>6, <2>7
    DEF Next, Send, Callback, Receive, TimeoutThread, Environment, flowVars, Call, Lock, Written,
        NotWritten, FailedCallback, Deliver, Finish, Wake, Close
<1>3. Bounded => \A k \in Timers : nap[k] <= D
  OBVIOUS
<1> HIDE DEF Bounded
<1> QED
  BY <1>1, <1>2, <1>3, Invariance, PTL DEF Spec
-----------------------------------------------------------------------------
(* Who holds m_mutex.                                                      *)

(* A thread that waits at m_mutex->down() for itself: a callback that send *)
(* ran with the mutex held, and that called send.                          *)
WaitsForItself(t) == pc[t] = "lock" /\ mutex = t

HolderSends == \A t \in Threads : mutex = t => Working(t) \/ WaitsForItself(t)

LEMMA HolderStep == IInv /\ HolderSends /\ [Next]_flowVars => HolderSends'
<1> SUFFICES ASSUME IInv, HolderSends, [Next]_flowVars PROVE HolderSends'
  OBVIOUS
<1> USE FlowAssumption
<1> DEFINE Kept == mutex' = mutex /\ \A t \in Threads : mutex = t => pc'[t] = pc[t]
<1>1. Kept => HolderSends'
  BY DEF HolderSends, Working, WaitsForItself
<1>2. pc \in [Threads -> PC]
  BY DEF IInv, TypeOK
<1>3. \A t \in Threads : Working(t) => mutex = t
  BY DEF IInv, Custody, SenderCustody
<1>4. CASE UNCHANGED flowVars \/ Environment
  BY <1>1, <1>4 DEF flowVars, Environment, Close, Tick
<1>5. ASSUME NEW c \in Callers, Call(c) PROVE HolderSends'
  <2>1. mutex # c
    BY <1>5 DEF Call, At, HolderSends, Working, WaitsForItself, Threads
  <2> QED
    BY <1>1, <1>2, <1>5, <2>1 DEF Call, At
<1>6. ASSUME NEW t \in Threads, Lock(t) PROVE HolderSends'
  BY <1>2, <1>6 DEF Lock, At, HolderSends, Working
<1>7. ASSUME NEW t \in Threads, Written(t) \/ NotWritten(t) PROVE HolderSends'
  <2>1. mutex = t /\ mutex' = mutex /\ pc'[t] \in {"insert", "failed"}
    BY <1>2, <1>3, <1>7 DEF Written, NotWritten, At, Working
  <2> QED
    BY <2>1 DEF HolderSends, Working
<1>8. ASSUME NEW t \in Threads, NEW d, Insert(t, d) PROVE HolderSends'
  BY <1>8 DEF Insert, Unlock, HolderSends
<1>9. ASSUME NEW t \in Threads, NEW resend \in BOOLEAN, FailedCallback(t, resend) PROVE HolderSends'
  <2>1. CASE resend
    <3>1. mutex = t /\ mutex' = mutex /\ pc'[t] = "lock"
      BY <1>2, <1>3, <1>9, <2>1 DEF FailedCallback, Working
    <3> QED
      BY <3>1 DEF HolderSends, WaitsForItself
  <2>2. CASE ~resend
    BY <1>9, <2>2 DEF FailedCallback, Unlock, HolderSends
  <2> QED
    BY <2>1, <2>2
<1>10. ASSUME NEW t \in Threads, NEW resend \in BOOLEAN, Deliver(t, resend) PROVE HolderSends'
  <2>1. mutex # t
    BY <1>10 DEF Deliver, HolderSends, Working, WaitsForItself
  <2> QED
    BY <1>1, <1>2, <1>10, <2>1 DEF Deliver
<1>11. ASSUME NEW t \in Threads, Finish(t) PROVE HolderSends'
  <2>1. mutex # t
    BY <1>11 DEF Finish, At, HolderSends, Working, WaitsForItself
  <2> QED
    BY <1>1, <1>2, <1>11, <2>1 DEF Finish, At
<1>12. ASSUME Receive PROVE HolderSends'
  BY <1>12 DEF Receive, ReceiveReply, OnChannelClosed, HolderSends
<1>13. ASSUME NEW k \in Timers, TimeoutThread(k) PROVE HolderSends'
  <2>1. CASE Check(k)
    BY <2>1 DEF Check, HolderSends
  <2>2. CASE Wake(k)
    <3>1. mutex # k /\ k \in Threads
      BY <2>2 DEF Wake, At, HolderSends, Working, WaitsForItself, Threads
    <3> QED
      BY <1>1, <1>2, <2>2, <3>1 DEF Wake, At
  <2> QED
    BY <1>13, <2>1, <2>2 DEF TimeoutThread
<1> QED
  BY <1>4, <1>5, <1>6, <1>7, <1>8, <1>9, <1>10, <1>11, <1>12, <1>13
  DEF Next, Send, Callback

(* m_mutex is held only inside send: by a thread that will get to up(), or *)
(* by one that waits for itself.  No other use of it, by the receive or    *)
(* the timeout thread, can leave it down.                                  *)
THEOREM MutexHolderSends == Spec => []HolderSends
<1>1. Init => HolderSends
  BY FlowAssumption DEF Init, HolderSends
<1> QED
  BY <1>1, HolderStep, Invariance, PTL DEF Spec

LEMMA SelfDeadlockStays ==
  ASSUME IInv, [Next]_flowVars, NEW t \in Threads, WaitsForItself(t)
  PROVE  WaitsForItself(t)' /\ UNCHANGED <<lastId, waiting>>
<1> USE FlowAssumption DEF WaitsForItself
<1> DEFINE Stays == mutex' = mutex /\ pc'[t] = pc[t] /\ UNCHANGED <<lastId, waiting>>
<1>1. pc \in [Threads -> PC] /\ mutex # NoThread /\ \A u \in Threads : ~Working(u)
  BY DEF IInv, TypeOK, Custody, SenderCustody, Working
<1>2. CASE UNCHANGED flowVars \/ Environment
  BY <1>2 DEF flowVars, Environment, Close, Tick
<1>3. ASSUME NEW c \in Callers, Call(c) PROVE Stays
  BY <1>1, <1>3 DEF Call, At
<1>4. ASSUME NEW u \in Threads, Send(u) PROVE FALSE
  BY <1>1, <1>4 DEF Send, Lock, Written, NotWritten, Insert, At, Working
<1>5. ASSUME NEW u \in Threads, NEW resend \in BOOLEAN, Deliver(u, resend) PROVE Stays
  BY <1>1, <1>5 DEF Deliver
<1>6. ASSUME NEW u \in Threads, NEW resend \in BOOLEAN, FailedCallback(u, resend) PROVE FALSE
  BY <1>1, <1>6 DEF FailedCallback, Working
<1>7. ASSUME NEW u \in Threads, Finish(u) PROVE Stays
  BY <1>1, <1>7 DEF Finish, At
<1>8. ASSUME Receive PROVE FALSE
  BY <1>1, <1>8 DEF Receive, ReceiveReply, OnChannelClosed
<1>9. ASSUME NEW k \in Timers, TimeoutThread(k) PROVE Stays
  BY <1>1, <1>9 DEF TimeoutThread, Check, Wake, At
<1> QED
  BY <1>2, <1>3, <1>4, <1>5, <1>6, <1>7, <1>8, <1>9 DEF Next, Callback

(* A thread that waits for itself does so for good, and takes everybody    *)
(* with it: nothing is inserted into the list or resolved any more, not    *)
(* even when the channel closes.                                           *)
THEOREM SelfDeadlockIsForGood ==
  Spec => [][\A t \in Threads :
               WaitsForItself(t) => WaitsForItself(t)' /\ UNCHANGED <<lastId, waiting>>]_flowVars
<1>1. IInv /\ [Next]_flowVars =>
        [\A t \in Threads :
           WaitsForItself(t) => WaitsForItself(t)' /\ UNCHANGED <<lastId, waiting>>]_flowVars
  BY SelfDeadlockStays
<1> QED
  BY <1>1, Invariance, PTL DEF Spec

(* Only a callback that sends again and a message that is not written let  *)
(* a thread wait for itself: without either, m_mutex is always released.   *)
THEOREM SelfDeadlockHasItsCause ==
  ~Resends \/ (~WriteFailures /\ ~Closable) => (Spec => []\A t \in Threads : ~WaitsForItself(t))
<1> SUFFICES ASSUME ~Resends \/ (~WriteFailures /\ ~Closable)
             PROVE  Spec => []\A t \in Threads : ~WaitsForItself(t)
  OBVIOUS
<1> DEFINE Free == /\ \A t \in Threads : ~WaitsForItself(t)
                   /\ Resends => open /\ \A t \in Threads : pc[t] # "failed"
<1>1. Init => Free
  BY FlowAssumption DEF Init, WaitsForItself
<1>2. IInv /\ HolderSends /\ Free /\ [Next]_flowVars => Free'
  <2> SUFFICES ASSUME IInv, HolderSends, Free, [Next]_flowVars PROVE Free'
    OBVIOUS
  <2> USE FlowAssumption DEF WaitsForItself
  <2>1. pc \in [Threads -> PC] /\ \A u \in Threads : mutex = u => Working(u)
    BY DEF IInv, TypeOK, HolderSends
  <2>2. CASE UNCHANGED flowVars \/ Environment
    BY <2>2 DEF flowVars, Environment, Close, Tick
  <2>3. ASSUME NEW c \in Callers, Call(c) PROVE Free'
    BY <2>1, <2>3 DEF Call, At, Working, Threads
  <2>4. ASSUME NEW t \in Threads, Lock(t) \/ Written(t) PROVE Free'
    BY <2>1, <2>4 DEF Lock, Written, At, Working
  <2>5. ASSUME NEW t \in Threads, NotWritten(t) PROVE Free'
    BY <2>1, <2>5 DEF NotWritten, At, Working
  <2>6. ASSUME NEW t \in Threads, NEW d, Insert(t, d) PROVE Free'
    BY <2>1, <2>6 DEF Insert, Unlock, Working
  <2>7. ASSUME NEW t \in Threads, NEW resend \in BOOLEAN, FailedCallback(t, resend) PROVE Free'
    BY <2>1, <2>7 DEF FailedCallback, Unlock
  <2>8. ASSUME NEW t \in Threads, NEW resend \in BOOLEAN, Deliver(t, resend) PROVE Free'
    BY <2>1, <2>8 DEF Deliver, Working
  <2>9. ASSUME NEW t \in Threads, Finish(t) PROVE Free'
    BY <2>1, <2>9 DEF Finish, At, Working
  <2>10. ASSUME Receive PROVE Free'
    BY <2>1, <2>10 DEF Receive, ReceiveReply, OnChannelClosed, At
  <2>11. ASSUME NEW k \in Timers, TimeoutThread(k) PROVE Free'
    BY <2>1, <2>11 DEF TimeoutThread, Check, Wake, At, Working, Threads
  <2> QED
    BY <2>2, <2>3, <2>4, <2>5, <2>6, <2>7, <2>8, <2>9, <2>10, <2>11 DEF Next, Send, Callback
<1>3. Free => \A t \in Threads : ~WaitsForItself(t)
  OBVIOUS
<1> HIDE DEF Free
<1> QED
  BY <1>1, <1>2, <1>3, Invariance, MutexHolderSends, PTL DEF Spec
-----------------------------------------------------------------------------
(* The Java twin.                                                          *)

LEMMA JavaStep == [JavaNext]_flowVars => [Next]_flowVars \/ \E t \in Threads, resend \in BOOLEAN : JavaFailedCallback(t, resend)
  BY DEF JavaNext, JavaThread, JavaCallback, Next, Callback

LEMMA JavaFailedCallbackPreserves ==
  ASSUME IInv, NEW t \in Threads, NEW resend \in BOOLEAN, JavaFailedCallback(t, resend)
  PROVE  IInv'
<1> USE FlowAssumption
<1>1. pc[t] = "failed" /\ mutex = t /\ pc \in [Threads -> PC] /\ issued \in 0..MaxSends
  BY DEF JavaFailedCallback, IInv, TypeOK, Custody, SenderCustody, Working
<1>2. /\ pc' \in [Threads -> PC] /\ pc'[t] \in {"lock", "deliver"}
      /\ \A u \in Threads : u # t => pc'[u] = pc[u]
      /\ mutex' \in {t, NoThread} /\ issued' \in 0..MaxSends
  <2>1. CASE resend
    <3>1. /\ issued < MaxSends /\ issued' = issued + 1 /\ mutex' = mutex
          /\ pc' = [pc EXCEPT ![t] = "lock"]
      BY <2>1 DEF JavaFailedCallback
    <3> QED
      BY <1>1, <3>1 DEF PC
  <2>2. CASE ~resend
    BY <1>1, <2>2 DEF JavaFailedCallback, PC
  <2> QED
    BY <2>1, <2>2
<1>3. /\ calls' = [calls EXCEPT ![sending[t]] = @ + 1]
      /\ sending' = [sending EXCEPT ![t] = 0]
      /\ UNCHANGED <<waiting, left, timer, lastId, owed, nap, inflight, open,
                     closed, verdict>>
  BY DEF JavaFailedCallback
<1> QED
  BY <1>1, <1>2, <1>3, FailureToldPreserves

LEMMA JavaFailedCallbackRefines ==
  ASSUME IInv, NEW t \in Threads, NEW resend \in BOOLEAN, JavaFailedCallback(t, resend)
  PROVE  Promise!Next
<1>1. /\ sending[t] \in Id /\ sending[t] <= lastId
      /\ calls[sending[t]] = 0 /\ verdict[sending[t]] # "none"
  BY FlowAssumption DEF JavaFailedCallback, IInv, TypeOK, Custody, SenderCustody, Working, Id
<1> QED
  BY <1>1, KnownResolved DEF JavaFailedCallback, IInv

(* The invariants of the firmware's Flow are invariants of the Java twin,  *)
(* although its send may leave m_mutex down: no callback runs twice and no *)
(* request is lost sight of.                                               *)
THEOREM JavaInvariance == JavaSpec => []IInv
<1>1. IInv /\ [JavaNext]_flowVars => IInv'
  BY JavaStep, NextIInv, JavaFailedCallbackPreserves
<1> QED
  BY <1>1, InitIInv, PTL DEF JavaSpec

(* What goes wrong in the Java twin is never a wrong answer: it implements *)
(* the safety part of RequestReply as well.                                *)
THEOREM JavaImplementsPromise == JavaSpec => ImplementsPromise
<1>1. Init => Promise!Init
  BY FlowAssumption DEF Init, Promise!Init, Known, Promise!Id, Id
<1>2. IInv /\ [JavaNext]_flowVars => [Promise!Next]_Known
  BY JavaStep, NextRefines, JavaFailedCallbackRefines
<1> QED
  BY <1>1, <1>2, JavaInvariance, PTL DEF JavaSpec, ImplementsPromise, Promise!Spec

(* The mutex is held by a thread that has left send.                       *)
Abandoned == mutex # NoThread /\ ~Working(mutex)

(* Once its send has left m_mutex down, the Flow of the driver is dead:    *)
(* the mutex is never free again, no request gets a number, and those that *)
(* wait stay in the list, whatever arrives, expires or closes.             *)
THEOREM JavaLockIsLostForGood ==
  JavaSpec => [][Abandoned => Abandoned' /\ UNCHANGED <<mutex, lastId, waiting>>]_flowVars
<1>1. ASSUME IInv, [JavaNext]_flowVars, Abandoned
      PROVE  Abandoned' /\ UNCHANGED <<mutex, lastId, waiting>>
  <2> USE <1>1, FlowAssumption DEF Abandoned
  <2> DEFINE Stays == UNCHANGED <<mutex, lastId, waiting>> /\ ~Working(mutex)'
  <2>1. /\ pc \in [Threads -> PC] /\ mutex \in Threads
        /\ \A u \in Threads : ~Working(u)
    BY DEF IInv, TypeOK, Custody, SenderCustody
  <2>2. CASE UNCHANGED flowVars \/ Environment
    BY <2>2 DEF flowVars, Environment, Close, Tick, Working
  <2>3. ASSUME NEW c \in Callers, Call(c) PROVE Stays
    BY <2>1, <2>3 DEF Call, At, Working
  <2>4. ASSUME NEW u \in Threads, NEW resend \in BOOLEAN,
               Send(u) \/ JavaFailedCallback(u, resend)
        PROVE  FALSE
    BY <2>1, <2>4 DEF Send, Lock, Written, NotWritten, Insert, JavaFailedCallback, At, Working
  <2>5. ASSUME NEW u \in Threads, NEW resend \in BOOLEAN, Deliver(u, resend) PROVE Stays
    BY <2>1, <2>5 DEF Deliver, Working
  <2>6. ASSUME NEW u \in Threads, Finish(u) PROVE Stays
    BY <2>1, <2>6 DEF Finish, At, Working
  <2>7. ASSUME Receive PROVE FALSE
    BY <2>7 DEF Receive, ReceiveReply, OnChannelClosed
  <2>8. ASSUME NEW k \in Timers, TimeoutThread(k) PROVE Stays
    BY <2>1, <2>8 DEF TimeoutThread, Check, Wake, At, Working
  <2> QED
    BY <2>2, <2>3, <2>4, <2>5, <2>6, <2>7, <2>8 DEF JavaNext, JavaThread, JavaCallback
<1>2. IInv /\ [JavaNext]_flowVars =>
        [Abandoned => Abandoned' /\ UNCHANGED <<mutex, lastId, waiting>>]_flowVars
  BY <1>1
<1> QED
  BY <1>2, JavaInvariance, PTL DEF JavaSpec
=============================================================================
