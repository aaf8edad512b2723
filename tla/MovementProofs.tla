---------------------------- MODULE MovementProofs ----------------------------
(***************************************************************************)
(* Proofs about Movement, for any number of requests and cycles: verdicts, *)
(* notifications, the pairing of adjusters with movements, halts, and the  *)
(* order in which movements begin.                                         *)
(***************************************************************************)
EXTENDS Movement, SequenceTheorems, TLAPS

(* A movement named anywhere was requested, so that a new request does not *)
(* change what it stands for.                                              *)
Requested ==
  /\ \A n \in {operation, adjustId, next, current} \cap Op : n <= lastOp
  /\ \A n \in Op : adjuster[n] = "measuring" => n <= lastOp

(* The flags that say "adjust" agree with the movement they go with, from  *)
(* the request to the run.                                                 *)
FlagsAgree ==
  /\ adjustNext => adjustId \in Op /\ kind[adjustId] = "adjust"
  /\ operation \in Op => kind[operation] # "adjust"
  /\ willAdjust <=> next \in Op /\ kind[next] = "adjust"
  /\ current \in Op => (isAdjusting <=> kind[current] = "adjust")

(* The movement thread waits just when it has no movement. *)
WaitsForWork == pc = "wait" <=> current = None

(* Only a movement that walks may first have to turn. *)
WalkAligns == pc = "align" => current \in Op /\ kind[current] # "adjust"

(* What cut a movement short stays posted until the verdict. *)
CutStays ==
  /\ pc \in {"guard", "steps", "ended", "verify"} /\ cut => next # None
  /\ pc = "align" => ~cut
  /\ pc = "report" /\ cut => ~ok

HaltPosted == halted => next \notin Op

IInv ==
  /\ TypeOK
  /\ Requested
  /\ FlagsAgree
  /\ WaitsForWork
  /\ WalkAligns
  /\ CutStays
  /\ HaltPosted
  /\ AdjusterPaired
  /\ StartedIsToldOnce

LEMMA FunctionIsSequence ==
  ASSUME NEW S, NEW n \in Nat, NEW f \in [1..n -> S]
  PROVE  f \in Seq(S) /\ Len(f) = n
  OBVIOUS

LEMMA NotifiedGrows ==
  ASSUME TypeOK, NEW e \in [op : Op, how : {"finished", "aborted"}],
         told' = Append(told, e)
  PROVE  Notified' = Append(Notified, e.op)
<1>1. told \in Seq([op : Op, how : {"finished", "aborted"}])
  BY DEF TypeOK
<1>2. /\ Len(told') = Len(told) + 1 /\ DOMAIN told = 1..Len(told)
      /\ DOMAIN told' = 1..(Len(told) + 1)
      /\ \A i \in 1..Len(told) : told'[i] = told[i]
      /\ told'[Len(told) + 1] = e
  BY <1>1
<1>3. Notified \in Seq(Op) /\ Len(Notified) = Len(told)
  <2>1. \A i \in 1..Len(told) : told[i].op \in Op
    <3>1. \A i \in 1..Len(told) : told[i] \in [op : Op, how : {"finished", "aborted"}]
      BY <1>1, ElementOfSeq
    <3>2. QED
      BY <3>1
  <2>2. Notified \in [1..Len(told) -> Op] /\ Len(told) \in Nat
    BY <1>1, <1>2, <2>1 DEF Notified
  <2>3. QED
    BY <2>2, FunctionIsSequence
<1>4. /\ Append(Notified, e.op) \in Seq(Op)
      /\ Len(Append(Notified, e.op)) = Len(told) + 1
      /\ \A i \in 1..Len(told) : Append(Notified, e.op)[i] = told[i].op
      /\ Append(Notified, e.op)[Len(told) + 1] = e.op
  BY <1>1, <1>3 DEF Notified
<1>5. Notified' \in Seq(Op) /\ Len(Notified') = Len(told) + 1
  <2>1. \A i \in 1..(Len(told) + 1) : told'[i].op \in Op
    <3>1. \A i \in 1..(Len(told) + 1) :
            told'[i] \in [op : Op, how : {"finished", "aborted"}]
      <4>1. told' \in Seq([op : Op, how : {"finished", "aborted"}])
        BY <1>1
      <4>2. QED
        BY <1>2, <4>1, ElementOfSeq
    <3>2. QED
      BY <3>1
  <2>2. Notified' \in [1..(Len(told) + 1) -> Op] /\ Len(told) + 1 \in Nat
    BY <1>1, <1>2, <2>1 DEF Notified
  <2>3. QED
    BY <2>2, FunctionIsSequence
<1>6. \A i \in 1..(Len(told) + 1) : Notified'[i] = Append(Notified, e.op)[i]
  BY <1>1, <1>2, <1>4 DEF Notified
<1>7. QED
  BY <1>4, <1>5, <1>6

LEMMA InitIInv == Init => IInv
<1> SUFFICES ASSUME Init PROVE IInv
  OBVIOUS
<1> USE MovementAssumption
<1>1. TypeOK
  <2>1. /\ kind \in [Op -> Kind] /\ lastOp \in 0..MaxOps /\ todo \in 0..MaxCycles
        /\ adjuster \in [Op -> {"off", "measuring", "stopping"}]
    BY DEF Init, Kind
  <2>2. started \in Seq(Op) /\ told \in Seq([op : Op, how : {"finished", "aborted"}])
    BY DEF Init
  <2>3. /\ {adjustNext, willAdjust, isAdjusting, ok, cut, halted} \subseteq BOOLEAN
        /\ pc \in PC
    BY DEF Init, PC
  <2>4. QED
    BY <2>1, <2>2, <2>3 DEF Init, TypeOK
<1>2. Requested /\ FlagsAgree /\ WaitsForWork /\ WalkAligns /\ CutStays /\ HaltPosted
  BY DEF Init, Requested, FlagsAgree, WaitsForWork, WalkAligns, CutStays, HaltPosted, Op
<1>3. AdjusterPaired
  BY DEF Init, AdjusterPaired, Adjusting, Op
<1>4. StartedIsToldOnce
  <2>1. Notified = <<>>
    BY DEF Init, Notified
  <2>2. QED
    BY <2>1 DEF Init, StartedIsToldOnce
<1>5. QED
  BY <1>1, <1>2, <1>3, <1>4 DEF IInv

LEMMA SetPreserves ==
  ASSUME IInv, NEW k \in Kind, OnSetMovementRequest(k) PROVE IInv'
<1> USE MovementAssumption DEF IInv
<1> DEFINE new == lastOp + 1
<1>1. /\ new \in Op /\ lastOp \in Nat /\ lastOp' = new
      /\ kind \in [Op -> Kind] /\ kind' \in [Op -> Kind]
      /\ kind'[new] = k
      /\ \A n \in Op : n <= lastOp => kind'[n] = kind[n]
  BY DEF OnSetMovementRequest, TypeOK, Op
<1>2. /\ UNCHANGED <<next, willAdjust, halted, current, isAdjusting, pc, todo, ok>>
      /\ UNCHANGED <<adjuster, held, cut, started, told>>
  BY DEF OnSetMovementRequest, posted, run
<1>3. /\ operation' = IF k = "adjust" THEN None ELSE new
      /\ adjustId' = IF k = "adjust" THEN new ELSE adjustId
      /\ adjustNext' = (k = "adjust")
  BY DEF OnSetMovementRequest
<1> HIDE DEF new
<1>4. TypeOK'
  <2>1. lastOp' \in 0..MaxOps
    BY <1>1 DEF Op
  <2>2. operation' \in Op \cup {None} /\ adjustId' \in Op \cup {None} /\ adjustNext' \in BOOLEAN
    BY <1>1, <1>3 DEF TypeOK
  <2>3. QED
    BY <1>1, <1>2, <2>1, <2>2 DEF TypeOK
<1>5. Requested'
  BY <1>1, <1>2, <1>3 DEF Requested, Op, new
<1>6. FlagsAgree'
  BY <1>1, <1>2, <1>3 DEF FlagsAgree, Requested, TypeOK
<1>7. WaitsForWork' /\ CutStays' /\ HaltPosted'
  BY <1>2 DEF WaitsForWork, CutStays, HaltPosted
<1>8. WalkAligns'
  BY <1>1, <1>2 DEF WalkAligns, Requested
<1>9. AdjusterPaired'
  <2>1. \A n \in Op : Adjusting(n)' <=> Adjusting(n)
    BY <1>1, <1>2 DEF Adjusting, Requested
  <2>2. QED
    BY <1>2, <2>1 DEF AdjusterPaired
<1>10. StartedIsToldOnce'
  BY <1>2 DEF StartedIsToldOnce, Notified
<1>11. QED
  BY <1>4, <1>5, <1>6, <1>7, <1>8, <1>9, <1>10

LEMMA MovePreserves == ASSUME IInv, OnMoveRequest PROVE IInv'
<1> USE MovementAssumption DEF IInv
<1>1. /\ UNCHANGED <<kind, lastOp, adjustId, current, isAdjusting, pc, todo, ok>>
      /\ UNCHANGED <<adjuster, held, cut, started, told>>
      /\ halted' = FALSE
  BY DEF OnMoveRequest, run
<1>2. \/ /\ adjustNext /\ next' = adjustId /\ willAdjust' = TRUE
         /\ adjustNext' = FALSE /\ operation' = operation
      \/ /\ ~adjustNext /\ operation # None /\ next' = operation /\ willAdjust' = FALSE
         /\ operation' = None /\ adjustNext' = adjustNext
  BY DEF OnMoveRequest, Post
<1>3. next' \in Op /\ next' # None
  BY <1>2 DEF FlagsAgree, TypeOK
<1>4. TypeOK'
  BY <1>1, <1>2, <1>3 DEF TypeOK
<1>5. Requested' /\ WaitsForWork' /\ CutStays' /\ HaltPosted'
  BY <1>1, <1>2, <1>3 DEF Requested, WaitsForWork, CutStays, HaltPosted, FlagsAgree, TypeOK
<1>6. FlagsAgree'
  BY <1>1, <1>2, <1>3 DEF FlagsAgree, TypeOK
<1>7. WalkAligns' /\ AdjusterPaired' /\ StartedIsToldOnce'
  BY <1>1 DEF WalkAligns, AdjusterPaired, Adjusting, StartedIsToldOnce, Notified
<1>8. QED
  BY <1>4, <1>5, <1>6, <1>7

LEMMA HaltPreserves == ASSUME IInv, OnHaltRequest PROVE IInv'
<1> USE MovementAssumption DEF IInv
<1>1. /\ UNCHANGED <<kind, lastOp, operation, adjustNext, adjustId>>
      /\ UNCHANGED <<current, isAdjusting, pc, todo, ok, adjuster, held, cut, started, told>>
      /\ next' = Halt /\ willAdjust' = FALSE /\ halted' = TRUE
  BY DEF OnHaltRequest, Post, handed, run
<1>2. TypeOK'
  BY <1>1 DEF TypeOK
<1>3. Requested' /\ FlagsAgree' /\ WaitsForWork' /\ CutStays' /\ HaltPosted'
  BY <1>1 DEF Requested, FlagsAgree, WaitsForWork, CutStays, HaltPosted
<1>4. WalkAligns' /\ AdjusterPaired' /\ StartedIsToldOnce'
  BY <1>1 DEF WalkAligns, AdjusterPaired, Adjusting, StartedIsToldOnce, Notified
<1>5. QED
  BY <1>2, <1>3, <1>4

(* The transition to a posted movement, from either branch of run. *)
LEMMA BeginPreserves ==
  ASSUME IInv, pc \in {"wait", "advance"}, next \in Op, Begin,
         UNCHANGED <<handed, halted, ok, told>>
  PROVE  IInv'
<1> USE MovementAssumption DEF IInv
<1>1. /\ UNCHANGED <<kind, lastOp, operation, adjustNext, adjustId, halted, ok, told>>
      /\ current' = next /\ isAdjusting' = willAdjust /\ willAdjust' = FALSE
      /\ next' = None /\ cut' = FALSE /\ todo' \in 0..MaxCycles
      /\ started' = Append(started, next)
  BY DEF Begin, handed
<1>2. /\ kind[next] = "walk" => pc' = "align"
      /\ kind[next] = "turn" => pc' = "steps"
      /\ kind[next] = "adjust" => pc' = "guard"
      /\ kind[next] \in Kind
  BY DEF Begin, Entry, TypeOK, Kind
<1>3. \A n \in Op : adjuster[n] # "measuring"
  BY DEF AdjusterPaired, Adjusting
<1>4. held = None
  BY DEF AdjusterPaired, Adjusting
<1>5. /\ adjuster' \in [Op -> {"off", "measuring", "stopping"}]
      /\ \A n \in Op : adjuster'[n] = "measuring" <=> n = next /\ willAdjust
      /\ held' = IF willAdjust THEN next ELSE None
  BY <1>3, <1>4 DEF Begin, TypeOK
<1>6. TypeOK'
  <2>1. pc' \in PC
    BY <1>2 DEF PC, Kind
  <2>2. started' \in Seq(Op)
    BY <1>1 DEF TypeOK
  <2>3. QED
    BY <1>1, <1>5, <2>1, <2>2 DEF TypeOK
<1>7. Requested'
  BY <1>1, <1>5 DEF Requested, TypeOK
<1>8. FlagsAgree' /\ WalkAligns'
  BY <1>1, <1>2 DEF FlagsAgree, WalkAligns, Kind
<1>9. WaitsForWork' /\ CutStays' /\ HaltPosted'
  <2>1. pc' # "wait" /\ pc' # "report" /\ current' # None
    BY <1>1, <1>2 DEF Kind
  <2>2. QED
    BY <1>1, <2>1 DEF WaitsForWork, CutStays, HaltPosted
<1>10. AdjusterPaired'
  <2>1. willAdjust <=> kind[next] = "adjust"
    BY DEF FlagsAgree
  <2>2. \A n \in Op : Adjusting(n)' <=> n = next /\ willAdjust
    BY <1>1, <1>2, <2>1 DEF Adjusting
  <2>3. QED
    BY <1>1, <1>5, <2>2 DEF AdjusterPaired
<1>11. StartedIsToldOnce'
  <2>1. started = Notified
    BY DEF StartedIsToldOnce, WaitsForWork
  <2>2. Notified' = Notified
    BY <1>1 DEF Notified
  <2>3. current' # None /\ pc' # "advance"
    BY <1>1, <1>2 DEF Kind
  <2>4. QED
    BY <1>1, <2>1, <2>2, <2>3 DEF StartedIsToldOnce
<1>12. QED
  BY <1>6, <1>7, <1>8, <1>9, <1>10, <1>11

LEMMA WaitOverPreserves == ASSUME IInv, WaitOver PROVE IInv'
<1> USE MovementAssumption
<1>1. CASE next \in Op
  <2>1. pc = "wait" /\ Begin /\ UNCHANGED <<handed, halted, ok, told>>
    BY <1>1 DEF WaitOver
  <2>2. QED
    BY <1>1, <2>1, BeginPreserves
<1>2. CASE next \notin Op
  <2> USE DEF IInv
  <2>1. /\ next = Halt /\ next' = None
        /\ UNCHANGED <<kind, lastOp, operation, adjustNext, adjustId, willAdjust>>
        /\ UNCHANGED <<current, isAdjusting, pc, todo, ok, adjuster, held, cut>>
        /\ UNCHANGED <<started, told, halted>>
        /\ pc = "wait"
    BY <1>2 DEF WaitOver, handed
  <2>2. TypeOK'
    BY <2>1 DEF TypeOK
  <2>3. Requested' /\ FlagsAgree' /\ WaitsForWork' /\ CutStays' /\ HaltPosted'
    BY <2>1 DEF Requested, FlagsAgree, WaitsForWork, CutStays, HaltPosted
  <2>4. WalkAligns' /\ AdjusterPaired' /\ StartedIsToldOnce'
    BY <2>1 DEF WalkAligns, AdjusterPaired, Adjusting, StartedIsToldOnce, Notified
  <2>5. QED
    BY <2>2, <2>3, <2>4
<1>3. QED
  BY <1>1, <1>2

LEMMA AdvancePreserves == ASSUME IInv, Advance PROVE IInv'
<1> USE MovementAssumption
<1>1. CASE next \in Op
  <2>1. pc = "advance" /\ Begin /\ UNCHANGED <<handed, halted, ok, told>>
    BY <1>1 DEF Advance
  <2>2. QED
    BY <1>1, <2>1, BeginPreserves
<1>2. CASE next \notin Op
  <2> USE DEF IInv
  <2>1. /\ next' = None /\ current' = None /\ pc' = "wait" /\ pc = "advance"
        /\ UNCHANGED <<kind, lastOp, operation, adjustNext, adjustId, willAdjust>>
        /\ UNCHANGED <<isAdjusting, todo, ok, adjuster, held, cut>>
        /\ UNCHANGED <<started, told, halted>>
    BY <1>2 DEF Advance, handed
  <2>2. TypeOK'
    BY <2>1 DEF TypeOK, PC
  <2>3. Requested' /\ FlagsAgree' /\ WaitsForWork' /\ CutStays' /\ HaltPosted'
    BY <1>2, <2>1 DEF Requested, FlagsAgree, WaitsForWork, CutStays, HaltPosted
  <2>4. WalkAligns' /\ AdjusterPaired' /\ StartedIsToldOnce'
    BY <2>1 DEF WalkAligns, AdjusterPaired, Adjusting, StartedIsToldOnce, Notified
  <2>5. QED
    BY <2>2, <2>3, <2>4
<1>3. QED
  BY <1>1, <1>2

(* Steps of the movement thread that only change where it is, how many     *)
(* cycles are left and whether it was cut short.                           *)
LEMMA LoopPreserves ==
  ASSUME IInv, Unposted, Unended, todo' \in 0..MaxCycles, cut' \in BOOLEAN,
         \/ pc = "align" /\ pc' \in {"align", "guard"}
         \/ pc = "guard" /\ pc' \in {"steps", "ended"}
         \/ pc = "steps" /\ pc' \in {"steps", "ended"},
         \/ cut' = cut
         \/ cut' = TRUE /\ next # None /\ pc' # "align"
  PROVE  IInv'
<1> USE MovementAssumption DEF IInv
<1>1. /\ UNCHANGED <<kind, lastOp, operation, adjustNext, adjustId, next, willAdjust>>
      /\ UNCHANGED <<halted, current, isAdjusting, ok, adjuster, held, started, told>>
  BY DEF Unposted, Unended, handed, posted
<1>2. TypeOK'
  BY <1>1 DEF TypeOK, PC
<1>3. Requested' /\ FlagsAgree' /\ WaitsForWork' /\ WalkAligns' /\ HaltPosted'
  BY <1>1 DEF Requested, FlagsAgree, WaitsForWork, WalkAligns, HaltPosted
<1>4. CutStays'
  BY <1>1 DEF CutStays
<1>5. AdjusterPaired'
  <2>1. \A n \in Op : Adjusting(n)' <=> Adjusting(n)
    BY <1>1 DEF Adjusting, WalkAligns
  <2>2. QED
    BY <1>1, <2>1 DEF AdjusterPaired
<1>6. StartedIsToldOnce'
  BY <1>1 DEF StartedIsToldOnce, Notified
<1>7. QED
  BY <1>2, <1>3, <1>4, <1>5, <1>6

LEMMA LoopsPreserve ==
  ASSUME IInv, Cycle \/ (\E from \in {"align", "steps"} : LoopOver(from) \/ StopEarly(from))
  PROVE  IInv'
<1> USE MovementAssumption
<1>1. todo \in 0..MaxCycles /\ cut \in BOOLEAN
  BY DEF IInv, TypeOK
<1>2. CASE Cycle
  <2>1. /\ Unposted /\ Unended /\ cut' = cut /\ pc' = pc
        /\ pc \in {"align", "steps"} /\ todo' \in 0..MaxCycles
    BY <1>1, <1>2 DEF Cycle, Remaining
  <2>2. QED
    BY <1>1, <2>1, LoopPreserves
<1>3. ASSUME NEW from \in {"align", "steps"}, LoopOver(from)
      PROVE  IInv'
  <2>1. /\ Unposted /\ Unended /\ cut' = cut /\ todo' = todo
        /\ \/ pc = "align" /\ pc' = "guard"
           \/ pc = "steps" /\ pc' = "ended"
    BY <1>3 DEF LoopOver, AfterLoop, At
  <2>2. QED
    BY <1>1, <2>1, LoopPreserves
<1>4. ASSUME NEW from \in {"align", "steps"}, StopEarly(from)
      PROVE  IInv'
  <2>1. /\ Unposted /\ Unended /\ cut' = TRUE /\ todo' = todo /\ next # None
        /\ \/ pc = "align" /\ pc' = "guard"
           \/ pc = "steps" /\ pc' = "ended"
    BY <1>4 DEF StopEarly, AfterLoop, At, ShouldStop
  <2>2. QED
    BY <1>1, <2>1, LoopPreserves
<1>5. QED
  BY <1>2, <1>3, <1>4

(* A robot that is not moving although it runs a movement was halted. *)
LEMMA GuardPreserves == ASSUME IInv, Guard PROVE IInv'
<1> USE MovementAssumption
<1>1. todo \in 0..MaxCycles /\ cut \in BOOLEAN /\ Unposted /\ Unended /\ pc = "guard"
  BY DEF IInv, TypeOK, Guard, At
<1>2. CASE pc' = "steps"
  <2>1. cut' = cut /\ todo' \in 0..MaxCycles
    BY <1>2 DEF Guard, At
  <2>2. QED
    BY <1>1, <1>2, <2>1, LoopPreserves
<1>3. CASE pc' = "ended"
  <2>1. cut' = TRUE /\ todo' = todo /\ ~IsMoving
    BY <1>3 DEF Guard, At
  <2>2. next # None
    BY <1>1, <2>1 DEF IsMoving, IInv, WaitsForWork
  <2>3. QED
    BY <1>1, <1>3, <2>1, <2>2, LoopPreserves
<1>4. QED
  BY <1>2, <1>3 DEF Guard, At

LEMMA StopAdjusterPreserves == ASSUME IInv, StopAdjuster PROVE IInv'
<1> USE MovementAssumption DEF IInv
<1>1. /\ UNCHANGED <<kind, lastOp, operation, adjustNext, adjustId, next, willAdjust>>
      /\ UNCHANGED <<halted, current, isAdjusting, todo, ok, cut, started, told>>
      /\ pc = "ended" /\ pc' = "verify" /\ current \in Op
  BY DEF StopAdjuster, At, Unposted, handed, posted, WaitsForWork, TypeOK
<1>2. isAdjusting <=> Adjusting(current)
  BY <1>1 DEF FlagsAgree, Adjusting
<1>3. held = IF isAdjusting THEN current ELSE None
  BY <1>1, <1>2 DEF AdjusterPaired, Adjusting
<1>4. /\ adjuster' \in [Op -> {"off", "measuring", "stopping"}]
      /\ held' = None
      /\ \A n \in Op : adjuster'[n] # "measuring"
  <2>1. CASE isAdjusting
    <3>1. held = current /\ held' = None
          /\ adjuster' = [adjuster EXCEPT ![current] = "stopping"]
      BY <1>1, <1>3, <2>1 DEF StopAdjuster
    <3>2. \A n \in Op : n # current => adjuster[n] # "measuring"
      BY DEF AdjusterPaired, Adjusting
    <3>3. QED
      BY <1>1, <3>1, <3>2 DEF TypeOK
  <2>2. CASE ~isAdjusting
    <3>1. held' = held /\ adjuster' = adjuster
      BY <2>2 DEF StopAdjuster
    <3>2. \A n \in Op : adjuster[n] # "measuring"
      BY <1>2, <2>2 DEF AdjusterPaired, Adjusting
    <3>3. QED
      BY <1>3, <2>2, <3>1, <3>2 DEF TypeOK
  <2>3. QED
    BY <2>1, <2>2
<1>5. TypeOK'
  BY <1>1, <1>4 DEF TypeOK, PC
<1>6. Requested' /\ FlagsAgree' /\ WaitsForWork' /\ WalkAligns' /\ HaltPosted'
  BY <1>1, <1>4 DEF Requested, FlagsAgree, WaitsForWork, WalkAligns, HaltPosted
<1>7. CutStays'
  BY <1>1 DEF CutStays
<1>8. AdjusterPaired' /\ StartedIsToldOnce'
  BY <1>1, <1>4 DEF AdjusterPaired, Adjusting, StartedIsToldOnce, Notified
<1>9. QED
  BY <1>5, <1>6, <1>7, <1>8

LEMMA VerifyPreserves == ASSUME IInv, Verify PROVE IInv'
<1> USE MovementAssumption DEF IInv
<1>1. /\ UNCHANGED <<kind, lastOp, operation, adjustNext, adjustId, next, willAdjust>>
      /\ UNCHANGED <<halted, current, isAdjusting, todo, adjuster, held, cut>>
      /\ UNCHANGED <<started, told>>
      /\ pc = "verify" /\ pc' = "report" /\ ok' = (next = None)
  BY DEF Verify, At, Unposted, handed, posted
<1>2. TypeOK'
  BY <1>1 DEF TypeOK, PC
<1>3. Requested' /\ FlagsAgree' /\ WaitsForWork' /\ WalkAligns' /\ HaltPosted'
  BY <1>1 DEF Requested, FlagsAgree, WaitsForWork, WalkAligns, HaltPosted
<1>4. CutStays'
  BY <1>1 DEF CutStays
<1>5. AdjusterPaired' /\ StartedIsToldOnce'
  BY <1>1 DEF AdjusterPaired, Adjusting, StartedIsToldOnce, Notified
<1>6. QED
  BY <1>2, <1>3, <1>4, <1>5

LEMMA ReportPreserves == ASSUME IInv, Report PROVE IInv'
<1> USE MovementAssumption DEF IInv
<1> DEFINE e == [op |-> current, how |-> IF ok THEN "finished" ELSE "aborted"]
<1>1. /\ UNCHANGED <<kind, lastOp, operation, adjustNext, adjustId, next, willAdjust>>
      /\ UNCHANGED <<halted, current, isAdjusting, todo, ok, adjuster, held, cut, started>>
      /\ pc = "report" /\ pc' = "advance" /\ told' = Append(told, e)
      /\ current \in Op /\ current # None
  BY DEF Report, At, Unposted, handed, posted, WaitsForWork, TypeOK
<1>2. e \in [op : Op, how : {"finished", "aborted"}] /\ e.op = current
  BY <1>1
<1> HIDE DEF e
<1>3. Notified' = Append(Notified, current)
  BY <1>1, <1>2, NotifiedGrows
<1>4. TypeOK'
  <2>1. told' \in Seq([op : Op, how : {"finished", "aborted"}])
    BY <1>1, <1>2 DEF TypeOK
  <2>2. QED
    BY <1>1, <2>1 DEF TypeOK, PC
<1>5. Requested' /\ FlagsAgree' /\ WaitsForWork' /\ WalkAligns' /\ CutStays' /\ HaltPosted'
  BY <1>1 DEF Requested, FlagsAgree, WaitsForWork, WalkAligns, CutStays, HaltPosted
<1>6. AdjusterPaired'
  BY <1>1 DEF AdjusterPaired, Adjusting
<1>7. StartedIsToldOnce'
  BY <1>1, <1>3 DEF StartedIsToldOnce
<1>8. QED
  BY <1>4, <1>5, <1>6, <1>7

LEMMA CorrectPreserves == ASSUME IInv, NEW n \in Op, Correct(n) PROVE IInv'
<1> USE MovementAssumption DEF IInv
<1>1. /\ UNCHANGED <<kind, lastOp, operation, adjustNext, adjustId, next, willAdjust>>
      /\ UNCHANGED <<halted, current, isAdjusting, pc, todo, ok, held, cut, started, told>>
  BY DEF Correct, Unposted, handed, posted
<1>2. /\ adjuster' \in [Op -> {"off", "measuring", "stopping"}]
      /\ \A m \in Op : adjuster'[m] = "measuring" <=> adjuster[m] = "measuring"
  BY DEF Correct, TypeOK
<1>3. TypeOK'
  BY <1>1, <1>2 DEF TypeOK
<1>4. Requested' /\ FlagsAgree' /\ WaitsForWork' /\ WalkAligns' /\ CutStays' /\ HaltPosted'
  BY <1>1, <1>2 DEF Requested, FlagsAgree, WaitsForWork, WalkAligns, CutStays, HaltPosted
<1>5. AdjusterPaired' /\ StartedIsToldOnce'
  BY <1>1, <1>2 DEF AdjusterPaired, Adjusting, StartedIsToldOnce, Notified
<1>6. QED
  BY <1>3, <1>4, <1>5

LEMMA StutterPreserves == ASSUME IInv, UNCHANGED vars PROVE IInv'
<1>1. /\ UNCHANGED <<kind, lastOp, operation, adjustNext, adjustId, next, willAdjust>>
      /\ UNCHANGED <<current, isAdjusting, pc, todo, ok, adjuster, held, cut>>
      /\ UNCHANGED <<started, told, halted>>
  BY DEF vars, handed, posted, run
<1>2. TypeOK' /\ Requested' /\ FlagsAgree' /\ WaitsForWork' /\ WalkAligns'
  BY <1>1 DEF IInv, TypeOK, Requested, FlagsAgree, WaitsForWork, WalkAligns
<1>3. CutStays' /\ HaltPosted' /\ AdjusterPaired' /\ StartedIsToldOnce'
  BY <1>1 DEF IInv, CutStays, HaltPosted, AdjusterPaired, Adjusting, StartedIsToldOnce,
              Notified
<1>4. QED
  BY <1>2, <1>3 DEF IInv

LEMMA NextIInv == ASSUME IInv, [Next]_vars PROVE IInv'
<1>1. CASE Receive
  BY <1>1, SetPreserves, MovePreserves, HaltPreserves DEF Receive
<1>2. CASE Mover
  BY <1>2, WaitOverPreserves, LoopsPreserve, GuardPreserves, StopAdjusterPreserves,
     VerifyPreserves, ReportPreserves, AdvancePreserves DEF Mover
<1>3. CASE \E n \in Op : Correct(n)
  BY <1>3, CorrectPreserves
<1>4. CASE UNCHANGED vars
  BY <1>4, StutterPreserves
<1>5. QED
  BY <1>1, <1>2, <1>3, <1>4 DEF Next

-----------------------------------------------------------------------------
(* The inductive invariant holds of every reachable state. *)
THEOREM MovementInvariance == Spec => []IInv
<1>1. Init => IInv
  BY InitIInv
<1>2. IInv /\ [Next]_vars => IInv'
  BY NextIInv
<1>3. QED
  BY <1>1, <1>2, PTL DEF Spec

(* The variables of the handlers, the movement thread and the adjusters    *)
(* always hold values of their types.                                      *)
THEOREM MovementTypeCorrect == Spec => []TypeOK
<1>1. IInv => TypeOK
  BY DEF IInv
<1>2. QED
  BY <1>1, MovementInvariance, PTL

(* MovementManager::run reports no movement as finished that any of its    *)
(* loops or guards cut short, whatever requests arrive in between.         *)
THEOREM CutMovementsAreAborted == Spec => []CutIsAborted
<1>1. IInv => CutIsAborted
  BY DEF IInv, CutStays, CutIsAborted
<1>2. QED
  BY <1>1, MovementInvariance, PTL

(* MovementManager::run notifies every movement that began exactly once,   *)
(* in the order they began, and before the next begins.                    *)
THEOREM MovementsAreToldOnce == Spec => []StartedIsToldOnce
<1>1. IInv => StartedIsToldOnce
  BY DEF IInv
<1>2. QED
  BY <1>1, MovementInvariance, PTL

(* A MagnetometerAdjuster measures exactly while an adjusting movement     *)
(* runs, and MovementManager can stop it.                                  *)
THEOREM AdjustersArePaired == Spec => []AdjusterPaired
<1>1. IInv => AdjusterPaired
  BY DEF IInv
<1>2. QED
  BY <1>1, MovementInvariance, PTL

(* Between MovementManager::halt and the next MovementManager::move or     *)
(* adjust, run begins no movement.                                         *)
THEOREM HaltsCancel == Spec => HaltCancels
<1>1. IInv /\ [Next]_vars => [started' # started => ~halted]_vars
  <2> SUFFICES ASSUME IInv, Next, started' # started PROVE ~halted
    BY DEF vars, run
  <2> USE MovementAssumption
  <2>1. CASE Receive
    BY <2>1 DEF Receive, OnSetMovementRequest, OnMoveRequest, OnHaltRequest, run
  <2>2. CASE Mover
    <3>1. WaitOver \/ Advance
      BY <2>2 DEF Mover, Cycle, LoopOver, StopEarly, Guard, Unended, StopAdjuster,
                  Verify, Report
    <3>2. next \in Op
      BY <3>1 DEF WaitOver, Advance
    <3>3. QED
      BY <3>2 DEF IInv, HaltPosted
  <2>3. CASE \E n \in Op : Correct(n)
    BY <2>3 DEF Correct
  <2>4. QED
    BY <2>1, <2>2, <2>3 DEF Next
<1>2. QED
  BY <1>1, MovementInvariance, PTL DEF Spec, HaltCancels

(* Only a pending halt makes CheckStatus wrong: while none is, a robot that *)
(* is said not to be moving has its legs still (MovementManager::isMoving). *)
THEOREM StillUnlessHalting == Spec => [](next # Halt => StillMeansStill)
<1>1. IInv => (next # Halt => StillMeansStill)
  BY DEF IInv, WaitsForWork, StillMeansStill, IsMoving
<1>2. QED
  BY <1>1, MovementInvariance, PTL

-----------------------------------------------------------------------------
(* Movements begin in the order of their requests, and each once.          *)

Staged(n) == IF adjustNext THEN n = adjustId ELSE n = operation

(* What is staged is younger than what is posted, and that is younger than *)
(* all that began.                                                         *)
Ordered ==
  /\ adjustNext => operation = None
  /\ \A n \in Op : Staged(n) => /\ next \in Op => next < n
                                /\ \A i \in 1..Len(started) : started[i] < n
  /\ next \in Op => \A i \in 1..Len(started) : started[i] < next
  /\ \A i \in 1..Len(started) : started[i] <= lastOp
  /\ \A i, j \in 1..Len(started) : i < j => started[i] < started[j]

LEMMA RequestsKeepOrder ==
  ASSUME IInv, Ordered, Receive
  PROVE  Ordered'
<1> USE MovementAssumption
<1>0. started' = started
  BY DEF Receive, OnSetMovementRequest, OnMoveRequest, OnHaltRequest, run
<1>1. started' = started /\ started \in Seq(Op) /\ lastOp \in Nat /\ Op \subseteq Nat
  BY <1>0 DEF IInv, TypeOK, Op
<1>2. ASSUME NEW k \in Kind, OnSetMovementRequest(k) PROVE Ordered'
  <2>1. lastOp' = lastOp + 1 /\ next' = next
    BY <1>2 DEF OnSetMovementRequest, posted
  <2>2. adjustNext' => operation' = None
    BY <1>2 DEF OnSetMovementRequest
  <2>3. \A n \in Op : Staged(n)' => n = lastOp + 1
    BY <1>2 DEF OnSetMovementRequest, Staged
  <2>4. next \in Op => next <= lastOp
    BY DEF IInv, Requested
  <2>5. \A i \in 1..Len(started) : started[i] \in Nat /\ started[i] <= lastOp
    BY <1>1, ElementOfSeq DEF Ordered
  <2>6. ASSUME NEW n \in Op, Staged(n)'
        PROVE  (next' \in Op => next' < n) /\ \A i \in 1..Len(started') : started'[i] < n
    <3>1. n = lastOp + 1
      BY <2>3, <2>6
    <3>2. QED
      <4>1. next \in Op => next < n
        BY <1>1, <2>4, <3>1
      <4>2. \A i \in 1..Len(started) : started[i] < n
        BY <1>1, <2>5, <3>1
      <4>3. QED
        BY <1>1, <2>1, <4>1, <4>2
  <2>7. \A i \in 1..Len(started') : started'[i] <= lastOp'
    BY <1>1, <2>1, <2>5
  <2>8. QED
    BY <1>1, <2>1, <2>2, <2>6, <2>7 DEF Ordered
<1>3. CASE OnMoveRequest
  <2>1. lastOp' = lastOp /\ adjustNext' = FALSE /\ (operation' = operation \/ operation' = None)
    BY <1>3 DEF OnMoveRequest, IInv, TypeOK
  <2>2. \A n \in Op : ~Staged(n)'
    BY <1>3, <2>1 DEF OnMoveRequest, Staged, Ordered
  <2>3. next' \in Op => Staged(next')
    BY <1>3 DEF OnMoveRequest, Post, Staged
  <2>4. QED
    BY <1>1, <2>1, <2>2, <2>3 DEF Ordered
<1>4. CASE OnHaltRequest
  <2>1. next' = Halt /\ UNCHANGED handed
    BY <1>4 DEF OnHaltRequest, Post
  <2>2. next' \notin Op /\ \A n : Staged(n)' <=> Staged(n)
    BY <2>1 DEF handed, Staged
  <2>3. QED
    BY <1>1, <2>1, <2>2 DEF Ordered, handed
<1>5. QED
  BY <1>2, <1>3, <1>4 DEF Receive

LEMMA BeginKeepsOrder ==
  ASSUME IInv, Ordered, next \in Op, started' = Append(started, next), next' = None, UNCHANGED handed
  PROVE  Ordered'
<1> USE MovementAssumption
<1>1. started \in Seq(Op) /\ lastOp \in Nat /\ Op \subseteq Nat /\ next <= lastOp
  BY DEF IInv, TypeOK, Requested, Op
<1>2. /\ Len(started') = Len(started) + 1 /\ Len(started) \in Nat
      /\ \A i \in 1..Len(started) : started'[i] = started[i] /\ started[i] \in Nat
      /\ started'[Len(started) + 1] = next
  <2>1. \A i \in 1..Len(started) : started[i] \in Nat
    BY <1>1, ElementOfSeq
  <2>2. QED
    BY <1>1, <2>1
<1>3. \A n : Staged(n)' <=> Staged(n)
  BY DEF handed, Staged
<1>4. /\ lastOp' = lastOp /\ (adjustNext' => operation' = None)
      /\ next' \notin Op
  BY DEF handed, Ordered
<1>5. ASSUME NEW n \in Op, Staged(n), NEW i \in 1..Len(started') PROVE started'[i] < n
  BY <1>1, <1>2, <1>5 DEF Ordered
<1>6. ASSUME NEW i \in 1..Len(started') PROVE started'[i] <= lastOp
  BY <1>1, <1>2, <1>6 DEF Ordered
<1>7. ASSUME NEW i \in 1..Len(started'), NEW j \in 1..Len(started'), i < j
      PROVE  started'[i] < started'[j]
  <2>1. CASE j = Len(started) + 1
    BY <1>1, <1>2, <1>7, <2>1 DEF Ordered
  <2>2. CASE j # Len(started) + 1
    BY <1>1, <1>2, <1>7, <2>2 DEF Ordered
  <2>3. QED
    BY <2>1, <2>2
<1>8. QED
  BY <1>3, <1>4, <1>5, <1>6, <1>7 DEF Ordered

LEMMA OrderStep == IInv /\ Ordered /\ [Next]_vars => Ordered'
<1> SUFFICES ASSUME IInv, Ordered, [Next]_vars PROVE Ordered'
  OBVIOUS
<1> USE MovementAssumption
<1>1. ASSUME UNCHANGED <<handed, started>>, next' = next \/ next' = None PROVE Ordered'
  BY <1>1 DEF Ordered, Staged, handed
<1>2. CASE UNCHANGED vars
  BY <1>1, <1>2 DEF vars, posted, run
<1>3. CASE Mover
  <2>1. CASE next \in Op /\ (WaitOver \/ Advance)
    BY <2>1, BeginKeepsOrder DEF WaitOver, Advance, Begin
  <2>2. CASE next \notin Op /\ (WaitOver \/ Advance)
    BY <1>1, <2>2 DEF WaitOver, Advance
  <2>3. CASE ~WaitOver /\ ~Advance
    BY <1>1, <1>3, <2>3 DEF Mover, Cycle, LoopOver, StopEarly, Guard, StopAdjuster, Verify, Report,
                            Unposted, Unended, posted
  <2>4. QED
    BY <1>3, <2>1, <2>2, <2>3
<1>4. ASSUME NEW n \in Op, Correct(n) PROVE Ordered'
  BY <1>1, <1>4 DEF Correct, Unposted, posted
<1>5. QED
  BY <1>2, <1>3, <1>4, RequestsKeepOrder DEF Next

LEMMA OrderInvariance == Spec => []Ordered
<1>1. Init => Ordered
  BY MovementAssumption DEF Init, Ordered, Staged
<1>2. QED
  BY <1>1, OrderStep, MovementInvariance, PTL DEF Spec

(* No movement begins after one that was requested later, and none begins  *)
(* twice, however many others replace it where it is staged or posted:     *)
(* onMoveRequest and run each take away what they pass on.                 *)
THEOREM MovementsBeginInOrder ==
  Spec => [](\A i, j \in DOMAIN started : i < j => started[i] < started[j])
<1>1. TypeOK /\ Ordered => \A i, j \in DOMAIN started : i < j => started[i] < started[j]
  BY DEF TypeOK, Ordered
<1>2. QED
  BY <1>1, OrderInvariance, MovementTypeCorrect, PTL

(* With that, each movement is notified at most once in all: the client    *)
(* never hears of one again after it was reported.                         *)
THEOREM NoMovementIsToldTwice ==
  Spec => [](\A i, j \in DOMAIN told : told[i].op = told[j].op => i = j)
<1>1. ASSUME TypeOK, StartedIsToldOnce, Ordered, NEW i \in DOMAIN told, NEW j \in DOMAIN told, i < j
      PROVE  told[i].op # told[j].op
  <2>1. told \in Seq([op : Op, how : {"finished", "aborted"}]) /\ started \in Seq(Op) /\ Op \subseteq Nat
    BY <1>1 DEF TypeOK, Op
  <2>2. /\ i \in 1..Len(told) /\ j \in 1..Len(told) /\ Len(told) \in Nat
        /\ \A x \in 1..Len(told) : told[x] \in [op : Op, how : {"finished", "aborted"}]
    <3>1. \A x \in 1..Len(told) : told[x] \in [op : Op, how : {"finished", "aborted"}]
      BY <2>1, ElementOfSeq
    <3>2. QED
      BY <1>1, <2>1, <3>1
  <2>3. Notified \in Seq(Op) /\ Len(Notified) = Len(told) /\ \A x \in 1..Len(told) : Notified[x] = told[x].op
    <3>1. Notified \in [1..Len(told) -> Op]
      BY <2>1, <2>2 DEF Notified
    <3>2. QED
      BY <2>1, <2>2, <3>1, FunctionIsSequence DEF Notified
  <2>4. Len(told) <= Len(started) /\ \A x \in 1..Len(told) : started[x] = told[x].op
    <3> HIDE DEF Notified
    <3>1. CASE started = Notified
      BY <2>2, <2>3, <3>1
    <3>2. CASE started = Append(Notified, current)
      BY <2>2, <2>3, <3>2
    <3>3. QED
      BY <1>1, <3>1, <3>2 DEF StartedIsToldOnce
  <2>5. started[i] < started[j] /\ started[i] \in Nat /\ started[j] \in Nat
    <3>1. i \in 1..Len(started) /\ j \in 1..Len(started)
      BY <2>1, <2>2, <2>4
    <3>2. \A x \in 1..Len(started) : started[x] \in Op
      BY <2>1, ElementOfSeq
    <3>3. QED
      BY <1>1, <2>1, <3>1, <3>2 DEF Ordered
  <2>6. QED
    BY <2>2, <2>4, <2>5
<1>2. TypeOK /\ StartedIsToldOnce /\ Ordered => \A i, j \in DOMAIN told : told[i].op = told[j].op => i = j
  <2> SUFFICES ASSUME TypeOK, StartedIsToldOnce, Ordered, NEW i \in DOMAIN told, NEW j \in DOMAIN told,
                      told[i].op = told[j].op, i # j
               PROVE  FALSE
    OBVIOUS
  <2>1. i \in Nat /\ j \in Nat
    BY DEF TypeOK
  <2>2. i < j \/ j < i
    BY <2>1
  <2>3. QED
    BY <1>1, <2>2
<1>3. QED
  BY <1>2, OrderInvariance, MovementTypeCorrect, MovementsAreToldOnce, PTL
=============================================================================
