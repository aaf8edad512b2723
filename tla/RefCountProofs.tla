---------------------------- MODULE RefCountProofs ----------------------------
(***************************************************************************)
(* Proofs about RefCount, for any objects, blocks and references.          *)
(***************************************************************************)
EXTENDS RefCount, FiniteSetTheorems, TLAPS

(* Which of its fields a reference uses, by where it is. *)
StrongShape(r) ==
  /\ pc[r] = "null" => obj[r] = None /\ blk[r] = None
  /\ pc[r] \in {"object", "block", "held"} => obj[r] \in Object /\ blk[r] = None
  /\ pc[r] \in {"upgrade", "drop", "recycle"} => obj[r] = None /\ blk[r] \in Block
  /\ pc[r] = "finalize" => obj[r] \in Object

WeakShape(w) ==
  /\ pc[w] \in {"null", "held", "recycle"}
  /\ obj[w] = None
  /\ pc[w] = "null" => blk[w] = None
  /\ pc[w] # "null" => blk[w] \in Block

Shape == (\A r \in Strong : StrongShape(r)) /\ (\A w \in Weak : WeakShape(w))

(* Before its first reference and after its last one, an object is known   *)
(* to one reference only.                                                  *)
SoleOwner ==
  \A r \in Strong : pc[r] \in {"object", "block", "finalize"} =>
    /\ obj[r] \notin pool
    /\ \A s \in Strong \ {r} : obj[s] # obj[r]

(* The object a block leads to is alive, and leads back to the block. *)
TargetAlive ==
  \A b \in Block : target[b] # None =>
    /\ b \notin stack
    /\ target[b] \notin pool
    /\ counter[target[b]] = b
    /\ \/ StrongOn(b) # {}
       \/ \E r \in Strong : pc[r] = "block" /\ obj[r] = target[b]

(* A reference to an object and the object's block agree. *)
Linked ==
  \A r \in Strong :
    /\ pc[r] \in {"block", "held"} =>
         counter[obj[r]] \in Block /\ target[counter[obj[r]]] = obj[r]
    /\ pc[r] = "block" => \A s \in Ref : blk[s] # counter[obj[r]]
    /\ pc[r] \in {"object", "finalize"} => \A b \in Block : target[b] # obj[r]

(* Nothing refers to a free block; who recycles one is the last to know.   *)
BlocksApart ==
  /\ \A b \in stack : \A r \in Ref : blk[r] # b
  /\ \A r \in Ref : pc[r] \in {"finalize", "recycle"} /\ blk[r] # None =>
       /\ target[blk[r]] = None
       /\ \A s \in Ref \ {r} : blk[s] # blk[r]

Reachable ==
  /\ \A o \in Object \ pool :
       (\E r \in Strong : obj[r] = o) \/ (\E b \in Block : target[b] = o)
  /\ \A b \in Block \ stack : (\E r \in Ref : blk[r] = b) \/ target[b] # None

IInv ==
  /\ TypeOK
  /\ Shape
  /\ SoleOwner
  /\ TargetAlive
  /\ Linked
  /\ BlocksApart
  /\ Reachable
  /\ CountsMatch

-----------------------------------------------------------------------------
(* Counting. *)

LEMMA UsersFinite ==
  ASSUME NEW b
  PROVE  /\ IsFiniteSet(StrongOn(b)) /\ IsFiniteSet(WeakOn(b))
         /\ Cardinality(StrongOn(b)) \in Nat /\ Cardinality(WeakOn(b)) \in Nat
<1>1. StrongOn(b) \in SUBSET Strong /\ WeakOn(b) \in SUBSET Weak
  BY DEF StrongOn, WeakOn
<1>2. IsFiniteSet(StrongOn(b)) /\ IsFiniteSet(WeakOn(b))
  BY <1>1, RefAssumption, FS_Subset
<1>3. QED
  BY <1>2, FS_CardinalityType

(* Who is counted, by the fields that say so. *)
Uses(r, b) ==
  \/ pc[r] = "held" /\ counter[obj[r]] = b
  \/ pc[r] \in {"upgrade", "drop"} /\ blk[r] = b

LEMMA StrongUsers ==
  ASSUME Shape, NEW b
  PROVE  StrongOn(b) = {r \in Strong : Uses(r, b)}
<1> USE RefAssumption
<1>1. \A r \in Strong : StrongShape(r)
  BY DEF Shape
<1>2. QED
  BY <1>1 DEF StrongShape, StrongOn, BlockOf, Uses

LEMMA StrongUsersNext ==
  ASSUME Shape', NEW b
  PROVE  StrongOn(b)' = {r \in Strong : Uses(r, b)'}
<1> USE RefAssumption
<1>1. \A r \in Strong : StrongShape(r)'
  BY DEF Shape
<1>2. QED
  BY <1>1 DEF StrongShape, StrongOn, BlockOf, Uses

LEMMA StrongAdded ==
  ASSUME TypeOK, CountsMatch, NEW b \in Block \ stack, NEW r \in Strong,
         r \notin StrongOn(b), stack' = stack, IncrementStrong(b),
         \A x \in Block : WeakOn(x)' = WeakOn(x),
         \A x \in Block : StrongOn(x)' = IF x = b THEN StrongOn(x) \cup {r}
                                                  ELSE StrongOn(x)
  PROVE  CountsMatch' /\ strongCount' \in [Block -> Nat] /\ count' \in [Block -> Nat]
<1>1. /\ strongCount' = [strongCount EXCEPT ![b] = @ + 1]
      /\ count' = [count EXCEPT ![b] = @ + 1]
      /\ strongCount \in [Block -> Nat] /\ count \in [Block -> Nat]
  BY DEF IncrementStrong, TypeOK
<1>2. Cardinality(StrongOn(b)') = Cardinality(StrongOn(b)) + 1
  BY FS_AddElement, UsersFinite
<1>3. ASSUME NEW x \in Block \ stack
      PROVE  /\ strongCount'[x] = Cardinality(StrongOn(x)')
             /\ count'[x] = Cardinality(StrongOn(x)') + Cardinality(WeakOn(x)')
  <2>1. /\ strongCount[x] = Cardinality(StrongOn(x))
        /\ count[x] = Cardinality(StrongOn(x)) + Cardinality(WeakOn(x))
    BY DEF CountsMatch
  <2>2. Cardinality(StrongOn(x)) \in Nat /\ Cardinality(WeakOn(x)) \in Nat
    BY UsersFinite
  <2>3. CASE x = b
    BY <1>1, <1>2, <2>1, <2>2, <2>3
  <2>4. CASE x # b
    BY <1>1, <2>1, <2>4
  <2>5. QED
    BY <2>3, <2>4
<1>4. CountsMatch'
  BY <1>3 DEF CountsMatch
<1>5. QED
  BY <1>1, <1>4

LEMMA WeakAdded ==
  ASSUME TypeOK, CountsMatch, NEW b \in Block \ stack, NEW w \in Weak,
         w \notin WeakOn(b), stack' = stack, strongCount' = strongCount,
         count' = [count EXCEPT ![b] = @ + 1],
         \A x \in Block : StrongOn(x)' = StrongOn(x),
         \A x \in Block : WeakOn(x)' = IF x = b THEN WeakOn(x) \cup {w} ELSE WeakOn(x)
  PROVE  CountsMatch' /\ count' \in [Block -> Nat]
<1>1. strongCount \in [Block -> Nat] /\ count \in [Block -> Nat]
  BY DEF TypeOK
<1>2. Cardinality(WeakOn(b)') = Cardinality(WeakOn(b)) + 1
  BY FS_AddElement, UsersFinite
<1>3. ASSUME NEW x \in Block \ stack
      PROVE  /\ strongCount'[x] = Cardinality(StrongOn(x)')
             /\ count'[x] = Cardinality(StrongOn(x)') + Cardinality(WeakOn(x)')
  <2>1. /\ strongCount[x] = Cardinality(StrongOn(x))
        /\ count[x] = Cardinality(StrongOn(x)) + Cardinality(WeakOn(x))
    BY DEF CountsMatch
  <2>2. Cardinality(StrongOn(x)) \in Nat /\ Cardinality(WeakOn(x)) \in Nat
    BY UsersFinite
  <2>3. CASE x = b
    BY <1>1, <1>2, <2>1, <2>2, <2>3
  <2>4. CASE x # b
    BY <1>1, <2>1, <2>4
  <2>5. QED
    BY <2>3, <2>4
<1>4. CountsMatch'
  BY <1>3 DEF CountsMatch
<1>5. QED
  BY <1>1, <1>4

LEMMA StrongRemoved ==
  ASSUME TypeOK, CountsMatch, NEW b \in Block \ stack, NEW r \in Strong,
         r \in StrongOn(b), stack' = stack,
         strongCount' = [strongCount EXCEPT ![b] = @ - 1],
         count' = [count EXCEPT ![b] = @ - 1],
         \A x \in Block : WeakOn(x)' = WeakOn(x),
         \A x \in Block : StrongOn(x)' = IF x = b THEN StrongOn(x) \ {r}
                                                  ELSE StrongOn(x)
  PROVE  CountsMatch' /\ strongCount' \in [Block -> Nat] /\ count' \in [Block -> Nat]
<1>1. strongCount \in [Block -> Nat] /\ count \in [Block -> Nat]
  BY DEF TypeOK
<1>2. Cardinality(StrongOn(b)') = Cardinality(StrongOn(b)) - 1
  BY FS_RemoveElement, UsersFinite
<1>3. Cardinality(StrongOn(b)') \in Nat
  <2>1. IsFiniteSet(StrongOn(b) \ {r})
    BY FS_RemoveElement, UsersFinite
  <2>2. QED
    BY <2>1, FS_CardinalityType
<1>4. ASSUME NEW x \in Block \ stack
      PROVE  /\ strongCount'[x] = Cardinality(StrongOn(x)')
             /\ count'[x] = Cardinality(StrongOn(x)') + Cardinality(WeakOn(x)')
  <2>1. /\ strongCount[x] = Cardinality(StrongOn(x))
        /\ count[x] = Cardinality(StrongOn(x)) + Cardinality(WeakOn(x))
    BY DEF CountsMatch
  <2>2. Cardinality(StrongOn(x)) \in Nat /\ Cardinality(WeakOn(x)) \in Nat
    BY UsersFinite
  <2>3. CASE x = b
    BY <1>1, <1>2, <2>1, <2>2, <2>3
  <2>4. CASE x # b
    BY <1>1, <2>1, <2>4
  <2>5. QED
    BY <2>3, <2>4
<1>5. CountsMatch'
  BY <1>4 DEF CountsMatch
<1>6. strongCount[b] - 1 \in Nat /\ count[b] - 1 \in Nat
  <2>1. /\ strongCount[b] = Cardinality(StrongOn(b))
        /\ count[b] = Cardinality(StrongOn(b)) + Cardinality(WeakOn(b))
    BY DEF CountsMatch
  <2>2. QED
    BY <1>2, <1>3, <2>1, UsersFinite
<1>7. QED
  BY <1>1, <1>5, <1>6

LEMMA WeakRemoved ==
  ASSUME TypeOK, CountsMatch, NEW b \in Block \ stack, NEW w \in Weak,
         w \in WeakOn(b), stack' = stack, strongCount' = strongCount,
         count' = [count EXCEPT ![b] = @ - 1],
         \A x \in Block : StrongOn(x)' = StrongOn(x),
         \A x \in Block : WeakOn(x)' = IF x = b THEN WeakOn(x) \ {w} ELSE WeakOn(x)
  PROVE  CountsMatch' /\ count' \in [Block -> Nat]
<1>1. strongCount \in [Block -> Nat] /\ count \in [Block -> Nat]
  BY DEF TypeOK
<1>2. Cardinality(WeakOn(b)') = Cardinality(WeakOn(b)) - 1
  BY FS_RemoveElement, UsersFinite
<1>3. Cardinality(WeakOn(b)') \in Nat
  <2>1. IsFiniteSet(WeakOn(b) \ {w})
    BY FS_RemoveElement, UsersFinite
  <2>2. QED
    BY <2>1, FS_CardinalityType
<1>4. ASSUME NEW x \in Block \ stack
      PROVE  /\ strongCount'[x] = Cardinality(StrongOn(x)')
             /\ count'[x] = Cardinality(StrongOn(x)') + Cardinality(WeakOn(x)')
  <2>1. /\ strongCount[x] = Cardinality(StrongOn(x))
        /\ count[x] = Cardinality(StrongOn(x)) + Cardinality(WeakOn(x))
    BY DEF CountsMatch
  <2>2. Cardinality(StrongOn(x)) \in Nat /\ Cardinality(WeakOn(x)) \in Nat
    BY UsersFinite
  <2>3. CASE x = b
    BY <1>1, <1>2, <2>1, <2>2, <2>3
  <2>4. CASE x # b
    BY <1>1, <2>1, <2>4
  <2>5. QED
    BY <2>3, <2>4
<1>5. CountsMatch'
  BY <1>4 DEF CountsMatch
<1>6. count[b] - 1 \in Nat
  <2>1. count[b] = Cardinality(StrongOn(b)) + Cardinality(WeakOn(b))
    BY DEF CountsMatch
  <2>2. QED
    BY <1>2, <1>3, <2>1, UsersFinite
<1>7. QED
  BY <1>1, <1>5, <1>6

(* A count of one is the count of the reference that sees it. *)
LEMMA OnlyStrong ==
  ASSUME TypeOK, CountsMatch, NEW b \in Block \ stack, NEW r \in StrongOn(b)
  PROVE  /\ strongCount[b] = 1 => StrongOn(b) = {r}
         /\ strongCount[b] # 1 => StrongOn(b) # {r}
         /\ count[b] = 1 => strongCount[b] = 1 /\ WeakOn(b) = {}
         /\ count[b] # 1 /\ strongCount[b] = 1 => WeakOn(b) # {}
<1>1. /\ strongCount[b] = Cardinality(StrongOn(b))
      /\ count[b] = Cardinality(StrongOn(b)) + Cardinality(WeakOn(b))
  BY DEF CountsMatch
<1>2. IsFiniteSet(StrongOn(b)) /\ IsFiniteSet(WeakOn(b))
      /\ Cardinality(StrongOn(b)) \in Nat /\ Cardinality(WeakOn(b)) \in Nat
  BY UsersFinite
<1>3. Cardinality(StrongOn(b)) # 0
  BY <1>2, FS_EmptySet
<1>4. (Cardinality(StrongOn(b)) = 1) <=> (StrongOn(b) = {r})
  BY <1>2, FS_Singleton
<1>5. (Cardinality(WeakOn(b)) = 0) <=> (WeakOn(b) = {})
  BY <1>2, FS_EmptySet
<1>6. QED
  BY <1>1, <1>2, <1>3, <1>4, <1>5

LEMMA OnlyWeak ==
  ASSUME TypeOK, CountsMatch, NEW b \in Block \ stack, NEW w \in WeakOn(b)
  PROVE  /\ count[b] = 1 => WeakOn(b) = {w} /\ StrongOn(b) = {}
         /\ count[b] # 1 => WeakOn(b) # {w} \/ StrongOn(b) # {}
<1>1. count[b] = Cardinality(StrongOn(b)) + Cardinality(WeakOn(b))
  BY DEF CountsMatch
<1>2. IsFiniteSet(StrongOn(b)) /\ IsFiniteSet(WeakOn(b))
      /\ Cardinality(StrongOn(b)) \in Nat /\ Cardinality(WeakOn(b)) \in Nat
  BY UsersFinite
<1>3. Cardinality(WeakOn(b)) # 0
  BY <1>2, FS_EmptySet
<1>4. (Cardinality(WeakOn(b)) = 1) <=> (WeakOn(b) = {w})
  BY <1>2, FS_Singleton
<1>5. (Cardinality(StrongOn(b)) = 0) <=> (StrongOn(b) = {})
  BY <1>2, FS_EmptySet
<1>6. QED
  BY <1>1, <1>2, <1>3, <1>4, <1>5

-----------------------------------------------------------------------------
(* Initially nothing is in use. *)
LEMMA InitIInv == Init => IInv
<1> SUFFICES ASSUME Init PROVE IInv
  OBVIOUS
<1> USE RefAssumption
<1>1. TypeOK
  BY DEF Init, TypeOK, PC
<1>2. Shape
  BY DEF Init, Shape, StrongShape, WeakShape, Ref
<1>3. SoleOwner /\ TargetAlive /\ Linked
  BY DEF Init, SoleOwner, TargetAlive, Linked, Ref
<1>4. BlocksApart /\ Reachable /\ CountsMatch
  BY DEF Init, BlocksApart, Reachable, CountsMatch, Ref
<1>5. QED
  BY <1>1, <1>2, <1>3, <1>4 DEF IInv

(* The block of a reference that is counted is in use. *)
LEMMA StrongInUse ==
  ASSUME IInv, NEW r \in Strong, pc[r] \in {"held", "upgrade", "drop"}
  PROVE  /\ BlockOf(r) \in Block \ stack
         /\ r \in StrongOn(BlockOf(r))
         /\ pc[r] = "held" => BlockOf(r) = counter[obj[r]] /\ target[BlockOf(r)] = obj[r]
         /\ pc[r] # "held" => BlockOf(r) = blk[r]
<1> USE RefAssumption DEF IInv
<1>1. StrongShape(r)
  BY DEF Shape
<1>2. CASE pc[r] = "held"
  <2>1. obj[r] \in Object /\ obj[r] # None /\ BlockOf(r) = counter[obj[r]]
    BY <1>1, <1>2 DEF StrongShape, BlockOf
  <2>2. BlockOf(r) \in Block /\ target[BlockOf(r)] = obj[r]
    BY <1>2, <2>1 DEF Linked
  <2>3. BlockOf(r) \notin stack
    BY <2>1, <2>2 DEF TargetAlive
  <2>4. QED
    BY <1>2, <2>1, <2>2, <2>3 DEF StrongOn
<1>3. CASE pc[r] \in {"upgrade", "drop"}
  <2>1. BlockOf(r) = blk[r] /\ blk[r] \in Block
    BY <1>1, <1>3 DEF StrongShape, BlockOf
  <2>2. blk[r] \notin stack
    BY DEF BlocksApart, Ref
  <2>3. QED
    BY <1>3, <2>1, <2>2 DEF StrongOn
<1>4. QED
  BY <1>2, <1>3

LEMMA WeakInUse ==
  ASSUME IInv, NEW w \in Weak, pc[w] = "held"
  PROVE  BlockOf(w) = blk[w] /\ blk[w] \in Block \ stack /\ w \in WeakOn(blk[w])
<1> USE RefAssumption DEF IInv
<1>1. blk[w] \in Block /\ obj[w] = None
  BY DEF Shape, WeakShape
<1>2. blk[w] \notin stack
  BY DEF BlocksApart, Ref
<1>3. QED
  BY <1>1, <1>2 DEF BlockOf, WeakOn

LEMMA ObtainPreserves == ASSUME IInv, NEW r \in Strong, Obtain(r) PROVE IInv'
<1> USE RefAssumption DEF IInv
<1> PICK o \in pool : pool' = pool \ {o} /\ Becomes(r, "object", o, None)
  BY DEF Obtain
<1>1. /\ pc' = [pc EXCEPT ![r] = "object"] /\ obj' = [obj EXCEPT ![r] = o]
      /\ blk' = [blk EXCEPT ![r] = None] /\ pool' = pool \ {o}
      /\ UNCHANGED <<stack, counter, target, strongCount, count>>
      /\ pc[r] = "null" /\ o \in Object /\ o # None /\ r \in Ref
  BY DEF Obtain, Becomes, TypeOK, Ref
<1>2. TypeOK'
  BY <1>1 DEF TypeOK, PC
<1>3. Shape'
  BY <1>1 DEF Shape, StrongShape, WeakShape, TypeOK, Ref
<1>4. /\ obj[r] = None /\ blk[r] = None
      /\ \A s \in Strong : pc[s] = "null" => obj[s] = None
  BY <1>1 DEF Shape, StrongShape
<1>5. \A s \in Strong : obj[s] # o
  <2> SUFFICES ASSUME NEW s \in Strong, obj[s] = o PROVE FALSE
    OBVIOUS
  <2>1. pc[s] \in {"object", "block", "held", "finalize"}
    BY <1>1 DEF Shape, StrongShape, TypeOK, PC, Ref
  <2>2. CASE pc[s] = "held"
    BY <1>1, <2>2 DEF Linked, TargetAlive
  <2>3. CASE pc[s] \in {"object", "block", "finalize"}
    BY <1>1, <2>3 DEF SoleOwner
  <2>4. QED
    BY <2>1, <2>2, <2>3
<1>6. SoleOwner'
  BY <1>1, <1>5 DEF SoleOwner, TypeOK, Ref
<1>7. /\ \A x \in Block : StrongOn(x)' = StrongOn(x)
      /\ \A x \in Block : WeakOn(x)' = WeakOn(x)
  <2>1. \A x \in Block, s \in Strong : Uses(s, x)' <=> Uses(s, x)
    BY <1>1 DEF Uses, TypeOK, Ref
  <2>2. \A x \in Block : StrongOn(x)' = StrongOn(x)
    BY <1>3, <2>1, StrongUsers, StrongUsersNext
  <2>3. QED
    BY <1>1, <2>2 DEF WeakOn, TypeOK, Ref
<1>8. TargetAlive'
  BY <1>1, <1>7 DEF TargetAlive, TypeOK, Ref
<1>9. Linked'
  BY <1>1 DEF Linked, TargetAlive, TypeOK, Ref
<1>10. BlocksApart'
  BY <1>1, <1>4 DEF BlocksApart, TypeOK, Ref
<1>11. Reachable'
  BY <1>1, <1>4 DEF Reachable, TypeOK, Ref
<1>12. CountsMatch'
  BY <1>1, <1>7 DEF CountsMatch
<1>13. QED
  BY <1>2, <1>3, <1>6, <1>8, <1>9, <1>10, <1>11, <1>12

LEMMA GetControlBlockPreserves ==
  ASSUME IInv, NEW r \in Strong, GetControlBlock(r) PROVE IInv'
<1> USE RefAssumption DEF IInv
<1> DEFINE o == obj[r]
<1> PICK b \in stack : /\ stack' = stack \ {b}
                       /\ counter' = [counter EXCEPT ![o] = b]
                       /\ target' = [target EXCEPT ![b] = o]
                       /\ strongCount' = [strongCount EXCEPT ![b] = 0]
                       /\ count' = [count EXCEPT ![b] = 0]
  BY DEF GetControlBlock
<1>1. /\ pc' = [pc EXCEPT ![r] = "block"] /\ obj' = [obj EXCEPT ![r] = o]
      /\ blk' = [blk EXCEPT ![r] = None] /\ pool' = pool
      /\ pc[r] = "object" /\ b \in Block /\ r \in Ref
  BY DEF GetControlBlock, Becomes, TypeOK, Ref
<1>2. /\ o \in Object /\ o # None /\ blk[r] = None /\ o \notin pool
      /\ \A s \in Strong \ {r} : obj[s] # o
      /\ \A x \in Block : target[x] # o
  BY <1>1 DEF Shape, StrongShape, SoleOwner, Linked
<1>3. blk' = blk /\ obj' = obj
  BY <1>1, <1>2 DEF TypeOK, Ref
<1>4. /\ target[b] = None
      /\ \A s \in Ref : blk[s] # b
  BY <1>1 DEF TargetAlive, BlocksApart
<1> HIDE DEF o
<1>5. TypeOK'
  BY <1>1, <1>2, <1>3 DEF TypeOK, PC
<1>6. Shape'
  <2>1. ASSUME NEW s \in Strong PROVE StrongShape(s)'
    BY <1>1, <1>2, <1>3 DEF Shape, StrongShape, TypeOK, Ref, o
  <2>2. ASSUME NEW w \in Weak PROVE WeakShape(w)'
    BY <1>1, <1>3 DEF Shape, WeakShape, TypeOK, Ref
  <2>3. QED
    BY <2>1, <2>2 DEF Shape
<1>7. SoleOwner'
  BY <1>1, <1>2, <1>3 DEF SoleOwner, TypeOK, Ref, o
<1>8. /\ \A x \in Block : StrongOn(x)' = StrongOn(x)
      /\ \A x \in Block : WeakOn(x)' = WeakOn(x)
      /\ StrongOn(b) = {} /\ WeakOn(b) = {}
  <2>1. ASSUME NEW x \in Block, NEW s \in Strong PROVE Uses(s, x)' <=> Uses(s, x)
    <3>1. CASE s = r
      BY <1>1, <3>1 DEF Uses, TypeOK, Ref
    <3>2. CASE s # r
      <4>1. pc'[s] = pc[s] /\ obj[s] # o /\ pc[s] \in PC
        BY <1>1, <1>2, <3>2 DEF TypeOK, Ref
      <4>2. pc[s] = "held" => obj[s] \in Object /\ counter'[obj[s]] = counter[obj[s]]
        BY <1>2, <4>1 DEF Shape, StrongShape, TypeOK
      <4>3. QED
        BY <1>3, <4>1, <4>2 DEF Uses
    <3>3. QED
      BY <3>1, <3>2
  <2>2. \A x \in Block : StrongOn(x)' = StrongOn(x)
    BY <1>6, <2>1, StrongUsers, StrongUsersNext
  <2>3. \A x \in Block : WeakOn(x)' = WeakOn(x)
    BY <1>1, <1>3 DEF WeakOn, TypeOK, Ref
  <2>4. \A s \in Strong : ~Uses(s, b)
    <3> SUFFICES ASSUME NEW s \in Strong, Uses(s, b) PROVE FALSE
      OBVIOUS
    <3>1. pc[s] = "held" /\ counter[obj[s]] = b
      BY <1>4 DEF Uses, Ref
    <3>2. target[b] = obj[s] /\ obj[s] \in Object
      BY <3>1 DEF Linked, Shape, StrongShape
    <3>3. QED
      BY <1>4, <3>2
  <2>5. StrongOn(b) = {} /\ WeakOn(b) = {}
    BY <1>4, <2>4, StrongUsers DEF WeakOn, Ref
  <2>6. QED
    BY <2>2, <2>3, <2>5
<1>9. TargetAlive'
  <2> SUFFICES ASSUME NEW x \in Block, target'[x] # None
               PROVE  /\ x \notin stack' /\ target'[x] \notin pool'
                      /\ counter'[target'[x]] = x
                      /\ \/ StrongOn(x)' # {}
                         \/ \E s \in Strong : pc'[s] = "block" /\ obj'[s] = target'[x]
    BY DEF TargetAlive
  <2>1. CASE x = b
    <3>1. target'[b] = o /\ counter'[o] = b /\ pc'[r] = "block" /\ obj'[r] = o
      BY <1>1, <1>2 DEF TypeOK, o
    <3>2. QED
      BY <1>1, <1>2, <2>1, <3>1
  <2>2. CASE x # b
    <3>1. target'[x] = target[x] /\ target[x] \in Object /\ target[x] # o
      BY <1>2, <2>2 DEF TypeOK
    <3>2. counter'[target[x]] = counter[target[x]]
      BY <3>1 DEF TypeOK
    <3>3. \A s \in Strong : pc[s] = "block" => pc'[s] = "block"
      BY <1>1 DEF TypeOK, Ref
    <3>4. /\ x \notin stack /\ target[x] \notin pool /\ counter[target[x]] = x
          /\ \/ StrongOn(x) # {}
             \/ \E s \in Strong : pc[s] = "block" /\ obj[s] = target[x]
      BY <3>1 DEF TargetAlive
    <3>5. QED
      BY <1>1, <1>3, <1>8, <3>1, <3>2, <3>3, <3>4
  <2>3. QED
    BY <2>1, <2>2
<1>10. Linked'
  <2> SUFFICES ASSUME NEW s \in Strong
               PROVE  /\ pc'[s] \in {"block", "held"} =>
                           counter'[obj[s]] \in Block /\ target'[counter'[obj[s]]] = obj[s]
                      /\ pc'[s] = "block" => \A t \in Ref : blk[t] # counter'[obj[s]]
                      /\ pc'[s] \in {"object", "finalize"} => \A x \in Block : target'[x] # obj[s]
    BY <1>3 DEF Linked
  <2>1. CASE s = r
    <3>1. counter'[obj[s]] = b /\ target'[b] = obj[s] /\ pc'[s] = "block"
      BY <1>1, <1>2, <2>1 DEF TypeOK, o, Ref
    <3>2. QED
      BY <1>1, <1>4, <3>1
  <2>2. CASE s # r
    <3>1. pc'[s] = pc[s] /\ obj[s] # o
      BY <1>1, <1>2, <2>2 DEF TypeOK, Ref
    <3>2. pc[s] \in {"block", "held"} => obj[s] \in Object /\ counter'[obj[s]] = counter[obj[s]]
      BY <3>1 DEF Shape, StrongShape, TypeOK
    <3>3. pc[s] \in {"block", "held"} => counter[obj[s]] # b
      BY <1>4, <3>2 DEF Linked
    <3>4. \A x \in Block : target'[x] = target[x] \/ target'[x] = o
      BY <1>1 DEF TypeOK
    <3>5. pc[s] \in {"block", "held"} => target'[counter[obj[s]]] = target[counter[obj[s]]]
      BY <3>3 DEF TypeOK, Linked
    <3>6. QED
      BY <3>1, <3>2, <3>4, <3>5 DEF Linked
  <2>3. QED
    BY <2>1, <2>2
<1>11. BlocksApart'
  <2>1. \A s \in Ref : pc'[s] \in {"finalize", "recycle"} => pc[s] = pc'[s]
    BY <1>1 DEF TypeOK
  <2>2. \A x \in Block : x # b => target'[x] = target[x]
    BY DEF TypeOK
  <2>3. \A s \in Ref : blk[s] \in Block \cup {None}
    BY DEF TypeOK
  <2>4. QED
    BY <1>1, <1>3, <1>4, <2>1, <2>2, <2>3 DEF BlocksApart
<1>12. Reachable'
  <2>1. target'[b] = o /\ obj[r] = o /\ \A x \in Block : x # b => target'[x] = target[x]
    BY <1>1 DEF TypeOK, o
  <2>2. QED
    BY <1>1, <1>2, <1>3, <1>4, <2>1 DEF Reachable
<1>13. CountsMatch'
  <2> SUFFICES ASSUME NEW x \in Block \ stack'
               PROVE  /\ strongCount'[x] = Cardinality(StrongOn(x)')
                      /\ count'[x] = Cardinality(StrongOn(x)') + Cardinality(WeakOn(x)')
    BY DEF CountsMatch
  <2>1. CASE x = b
    <3>1. strongCount'[b] = 0 /\ count'[b] = 0
      BY <1>1 DEF TypeOK
    <3>2. StrongOn(b)' = {} /\ WeakOn(b)' = {}
      BY <1>1, <1>8
    <3>3. Cardinality(StrongOn(b)') = 0 /\ Cardinality(WeakOn(b)') = 0
      BY <3>2, FS_EmptySet
    <3>4. QED
      BY <2>1, <3>1, <3>3
  <2>2. CASE x # b
    BY <1>1, <1>8, <2>2 DEF TypeOK, CountsMatch
  <2>3. QED
    BY <2>1, <2>2
<1>14. QED
  BY <1>5, <1>6, <1>7, <1>9, <1>10, <1>11, <1>12, <1>13

(* A strong reference is made that counts from now on: what the three      *)
(* ways to make one have in common.                                        *)
LEMMA CountingPreserves ==
  ASSUME IInv, NEW r \in Strong, NEW b \in Block \ stack,
         pc[r] \in {"null", "block"}, ~Uses(r, b),
         IncrementStrong(b),
         NEW p, NEW o, NEW k, Becomes(r, p, o, k),
         UNCHANGED <<pool, stack, counter, target>>,
         \/ p = "held" /\ o \in Object /\ k = None /\ counter[o] = b /\ target[b] = o
         \/ p = "upgrade" /\ o = None /\ k = b,
         pc[r] = "block" => o = obj[r],
         \A s \in Strong : pc[s] \in {"object", "block", "finalize"} /\ s # r =>
           o # obj[s] /\ (pc[s] = "block" => k # counter[obj[s]]),
         \A s \in Ref : pc[s] \in {"finalize", "recycle"} => blk[s] # b
  PROVE  IInv'
<1> USE RefAssumption DEF IInv
<1>1. /\ pc' = [pc EXCEPT ![r] = p] /\ obj' = [obj EXCEPT ![r] = o]
      /\ blk' = [blk EXCEPT ![r] = k]
      /\ pool' = pool /\ stack' = stack /\ counter' = counter /\ target' = target
      /\ r \in Ref /\ p \in {"held", "upgrade"} /\ k \in {None, b}
  BY DEF Becomes, Ref
<1>2. blk[r] = None /\ (pc[r] = "null" => obj[r] = None)
  BY DEF Shape, StrongShape
<1>3. Shape'
  <2>1. StrongShape(r)'
    BY <1>1 DEF StrongShape, TypeOK
  <2>2. ASSUME NEW s \in Strong, s # r PROVE StrongShape(s)'
    BY <1>1, <2>2 DEF Shape, StrongShape, TypeOK, Ref
  <2>3. ASSUME NEW w \in Weak PROVE WeakShape(w)'
    BY <1>1 DEF Shape, WeakShape, TypeOK, Ref
  <2>4. QED
    BY <2>1, <2>2, <2>3 DEF Shape
<1>4. /\ \A x \in Block : StrongOn(x)' = IF x = b THEN StrongOn(x) \cup {r} ELSE StrongOn(x)
      /\ \A x \in Block : WeakOn(x)' = WeakOn(x)
      /\ r \notin StrongOn(b)
  <2>1. \A x \in Block, s \in Strong : s # r => (Uses(s, x)' <=> Uses(s, x))
    BY <1>1 DEF Uses, TypeOK, Ref
  <2>2. \A x \in Block : Uses(r, x)' <=> x = b
    BY <1>1 DEF Uses, TypeOK
  <2>3. \A x \in Block : ~Uses(r, x)
    BY DEF Uses
  <2>4. \A x \in Block : StrongOn(x)' = IF x = b THEN StrongOn(x) \cup {r} ELSE StrongOn(x)
    <3> SUFFICES ASSUME NEW x \in Block
                 PROVE  StrongOn(x)' = IF x = b THEN StrongOn(x) \cup {r} ELSE StrongOn(x)
      OBVIOUS
    <3>1. StrongOn(x) = {s \in Strong : Uses(s, x)}
      BY StrongUsers
    <3>2. StrongOn(x)' = {s \in Strong : Uses(s, x)'}
      BY <1>3, StrongUsersNext
    <3>3. \A s \in Strong : Uses(s, x)' <=> Uses(s, x) \/ (s = r /\ x = b)
      BY <2>1, <2>2, <2>3
    <3>4. QED
      BY <3>1, <3>2, <3>3
  <2>5. \A x \in Block : WeakOn(x)' = WeakOn(x)
    BY <1>1 DEF WeakOn, TypeOK, Ref
  <2>6. r \notin StrongOn(b)
    BY <2>3, StrongUsers
  <2>7. QED
    BY <2>4, <2>5, <2>6
<1>5. CountsMatch' /\ strongCount' \in [Block -> Nat] /\ count' \in [Block -> Nat]
  BY <1>1, <1>4, StrongAdded
<1>6. TypeOK'
  BY <1>1, <1>5 DEF TypeOK, PC
<1>7. SoleOwner'
  BY <1>1, <1>2 DEF SoleOwner, TypeOK, Ref
<1>8. TargetAlive'
  <2> SUFFICES ASSUME NEW x \in Block, target[x] # None
               PROVE  /\ x \notin stack /\ target[x] \notin pool /\ counter[target[x]] = x
                      /\ \/ StrongOn(x)' # {}
                         \/ \E s \in Strong : pc'[s] = "block" /\ obj'[s] = target[x]
    BY <1>1 DEF TargetAlive
  <2>1. CASE x = b
    BY <1>4, <2>1 DEF TargetAlive
  <2>2. CASE x # b
    <3>1. \A s \in Strong : pc[s] = "block" /\ obj[s] = target[x] => s # r
      BY <2>2 DEF TargetAlive, Linked
    <3>2. QED
      BY <1>1, <1>4, <2>2, <3>1 DEF TargetAlive, TypeOK, Ref
  <2>3. QED
    BY <2>1, <2>2
<1>9. Linked'
  <2>1. /\ pc'[r] \in {"block", "held"} => counter[obj'[r]] \in Block /\ target[counter[obj'[r]]] = obj'[r]
        /\ pc'[r] \notin {"block", "object", "finalize"}
    BY <1>1 DEF TypeOK
  <2>2. ASSUME NEW s \in Strong, s # r
        PROVE  /\ pc'[s] = pc[s] /\ obj'[s] = obj[s]
               /\ pc[s] = "block" => \A t \in Ref : blk'[t] # counter[obj[s]]
    BY <1>1, <2>2 DEF Linked, TypeOK, Ref
  <2>3. QED
    BY <1>1, <2>1, <2>2 DEF Linked
<1>10. BlocksApart'
  <2>1. \A s \in Ref : s # r => blk'[s] = blk[s] /\ pc'[s] = pc[s]
    BY <1>1 DEF TypeOK
  <2>2. blk'[r] \in {None, b} /\ pc'[r] \notin {"finalize", "recycle"}
    BY <1>1 DEF TypeOK
  <2>3. \A x \in stack : x \in Block /\ x # None /\ x # b
    BY DEF TypeOK
  <2>4. ASSUME NEW x \in stack, NEW s \in Ref PROVE blk'[s] # x
    BY <1>1, <2>1, <2>2, <2>3 DEF BlocksApart
  <2>5. ASSUME NEW s \in Ref, pc'[s] \in {"finalize", "recycle"}, blk'[s] # None
        PROVE  target[blk'[s]] = None /\ \A t \in Ref \ {s} : blk'[t] # blk'[s]
    <3>1. s # r /\ blk'[s] = blk[s] /\ pc[s] \in {"finalize", "recycle"}
      BY <2>1, <2>2, <2>5
    <3>2. target[blk[s]] = None /\ \A t \in Ref \ {s} : blk[t] # blk[s]
      BY <2>5, <3>1 DEF BlocksApart
    <3>3. blk[s] # b
      BY <3>1
    <3>4. QED
      BY <2>1, <2>2, <2>5, <3>1, <3>2, <3>3
  <2>6. QED
    BY <1>1, <2>4, <2>5 DEF BlocksApart
<1>11. Reachable'
  <2>1. \A s \in Strong : obj[s] \in Object => obj'[s] = obj[s]
    BY <1>1, <1>2 DEF TypeOK, Ref
  <2>2. \A s \in Ref : blk[s] \in Block => blk'[s] = blk[s]
    BY <1>1, <1>2 DEF TypeOK
  <2>3. QED
    BY <1>1, <2>1, <2>2 DEF Reachable
<1>12. QED
  BY <1>3, <1>5, <1>6, <1>7, <1>8, <1>9, <1>10, <1>11

LEMMA FirstReferencePreserves ==
  ASSUME IInv, NEW r \in Strong, FirstReference(r) PROVE IInv'
<1> USE RefAssumption
<1> DEFINE b == counter[obj[r]]
<1>1. pc[r] = "block" /\ obj[r] \in Object /\ r \in Ref
  BY DEF FirstReference, IInv, Shape, StrongShape, Ref
<1>2. /\ b \in Block /\ target[b] = obj[r]
      /\ \A s \in Ref : blk[s] # b
  BY <1>1 DEF IInv, Linked
<1>3. b \notin stack
  BY <1>1, <1>2 DEF IInv, TargetAlive
<1>4. /\ IncrementStrong(b) /\ Becomes(r, "held", obj[r], None)
      /\ UNCHANGED <<pool, stack, counter, target>>
  BY <1>1 DEF FirstReference, BlockOf
<1>5. \A s \in Strong : pc[s] \in {"object", "block", "finalize"} /\ s # r =>
        obj[r] # obj[s] /\ (pc[s] = "block" => None # counter[obj[s]])
  BY DEF IInv, SoleOwner, Linked
<1>6. ~Uses(r, b)
  BY <1>1 DEF Uses
<1> HIDE DEF b
<1>7. QED
  BY <1>1, <1>2, <1>3, <1>4, <1>5, <1>6, CountingPreserves DEF b

LEMMA CopyPreserves ==
  ASSUME IInv, NEW r \in Strong, NEW s \in Strong, Copy(r, s) PROVE IInv'
<1> USE RefAssumption
<1> DEFINE b == BlockOf(s)
<1>1. /\ pc[r] = "null" /\ pc[s] = "held" /\ obj[s] \in Object
      /\ IncrementStrong(b) /\ Becomes(r, "held", obj[s], None)
      /\ UNCHANGED <<pool, stack, counter, target>>
  BY DEF Copy, IInv, Shape, StrongShape
<1>2. b \in Block \ stack /\ counter[obj[s]] = b /\ target[b] = obj[s]
  BY <1>1, StrongInUse
<1>3. \A t \in Strong : pc[t] \in {"object", "block", "finalize"} /\ t # r =>
        obj[s] # obj[t] /\ (pc[t] = "block" => None # counter[obj[t]])
  BY <1>1 DEF IInv, SoleOwner, Linked
<1>4. \A t \in Ref : pc[t] \in {"finalize", "recycle"} => blk[t] # b
  BY <1>1, <1>2 DEF IInv, BlocksApart
<1>5. ~Uses(r, b)
  BY <1>1 DEF Uses
<1> HIDE DEF b
<1>6. QED
  BY <1>1, <1>2, <1>3, <1>4, <1>5, CountingPreserves

LEMMA UpgradePreserves ==
  ASSUME IInv, NEW r \in Strong, NEW w \in Weak, Upgrade(r, w) PROVE IInv'
<1> USE RefAssumption
<1> DEFINE b == blk[w]
<1>1. /\ pc[r] = "null" /\ pc[w] = "held" /\ w \in Ref
      /\ IncrementStrong(b) /\ Becomes(r, "upgrade", None, b)
      /\ UNCHANGED <<pool, stack, counter, target>>
  BY DEF Upgrade, Ref
<1>2. b \in Block \ stack
  BY <1>1, WeakInUse
<1>3. \A t \in Strong : pc[t] \in {"object", "block", "finalize"} /\ t # r =>
        None # obj[t] /\ (pc[t] = "block" => b # counter[obj[t]])
  BY <1>1 DEF IInv, Shape, StrongShape, Linked
<1>4. \A t \in Ref : pc[t] \in {"finalize", "recycle"} => blk[t] # b
  <2> SUFFICES ASSUME NEW t \in Ref, pc[t] \in {"finalize", "recycle"}, blk[t] = b
               PROVE  FALSE
    OBVIOUS
  <2>1. blk[t] # None /\ t # w
    BY <1>1, <1>2
  <2>2. QED
    BY <1>1, <2>1 DEF IInv, BlocksApart
<1>5. ~Uses(r, b)
  BY <1>1 DEF Uses
<1> HIDE DEF b
<1>6. QED
  BY <1>1, <1>2, <1>3, <1>4, <1>5, CountingPreserves

LEMMA WeakenPreserves ==
  ASSUME IInv, NEW w \in Weak, NEW s \in Ref, Weaken(w, s) PROVE IInv'
<1> USE RefAssumption
<1> DEFINE b == BlockOf(s)
<1>1. /\ pc' = [pc EXCEPT ![w] = "held"] /\ obj' = [obj EXCEPT ![w] = None]
      /\ blk' = [blk EXCEPT ![w] = b] /\ count' = [count EXCEPT ![b] = @ + 1]
      /\ UNCHANGED <<pool, stack, counter, target, strongCount>>
      /\ pc[w] = "null" /\ pc[s] = "held" /\ w \in Ref /\ w \notin Strong
  BY DEF Weaken, Becomes, Ref
<1>2. obj[w] = None /\ blk[w] = None
  BY <1>1 DEF IInv, Shape, WeakShape
<1>3. b \in Block \ stack
  BY <1>1, StrongInUse, WeakInUse DEF Ref
<1>4. \A t \in Strong : pc[t] = "block" => counter[obj[t]] # b
  <2> SUFFICES ASSUME NEW t \in Strong, pc[t] = "block", counter[obj[t]] = b PROVE FALSE
    OBVIOUS
  <2>1. CASE s \in Strong
    BY <1>1, <2>1, StrongInUse DEF IInv, Linked, SoleOwner
  <2>2. CASE s \in Weak
    BY <1>1, <2>2, WeakInUse DEF IInv, Linked
  <2>3. QED
    BY <2>1, <2>2 DEF Ref
<1>5. \A t \in Ref : pc[t] \in {"finalize", "recycle"} => blk[t] # b
  <2> SUFFICES ASSUME NEW t \in Ref, pc[t] \in {"finalize", "recycle"}, blk[t] = b
               PROVE  FALSE
    OBVIOUS
  <2>1. blk[t] # None /\ t # s
    BY <1>1, <1>3
  <2>2. target[b] = None /\ blk[s] # b
    BY <2>1 DEF IInv, BlocksApart
  <2>3. CASE s \in Strong
    <3>1. target[b] = obj[s] /\ obj[s] \in Object
      BY <1>1, <2>3, StrongInUse DEF IInv, Shape, StrongShape
    <3>2. QED
      BY <2>2, <3>1
  <2>4. CASE s \in Weak
    BY <1>1, <2>2, <2>4, WeakInUse
  <2>5. QED
    BY <2>3, <2>4 DEF Ref
<1> HIDE DEF b
<1> USE DEF IInv
<1>6. obj' = obj
  BY <1>1, <1>2 DEF TypeOK
<1>7. Shape'
  <2>1. ASSUME NEW t \in Strong PROVE StrongShape(t)'
    BY <1>1, <1>6 DEF Shape, StrongShape, TypeOK, Ref
  <2>2. ASSUME NEW t \in Weak PROVE WeakShape(t)'
    BY <1>1, <1>3, <1>6 DEF Shape, WeakShape, TypeOK, Ref
  <2>3. QED
    BY <2>1, <2>2 DEF Shape
<1>8. /\ \A x \in Block : StrongOn(x)' = StrongOn(x)
      /\ \A x \in Block : WeakOn(x)' = IF x = b THEN WeakOn(x) \cup {w} ELSE WeakOn(x)
      /\ w \notin WeakOn(b)
  <2>1. \A x \in Block, t \in Strong : Uses(t, x)' <=> Uses(t, x)
    BY <1>1, <1>6 DEF Uses, TypeOK, Ref
  <2>2. \A x \in Block : StrongOn(x)' = StrongOn(x)
    BY <1>7, <2>1, StrongUsers, StrongUsersNext
  <2>3. \A x \in Block : WeakOn(x)' = IF x = b THEN WeakOn(x) \cup {w} ELSE WeakOn(x)
    BY <1>1 DEF WeakOn, TypeOK, Ref
  <2>4. QED
    BY <1>1, <2>2, <2>3 DEF WeakOn
<1>9. CountsMatch' /\ count' \in [Block -> Nat]
  BY <1>1, <1>3, <1>8, WeakAdded
<1>10. TypeOK'
  BY <1>1, <1>3, <1>6, <1>9 DEF TypeOK, PC
<1>11. \A t \in Ref : t # w => pc'[t] = pc[t] /\ blk'[t] = blk[t]
  BY <1>1 DEF TypeOK
<1>12. SoleOwner' /\ TargetAlive'
  BY <1>1, <1>6, <1>8, <1>11 DEF SoleOwner, TargetAlive, Ref
<1>13. Linked'
  <2>1. pc'[w] = "held" /\ blk'[w] = b
    BY <1>1 DEF TypeOK
  <2>2. \A t \in Strong : t # w /\ t \in Ref
    BY <1>1 DEF Ref
  <2>3. QED
    BY <1>1, <1>4, <1>6, <1>11, <2>1, <2>2 DEF Linked
<1>14. BlocksApart'
  <2>1. pc'[w] = "held" /\ blk'[w] = b
    BY <1>1 DEF TypeOK
  <2>2. QED
    BY <1>1, <1>3, <1>5, <1>11, <2>1 DEF BlocksApart
<1>15. Reachable'
  BY <1>1, <1>2, <1>6, <1>11 DEF Reachable, TypeOK
<1>16. QED
  BY <1>7, <1>9, <1>10, <1>12, <1>13, <1>14, <1>15

(* An upgrade ends: what the block leads to is still alive, or gone. *)
LEMMA GetTargetPreserves == ASSUME IInv, NEW r \in Strong, GetTarget(r) PROVE IInv'
<1> USE RefAssumption DEF IInv
<1> DEFINE b == blk[r]
           o == target[b]
<1>1. /\ pc[r] = "upgrade" /\ r \in Ref /\ obj[r] = None /\ b \in Block
      /\ UNCHANGED <<pool, stack, counter, target, strongCount, count>>
  BY DEF GetTarget, Ref, Shape, StrongShape
<1>2. CASE Becomes(r, "drop", None, b)
  <2>1. obj' = obj /\ blk' = blk /\ pc' = [pc EXCEPT ![r] = "drop"]
    BY <1>1, <1>2 DEF Becomes, TypeOK
  <2>2. \A s \in Ref : s # r => pc'[s] = pc[s]
    BY <2>1 DEF TypeOK
  <2>3. pc'[r] = "drop"
    BY <1>1, <2>1 DEF TypeOK
  <2>4. TypeOK'
    BY <1>1, <2>1 DEF TypeOK, PC
  <2>5. Shape'
    <3>1. ASSUME NEW s \in Strong PROVE StrongShape(s)'
      BY <1>1, <2>1, <2>2, <2>3 DEF Shape, StrongShape, Ref
    <3>2. ASSUME NEW w \in Weak PROVE WeakShape(w)'
      BY <2>1, <2>2 DEF Shape, WeakShape, Ref
    <3>3. QED
      BY <3>1, <3>2 DEF Shape
  <2>6. /\ \A x \in Block : StrongOn(x)' = StrongOn(x)
        /\ \A x \in Block : WeakOn(x)' = WeakOn(x)
    <3>1. \A x \in Block, s \in Strong : Uses(s, x)' <=> Uses(s, x)
      BY <1>1, <2>1, <2>2, <2>3 DEF Uses, Ref
    <3>2. \A x \in Block : StrongOn(x)' = StrongOn(x)
      BY <2>5, <3>1, StrongUsers, StrongUsersNext
    <3>3. QED
      BY <2>1, <2>2, <3>2 DEF WeakOn, Ref
  <2>7. SoleOwner' /\ TargetAlive' /\ Linked'
    BY <1>1, <2>1, <2>2, <2>3, <2>6 DEF SoleOwner, TargetAlive, Linked, Ref
  <2>8. BlocksApart' /\ Reachable' /\ CountsMatch'
    BY <1>1, <2>1, <2>2, <2>3, <2>6 DEF BlocksApart, Reachable, CountsMatch
  <2>9. QED
    BY <2>4, <2>5, <2>7, <2>8
<1>3. CASE o # None /\ Becomes(r, "held", o, None)
  <2>1. /\ pc' = [pc EXCEPT ![r] = "held"] /\ obj' = [obj EXCEPT ![r] = o]
        /\ blk' = [blk EXCEPT ![r] = None]
    BY <1>3 DEF Becomes
  <2>2. o \in Object /\ counter[o] = b /\ o \notin pool /\ b \notin stack /\ o # None
    BY <1>1, <1>3 DEF TypeOK, TargetAlive
  <2> HIDE DEF o
  <2>3. \A s \in Ref : s # r => pc'[s] = pc[s] /\ obj'[s] = obj[s] /\ blk'[s] = blk[s]
    BY <2>1 DEF TypeOK
  <2>4. pc'[r] = "held" /\ obj'[r] = o /\ blk'[r] = None
    BY <1>1, <2>1 DEF TypeOK
  <2>5. TypeOK'
    BY <1>1, <2>1, <2>2 DEF TypeOK, PC
  <2>6. Shape'
    <3>1. ASSUME NEW s \in Strong PROVE StrongShape(s)'
      BY <2>2, <2>3, <2>4 DEF Shape, StrongShape, Ref
    <3>2. ASSUME NEW w \in Weak PROVE WeakShape(w)'
      BY <2>3 DEF Shape, WeakShape, Ref
    <3>3. QED
      BY <3>1, <3>2 DEF Shape
  <2>7. /\ \A x \in Block : StrongOn(x)' = StrongOn(x)
        /\ \A x \in Block : WeakOn(x)' = WeakOn(x)
    <3>1. \A x \in Block, s \in Strong : Uses(s, x)' <=> Uses(s, x)
      BY <1>1, <2>2, <2>3, <2>4 DEF Uses, Ref
    <3>2. \A x \in Block : StrongOn(x)' = StrongOn(x)
      BY <2>6, <3>1, StrongUsers, StrongUsersNext
    <3>3. QED
      BY <2>3, <3>2 DEF WeakOn, Ref
  <2>8. \A s \in Strong : pc[s] \in {"object", "block", "finalize"} => obj[s] # o
    BY <1>1, <2>2 DEF Linked, o
  <2>9. SoleOwner'
    BY <1>1, <2>3, <2>4, <2>8 DEF SoleOwner, Ref
  <2>10. TargetAlive'
    BY <1>1, <2>3, <2>4, <2>7 DEF TargetAlive, Ref
  <2>11. Linked'
    <3> SUFFICES ASSUME NEW s \in Strong
                 PROVE  /\ pc'[s] \in {"block", "held"} =>
                             counter[obj'[s]] \in Block /\ target[counter[obj'[s]]] = obj'[s]
                        /\ pc'[s] = "block" => \A t \in Ref : blk'[t] # counter[obj'[s]]
                        /\ pc'[s] \in {"object", "finalize"} =>
                             \A x \in Block : target[x] # obj'[s]
      BY <1>1 DEF Linked
    <3>1. CASE s = r
      BY <1>1, <2>2, <2>4, <3>1 DEF o
    <3>2. CASE s # r
      BY <1>1, <2>3, <2>4, <3>2 DEF Linked, Ref
    <3>3. QED
      BY <3>1, <3>2
  <2>12. BlocksApart'
    <3>1. None \notin stack
      BY DEF TypeOK
    <3>2. QED
      BY <1>1, <2>3, <2>4, <3>1 DEF BlocksApart
  <2>13. Reachable'
    <3>1. \A x \in Block \ stack : (\E s \in Ref : blk'[s] = x) \/ target[x] # None
      BY <1>1, <1>3, <2>3 DEF Reachable, o
    <3>2. \A x \in Object \ pool :
            (\E s \in Strong : obj'[s] = x) \/ (\E y \in Block : target[y] = x)
      BY <1>1, <2>3 DEF Reachable, Ref
    <3>3. QED
      BY <1>1, <3>1, <3>2 DEF Reachable
  <2>14. CountsMatch'
    BY <1>1, <2>7 DEF CountsMatch
  <2>15. QED
    BY <2>5, <2>6, <2>9, <2>10, <2>11, <2>12, <2>13, <2>14
<1>4. QED
  BY <1>2, <1>3 DEF GetTarget

LEMMA FinalizePreserves == ASSUME IInv, NEW r \in Strong, Finalize(r) PROVE IInv'
<1> USE RefAssumption DEF IInv
<1> DEFINE o == obj[r]
           p == IF blk[r] # None THEN "recycle" ELSE "null"
<1>1. /\ pc[r] = "finalize" /\ r \in Ref /\ o \in Object /\ o # None
      /\ pc' = [pc EXCEPT ![r] = p] /\ obj' = [obj EXCEPT ![r] = None] /\ blk' = blk
      /\ counter' = [counter EXCEPT ![o] = None] /\ pool' = pool \cup {o}
      /\ UNCHANGED <<stack, target, strongCount, count>>
  BY DEF Finalize, Becomes, Ref, Shape, StrongShape, TypeOK
<1>2. /\ \A s \in Strong \ {r} : obj[s] # o
      /\ \A x \in Block : target[x] # o
  BY <1>1 DEF SoleOwner, Linked
<1>3. /\ \A s \in Ref : s # r => pc'[s] = pc[s] /\ obj'[s] = obj[s]
      /\ pc'[r] = p /\ obj'[r] = None
      /\ \A x \in Object : x # o => counter'[x] = counter[x]
      /\ blk[r] \in Block \cup {None}
  BY <1>1 DEF TypeOK
<1> HIDE DEF o
<1>4. TypeOK'
  BY <1>1 DEF TypeOK, PC
<1>5. Shape'
  <2>1. ASSUME NEW s \in Strong PROVE StrongShape(s)'
    BY <1>1, <1>3 DEF Shape, StrongShape, Ref
  <2>2. ASSUME NEW w \in Weak PROVE WeakShape(w)'
    BY <1>1, <1>3 DEF Shape, WeakShape, Ref
  <2>3. QED
    BY <2>1, <2>2 DEF Shape
<1>6. /\ \A x \in Block : StrongOn(x)' = StrongOn(x)
      /\ \A x \in Block : WeakOn(x)' = WeakOn(x)
  <2>1. ASSUME NEW x \in Block, NEW s \in Strong PROVE Uses(s, x)' <=> Uses(s, x)
    <3>1. CASE s = r
      BY <1>1, <1>3, <3>1 DEF Uses
    <3>2. CASE s # r
      <4>1. pc[s] = "held" => obj[s] \in Object /\ obj[s] # o
        BY <1>2, <3>2 DEF Shape, StrongShape
      <4>2. QED
        BY <1>1, <1>3, <3>2, <4>1 DEF Uses, Ref
    <3>3. QED
      BY <3>1, <3>2
  <2>2. \A x \in Block : StrongOn(x)' = StrongOn(x)
    BY <1>5, <2>1, StrongUsers, StrongUsersNext
  <2>3. QED
    BY <1>1, <1>3, <2>2 DEF WeakOn, Ref
<1>7. SoleOwner'
  BY <1>1, <1>2, <1>3 DEF SoleOwner, Ref, Shape, StrongShape
<1>8. TargetAlive'
  <2> SUFFICES ASSUME NEW x \in Block, target[x] # None
               PROVE  /\ x \notin stack /\ target[x] \notin pool' /\ counter'[target[x]] = x
                      /\ \/ StrongOn(x)' # {}
                         \/ \E s \in Strong : pc'[s] = "block" /\ obj'[s] = target[x]
    BY <1>1 DEF TargetAlive
  <2>1. target[x] \in Object /\ target[x] # o
    BY <1>2 DEF TypeOK
  <2>2. \A s \in Strong : pc[s] = "block" => pc'[s] = "block" /\ obj'[s] = obj[s]
    BY <1>1, <1>3 DEF Ref
  <2>3. QED
    BY <1>1, <1>3, <1>6, <2>1, <2>2 DEF TargetAlive
<1>9. Linked'
  <2> SUFFICES ASSUME NEW s \in Strong
               PROVE  /\ pc'[s] \in {"block", "held"} =>
                           counter'[obj'[s]] \in Block /\ target[counter'[obj'[s]]] = obj'[s]
                      /\ pc'[s] = "block" => \A t \in Ref : blk[t] # counter'[obj'[s]]
                      /\ pc'[s] \in {"object", "finalize"} =>
                           \A x \in Block : target[x] # obj'[s]
    BY <1>1 DEF Linked
  <2>1. CASE s = r
    BY <1>3, <2>1
  <2>2. CASE s # r
    <3>1. pc'[s] = pc[s] /\ obj'[s] = obj[s] /\ obj[s] # o
      BY <1>2, <1>3, <2>2 DEF Ref
    <3>2. pc[s] \in {"block", "held"} => counter'[obj[s]] = counter[obj[s]]
      BY <1>3, <3>1 DEF Shape, StrongShape
    <3>3. QED
      BY <3>1, <3>2 DEF Linked
  <2>3. QED
    BY <2>1, <2>2
<1>10. BlocksApart'
  <2>1. \A s \in Ref : pc'[s] \in {"finalize", "recycle"} => pc[s] \in {"finalize", "recycle"}
    BY <1>1, <1>3
  <2>2. QED
    BY <1>1, <2>1 DEF BlocksApart
<1>11. Reachable'
  <2>1. \A x \in Object \ pool' :
          (\E s \in Strong : obj'[s] = x) \/ (\E y \in Block : target[y] = x)
    BY <1>1, <1>3 DEF Reachable, Ref, o
  <2>2. QED
    BY <1>1, <2>1 DEF Reachable
<1>12. CountsMatch'
  BY <1>1, <1>6 DEF CountsMatch
<1>13. QED
  BY <1>4, <1>5, <1>7, <1>8, <1>9, <1>10, <1>11, <1>12

LEMMA RecyclePreserves == ASSUME IInv, NEW r \in Ref, Recycle(r) PROVE IInv'
<1> USE RefAssumption DEF IInv
<1> DEFINE b == blk[r]
<1>1. /\ pc[r] = "recycle" /\ b \in Block /\ obj[r] = None
      /\ pc' = [pc EXCEPT ![r] = "null"] /\ obj' = [obj EXCEPT ![r] = None]
      /\ blk' = [blk EXCEPT ![r] = None] /\ stack' = stack \cup {b}
      /\ UNCHANGED <<pool, counter, target, strongCount, count>>
  BY DEF Recycle, Becomes, Ref, Shape, StrongShape, WeakShape
<1>2. /\ target[b] = None
      /\ \A s \in Ref \ {r} : blk[s] # b
  BY <1>1 DEF BlocksApart
<1>3. /\ \A s \in Ref : s # r => pc'[s] = pc[s] /\ blk'[s] = blk[s]
      /\ obj' = obj /\ pc'[r] = "null" /\ blk'[r] = None
  BY <1>1 DEF TypeOK
<1> HIDE DEF b
<1>4. TypeOK'
  BY <1>1, <1>3 DEF TypeOK, PC
<1>5. Shape'
  <2>1. ASSUME NEW s \in Strong PROVE StrongShape(s)'
    BY <1>1, <1>3 DEF Shape, StrongShape, Ref
  <2>2. ASSUME NEW w \in Weak PROVE WeakShape(w)'
    BY <1>1, <1>3 DEF Shape, WeakShape, Ref
  <2>3. QED
    BY <2>1, <2>2 DEF Shape
<1>6. /\ \A x \in Block : StrongOn(x)' = StrongOn(x)
      /\ \A x \in Block : WeakOn(x)' = WeakOn(x)
  <2>1. \A x \in Block, s \in Strong : Uses(s, x)' <=> Uses(s, x)
    BY <1>1, <1>3 DEF Uses, Ref
  <2>2. \A x \in Block : StrongOn(x)' = StrongOn(x)
    BY <1>5, <2>1, StrongUsers, StrongUsersNext
  <2>3. QED
    BY <1>1, <1>3, <2>2 DEF WeakOn, Ref
<1>7. SoleOwner'
  BY <1>1, <1>3 DEF SoleOwner, Ref
<1>8. TargetAlive'
  BY <1>1, <1>2, <1>3, <1>6 DEF TargetAlive, Ref
<1>9. Linked'
  <2>1. \A s \in Ref : blk'[s] = blk[s] \/ blk'[s] = None
    BY <1>3
  <2>2. \A s \in Strong : pc'[s] \in {"block", "held", "object", "finalize"} => pc'[s] = pc[s]
    BY <1>3 DEF Ref
  <2>3. QED
    BY <1>1, <1>3, <2>1, <2>2 DEF Linked
<1>10. BlocksApart'
  <2>1. \A x \in stack : x \in Block
    BY DEF TypeOK
  <2>2. \A x \in stack' : \A s \in Ref : blk'[s] # x
    BY <1>1, <1>2, <1>3, <2>1 DEF BlocksApart
  <2>3. QED
    BY <1>1, <1>3, <2>2 DEF BlocksApart
<1>11. Reachable'
  <2>1. \A x \in Block \ stack' : (\E s \in Ref : blk'[s] = x) \/ target[x] # None
    BY <1>1, <1>3 DEF Reachable, b
  <2>2. QED
    BY <1>1, <1>3, <2>1 DEF Reachable
<1>12. CountsMatch'
  BY <1>1, <1>6 DEF CountsMatch
<1>13. QED
  BY <1>4, <1>5, <1>7, <1>8, <1>9, <1>10, <1>11, <1>12

(* A strong reference lets go; the last one severs the block from its      *)
(* object, and the last reference of all takes the block away.             *)
LEMMA DecrementStrongPreserves ==
  ASSUME IInv, NEW r \in Strong, DecrementStrong(r) PROVE IInv'
<1> USE RefAssumption DEF IInv
<1> DEFINE b == BlockOf(r)
           ends == strongCount[b] = 1
           o == IF ends THEN target[b] ELSE None
           k == IF count[b] = 1 THEN b ELSE None
           p == IF o # None THEN "finalize" ELSE IF k # None THEN "recycle" ELSE "null"
<1>1. /\ pc[r] \in {"held", "upgrade", "drop"} /\ r \in Ref
      /\ pc' = [pc EXCEPT ![r] = p] /\ obj' = [obj EXCEPT ![r] = o]
      /\ blk' = [blk EXCEPT ![r] = k]
      /\ strongCount' = [strongCount EXCEPT ![b] = @ - 1]
      /\ count' = [count EXCEPT ![b] = @ - 1]
      /\ target' = IF ends THEN [target EXCEPT ![b] = None] ELSE target
      /\ UNCHANGED <<pool, stack, counter>>
  BY DEF DecrementStrong, Duty, IsLast, Sever, Becomes, Ref
<1>2. /\ b \in Block \ stack /\ b # None /\ r \in StrongOn(b)
      /\ pc[r] = "held" => counter[obj[r]] = b /\ target[b] = obj[r] /\ obj[r] \in Object
      /\ pc[r] # "held" => blk[r] = b
  BY <1>1, StrongInUse DEF Shape, StrongShape
<1> HIDE DEF b
<1>3. /\ ends => StrongOn(b) = {r}
      /\ ~ends => StrongOn(b) \ {r} # {}
      /\ count[b] = 1 => ends /\ WeakOn(b) = {}
      /\ ends /\ count[b] # 1 => \E w \in Weak : pc[w] = "held" /\ blk[w] = b
  <2>1. StrongOn(b) # {r} => StrongOn(b) \ {r} # {}
    BY <1>2
  <2>2. WeakOn(b) # {} => \E w \in Weak : pc[w] = "held" /\ blk[w] = b
    BY DEF WeakOn
  <2>3. QED
    BY <1>2, <2>1, <2>2, OnlyStrong
<1>4. StrongOn(b) = {s \in Strong : Uses(s, b)}
  BY StrongUsers
<1>5. /\ target' \in [Block -> Object \cup {None}]
      /\ \A x \in Block : x # b => target'[x] = target[x]
      /\ target'[b] = IF ends THEN None ELSE target[b]
      /\ o \in Object \cup {None} /\ k \in {None, b}
      /\ p \in {"finalize", "recycle", "null"}
  BY <1>1, <1>2 DEF TypeOK
<1>6. /\ \A s \in Ref : s # r => pc'[s] = pc[s] /\ obj'[s] = obj[s] /\ blk'[s] = blk[s]
      /\ pc'[r] = p /\ obj'[r] = o /\ blk'[r] = k
  BY <1>1 DEF TypeOK
(* Nobody else is before the first reference or after the last one.        *)
<1>7. \A s \in Strong : pc[s] = "block" => counter[obj[s]] # b
  <2> SUFFICES ASSUME NEW s \in Strong, pc[s] = "block", counter[obj[s]] = b PROVE FALSE
    OBVIOUS
  <2>1. target[b] = obj[s] /\ blk[r] # b
    BY <1>1 DEF Linked
  <2>2. pc[r] = "held" /\ obj[r] = obj[s] /\ s # r
    BY <1>2, <2>1
  <2>3. QED
    BY <2>2 DEF SoleOwner
<1>8. \A s \in Ref : pc[s] \in {"finalize", "recycle"} => blk[s] # b
  <2> SUFFICES ASSUME NEW s \in Ref, pc[s] \in {"finalize", "recycle"}, blk[s] = b
               PROVE  FALSE
    OBVIOUS
  <2>1. target[b] = None /\ blk[r] # b
    BY <1>1, <1>2 DEF BlocksApart
  <2>2. QED
    BY <1>2, <2>1
<1>9. ends => \A s \in Strong : s # r /\ pc[s] = "held" => counter[obj[s]] # b
  BY <1>3, <1>4 DEF Uses
<1>10. o # None => /\ ends /\ target[b] = o /\ o \notin pool /\ counter[o] = b
                   /\ \A s \in Strong \ {r} : obj[s] # o
  <2> SUFFICES ASSUME o # None
               PROVE  /\ ends /\ target[b] = o /\ o \notin pool /\ counter[o] = b
                      /\ \A s \in Strong \ {r} : obj[s] # o
    OBVIOUS
  <2>1. ends /\ target[b] = o
    OBVIOUS
  <2>2. o \notin pool /\ counter[o] = b
    BY <1>2, <2>1 DEF TargetAlive
  <2>3. ASSUME NEW s \in Strong \ {r}, obj[s] = o PROVE FALSE
    <3>1. pc[s] \in {"object", "block", "held", "finalize"}
      BY <2>3 DEF Shape, StrongShape, TypeOK, PC, Ref
    <3>2. pc[s] \notin {"object", "finalize"}
      BY <1>2, <2>1, <2>3 DEF Linked
    <3>3. QED
      BY <1>7, <1>9, <2>1, <2>2, <2>3, <3>1, <3>2
  <2>4. QED
    BY <2>1, <2>2, <2>3
<1>11. Shape'
  <2>1. StrongShape(r)'
    BY <1>2, <1>5, <1>6 DEF StrongShape
  <2>2. ASSUME NEW s \in Strong, s # r PROVE StrongShape(s)'
    BY <1>6, <2>2 DEF Shape, StrongShape, Ref
  <2>3. ASSUME NEW w \in Weak PROVE WeakShape(w)'
    BY <1>6 DEF Shape, WeakShape, Ref
  <2>4. QED
    BY <2>1, <2>2, <2>3 DEF Shape
<1>12. /\ \A x \in Block : StrongOn(x)' = IF x = b THEN StrongOn(x) \ {r} ELSE StrongOn(x)
       /\ \A x \in Block : WeakOn(x)' = WeakOn(x)
  <2>1. \A x \in Block, s \in Strong : s # r => (Uses(s, x)' <=> Uses(s, x))
    BY <1>1, <1>6 DEF Uses, Ref
  <2>2. \A x \in Block : ~Uses(r, x)' /\ (Uses(r, x) <=> x = b)
    BY <1>1, <1>2, <1>5, <1>6 DEF Uses
  <2>3. ASSUME NEW x \in Block
        PROVE  StrongOn(x)' = IF x = b THEN StrongOn(x) \ {r} ELSE StrongOn(x)
    <3>1. StrongOn(x) = {s \in Strong : Uses(s, x)}
      BY StrongUsers
    <3>2. StrongOn(x)' = {s \in Strong : Uses(s, x)'}
      BY <1>11, StrongUsersNext
    <3>3. QED
      BY <2>1, <2>2, <3>1, <3>2
  <2>4. \A w \in Weak : w # r /\ w \in Ref
    BY DEF Ref
  <2>5. \A x \in Block : WeakOn(x)' = WeakOn(x)
    BY <1>6, <2>4 DEF WeakOn
  <2>6. QED
    BY <2>3, <2>5
<1> HIDE DEF ends, o, k, p
<1>13. CountsMatch' /\ strongCount' \in [Block -> Nat] /\ count' \in [Block -> Nat]
  BY <1>1, <1>2, <1>12, StrongRemoved
<1>14. TypeOK'
  BY <1>1, <1>2, <1>5, <1>13 DEF TypeOK, PC
<1>15. SoleOwner'
  <2> SUFFICES ASSUME NEW s \in Strong, pc'[s] \in {"object", "block", "finalize"}
               PROVE  obj'[s] \notin pool /\ \A u \in Strong \ {s} : obj'[u] # obj'[s]
    BY <1>1 DEF SoleOwner
  <2>1. CASE s = r
    <3>1. o # None
      BY <1>6, <2>1 DEF p
    <3>2. QED
      BY <1>6, <1>10, <2>1, <3>1 DEF Ref
  <2>2. CASE s # r
    <3>1. obj[s] \in Object /\ pc'[s] = pc[s] /\ obj'[s] = obj[s]
      BY <1>6, <2>2 DEF Shape, StrongShape, Ref
    <3>2. obj'[r] # obj[s]
      BY <1>6, <1>10, <2>2, <3>1
    <3>3. QED
      BY <1>6, <3>1, <3>2 DEF SoleOwner, Ref
  <2>3. QED
    BY <2>1, <2>2
<1>16. TargetAlive'
  <2> SUFFICES ASSUME NEW x \in Block, target'[x] # None
               PROVE  /\ x \notin stack /\ target'[x] \notin pool /\ counter[target'[x]] = x
                      /\ \/ StrongOn(x)' # {}
                         \/ \E s \in Strong : pc'[s] = "block" /\ obj'[s] = target'[x]
    BY <1>1 DEF TargetAlive
  <2>1. target'[x] = target[x] /\ (x = b => ~ends)
    BY <1>5
  <2>2. \A s \in Strong : pc[s] = "block" => pc'[s] = "block" /\ obj'[s] = obj[s]
    BY <1>1, <1>6 DEF Ref
  <2>3. CASE x = b
    BY <1>3, <1>12, <2>1, <2>3 DEF TargetAlive
  <2>4. CASE x # b
    BY <1>12, <2>1, <2>2, <2>4 DEF TargetAlive
  <2>5. QED
    BY <2>3, <2>4
<1>17. Linked'
  <2> SUFFICES ASSUME NEW s \in Strong
               PROVE  /\ pc'[s] \in {"block", "held"} =>
                           counter[obj'[s]] \in Block /\ target'[counter[obj'[s]]] = obj'[s]
                      /\ pc'[s] = "block" => \A u \in Ref : blk'[u] # counter[obj'[s]]
                      /\ pc'[s] \in {"object", "finalize"} =>
                           \A x \in Block : target'[x] # obj'[s]
    BY <1>1 DEF Linked
  <2>1. CASE s = r
    <3>1. pc'[s] \notin {"block", "held", "object"} /\ obj'[s] = o
      BY <1>5, <1>6, <2>1
    <3>2. ASSUME pc'[s] = "finalize", NEW x \in Block, target'[x] = o PROVE FALSE
      <4>1. o # None
        BY <1>6, <2>1, <3>2 DEF p
      <4>2. x # b /\ target[x] = o
        BY <1>5, <1>10, <3>2, <4>1
      <4>3. counter[o] = x
        BY <4>1, <4>2 DEF TargetAlive
      <4>4. QED
        BY <1>10, <4>1, <4>2, <4>3
    <3>3. QED
      BY <3>1, <3>2
  <2>2. CASE s # r
    <3>1. pc'[s] = pc[s] /\ obj'[s] = obj[s]
      BY <1>6, <2>2 DEF Ref
    <3>2. pc[s] \in {"block", "held"} =>
            /\ counter[obj[s]] \in Block /\ target[counter[obj[s]]] = obj[s]
            /\ target'[counter[obj[s]]] = target[counter[obj[s]]]
      BY <1>5, <1>7, <1>9, <2>2 DEF Linked
    <3>3. pc[s] = "block" => \A u \in Ref : blk'[u] # counter[obj[s]]
      BY <1>5, <1>6, <1>7 DEF Linked
    <3>4. pc[s] \in {"object", "finalize"} => \A x \in Block : target'[x] # obj[s]
      <4>1. \A x \in Block : target'[x] \in {target[x], None}
        BY <1>5
      <4>2. QED
        BY <4>1 DEF Linked, Shape, StrongShape
    <3>5. QED
      BY <3>1, <3>2, <3>3, <3>4
  <2>3. QED
    BY <2>1, <2>2
<1>18. BlocksApart'
  <2>1. ASSUME NEW x \in stack, NEW s \in Ref PROVE blk'[s] # x
    <3>1. x # None /\ x # b
      BY <1>2 DEF TypeOK
    <3>2. QED
      BY <1>5, <1>6, <3>1 DEF BlocksApart
  <2>2. ASSUME NEW s \in Ref, s # r, pc'[s] \in {"finalize", "recycle"}, blk'[s] # None
        PROVE  target'[blk'[s]] = None /\ \A u \in Ref \ {s} : blk'[u] # blk'[s]
    <3>1. /\ pc[s] \in {"finalize", "recycle"} /\ blk'[s] = blk[s] /\ blk[s] \in Block
          /\ blk[s] # b
      BY <1>6, <1>8, <2>2 DEF TypeOK
    <3>2. target[blk[s]] = None /\ \A u \in Ref \ {s} : blk[u] # blk[s]
      BY <2>2, <3>1 DEF BlocksApart
    <3>3. QED
      BY <1>5, <1>6, <2>2, <3>1, <3>2
  <2>3. ASSUME k # None
        PROVE  target'[k] = None /\ \A u \in Ref \ {r} : blk'[u] # k
    <3>1. k = b /\ count[b] = 1
      BY <2>3 DEF k
    <3>2. ends /\ StrongOn(b) = {r} /\ WeakOn(b) = {}
      BY <1>3, <3>1
    <3>3. ASSUME NEW u \in Ref \ {r}, blk[u] = b PROVE FALSE
      <4>1. pc[u] \notin {"finalize", "recycle"}
        BY <1>8, <3>3
      <4>2. CASE u \in Strong
        <5>1. pc[u] \in {"upgrade", "drop"}
          BY <1>2, <3>3, <4>1, <4>2 DEF Shape, StrongShape, TypeOK, PC
        <5>2. u \in StrongOn(b)
          BY <1>4, <3>3, <4>2, <5>1 DEF Uses
        <5>3. QED
          BY <3>2, <3>3, <5>2
      <4>3. CASE u \in Weak
        <5>1. pc[u] = "held"
          BY <1>2, <3>3, <4>1, <4>3 DEF Shape, WeakShape
        <5>2. QED
          BY <3>2, <3>3, <4>3, <5>1 DEF WeakOn
      <4>4. QED
        BY <4>2, <4>3 DEF Ref
    <3>4. QED
      BY <1>5, <1>6, <3>1, <3>2, <3>3
  <2>4. QED
    BY <1>1, <1>6, <2>1, <2>2, <2>3 DEF BlocksApart
<1>19. Reachable'
  <2>1. ASSUME NEW x \in Object \ pool
        PROVE  (\E s \in Strong : obj'[s] = x) \/ (\E y \in Block : target'[y] = x)
    <3>1. CASE \E s \in Strong \ {r} : obj[s] = x
      BY <1>6, <3>1 DEF Ref
    <3>2. CASE \E y \in Block : y # b /\ target[y] = x
      BY <1>5, <3>2
    <3>3. CASE target[b] = x
      BY <1>2, <1>5, <1>6, <3>3 DEF o
    <3>4. obj[r] = x => target[b] = x
      BY <1>1, <1>2 DEF Shape, StrongShape
    <3>5. QED
      BY <3>1, <3>2, <3>3, <3>4 DEF Reachable
  <2>2. ASSUME NEW x \in Block \ stack, x # b
        PROVE  (\E s \in Ref : blk'[s] = x) \/ target'[x] # None
    <3>1. blk[r] # x
      BY <1>1, <1>2, <2>2 DEF Shape, StrongShape
    <3>2. QED
      BY <1>5, <1>6, <2>2, <3>1 DEF Reachable
  <2>3. (\E s \in Ref : blk'[s] = b) \/ target'[b] # None
    <3>1. CASE count[b] = 1
      BY <1>1, <1>6, <3>1 DEF k
    <3>2. CASE ends /\ count[b] # 1
      <4>1. PICK w \in Weak : blk[w] = b
        BY <1>3, <3>2
      <4>2. w \in Ref /\ w # r
        BY DEF Ref
      <4>3. QED
        BY <1>6, <4>1, <4>2
    <3>3. CASE ~ends
      <4>1. PICK s \in Strong : s # r /\ Uses(s, b)
        BY <1>3, <1>4, <3>3
      <4>2. CASE blk[s] = b
        BY <1>6, <4>1, <4>2 DEF Ref
      <4>3. CASE pc[s] = "held" /\ counter[obj[s]] = b
        BY <1>5, <3>3, <4>3 DEF Linked, Shape, StrongShape
      <4>4. QED
        BY <4>1, <4>2, <4>3 DEF Uses
    <3>4. QED
      BY <3>1, <3>2, <3>3
  <2>4. QED
    BY <1>1, <2>1, <2>2, <2>3 DEF Reachable
<1>20. QED
  BY <1>11, <1>13, <1>14, <1>15, <1>16, <1>17, <1>18, <1>19

LEMMA DecrementWeakPreserves ==
  ASSUME IInv, NEW w \in Weak, DecrementWeak(w) PROVE IInv'
<1> USE RefAssumption DEF IInv
<1> DEFINE b == blk[w]
           k == IF count[b] = 1 THEN b ELSE None
           p == IF k # None THEN "recycle" ELSE "null"
<1>1. /\ pc[w] = "held" /\ w \in Ref /\ w \notin Strong /\ obj[w] = None
      /\ pc' = [pc EXCEPT ![w] = p] /\ obj' = [obj EXCEPT ![w] = None]
      /\ blk' = [blk EXCEPT ![w] = k]
      /\ count' = [count EXCEPT ![b] = @ - 1]
      /\ UNCHANGED <<pool, stack, counter, target, strongCount>>
  BY DEF DecrementWeak, Duty, IsLast, Becomes, Ref, Shape, WeakShape
<1>2. b \in Block \ stack /\ b # None /\ w \in WeakOn(b)
  BY <1>1, WeakInUse
<1> HIDE DEF b
<1>3. /\ count[b] = 1 => WeakOn(b) = {w} /\ StrongOn(b) = {}
      /\ count[b] # 1 => WeakOn(b) \ {w} # {} \/ StrongOn(b) # {}
  <2>1. WeakOn(b) # {w} => WeakOn(b) \ {w} # {}
    BY <1>2
  <2>2. QED
    BY <1>2, <2>1, OnlyWeak
<1>4. /\ \A s \in Ref : s # w => pc'[s] = pc[s] /\ blk'[s] = blk[s]
      /\ pc'[w] = p /\ blk'[w] = k /\ obj' = obj
      /\ \A s \in Strong : s # w /\ s \in Ref
  BY <1>1 DEF TypeOK, Ref
<1>5. StrongOn(b) = {s \in Strong : Uses(s, b)}
  BY StrongUsers
<1>6. k \in {None, b} /\ p \in {"recycle", "null"}
  OBVIOUS
<1>7. Shape'
  <2>1. ASSUME NEW s \in Strong PROVE StrongShape(s)'
    BY <1>4 DEF Shape, StrongShape
  <2>2. WeakShape(w)'
    BY <1>1, <1>2, <1>4 DEF WeakShape
  <2>3. ASSUME NEW s \in Weak, s # w PROVE WeakShape(s)'
    BY <1>4, <2>3 DEF Shape, WeakShape, Ref
  <2>4. QED
    BY <2>1, <2>2, <2>3 DEF Shape
<1>8. /\ \A x \in Block : StrongOn(x)' = StrongOn(x)
      /\ \A x \in Block : WeakOn(x)' = IF x = b THEN WeakOn(x) \ {w} ELSE WeakOn(x)
  <2>1. \A x \in Block, s \in Strong : Uses(s, x)' <=> Uses(s, x)
    BY <1>1, <1>4 DEF Uses
  <2>2. \A x \in Block : StrongOn(x)' = StrongOn(x)
    BY <1>7, <2>1, StrongUsers, StrongUsersNext
  <2>3. \A x \in Block : WeakOn(x)' = IF x = b THEN WeakOn(x) \ {w} ELSE WeakOn(x)
    BY <1>1, <1>4, <1>6 DEF WeakOn, Ref, b
  <2>4. QED
    BY <2>2, <2>3
<1> HIDE DEF k, p
<1>9. CountsMatch' /\ count' \in [Block -> Nat]
  BY <1>1, <1>2, <1>8, WeakRemoved
<1>10. TypeOK'
  BY <1>1, <1>2, <1>4, <1>6, <1>9 DEF TypeOK, PC
<1>11. SoleOwner' /\ TargetAlive'
  BY <1>1, <1>4, <1>8 DEF SoleOwner, TargetAlive
<1>12. Linked'
  <2>1. \A s \in Ref : blk'[s] \in {blk[s], None}
    BY <1>4, <1>6 DEF b
  <2>2. QED
    BY <1>1, <1>4, <2>1 DEF Linked
<1>13. BlocksApart'
  <2>1. ASSUME NEW x \in stack, NEW s \in Ref PROVE blk'[s] # x
    <3>1. x # None /\ x # b
      BY <1>2 DEF TypeOK
    <3>2. QED
      BY <1>4, <1>6, <3>1 DEF BlocksApart
  <2>2. ASSUME NEW s \in Ref, s # w, pc'[s] \in {"finalize", "recycle"}, blk'[s] # None
        PROVE  target[blk'[s]] = None /\ \A u \in Ref \ {s} : blk'[u] # blk'[s]
    <3>1. pc[s] \in {"finalize", "recycle"} /\ blk'[s] = blk[s]
      BY <1>4, <2>2
    <3>2. target[blk[s]] = None /\ \A u \in Ref \ {s} : blk[u] # blk[s]
      BY <2>2, <3>1 DEF BlocksApart
    <3>3. \A u \in Ref : blk'[u] \in {blk[u], None}
      BY <1>4, <1>6 DEF b
    <3>4. QED
      BY <2>2, <3>1, <3>2, <3>3
  <2>3. ASSUME k # None
        PROVE  target[k] = None /\ \A u \in Ref \ {w} : blk'[u] # k
    <3>1. k = b /\ WeakOn(b) = {w} /\ StrongOn(b) = {}
      BY <1>3, <2>3 DEF k
    <3>2. \A s \in Strong : pc[s] = "block" => counter[obj[s]] # b
      BY <1>1 DEF Linked, b
    <3>3. target[b] = None
      BY <1>2, <3>1, <3>2 DEF TargetAlive
    <3>4. ASSUME NEW u \in Ref \ {w}, blk[u] = b PROVE FALSE
      <4>1. pc[u] \notin {"finalize", "recycle"}
        BY <1>1, <1>2, <3>4 DEF BlocksApart, b
      <4>2. CASE u \in Strong
        <5>1. pc[u] \in {"upgrade", "drop"}
          BY <1>2, <3>4, <4>1, <4>2 DEF Shape, StrongShape, TypeOK, PC
        <5>2. QED
          BY <1>5, <3>1, <3>4, <4>2, <5>1 DEF Uses
      <4>3. CASE u \in Weak
        <5>1. pc[u] = "held"
          BY <1>2, <3>4, <4>1, <4>3 DEF Shape, WeakShape
        <5>2. QED
          BY <3>1, <3>4, <4>3, <5>1 DEF WeakOn
      <4>4. QED
        BY <4>2, <4>3 DEF Ref
    <3>5. QED
      BY <1>4, <3>1, <3>3, <3>4
  <2>4. QED
    BY <1>1, <1>4, <2>1, <2>2, <2>3 DEF BlocksApart
<1>14. Reachable'
  <2>1. ASSUME NEW x \in Block \ stack, x # b
        PROVE  (\E s \in Ref : blk'[s] = x) \/ target[x] # None
    BY <1>4, <2>1 DEF Reachable, b
  <2>2. (\E s \in Ref : blk'[s] = b) \/ target[b] # None
    <3>1. CASE count[b] = 1
      BY <1>1, <1>4, <3>1 DEF k
    <3>2. CASE WeakOn(b) \ {w} # {}
      <4>1. PICK s \in Weak : s # w /\ blk[s] = b
        BY <3>2 DEF WeakOn
      <4>2. QED
        BY <1>4, <4>1 DEF Ref
    <3>3. CASE StrongOn(b) # {}
      <4>1. PICK s \in Strong : Uses(s, b)
        BY <1>5, <3>3
      <4>2. CASE blk[s] = b
        BY <1>4, <4>2
      <4>3. CASE pc[s] = "held" /\ counter[obj[s]] = b
        BY <4>3 DEF Linked, Shape, StrongShape
      <4>4. QED
        BY <4>1, <4>2, <4>3 DEF Uses
    <3>4. QED
      BY <1>3, <3>1, <3>2, <3>3
  <2>3. QED
    BY <1>1, <1>4, <2>1, <2>2 DEF Reachable
<1>15. QED
  BY <1>7, <1>9, <1>10, <1>11, <1>12, <1>13, <1>14

-----------------------------------------------------------------------------
LEMMA StutterPreserves == IInv /\ UNCHANGED vars => IInv'
<1> SUFFICES ASSUME IInv, UNCHANGED vars PROVE IInv'
  OBVIOUS
<1> USE DEF IInv, vars
<1>1. /\ \A b : StrongOn(b)' = StrongOn(b)
      /\ \A b : WeakOn(b)' = WeakOn(b)
  BY DEF StrongOn, WeakOn, BlockOf
<1>2. TypeOK' /\ Shape' /\ SoleOwner' /\ Linked'
  BY DEF TypeOK, Shape, StrongShape, WeakShape, SoleOwner, Linked
<1>3. TargetAlive' /\ BlocksApart' /\ Reachable' /\ CountsMatch'
  BY <1>1 DEF TargetAlive, BlocksApart, Reachable, CountsMatch
<1>4. QED
  BY <1>2, <1>3

LEMMA NextIInv == IInv /\ [Next]_vars => IInv'
<1> SUFFICES ASSUME IInv, [Next]_vars PROVE IInv'
  OBVIOUS
<1>1. ASSUME NEW r \in Strong, Make(r) PROVE IInv'
  BY <1>1, ObtainPreserves, GetControlBlockPreserves, FirstReferencePreserves,
     CopyPreserves, UpgradePreserves, GetTargetPreserves DEF Make
<1>2. ASSUME NEW r \in Strong, DecrementStrong(r) \/ Finalize(r) PROVE IInv'
  BY <1>2, DecrementStrongPreserves, FinalizePreserves
<1>3. ASSUME NEW w \in Weak, DecrementWeak(w) \/ \E s \in Ref : Weaken(w, s) PROVE IInv'
  BY <1>3, DecrementWeakPreserves, WeakenPreserves
<1>4. ASSUME NEW r \in Ref, Recycle(r) PROVE IInv'
  BY <1>4, RecyclePreserves
<1>5. CASE UNCHANGED vars
  BY <1>5, StutterPreserves
<1>6. QED
  BY <1>1, <1>2, <1>3, <1>4, <1>5 DEF Next

(* The invariant: counts and references match, and what nobody refers to   *)
(* is on its way back to where it came from.                               *)
THEOREM RefCountInvariance == Spec => []IInv
<1>1. Init => IInv
  BY InitIInv
<1>2. IInv /\ [Next]_vars => IInv'
  BY NextIInv
<1>3. QED
  BY <1>1, <1>2, PTL DEF Spec

(* Every variable keeps its type; the counts never fall below zero.        *)
THEOREM RefCountTypeCorrect == Spec => []TypeOK
<1>1. IInv => TypeOK
  BY DEF IInv
<1>2. QED
  BY <1>1, RefCountInvariance, PTL

(* m_strongCount and m_count are the numbers of references there are, for  *)
(* any number of references and any interleaving of their threads.         *)
THEOREM CountsAreRight == Spec => []CountsMatch
<1>1. IInv => CountsMatch
  BY DEF IInv
<1>2. QED
  BY <1>1, RefCountInvariance, PTL

(* An object that a strong reference gives access to is neither in the     *)
(* pool nor about to be finalized (TypedStrongRef::getObject is safe).     *)
THEOREM HeldObjectsLive == Spec => []HeldIsAlive
<1>1. IInv => HeldIsAlive
  <2> SUFFICES ASSUME IInv, NEW r \in Strong, pc[r] = "held"
               PROVE  /\ obj[r] \notin pool
                      /\ \A s \in Strong : pc[s] = "finalize" => obj[s] # obj[r]
                      /\ counter[obj[r]] \in Block \ stack
                      /\ target[counter[obj[r]]] = obj[r]
    BY DEF HeldIsAlive
  <2> USE RefAssumption DEF IInv
  <2>1. counter[obj[r]] \in Block \ stack /\ target[counter[obj[r]]] = obj[r]
    BY StrongInUse
  <2>2. obj[r] \in Object /\ obj[r] # None
    BY DEF Shape, StrongShape
  <2>3. obj[r] \notin pool
    BY <2>1, <2>2 DEF TargetAlive
  <2>4. \A s \in Strong : pc[s] = "finalize" => obj[s] # obj[r]
    BY DEF SoleOwner
  <2>5. QED
    BY <2>1, <2>3, <2>4
<1>2. QED
  BY <1>1, RefCountInvariance, PTL

(* decrementStrong tells one caller to finalize the object and one to      *)
(* recycle the block, and nobody else knows them by then.                  *)
THEOREM NothingReturnedTwice == Spec => []ReturnedOnce
<1>1. IInv => ReturnedOnce
  <2> SUFFICES ASSUME IInv, NEW r \in Ref
               PROVE  /\ pc[r] = "finalize" =>
                           /\ obj[r] \notin pool
                           /\ \A s \in Ref \ {r} : obj[s] # obj[r]
                      /\ pc[r] \in {"finalize", "recycle"} /\ blk[r] # None =>
                           /\ blk[r] \notin stack
                           /\ \A s \in Ref \ {r} : blk[s] # blk[r]
                           /\ StrongOn(blk[r]) = {} /\ WeakOn(blk[r]) = {}
    BY DEF ReturnedOnce
  <2> USE RefAssumption DEF IInv
  <2>1. ASSUME pc[r] = "finalize"
        PROVE  obj[r] \notin pool /\ \A s \in Ref \ {r} : obj[s] # obj[r]
    <3>1. r \in Strong /\ obj[r] \in Object /\ obj[r] # None
      BY <2>1 DEF Ref, Shape, StrongShape, WeakShape
    <3>2. \A s \in Weak : obj[s] = None
      BY DEF Shape, WeakShape
    <3>3. QED
      BY <2>1, <3>1, <3>2 DEF SoleOwner, Ref
  <2>2. ASSUME pc[r] \in {"finalize", "recycle"}, blk[r] # None
        PROVE  /\ blk[r] \notin stack
               /\ \A s \in Ref \ {r} : blk[s] # blk[r]
               /\ StrongOn(blk[r]) = {} /\ WeakOn(blk[r]) = {}
    <3>1. blk[r] \in Block /\ blk[r] \notin stack
      BY <2>2 DEF TypeOK, BlocksApart
    <3>2. target[blk[r]] = None /\ \A s \in Ref \ {r} : blk[s] # blk[r]
      BY <2>2 DEF BlocksApart
    <3>3. ASSUME NEW s \in Strong, Uses(s, blk[r]) PROVE FALSE
      <4>1. s # r
        BY <2>2, <3>3 DEF Uses
      <4>2. pc[s] = "held" /\ counter[obj[s]] = blk[r]
        BY <3>2, <3>3, <4>1 DEF Uses, Ref
      <4>3. target[blk[r]] = obj[s] /\ obj[s] \in Object
        BY <4>2 DEF Linked, Shape, StrongShape
      <4>4. QED
        BY <3>2, <4>3
    <3>4. StrongOn(blk[r]) = {}
      BY <3>3, StrongUsers
    <3>5. WeakOn(blk[r]) = {}
      BY <2>2, <3>2 DEF WeakOn, Ref
    <3>6. QED
      BY <3>1, <3>2, <3>4, <3>5
  <2>3. QED
    BY <2>1, <2>2
<1>2. QED
  BY <1>1, RefCountInvariance, PTL

(* No object and no block is lost: each is free, or some reference leads   *)
(* to it or has yet to return it.                                          *)
THEOREM NothingIsLost == Spec => []NothingLeaks
<1>1. IInv => NothingLeaks
  <2> SUFFICES ASSUME IInv PROVE NothingLeaks
    OBVIOUS
  <2> USE RefAssumption DEF IInv
  <2>1. ASSUME NEW o \in Object \ pool
        PROVE  \/ \E r \in Strong : obj[r] = o
               \/ \E b \in Block : target[b] = o /\ StrongOn(b) # {}
    <3>1. \A b \in Block : target[b] = o =>
            StrongOn(b) # {} \/ \E r \in Strong : obj[r] = o
      BY DEF TargetAlive
    <3>2. QED
      BY <3>1 DEF Reachable
  <2>2. ASSUME NEW b \in Block \ stack
        PROVE  (\E r \in Ref : blk[r] = b) \/ (\E o \in Object \ pool : counter[o] = b)
    <3>1. target[b] # None => /\ target[b] \in Object \ pool
                              /\ counter[target[b]] = b
      BY DEF TargetAlive, TypeOK
    <3>2. QED
      BY <3>1 DEF Reachable
  <2>3. QED
    BY <2>1, <2>2 DEF NothingLeaks
<1>2. QED
  BY <1>1, RefCountInvariance, PTL

(* While a weak reference is held its block loses its object at most; it   *)
(* is not handed to another object.                                        *)
THEOREM WeakIdentity == Spec => WeakKeepsIdentity
<1> DEFINE Keeps == \A w \in Weak :
                      pc[w] = "held" /\ target'[blk[w]] # target[blk[w]] =>
                        target'[blk[w]] = None
<1>1. IInv /\ [Next]_vars => [Keeps]_vars
  <2> SUFFICES ASSUME IInv, Next, NEW w \in Weak, pc[w] = "held",
                      target'[blk[w]] # target[blk[w]]
               PROVE  target'[blk[w]] = None
    BY DEF Keeps
  <2>1. target' # target
    OBVIOUS
  <2>2. blk[w] \in Block \ stack
    BY WeakInUse
  <2>3. ASSUME NEW r \in Strong, GetControlBlock(r) PROVE FALSE
    BY <2>2, <2>3 DEF GetControlBlock, IInv, TypeOK
  <2>4. ASSUME NEW r \in Strong, DecrementStrong(r) PROVE target'[blk[w]] = None
    BY <2>2, <2>4 DEF DecrementStrong, Sever, IInv, TypeOK
  <2>5. QED
    BY <2>1, <2>3, <2>4 DEF Next, Make, Obtain, FirstReference, Copy, Upgrade, GetTarget,
       Finalize, DecrementWeak, Weaken, Recycle
<1>2. Spec => [][Keeps]_vars
  BY <1>1, RefCountInvariance, PTL DEF Spec
<1>3. QED
  BY <1>2 DEF WeakKeepsIdentity, Keeps

-----------------------------------------------------------------------------
(* The refinement. *)

Finalizing(o) == \E r \in Strong : pc[r] = "finalize" /\ obj[r] = o
Held(r) == IF pc[r] = "held" THEN obj[r] ELSE None

LEMMA LifeSame ==
  ASSUME pool' = pool, \A o \in Object : Finalizing(o)' <=> Finalizing(o)
  PROVE  Life' = Life
BY DEF Life, Finalizing

LEMMA LifeChanges ==
  ASSUME NEW o \in Object, NEW v,
         \A x \in Object : x # o => /\ x \in pool' <=> x \in pool
                                    /\ Finalizing(x)' <=> Finalizing(x),
         v = IF o \in pool' THEN "pool" ELSE IF Finalizing(o)' THEN "ended" ELSE "alive"
  PROVE  Life' = [Life EXCEPT ![o] = v]
<1> DEFINE L(x) == IF x \in pool THEN "pool" ELSE IF Finalizing(x) THEN "ended" ELSE "alive"
<1>1. Life = [x \in Object |-> L(x)]
  BY DEF Life, Finalizing
<1>2. Life' = [x \in Object |-> L(x)']
  BY DEF Life, Finalizing
<1>3. L(o)' = v /\ \A x \in Object : x # o => L(x)' = L(x)
  OBVIOUS
<1> HIDE DEF L
<1>4. QED
  BY <1>1, <1>2, <1>3

LEMMA HoldsSame ==
  ASSUME \A r \in Strong : Held(r)' = Held(r)
  PROVE  Holds' = Holds
BY DEF Holds, Held

LEMMA HoldsChanges ==
  ASSUME NEW r \in Strong, \A s \in Strong : s # r => Held(s)' = Held(s)
  PROVE  Holds' = [Holds EXCEPT ![r] = Held(r)']
BY DEF Holds, Held

(* An object with a reference, or about to get its first one, is alive. *)
LEMMA StillAlive ==
  ASSUME IInv, NEW o \in Object, o \notin pool, ~Finalizing(o)
  PROVE  Life[o] = "alive"
BY DEF Life, Finalizing

LEMMA BecomesMaps ==
  ASSUME TypeOK, NEW r \in Ref, NEW p, NEW o, NEW b, Becomes(r, p, o, b)
  PROVE  /\ \A s \in Strong : s # r => Held(s)' = Held(s)
         /\ r \in Strong => Held(r)' = IF p = "held" THEN o ELSE None
         /\ \A x : Finalizing(x)' <=> \/ r \in Strong /\ p = "finalize" /\ o = x
                                      \/ \E s \in Strong \ {r} : pc[s] = "finalize" /\ obj[s] = x
         /\ (pc[r] # "finalize" /\ p # "finalize") \/ r \notin Strong =>
              \A x : Finalizing(x)' <=> Finalizing(x)
<1>1. /\ \A s \in Ref : s # r => pc'[s] = pc[s] /\ obj'[s] = obj[s]
      /\ pc'[r] = p /\ obj'[r] = o
  BY DEF Becomes, TypeOK
<1>2. \A s \in Strong : s \in Ref
  BY DEF Ref
<1>3. \A s \in Strong : s # r => Held(s)' = Held(s)
  BY <1>1, <1>2 DEF Held
<1>4. r \in Strong => Held(r)' = IF p = "held" THEN o ELSE None
  BY <1>1 DEF Held
<1>5. ASSUME NEW x
      PROVE  Finalizing(x)' <=> \/ r \in Strong /\ p = "finalize" /\ o = x
                                \/ \E s \in Strong \ {r} : pc[s] = "finalize" /\ obj[s] = x
  BY <1>1, <1>2 DEF Finalizing
<1>6. ASSUME (pc[r] # "finalize" /\ p # "finalize") \/ r \notin Strong, NEW x
      PROVE  Finalizing(x)' <=> Finalizing(x)
  BY <1>1, <1>2, <1>6 DEF Finalizing
<1>7. QED
  BY <1>3, <1>4, <1>5, <1>6

(* A step that the holders of references cannot tell. *)
LEMMA SilentStep ==
  ASSUME TypeOK, NEW r \in Ref, NEW p, NEW o, NEW b, Becomes(r, p, o, b), pool' = pool,
         r \in Strong => /\ pc[r] \notin {"held", "finalize"}
                         /\ p \notin {"held", "finalize"}
  PROVE  UNCHANGED <<Holds, Life>>
<1>1. \A x \in Object : Finalizing(x)' <=> Finalizing(x)
  BY BecomesMaps
<1>2. \A s \in Strong : Held(s)' = Held(s)
  <2>1. r \in Strong => Held(r)' = Held(r)
    BY BecomesMaps DEF Held
  <2>2. QED
    BY <2>1, BecomesMaps
<1>3. QED
  BY <1>1, <1>2, LifeSame, HoldsSame

(* A strong reference starts to hold an object that is alive. *)
LEMMA HoldStep ==
  ASSUME TypeOK, NEW r \in Strong, pc[r] \notin {"held", "finalize"},
         NEW o \in Object, NEW b, Becomes(r, "held", o, b), pool' = pool, Life[o] = "alive"
  PROVE  Shared!Next
<1>1. r \in Ref
  BY DEF Ref
<1>2. Life' = Life
  BY <1>1, BecomesMaps, LifeSame
<1>3. Holds' = [Holds EXCEPT ![r] = o]
  <2>1. Held(r)' = o /\ \A s \in Strong : s # r => Held(s)' = Held(s)
    BY <1>1, BecomesMaps
  <2>2. QED
    BY <2>1, HoldsChanges
<1>4. Holds[r] = None
  BY DEF Holds
<1>5. Shared!Hold(r, o)
  BY <1>2, <1>3, <1>4 DEF Shared!Hold
<1>6. QED
  BY <1>5 DEF Shared!Next

LEMMA ObtainMaps ==
  ASSUME IInv, NEW r \in Strong, Obtain(r) PROVE Shared!Next
<1> USE RefAssumption
<1> PICK o \in pool : pool' = pool \ {o} /\ Becomes(r, "object", o, None)
  BY DEF Obtain
<1>1. o \in Object /\ r \in Ref /\ TypeOK /\ pc[r] = "null"
  BY DEF IInv, TypeOK, Ref, Obtain
<1>2. \A x : Finalizing(x)' <=> Finalizing(x)
  BY <1>1, BecomesMaps
<1>3. ~Finalizing(o)
  BY DEF IInv, SoleOwner, Finalizing
<1>4. Life' = [Life EXCEPT ![o] = "alive"]
  BY <1>1, <1>2, <1>3, LifeChanges
<1>5. \A s \in Strong : Held(s)' = Held(s)
  <2>1. Held(r)' = Held(r)
    BY <1>1, BecomesMaps DEF Held
  <2>2. QED
    BY <1>1, <2>1, BecomesMaps
<1>6. Life[o] = "pool" /\ Holds' = Holds
  BY <1>1, <1>5, HoldsSame DEF Life
<1>7. Shared!Take(o)
  BY <1>4, <1>6 DEF Shared!Take
<1>8. QED
  BY <1>1, <1>7 DEF Shared!Next

LEMMA FinalizeMaps ==
  ASSUME IInv, NEW r \in Strong, Finalize(r) PROVE Shared!Next
<1> USE RefAssumption
<1> DEFINE o == obj[r]
           p == IF blk[r] # None THEN "recycle" ELSE "null"
<1>1. /\ pc[r] = "finalize" /\ o \in Object /\ r \in Ref /\ TypeOK
      /\ pool' = pool \cup {o} /\ Becomes(r, p, None, blk[r])
  BY DEF IInv, Ref, Finalize, Shape, StrongShape
<1>2. /\ o \notin pool /\ \A s \in Strong \ {r} : obj[s] # o
  BY <1>1 DEF IInv, SoleOwner
<1>3. \A x : Finalizing(x)' <=> \E s \in Strong \ {r} : pc[s] = "finalize" /\ obj[s] = x
  BY <1>1, BecomesMaps
<1>4. \A x \in Object : x # o => (Finalizing(x)' <=> Finalizing(x))
  BY <1>1, <1>3 DEF Finalizing
<1>5. Life' = [Life EXCEPT ![o] = "pool"]
  BY <1>1, <1>4, LifeChanges
<1>6. Life[o] = "ended"
  BY <1>1, <1>2 DEF Life
<1>7. Holds' = Holds
  <2>1. Held(r)' = Held(r)
    BY <1>1, BecomesMaps DEF Held
  <2>2. QED
    BY <1>1, <2>1, BecomesMaps, HoldsSame
<1>8. Shared!Return(o)
  BY <1>5, <1>6, <1>7 DEF Shared!Return
<1>9. QED
  BY <1>1, <1>8 DEF Shared!Next

LEMMA DecrementStrongMaps ==
  ASSUME IInv, NEW r \in Strong, DecrementStrong(r)
  PROVE  Shared!Next \/ UNCHANGED <<Holds, Life>>
<1> USE RefAssumption
<1> DEFINE b == BlockOf(r)
           o == IF strongCount[b] = 1 THEN target[b] ELSE None
           k == IF IsLast(b) THEN b ELSE None
           p == IF o # None THEN "finalize" ELSE IF k # None THEN "recycle" ELSE "null"
<1>1. /\ pc[r] \in {"held", "drop"} /\ r \in Ref /\ TypeOK
      /\ Becomes(r, p, o, k) /\ pool' = pool
  BY DEF IInv, Ref, DecrementStrong, Duty
<1>2. b \in Block \ stack /\ r \in StrongOn(b)
      /\ (pc[r] = "held" => counter[obj[r]] = b /\ target[b] = obj[r])
  BY <1>1, StrongInUse
<1> HIDE DEF b
<1>3. p # "held" /\ (p = "finalize" <=> o # None)
  OBVIOUS
<1>4. Holds' = [Holds EXCEPT ![r] = None]
  <2>1. Held(r)' = None /\ \A s \in Strong : s # r => Held(s)' = Held(s)
    BY <1>1, <1>3, BecomesMaps
  <2>2. QED
    BY <2>1, HoldsChanges
<1>5. CASE o = None
  <2>1. Life' = Life
    <3>1. \A x : Finalizing(x)' <=> Finalizing(x)
      BY <1>1, <1>3, <1>5, BecomesMaps
    <3>2. QED
      BY <1>1, <3>1, LifeSame
  <2>2. CASE pc[r] = "held"
    <3>1. Holds[r] # None
      BY <2>2 DEF Holds, IInv, Shape, StrongShape
    <3>2. Shared!Release(r)
      BY <1>4, <2>1, <3>1 DEF Shared!Release
    <3>3. QED
      BY <3>2 DEF Shared!Next
  <2>3. CASE pc[r] # "held"
    <3>1. Holds' = Holds
      BY <1>4, <2>3 DEF Holds
    <3>2. QED
      BY <2>1, <3>1
  <2>4. QED
    BY <2>2, <2>3
<1>6. CASE o # None
  <2>1. /\ o = target[b] /\ o \in Object /\ strongCount[b] = 1
    BY <1>1, <1>2, <1>6 DEF TypeOK
  <2>2. o \notin pool /\ counter[o] = b /\ ~Finalizing(o)
    BY <1>2, <1>6, <2>1 DEF IInv, TargetAlive, Linked, Finalizing
  <2>3. StrongOn(b) = {r}
    BY <1>2, <2>1, OnlyStrong DEF IInv
  <2>4. \A s \in Strong \ {r} : Holds[s] # o
    <3> SUFFICES ASSUME NEW s \in Strong \ {r}, Holds[s] = o PROVE FALSE
      OBVIOUS
    <3>1. pc[s] = "held" /\ obj[s] = o
      BY <1>6 DEF Holds
    <3>2. Uses(s, b)
      BY <2>2, <3>1 DEF Uses
    <3>3. s \in StrongOn(b)
      BY <3>2, StrongUsers DEF IInv
    <3>4. QED
      BY <2>3, <3>3
  <2>5. Life[o] = "alive"
    BY <2>1, <2>2, StillAlive
  <2>6. Life' = [Life EXCEPT ![o] = "ended"]
    <3>1. \A x : Finalizing(x)' <=> o = x \/ Finalizing(x)
      BY <1>1, <1>3, <1>6, BecomesMaps DEF Finalizing
    <3> HIDE DEF o
    <3>2. QED
      BY <1>1, <2>1, <2>2, <3>1, LifeChanges
  <2>7. CASE pc[r] = "held"
    <3>1. Holds[r] = o
      BY <1>2, <2>1, <2>7 DEF Holds
    <3>2. Shared!Release(r)
      BY <1>4, <1>6, <2>4, <2>6, <3>1 DEF Shared!Release
    <3>3. QED
      BY <3>2 DEF Shared!Next
  <2>8. CASE pc[r] # "held"
    <3>1. Holds' = Holds /\ Holds[r] = None
      BY <1>4, <2>8 DEF Holds
    <3>2. Shared!End(o)
      BY <1>6, <2>4, <2>5, <2>6, <3>1 DEF Shared!End
    <3>3. QED
      BY <2>1, <3>2 DEF Shared!Next
  <2>9. QED
    BY <2>7, <2>8
<1>7. QED
  BY <1>5, <1>6

LEMMA MakeMaps ==
  ASSUME IInv, NEW r \in Strong, Make(r)
  PROVE  Shared!Next \/ UNCHANGED <<Holds, Life>>
<1> USE RefAssumption
<1>1. r \in Ref /\ TypeOK
  BY DEF Ref, IInv
<1>2. CASE Obtain(r)
  BY <1>2, ObtainMaps
<1>3. CASE GetControlBlock(r)
  <2>1. pc[r] = "object" /\ pool' = pool /\ Becomes(r, "block", obj[r], None)
    BY <1>3 DEF GetControlBlock
  <2>2. QED
    BY <1>1, <2>1, SilentStep
<1>4. CASE FirstReference(r)
  <2>1. /\ pc[r] = "block" /\ pool' = pool /\ Becomes(r, "held", obj[r], None)
        /\ obj[r] \in Object
    BY <1>4 DEF FirstReference, IInv, Shape, StrongShape
  <2>2. Life[obj[r]] = "alive"
    BY <2>1, StillAlive DEF IInv, SoleOwner, Finalizing
  <2>3. QED
    BY <1>1, <2>1, <2>2, HoldStep
<1>5. ASSUME NEW s \in Strong, Copy(r, s) PROVE Shared!Next
  <2>1. /\ pc[r] = "null" /\ pc[s] = "held" /\ pool' = pool
        /\ Becomes(r, "held", obj[s], None) /\ obj[s] \in Object
    BY <1>5 DEF Copy, IInv, Shape, StrongShape
  <2>2. obj[s] \notin pool
    BY <2>1, StrongInUse DEF IInv, TargetAlive
  <2>3. ~Finalizing(obj[s])
    BY <2>1 DEF IInv, SoleOwner, Finalizing
  <2>4. Life[obj[s]] = "alive"
    BY <2>1, <2>2, <2>3, StillAlive
  <2>5. QED
    BY <1>1, <2>1, <2>4, HoldStep
<1>6. ASSUME NEW w \in Weak, Upgrade(r, w) PROVE UNCHANGED <<Holds, Life>>
  <2>1. pc[r] = "null" /\ pool' = pool /\ Becomes(r, "upgrade", None, blk[w])
    BY <1>6 DEF Upgrade
  <2>2. QED
    BY <1>1, <2>1, SilentStep
<1>7. CASE GetTarget(r)
  <2>1. pc[r] = "upgrade" /\ pool' = pool /\ blk[r] \in Block
    BY <1>7 DEF GetTarget, IInv, Shape, StrongShape
  <2>2. CASE Becomes(r, "drop", None, blk[r])
    BY <1>1, <2>1, <2>2, SilentStep
  <2>3. CASE target[blk[r]] # None /\ Becomes(r, "held", target[blk[r]], None)
    <3>1. target[blk[r]] \in Object \ pool
      BY <1>1, <2>1, <2>3 DEF TypeOK, IInv, TargetAlive
    <3>2. ~Finalizing(target[blk[r]])
      BY <2>1 DEF IInv, Linked, Finalizing
    <3>3. Life[target[blk[r]]] = "alive"
      BY <3>1, <3>2, StillAlive
    <3>4. QED
      BY <1>1, <2>1, <2>3, <3>1, <3>3, HoldStep
  <2>4. QED
    BY <1>7, <2>2, <2>3 DEF GetTarget
<1>8. QED
  BY <1>2, <1>3, <1>4, <1>5, <1>6, <1>7 DEF Make

LEMMA WeakMaps ==
  ASSUME IInv, NEW w \in Weak, DecrementWeak(w) \/ \E s \in Ref : Weaken(w, s)
  PROVE  UNCHANGED <<Holds, Life>>
<1>1. w \in Ref /\ w \notin Strong /\ TypeOK
  BY RefAssumption DEF Ref, IInv
<1>2. CASE DecrementWeak(w)
  <2>1. pool' = pool
    BY <1>2 DEF DecrementWeak
  <2>2. \E p, o, b : Becomes(w, p, o, b)
    BY <1>2 DEF DecrementWeak
  <2>3. QED
    BY <1>1, <2>1, <2>2, SilentStep
<1>3. ASSUME NEW s \in Ref, Weaken(w, s) PROVE UNCHANGED <<Holds, Life>>
  <2>1. pool' = pool /\ Becomes(w, "held", None, BlockOf(s))
    BY <1>3 DEF Weaken
  <2>2. QED
    BY <1>1, <2>1, SilentStep
<1>4. QED
  BY <1>2, <1>3

LEMMA RecycleMaps == ASSUME IInv, NEW r \in Ref, Recycle(r) PROVE UNCHANGED <<Holds, Life>>
<1>1. pc[r] = "recycle" /\ pool' = pool /\ Becomes(r, "null", None, None) /\ TypeOK
  BY DEF Recycle, IInv
<1>2. QED
  BY <1>1, SilentStep

LEMMA InitMaps == Init => Shared!Init
BY RefAssumption DEF Init, Shared!Init, Holds, Life, Ref

(* The counted references implement SharedObject: whatever threads do with *)
(* their references, an object ends when the last one that holds it lets   *)
(* go, or after that, and nobody gets to hold it any more.                 *)
THEOREM CountingImplementsSharing == Spec => ImplementsSharedObject
<1>1. IInv /\ [Next]_vars => [Shared!Next]_<<Holds, Life>>
  <2> SUFFICES ASSUME IInv, [Next]_vars
               PROVE  Shared!Next \/ UNCHANGED <<Holds, Life>>
    OBVIOUS
  <2>1. CASE UNCHANGED vars
    BY <2>1 DEF vars, Holds, Life
  <2>2. ASSUME NEW r \in Strong, Make(r) \/ DecrementStrong(r) \/ Finalize(r)
        PROVE  Shared!Next \/ UNCHANGED <<Holds, Life>>
    BY <2>2, MakeMaps, DecrementStrongMaps, FinalizeMaps
  <2>3. ASSUME NEW w \in Weak, DecrementWeak(w) \/ \E s \in Ref : Weaken(w, s)
        PROVE  UNCHANGED <<Holds, Life>>
    BY <2>3, WeakMaps
  <2>4. ASSUME NEW r \in Ref, Recycle(r) PROVE UNCHANGED <<Holds, Life>>
    BY <2>4, RecycleMaps
  <2>5. QED
    BY <2>1, <2>2, <2>3, <2>4 DEF Next
<1>2. QED
  BY <1>1, InitMaps, RefCountInvariance, PTL DEF Spec, ImplementsSharedObject, Shared!Spec
=============================================================================
