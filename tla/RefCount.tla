------------------------------ MODULE RefCount ------------------------------
(***************************************************************************)
(* The counted references of the firmware: base::ControlBlock,             *)
(* base::Object and the strong and weak references of concurrent::managed, *)
(* with the pool their objects come from (TypedPool) and the stack of      *)
(* control blocks.                                                         *)
(*                                                                         *)
(* A reference is a variable of the program.  Each takes its steps as if   *)
(* in a thread of its own; a step is a critical section of ControlBlock or *)
(* PoolBase, or an access outside of one (getTarget).  What the code does  *)
(* with several references, an assignment for instance, is a sequence of   *)
(* steps of theirs.                                                        *)
(***************************************************************************)
EXTENDS Integers, FiniteSets

CONSTANTS
  Object,  \* the objects of a pool
  Block,   \* the control blocks
  Strong,  \* the strong references
  Weak,    \* the weak references
  None     \* NULL

Ref == Strong \cup Weak

ASSUME RefAssumption ==
  /\ IsFiniteSet(Strong) /\ IsFiniteSet(Weak)
  /\ Strong \cap Weak = {}
  /\ None \notin Object \cup Block

VARIABLES
  pool,        \* objects in the pool
  stack,       \* free control blocks
  counter,     \* m_counter of an object
  target,      \* m_target of a control block
  strongCount, \* m_strongCount
  count,       \* m_count: strong and weak references
  pc,          \* where a reference is
  obj,         \* m_obj of a strong reference, or the object it must finalize
  blk          \* m_ctrlBlk of a weak reference, or the block a reference is
               \* about to use or to recycle

vars == <<pool, stack, counter, target, strongCount, count, pc, obj, blk>>

PC == {"null", "object", "block", "held", "upgrade", "drop", "finalize", "recycle"}

TypeOK ==
  /\ pool \subseteq Object
  /\ stack \subseteq Block
  /\ counter \in [Object -> Block \cup {None}]
  /\ target \in [Block -> Object \cup {None}]
  /\ strongCount \in [Block -> Nat]
  /\ count \in [Block -> Nat]
  /\ pc \in [Ref -> PC]
  /\ obj \in [Ref -> Object \cup {None}]
  /\ blk \in [Ref -> Block \cup {None}]

Init ==
  /\ pool = Object
  /\ stack = Block
  /\ counter = [o \in Object |-> None]
  /\ target = [b \in Block |-> None]
  /\ strongCount = [b \in Block |-> 0]
  /\ count = [b \in Block |-> 0]
  /\ pc = [r \in Ref |-> "null"]
  /\ obj = [r \in Ref |-> None]
  /\ blk = [r \in Ref |-> None]

(* Definitions named Slip... are wrong variants of the definition after    *)
(* them, a mistake each that the properties below have to notice.          *)

(* Reference r goes on at p, with object o and block b. *)
Becomes(r, p, o, b) ==
  /\ pc' = [pc EXCEPT ![r] = p]
  /\ obj' = [obj EXCEPT ![r] = o]
  /\ blk' = [blk EXCEPT ![r] = b]

(* ctrlBlkOf(m_obj) for a strong reference, m_ctrlBlk for a weak one. *)
BlockOf(r) == IF obj[r] # None THEN counter[obj[r]] ELSE blk[r]

SlipStrongOnly(b) ==
  /\ strongCount' = [strongCount EXCEPT ![b] = @ + 1]
  /\ UNCHANGED count

IncrementStrong(b) ==
  /\ count' = [count EXCEPT ![b] = @ + 1]
  /\ strongCount' = [strongCount EXCEPT ![b] = @ + 1]

-----------------------------------------------------------------------------
(* A new object: TypedPool::obtain... *)
Obtain(r) ==
  /\ pc[r] = "null"
  /\ \E o \in pool :
       /\ pool' = pool \ {o}
       /\ Becomes(r, "object", o, None)
  /\ UNCHANGED <<stack, counter, target, strongCount, count>>

(* ... getControlBlock, with obtain and reset of the block... *)
GetControlBlock(r) ==
  /\ pc[r] = "object"
  /\ \E b \in stack :
       /\ stack' = stack \ {b}
       /\ counter' = [counter EXCEPT ![obj[r]] = b]
       /\ target' = [target EXCEPT ![b] = obj[r]]
       /\ strongCount' = [strongCount EXCEPT ![b] = 0]
       /\ count' = [count EXCEPT ![b] = 0]
  /\ Becomes(r, "block", obj[r], None)
  /\ UNCHANGED pool

(* ... and the first reference. *)
FirstReference(r) ==
  /\ pc[r] = "block"
  /\ IncrementStrong(BlockOf(r))
  /\ Becomes(r, "held", obj[r], None)
  /\ UNCHANGED <<pool, stack, counter, target>>

(* A strong reference made from another, which stays while it is copied.   *)
(* It always counts: no copy in the firmware selects the implicit copy     *)
(* constructor or assignment, which a source of the same type that is      *)
(* const or a temporary would.                                             *)
Copy(r, s) ==
  /\ pc[r] = "null" /\ pc[s] = "held"
  /\ IncrementStrong(BlockOf(s))
  /\ Becomes(r, "held", obj[s], None)
  /\ UNCHANGED <<pool, stack, counter, target>>

(* A weak reference made from a strong or a weak one, counted likewise. *)
Weaken(w, s) ==
  /\ pc[w] = "null" /\ pc[s] = "held"
  /\ count' = [count EXCEPT ![BlockOf(s)] = @ + 1]
  /\ Becomes(w, "held", None, BlockOf(s))
  /\ UNCHANGED <<pool, stack, counter, target, strongCount>>

(* A strong reference made from a weak one: first incrementStrong...       *)
Upgrade(r, w) ==
  /\ pc[r] = "null" /\ pc[w] = "held"
  /\ IncrementStrong(blk[w])
  /\ Becomes(r, "upgrade", None, blk[w])
  /\ UNCHANGED <<pool, stack, counter, target>>

(* ... then, outside of the critical section, getTarget.  The object may   *)
(* be gone, or not be of the class of the reference.                       *)
GetTarget(r) ==
  /\ pc[r] = "upgrade"
  /\ \/ target[blk[r]] # None /\ Becomes(r, "held", target[blk[r]], None)
     \/ Becomes(r, "drop", None, blk[r])
  /\ UNCHANGED <<pool, stack, counter, target, strongCount, count>>

-----------------------------------------------------------------------------
(* What is left to do for a reference that let go of its block: finalize   *)
(* object o, then recycle block b (None: nothing).                         *)
SlipEither(o, b) == <<IF o # None THEN "finalize" ELSE IF b # None THEN "recycle" ELSE "null",
                      o, IF o # None THEN None ELSE b>>
Duty(o, b) == <<IF o # None THEN "finalize" ELSE IF b # None THEN "recycle" ELSE "null",
                o, b>>

SlipKeepTarget(b) == UNCHANGED target
Sever(b) == target' = [target EXCEPT ![b] = None]

SlipLastStrong(b) == strongCount[b] = 1
IsLast(b) == count[b] = 1

DecrementStrong(r) ==
  /\ pc[r] \in {"held", "drop"}
  /\ LET b == BlockOf(r)
         ends == strongCount[b] = 1
         duty == Duty(IF ends THEN target[b] ELSE None, IF IsLast(b) THEN b ELSE None)
     IN  /\ count' = [count EXCEPT ![b] = @ - 1]
         /\ strongCount' = [strongCount EXCEPT ![b] = @ - 1]
         /\ IF ends THEN Sever(b) ELSE UNCHANGED target
         /\ Becomes(r, duty[1], duty[2], duty[3])
  /\ UNCHANGED <<pool, stack, counter>>

DecrementWeak(w) ==
  /\ pc[w] = "held"
  /\ LET b == blk[w]
         duty == Duty(None, IF IsLast(b) THEN b ELSE None)
     IN  /\ count' = [count EXCEPT ![b] = @ - 1]
         /\ Becomes(w, duty[1], duty[2], duty[3])
  /\ UNCHANGED <<pool, stack, counter, target, strongCount>>

(* Object::beforeRecycle and TypedPool::recycle. *)
Finalize(r) ==
  /\ pc[r] = "finalize"
  /\ counter' = [counter EXCEPT ![obj[r]] = None]
  /\ pool' = pool \cup {obj[r]}
  /\ Becomes(r, IF blk[r] # None THEN "recycle" ELSE "null", None, blk[r])
  /\ UNCHANGED <<stack, target, strongCount, count>>

Recycle(r) ==
  /\ pc[r] = "recycle"
  /\ stack' = stack \cup {blk[r]}
  /\ Becomes(r, "null", None, None)
  /\ UNCHANGED <<pool, counter, target, strongCount, count>>

-----------------------------------------------------------------------------
Make(r) ==
  \/ Obtain(r) \/ GetControlBlock(r) \/ FirstReference(r)
  \/ \E s \in Strong : Copy(r, s)
  \/ \E w \in Weak : Upgrade(r, w)
  \/ GetTarget(r)

Next ==
  \/ \E r \in Strong : Make(r) \/ DecrementStrong(r) \/ Finalize(r)
  \/ \E w \in Weak : DecrementWeak(w) \/ \E s \in Ref : Weaken(w, s)
  \/ \E r \in Ref : Recycle(r)

Spec == Init /\ [][Next]_vars

-----------------------------------------------------------------------------
(* The references that a block counts. *)
StrongOn(b) == {r \in Strong : pc[r] \in {"held", "upgrade", "drop"} /\ BlockOf(r) = b}
WeakOn(b) == {w \in Weak : pc[w] = "held" /\ blk[w] = b}

(* m_strongCount and m_count are the numbers of references there are,      *)
(* those that are half way through an upgrade included, however threads    *)
(* interleave; a count that is wrong by one frees too early or never.      *)
CountsMatch ==
  \A b \in Block \ stack :
    /\ strongCount[b] = Cardinality(StrongOn(b))
    /\ count[b] = Cardinality(StrongOn(b)) + Cardinality(WeakOn(b))

(* An object that a strong reference gives access to is alive: it is not   *)
(* in the pool, nobody is about to finalize it, and its control block, to  *)
(* which every reference to it goes, is in use.                            *)
HeldIsAlive ==
  \A r \in Strong : pc[r] = "held" =>
    /\ obj[r] \notin pool
    /\ \A s \in Strong : pc[s] = "finalize" => obj[s] # obj[r]
    /\ counter[obj[r]] \in Block \ stack
    /\ target[counter[obj[r]]] = obj[r]

(* No object is finalized twice and no block recycled twice, even if a     *)
(* weak reference is upgraded while, or after, the object is finalized;    *)
(* who recycles a block is the last to know it.                            *)
ReturnedOnce ==
  \A r \in Ref :
    /\ pc[r] = "finalize" =>
         /\ obj[r] \notin pool
         /\ \A s \in Ref \ {r} : obj[s] # obj[r]
    /\ pc[r] \in {"finalize", "recycle"} /\ blk[r] # None =>
         /\ blk[r] \notin stack
         /\ \A s \in Ref \ {r} : blk[s] # blk[r]
         /\ StrongOn(blk[r]) = {} /\ WeakOn(blk[r]) = {}

(* No object and no block is lost: while it is not free some reference     *)
(* leads to it or has yet to give it back.                                 *)
NothingLeaks ==
  /\ \A o \in Object \ pool :
       \/ \E r \in Strong : obj[r] = o
       \/ \E b \in Block : target[b] = o /\ StrongOn(b) # {}
  /\ \A b \in Block \ stack :
       \/ \E r \in Ref : blk[r] = b
       \/ \E o \in Object \ pool : counter[o] = b

(* A weak reference never leads to an object it was not made for: while it *)
(* is held, its block loses its object at most, for good.                  *)
WeakKeepsIdentity ==
  [][\A w \in Weak :
       pc[w] = "held" /\ target'[blk[w]] # target[blk[w]] =>
         target'[blk[w]] = None]_vars

(* The refinement: what holders of references can tell. *)
Holds == [r \in Strong |-> IF pc[r] = "held" THEN obj[r] ELSE None]
Life  == [o \in Object |->
            IF o \in pool THEN "pool"
            ELSE IF \E r \in Strong : pc[r] = "finalize" /\ obj[r] = o
                 THEN "ended" ELSE "alive"]

Shared == INSTANCE SharedObject WITH holds <- Holds, life <- Life

ImplementsSharedObject == Shared!Spec
=============================================================================
