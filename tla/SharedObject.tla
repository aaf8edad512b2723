---------------------------- MODULE SharedObject ----------------------------
(***************************************************************************)
(* What the counted references of the firmware promise: an object lives    *)
(* until nobody holds it, ends once, and is held by nobody from then on,   *)
(* until the pool hands it out again.                                      *)
(***************************************************************************)
CONSTANTS
  Object,  \* the objects of a pool
  Strong,  \* the strong references
  None     \* NULL

VARIABLES
  holds,   \* the object a strong reference gives access to
  life     \* what has become of an object

Init ==
  /\ holds = [r \in Strong |-> None]
  /\ life = [o \in Object |-> "pool"]

Take(o) ==
  /\ life[o] = "pool"
  /\ life' = [life EXCEPT ![o] = "alive"]
  /\ UNCHANGED holds

(* A reference is made from the object, a strong or a weak reference. *)
Hold(r, o) ==
  /\ holds[r] = None
  /\ life[o] = "alive"
  /\ holds' = [holds EXCEPT ![r] = o]
  /\ UNCHANGED life

Release(r) ==
  /\ holds[r] # None
  /\ holds' = [holds EXCEPT ![r] = None]
  /\ \/ UNCHANGED life
     \/ /\ \A s \in Strong \ {r} : holds[s] # holds[r]
        /\ life' = [life EXCEPT ![holds[r]] = "ended"]

End(o) ==
  /\ life[o] = "alive"
  /\ \A r \in Strong : holds[r] # o
  /\ life' = [life EXCEPT ![o] = "ended"]
  /\ UNCHANGED holds

Return(o) ==
  /\ life[o] = "ended"
  /\ life' = [life EXCEPT ![o] = "pool"]
  /\ UNCHANGED holds

Next ==
  \/ \E o \in Object : Take(o) \/ End(o) \/ Return(o)
  \/ \E r \in Strong : Release(r) \/ \E o \in Object : Hold(r, o)

Spec == Init /\ [][Next]_<<holds, life>>
=============================================================================
