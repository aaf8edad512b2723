SPECIFICATION Spec
CONSTANTS
  Object = {o1, o2}
  Block = {b1, b2, b3, b4, b5}
  Strong = {r1, r2, r3}
  Weak = {w1, w2}
  None = None
SYMMETRY Interchangeable
INVARIANTS
  TypeOK
  CountsMatch
  HeldIsAlive
  ReturnedOnce
  NothingLeaks
PROPERTIES
  WeakKeepsIdentity
  ImplementsSharedObject
