----------------------------- MODULE MCRefCount -----------------------------
(* A small instance of RefCount for TLC. *)
EXTENDS RefCount, TLC

(* No definition of RefCount tells objects, blocks or references apart. *)
Interchangeable ==
  Permutations(Object) \cup Permutations(Block) \cup Permutations(Strong)
    \cup Permutations(Weak)
=============================================================================
