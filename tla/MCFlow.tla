------------------------------- MODULE MCFlow -------------------------------
(***************************************************************************)
(* Instances of Flow for TLC.                                              *)
(***************************************************************************)
EXTENDS Flow, TLC

(* Timeout threads are interchangeable, and so are callers; not used by    *)
(* the runs that check liveness.                                           *)
Interchangeable == Permutations(Timers) \cup Permutations(Callers)
=============================================================================
