------------------------------ MODULE MCDriver ------------------------------
(* A small instance of Driver for TLC. *)
EXTENDS Driver

JobsOfDriver == JobType
=============================================================================
