---------------------------- MODULE RequestReply ----------------------------
(***************************************************************************)
(* What a protocol::Flow promises to the code that calls Flow::send: each  *)
(* request it accepted is resolved once, by the reply of the peer or by an *)
(* error (the peer did not answer in time, the message could not be        *)
(* written, or the channel was closed), and a resolution is final.         *)
(***************************************************************************)
EXTENDS Naturals

CONSTANT MaxSends   \* number of requests considered (bounds the model)

VARIABLE status     \* what the callers know of each request

Id == 1..MaxSends

Init == status = [n \in Id |-> "new"]

(* Requests are numbered in the order the flow accepts them. *)
Submit(n) ==
  /\ status[n] = "new"
  /\ \A m \in Id : m < n => status[m] # "new"
  /\ status' = [status EXCEPT ![n] = "pending"]

Resolve(n, how) ==
  /\ status[n] = "pending"
  /\ status' = [status EXCEPT ![n] = how]

Next ==
  \E n \in Id : Submit(n) \/ \E how \in {"reply", "error"} : Resolve(n, how)

Spec == Init /\ [][Next]_status

(* The promise with its liveness half: a pending request is resolved. *)
FairSpec ==
  /\ Spec
  /\ \A n \in Id :
       WF_status(\E how \in {"reply", "error"} : Resolve(n, how))
=============================================================================
