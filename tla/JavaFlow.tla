------------------------------ MODULE JavaFlow ------------------------------
(***************************************************************************)
(* The Java twin of Flow (LowLevelLibJava), which the driver runs: the     *)
(* same lists, threads and locks, but for the branch of send whose message *)
(* could not be written, which returns without m_mutex.up().  As in the    *)
(* firmware a callback may send again: BotUtils.RequestRepeater does.      *)
(***************************************************************************)
EXTENDS Flow

JavaFailedCallback(t, resend) ==
  /\ pc[t] = "failed"
  /\ calls' = [calls EXCEPT ![sending[t]] = @ + 1]
  /\ sending' = [sending EXCEPT ![t] = 0]
  /\ IF resend
       THEN /\ Resends /\ issued < MaxSends
            /\ issued' = issued + 1
            /\ pc' = [pc EXCEPT ![t] = "lock"]
       ELSE /\ pc' = [pc EXCEPT ![t] = "deliver"]
            /\ UNCHANGED issued
  /\ UNCHANGED <<mutex, waiting, left, timer, lastId, owed, nap, inflight, open,
                 closed, verdict>>

JavaCallback(t) ==
  \E resend \in BOOLEAN : JavaFailedCallback(t, resend) \/ Deliver(t, resend)

JavaThread(t) == Send(t) \/ JavaCallback(t) \/ Finish(t)

JavaNext ==
  \/ \E c \in Callers : Call(c)
  \/ \E t \in Threads : JavaThread(t)
  \/ Receive
  \/ \E k \in Timers : TimeoutThread(k)
  \/ Environment

JavaSpec == Init /\ [][JavaNext]_flowVars

JavaFairSpec ==
  /\ JavaSpec
  /\ \A t \in Threads : WF_flowVars(JavaThread(t))
  /\ \A k \in Timers : WF_flowVars(TimeoutThread(k))
  /\ WF_flowVars(OnChannelClosed)
  /\ WF_flowVars(Tick)
=============================================================================
