--------------------------- MODULE MCSessionParts ---------------------------
(* Session for TLC, twice in one run: with commands that fail for any      *)
(* reason, in several configurations; or with an application that keeps    *)
(* writing while the adapter restarts. part says which.                    *)
EXTENDS MCSession

VARIABLE part

Steady == INSTANCE Session
             WITH Configs <- TrafficConfigs, Faults <- FALSE, MaxOpens <- 1,
                  MaxQueued <- 2, MaxTokens <- 2

PartsInit ==
    \/ part = "faults" /\ Init
    \/ part = "traffic" /\ Steady!Init

PartsNext ==
    /\ \/ part = "faults" /\ Next
       \/ part = "traffic" /\ Steady!Next
    /\ UNCHANGED part

\* Fairness of Session in the one part; Fairness and Traffic in the other,
\* without SF_vars(OpenSends \/ CloseSends), which is not needed there. The
\* parts have nothing in common, so that one formula serves for both.
PartsFairness ==
    /\ WF_vars(\/ part = "faults" /\ Api
               \/ part = "traffic" /\ Steady!Api)
    /\ WF_vars(\/ part = "faults" /\ TxThread
               \/ part = "traffic" /\ Steady!TxThread)
    /\ WF_vars(RxEnds) /\ WF_vars(AdapterExecutes) /\ SF_vars(TxIsInactive)
    /\ WF_vars(part = "traffic" /\ Steady!Write)
    /\ SF_vars(\/ part = "faults" /\ (OpenSends \/ CloseSends)
               \/ part = "traffic" /\ Steady!Write /\ tx = "transmit")
    /\ SF_vars(part = "traffic" /\ Steady!TxWakes /\ queued = 0)

PartsSpec == PartsInit /\ [][PartsNext]_<<part, vars>> /\ PartsFairness

\* ReopensUnderTraffic of Session, under the traffic that it needs: a restarted
\* adapter is opened again.
ReopensWithTraffic == part = "traffic" => Steady!ReopensUnderTraffic
=============================================================================
