-------------------------- MODULE ReceiveParameters --------------------------
(* The parameters of ReceiveQueue and what is assumed of them.             *)
EXTENDS Integers, FiniteSets

CONSTANTS
    Readers,            \* application threads that read from this channel
    CAN4VSCP_MAX_RCVMSG,\* room in the receive list
    Interrupts,         \* TRUE: a signal may interrupt sem_timedwait
    Timeouts,           \* FALSE: every blocking read has a long timeout
    MaxArrivals,        \* bound: messages that arrive
    MaxBatch,           \* bound: messages in one CANAL frame
    MaxSessions         \* bound: times the channel is opened

ASSUME ReceiveQueueAssumption ==
    /\ IsFiniteSet(Readers)
    /\ CAN4VSCP_MAX_RCVMSG \in Nat \ {0}
    /\ Interrupts \in BOOLEAN /\ Timeouts \in BOOLEAN
    /\ MaxArrivals \in Nat /\ MaxBatch \in Nat /\ MaxSessions \in Nat
    /\ "RX" \notin Readers /\ "none" \notin Readers
=============================================================================
