--------------------------- MODULE MCTransmitBoth ---------------------------
(* TransmitPath for TLC, two channels in one run. One does not wait for    *)
(* ACKs: two writers, two sessions, a port that refuses frames. The other  *)
(* waits for them, and its line and its adapter answer in time: it is      *)
(* about what must happen. In each behaviour one of them is used, the other*)
(* stays as it was made. The second one's variables begin with a_.         *)
EXTENDS MCTransmitPath

VARIABLES
    used,
    a_transmitList, a_accepted, a_transmitDataGetSem,
    a_transmitDataPutSem, a_transmitAckNackSem, a_msgResponseInfo, a_bRun,
    a_bOpen, a_api, a_sessions, a_wr, a_tx, a_bTransmissionInProgress,
    a_seq, a_frame, a_toAdapter, a_toDriver, a_atAdapter

ackVars == <<a_transmitList, a_accepted, a_transmitDataGetSem,
              a_transmitDataPutSem, a_transmitAckNackSem, a_msgResponseInfo,
              a_bRun, a_bOpen, a_api, a_sessions, a_wr, a_tx,
              a_bTransmissionInProgress, a_seq, a_frame, a_toAdapter,
              a_toDriver, a_atAdapter>>

Ack == INSTANCE TransmitPath
           WITH Writers <- OneWriter, WaitForAck <- TRUE,
                BlockingWrites <- TRUE, SeqMod <- 3, MaxMessages <- 3,
                MaxSessions <- 1,
                m_transmitList <- a_transmitList, accepted <- a_accepted,
                m_transmitDataGetSem <- a_transmitDataGetSem,
                m_transmitDataPutSem <- a_transmitDataPutSem,
                m_transmitAckNackSem <- a_transmitAckNackSem,
                msgResponseInfo <- a_msgResponseInfo, m_bRun <- a_bRun,
                m_bOpen <- a_bOpen, api <- a_api, sessions <- a_sessions,
                wr <- a_wr, tx <- a_tx,
                bTransmissionInProgress <- a_bTransmissionInProgress,
                seq <- a_seq, frame <- a_frame, toAdapter <- a_toAdapter,
                toDriver <- a_toDriver, atAdapter <- a_atAdapter

BothInit == Init /\ Ack!Init /\ used \in {"ack", "no ack"}

BothNext ==
    \/ used = "no ack" /\ Next /\ UNCHANGED <<used, ackVars>>
    \/ used = "ack" /\ Ack!Next /\ UNCHANGED <<used, vars>>

\* No step that Fairness is about can be taken in a channel that is not used.
BothSpec == BothInit /\ [][BothNext]_<<used, vars, ackVars>> /\ Ack!Fairness

\* As in TransmitPath, of the channel that waits for ACKs: an accepted message
\* reaches the adapter and leaves the list, whatever the line loses.
AckEventuallyDone == Ack!EventuallyDone

\* As in TransmitPath: a writer that waits for room gets on, without its
\* timeout.
AckBlockedWriterWakes == Ack!BlockedWriterWakes
=============================================================================
