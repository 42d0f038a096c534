--------------------------- MODULE MCReceiveQueue ---------------------------
(* ReceiveQueue for TLC, two channels in one run: one with two readers,    *)
(* signals and timeouts; one with a reader that only blocks, and a fair    *)
(* scheduler. In each behaviour one of them is used, the other stays as it *)
(* was made. The second one's variables begin with s_.                     *)
EXTENDS ReceiveQueue
CONSTANTS r1, r2

TwoReaders == {r1, r2}
OneReader  == {r1}

\* What ReceiveQueueAssumption says of Readers, of the one reader.
ASSUME SoleReaderAssumption == r1 # "RX" /\ r1 # "none"

VARIABLES
    used,
    s_receiveList, s_receiveDataSem, s_receiveMutex, s_bRun, s_bOpen, s_api,
    s_rx, s_rxLeft, s_pc, s_arrived, s_cntOverruns, s_lastRead, s_closePosts

soleVars == <<s_receiveList, s_receiveDataSem, s_receiveMutex, s_bRun, s_bOpen,
              s_api, s_rx, s_rxLeft, s_pc, s_arrived, s_cntOverruns,
              s_lastRead, s_closePosts>>

Sole == INSTANCE ReceiveQueue
            WITH Readers <- OneReader, Interrupts <- FALSE, Timeouts <- FALSE,
                 m_receiveList <- s_receiveList, m_receiveDataSem <- s_receiveDataSem,
                 m_receiveMutex <- s_receiveMutex, m_bRun <- s_bRun, m_bOpen <- s_bOpen,
                 api <- s_api, rx <- s_rx, rxLeft <- s_rxLeft, pc <- s_pc,
                 arrived <- s_arrived, cntOverruns <- s_cntOverruns,
                 lastRead <- s_lastRead, closePosts <- s_closePosts

BothInit == Init /\ Sole!Init /\ used \in {"two", "sole"}

BothNext ==
    \/ used = "two" /\ Next /\ UNCHANGED <<used, soleVars>>
    \/ used = "sole" /\ Sole!Next /\ UNCHANGED <<used, vars>>

\* No step that Fairness is about can be taken in a channel that is not used.
BothSpec == BothInit /\ [][BothNext]_<<used, vars, soleVars>> /\ Sole!Fairness

\* As in ReceiveQueue: a reader that is alone is never handed an empty queue,
\* however the RX thread's steps fall between those of readMsgBlocking.
SoleReaderAlwaysFinds == Sole!SoleReaderFindsMessage

\* As in ReceiveQueue: a reader that is alone and only blocks gets every queued
\* message in the end, and close() releases it.
SoleReaderGetsOn == Sole!QueuedIsRead /\ Sole!CloseWakesSoleReader
=============================================================================
