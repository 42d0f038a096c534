------------------------ MODULE MCReceiveQueueProofs ------------------------
(***************************************************************************)
(* The channel with one reader, of the run's two, is a ReceiveQueue with   *)
(* one reader: what ReceiveQueueProofs shows of every number of readers    *)
(* holds of it.                                                            *)
(***************************************************************************)
EXTENDS MCReceiveQueue, TLAPS

\* The theorems of ReceiveQueueProofs, of the second channel.
Shown == INSTANCE ReceiveQueueProofs
            WITH Readers <- OneReader, Interrupts <- FALSE, Timeouts <- FALSE,
                 m_receiveList <- s_receiveList, m_receiveDataSem <- s_receiveDataSem,
                 m_receiveMutex <- s_receiveMutex, m_bRun <- s_bRun, m_bOpen <- s_bOpen,
                 api <- s_api, rx <- s_rx, rxLeft <- s_rxLeft, pc <- s_pc,
                 arrived <- s_arrived, cntOverruns <- s_cntOverruns,
                 lastRead <- s_lastRead, closePosts <- s_closePosts

\* The parameters of the second channel are as ReceiveQueue wants them.
LEMMA SoleParameters == Shown!ReceiveQueueAssumption
  <1>1. Shown!IsFiniteSet(OneReader)
    <2>1. <<r1>> \in Seq(OneReader) /\ 1 \in 1..Len(<<r1>>) /\ <<r1>>[1] = r1
      BY DEF OneReader
    <2>2. \A r \in OneReader : \E n \in 1..Len(<<r1>>) : <<r1>>[n] = r
      BY <2>1 DEF OneReader
    <2>. QED
      BY <2>1, <2>2 DEF Shown!IsFiniteSet
  <1>. QED
    BY <1>1, ReceiveQueueAssumption, SoleReaderAssumption
       DEF Shown!ReceiveQueueAssumption, OneReader

LEMMA SameInit == Sole!Init => Shown!Init
  BY DEF Sole!Init, Shown!Init

LEMMA SameVars == Sole!vars = Shown!vars
  BY DEF Sole!vars, Sole!objectVars, Sole!rxVars,
         Shown!vars, Shown!objectVars, Shown!rxVars

LEMMA SameReader ==
    ASSUME NEW r \in OneReader, Sole!Reader(r)
    PROVE  Shown!Reader(r)
  BY DEF Sole!Reader, Sole!Poll, Sole!ReadBlocking, Sole!Wake,
         Sole!TimeOut, Sole!Interrupt, Sole!ReaderRuns, Sole!TestLength,
         Sole!TakeHead, Sole!FindEmpty, Sole!Drain, Sole!DrainDone,
         Sole!ReaderAt, Sole!AtMutex, Sole!Free, Sole!WithoutHead,
         Sole!HeadIsLast, Sole!objectVars, Sole!rxVars,
         Shown!Reader, Shown!Poll, Shown!ReadBlocking, Shown!Wake,
         Shown!TimeOut, Shown!Interrupt, Shown!ReaderRuns,
         Shown!TestLength, Shown!TakeHead, Shown!FindEmpty,
         Shown!Drain, Shown!DrainDone, Shown!ReaderAt,
         Shown!AtMutex, Shown!Free, Shown!WithoutHead,
         Shown!HeadIsLast, Shown!objectVars, Shown!rxVars

LEMMA SameObject ==
    Sole!OpenStart \/ Sole!OpenDone \/ Sole!CloseFlags \/ Sole!ClosePost
        \/ Sole!CloseJoin
    => Shown!OpenStart \/ Shown!OpenDone \/ Shown!CloseFlags
        \/ Shown!ClosePost \/ Shown!CloseJoin
  BY DEF Sole!OpenStart, Sole!OpenDone, Sole!CloseFlags, Sole!ClosePost,
         Sole!CloseJoin, Sole!semaphorePost, Sole!rxVars, Shown!OpenStart,
         Shown!OpenDone, Shown!CloseFlags, Shown!ClosePost,
         Shown!CloseJoin, Shown!semaphorePost, Shown!rxVars

LEMMA SameRx ==
    Sole!RxFrame \/ Sole!RxThread => Shown!RxFrame \/ Shown!RxThread
  BY DEF Sole!RxFrame, Sole!RxThread, Sole!RxStop, Sole!RxAccept,
         Sole!RxFiltered, Sole!RxOverrun, Sole!RxMalformed, Sole!RxAdd,
         Sole!RxPost, Sole!RxAfter, Sole!HasRoom, Sole!Free, Sole!RX,
         Sole!semaphorePost, Sole!objectVars,
         Shown!RxFrame, Shown!RxThread, Shown!RxStop,
         Shown!RxAccept, Shown!RxFiltered, Shown!RxOverrun,
         Shown!RxMalformed, Shown!RxAdd, Shown!RxPost,
         Shown!RxAfter, Shown!HasRoom, Shown!Free, Shown!RX,
         Shown!semaphorePost, Shown!objectVars

\* The second channel, used or not, behaves as a ReceiveQueue.
LEMMA SoleChannel == BothSpec => Shown!Spec
  <1>1. BothInit => Shown!Init
    BY SameInit DEF BothInit
  <1>2. Sole!Next => Shown!Next
    BY SameObject, SameRx, SameReader DEF Sole!Next, Shown!Next
  <1>3. [BothNext]_<<used, vars, soleVars>> => [Shown!Next]_(Shown!vars)
    BY <1>2 DEF BothNext, soleVars, Shown!vars, Shown!objectVars,
                Shown!rxVars
  <1>. QED
    BY <1>1, <1>3, PTL DEF BothSpec, Shown!Spec

\* As SoleReaderIsServed in ReceiveQueueProofs, of the channel that the run
\* checks: its reader finds a message under the mutex, unless a close()
\* interfered.
THEOREM RunSoleReaderIsServed == BothSpec => []SoleReaderAlwaysFinds
  <1>1. Shown!Spec => []Shown!SoleReaderFindsMessage
    BY SoleParameters, Shown!SoleReaderIsServed
       DEF Shown!ReceiveQueueAssumption
  <1>2. Sole!Cardinality(OneReader) = Shown!Cardinality(OneReader)
    BY DEF Sole!Cardinality, Shown!Cardinality
  <1>3. Shown!SoleReaderFindsMessage => SoleReaderAlwaysFinds
    BY <1>2 DEF Shown!SoleReaderFindsMessage, SoleReaderAlwaysFinds,
                Sole!SoleReaderFindsMessage
  <1>. QED
    BY <1>1, <1>3, SoleChannel, PTL
=============================================================================
