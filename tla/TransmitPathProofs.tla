------------------------- MODULE TransmitPathProofs -------------------------
(***************************************************************************)
(* The transmit path for any number of writers, any list size, any range   *)
(* of sequence numbers and any delay of replies: its types, that a message *)
(* leaves the list in "wait for ACK" mode only when the adapter has it,    *)
(* that the path implements Outbox, that without ACKs nothing is sent      *)
(* twice, and bounds on the list and on the stale tokens.                  *)
(***************************************************************************)
EXTENDS TransmitPath, FiniteSetTheorems, SequenceTheorems, TLAPS

\* The sequence number that msgResponseInfo is about.
Armed(seqno) == seqno = msgResponseInfo.seq
Waiting      == msgResponseInfo.bWaitingForAckNack
HeadIsDelivered == m_transmitList # <<>> /\ Head(m_transmitList) = atAdapter

\* A closed channel has no TX thread and nothing on the line.
ClosedIsQuiet ==
    /\ api = "closed" => tx = "exit" /\ toAdapter = <<>> /\ toDriver = <<>>
    /\ api # "closed" => sessions >= 1

\* Where the TX thread is tells what it is doing.
TxPlace ==
    /\ bTransmissionInProgress => WaitForAck
    /\ tx \in {"waitAck", "readAck"} => bTransmissionInProgress
    /\ tx = "pop" /\ WaitForAck =>
            bTransmissionInProgress /\ msgResponseInfo.bAck
    /\ tx = "pop" => m_transmitList # <<>>
    /\ tx \in {"arm", "send"} =>
            m_transmitList # <<>> /\ frame.msg = Head(m_transmitList)
    /\ tx = "send" => Waiting /\ ~msgResponseInfo.bAck /\ Armed(frame.seq)

\* Every frame on its way to the adapter carries the head of the list: an
\* older message's frames are gone when its ACK is accepted.
FramesCarryHead ==
    WaitForAck => \A i \in 1..Len(toAdapter) :
        m_transmitList # <<>> /\ toAdapter[i].msg = Head(m_transmitList)

\* Only the last frame may bear the armed sequence number, and before it is
\* sent nothing on the line bears it.
ArmedIsLast ==
    /\ \A i \in 1..Len(toAdapter) :
            Armed(toAdapter[i].seq) => i = Len(toAdapter)
    /\ tx = "send" =>
            /\ \A i \in 1..Len(toAdapter) : ~Armed(toAdapter[i].seq)
            /\ \A i \in 1..Len(toDriver) : ~Armed(toDriver[i].seq)

\* An awaited ACK on its way back is about the head of the list, and nothing
\* is left on the way to the adapter.
AwaitedAckIsTrue ==
    (WaitForAck /\ Waiting) => \A i \in 1..Len(toDriver) :
        Armed(toDriver[i].seq) =>
            /\ toAdapter = <<>>
            /\ toDriver[i].type = "ACK" => HeadIsDelivered

\* So is one that the RX thread has noted.
NotedAckIsTrue ==
    (WaitForAck /\ msgResponseInfo.bAck) =>
        /\ ~Waiting
        /\ toAdapter = <<>>
        /\ bTransmissionInProgress => HeadIsDelivered

IInv ==
    /\ TypeOK
    /\ ClosedIsQuiet
    /\ TxPlace
    /\ InProgressIsQueued
    /\ FramesCarryHead
    /\ ArmedIsLast
    /\ AwaitedAckIsTrue
    /\ NotedAckIsTrue

\* How many tokens m_transmitAckNackSem can hold or still get: two for every
\* session but the last and its close(), one less between a wait and the
\* next arming.
MayWait == tx \in {"waitAck", "send", "exit"}
              \/ (tx = "loop" /\ bTransmissionInProgress)

TokenBudget ==
    WaitForAck =>
        m_transmitAckNackSem + (IF Waiting THEN 1 ELSE 0)
            <= 2 * sessions - 1 + (IF MayWait THEN 1 ELSE 0)
                 + (IF api \in {"joining", "closed"} THEN 1 ELSE 0)

\* Writers past the room test.
Adding == {w \in Writers : wr[w] = "add"}
WritersFit ==
    ~BlockingWrites =>
        /\ \A w \in Writers : wr[w] \notin {"testBlocking", "waitPut"}
        /\ Len(m_transmitList) + Cardinality(Adding)
               <= CAN4VSCP_MAX_SNDMSG + Cardinality(Writers)

\* Positions in the list whose message has not been sent: all of them, except
\* the first when the TX thread is about to remove it.
Unsent(i) == i \in 1..Len(m_transmitList) /\ (tx = "pop" => i > 1)

\* Messages stand in the list, and are on the line, in the order of their
\* acceptance.
InOrder ==
    /\ \A i, j \in 1..Len(m_transmitList) :
            i < j => m_transmitList[i] < m_transmitList[j]
    /\ \A i, j \in 1..Len(toAdapter) :
            i < j => toAdapter[i].msg < toAdapter[j].msg

\* None is later than the last one accepted.
Numbered ==
    /\ \A i \in 1..Len(m_transmitList) : m_transmitList[i] <= accepted
    /\ \A k \in 1..Len(toAdapter) : toAdapter[k].msg <= accepted
    /\ atAdapter <= accepted

\* What the adapter has is older than what is on the line, and both are older
\* than what has not been sent.
SentBefore ==
    /\ \A k \in 1..Len(toAdapter) : atAdapter < toAdapter[k].msg
    /\ \A i \in 1..Len(m_transmitList) : Unsent(i) =>
            /\ atAdapter < m_transmitList[i]
            /\ \A k \in 1..Len(toAdapter) :
                    toAdapter[k].msg < m_transmitList[i]

SentOnce == ~WaitForAck => InOrder /\ Numbered /\ SentBefore

-----------------------------------------------------------------------------
(* Steps that leave the list, the awaited reply and the line alone.        *)

LEMMA SameLine ==
    ASSUME IInv,
           UNCHANGED <<m_transmitList, msgResponseInfo, lineVars,
                       bTransmissionInProgress>>,
           tx' = "send" => tx = "send"
    PROVE  /\ InProgressIsQueued' /\ FramesCarryHead' /\ ArmedIsLast'
           /\ AwaitedAckIsTrue' /\ NotedAckIsTrue'
  <1>. USE DEF IInv, lineVars
  <1>1. InProgressIsQueued'
    BY DEF InProgressIsQueued
  <1>2. FramesCarryHead'
    BY DEF FramesCarryHead
  <1>3. ArmedIsLast'
    BY DEF ArmedIsLast, Armed
  <1>4. AwaitedAckIsTrue'
    BY DEF AwaitedAckIsTrue, Armed, Waiting, HeadIsDelivered
  <1>5. NotedAckIsTrue'
    BY DEF NotedAckIsTrue, Waiting, HeadIsDelivered
  <1>. QED
    BY <1>1, <1>2, <1>3, <1>4, <1>5

\* open() has set m_bOpen, close() has cleared the flags or posted.
ApiStep == OpenDone \/ CloseFlags \/ ClosePosts

LEMMA ApiInv ==
    ASSUME IInv, ApiStep
    PROVE  IInv'
  <1>. USE DEF ApiStep, OpenDone, CloseFlags, ClosePosts, txVars, listVars,
               semaphorePost
  <1>1. TypeOK'
    <2>1. CASE OpenDone \/ CloseFlags
      BY <2>1 DEF IInv, TypeOK, lineVars, semVars
    <2>2. CASE ClosePosts
      BY <2>2 DEF IInv, TypeOK, lineVars
    <2>. QED
      BY <2>1, <2>2
  <1>2. ClosedIsQuiet'
    BY DEF IInv, ClosedIsQuiet, lineVars
  <1>3. TxPlace'
    BY DEF IInv, TxPlace, Waiting, Armed
  <1>. QED
    BY <1>1, <1>2, <1>3, SameLine DEF IInv

\* A writer that is not appending.
WriterMoves(w) ==
    \/ WriteMsg(w) \/ WriteMsgBlocking(w) \/ TestRoom(w) \/ WakeWriter(w)
    \/ WriterTimeout(w) \/ PostGet(w)

LEMMA WriterMovesInv ==
    ASSUME IInv, NEW w \in Writers, WriterMoves(w)
    PROVE  IInv'
  <1>1. UNCHANGED <<listVars, msgResponseInfo, apiVars, txVars, lineVars>>
    BY DEF WriterMoves, WriteMsg, WriteMsgBlocking, TestRoom, WakeWriter,
           WriterTimeout, PostGet
  <1>2. wr' \in [Writers -> {"idle", "test", "testBlocking", "waitPut", "add",
                             "post"}]
    BY DEF IInv, TypeOK, WriterMoves, WriteMsg, WriteMsgBlocking, TestRoom,
           WakeWriter, WriterTimeout, PostGet, WriterAt
  <1>3. /\ m_transmitDataGetSem' \in Nat /\ m_transmitDataPutSem' \in Nat
        /\ m_transmitAckNackSem' \in Nat
    BY DEF IInv, TypeOK, WriterMoves, WriteMsg, WriteMsgBlocking, TestRoom,
           WakeWriter, WriterTimeout, PostGet, semVars, semaphorePost,
           tokenTaken
  <1>4. TypeOK'
    BY <1>1, <1>2, <1>3
       DEF IInv, TypeOK, listVars, apiVars, txVars, lineVars
  <1>5. ClosedIsQuiet' /\ TxPlace'
    BY <1>1 DEF IInv, ClosedIsQuiet, TxPlace, Waiting, Armed, listVars,
                apiVars, txVars, lineVars
  <1>. QED
    BY <1>1, <1>4, <1>5, SameLine DEF IInv, listVars, txVars

\* The TX thread between its waits and transmitMessage.
TxMoves ==
    \/ TxLoop \/ TxWakeAck \/ TxAckTimeout \/ TxReadAck \/ TxPostPut
    \/ TxCheckList \/ TxWakeGet \/ TxGetTimeout \/ TxNothingToSend

LEMMA TxMovesInv ==
    ASSUME IInv, TxMoves
    PROVE  IInv'
  <1>1. UNCHANGED <<listVars, msgResponseInfo, apiVars, wr,
                    bTransmissionInProgress, seq, frame, lineVars>>
    BY DEF TxMoves, TxLoop, TxWakeAck, TxAckTimeout, TxReadAck, TxPostPut,
           TxCheckList, TxWakeGet, TxGetTimeout, TxNothingToSend
  <1>2. /\ tx # "exit"
        /\ tx' \in {"exit", "loop", "waitAck", "readAck", "pop", "checkList",
                    "waitGet", "transmit"}
        /\ tx' \in {"waitAck", "readAck"} =>
                WaitForAck /\ bTransmissionInProgress
        /\ tx' = "pop" => bTransmissionInProgress /\ msgResponseInfo.bAck
    BY DEF IInv, TxPlace, TxMoves, TxLoop, TxWakeAck, TxAckTimeout, TxReadAck,
           TxPostPut, TxCheckList, TxWakeGet, TxGetTimeout, TxNothingToSend,
           TxAt
  <1>3. /\ m_transmitDataGetSem' \in Nat /\ m_transmitDataPutSem' \in Nat
        /\ m_transmitAckNackSem' \in Nat
    <2>1. /\ m_transmitDataGetSem \in Nat /\ m_transmitDataPutSem \in Nat
          /\ m_transmitAckNackSem \in Nat
      BY DEF IInv, TypeOK
    <2>2. CASE TxWakeAck
      BY <2>1, <2>2 DEF TxWakeAck, tokenTaken
    <2>3. CASE TxWakeGet
      BY <2>1, <2>3 DEF TxWakeGet, tokenTaken
    <2>4. CASE TxPostPut
      BY <2>1, <2>4 DEF TxPostPut, semaphorePost
    <2>5. CASE UNCHANGED semVars
      BY <2>1, <2>5 DEF semVars
    <2>. QED
      BY <2>2, <2>3, <2>4, <2>5 DEF TxMoves, TxLoop, TxAckTimeout, TxReadAck,
         TxCheckList, TxGetTimeout, TxNothingToSend
  <1>4. TypeOK'
    BY <1>1, <1>2, <1>3 DEF IInv, TypeOK, listVars, apiVars, lineVars
  <1>5. ClosedIsQuiet'
    BY <1>1, <1>2 DEF IInv, ClosedIsQuiet, apiVars, lineVars
  <1>6. TxPlace'
    BY <1>1, <1>2 DEF IInv, TxPlace, InProgressIsQueued, listVars
  <1>. QED
    BY <1>1, <1>2, <1>4, <1>5, <1>6, SameLine DEF IInv, listVars

-----------------------------------------------------------------------------
(* Steps that start and end a session.                                     *)

\* A new session: nothing is on the line, so nothing is awaited wrongly.
LEMMA OpenStartInv ==
    ASSUME IInv, OpenStart
    PROVE  IInv'
  <1>1. /\ toAdapter' = <<>> /\ toDriver' = <<>>
        /\ Len(toAdapter') = 0 /\ Len(toDriver') = 0
    BY DEF OpenStart, IInv, ClosedIsQuiet, lineVars
  <1>2. TypeOK'
    <2>1. 0 \in 0..SeqMod - 1
      BY TransmitPathAssumption
    <2>2. msgResponseInfo' \in [bWaitingForAckNack : BOOLEAN, bAck : BOOLEAN,
                                seq : 0..SeqMod - 1]
      BY <2>1 DEF OpenStart, NoResponse
    <2>3. /\ UNCHANGED <<m_transmitList, accepted, m_transmitDataGetSem,
                         m_transmitDataPutSem, m_transmitAckNackSem, m_bOpen,
                         wr, frame, toAdapter, toDriver, atAdapter>>
          /\ api' = "opening" /\ sessions' = sessions + 1 /\ m_bRun' = TRUE
          /\ tx' = "loop" /\ bTransmissionInProgress' = FALSE /\ seq' = 0
      BY DEF OpenStart, listVars, semVars, lineVars
    <2>4. sessions' \in Nat /\ seq' \in 0..SeqMod - 1
      BY <2>1, <2>3 DEF IInv, TypeOK
    <2>. QED
      BY <2>2, <2>3, <2>4 DEF IInv, TypeOK
  <1>3. ClosedIsQuiet' /\ TxPlace' /\ InProgressIsQueued'
    BY DEF OpenStart, IInv, TypeOK, ClosedIsQuiet, TxPlace,
           InProgressIsQueued
  <1>4. FramesCarryHead' /\ ArmedIsLast' /\ AwaitedAckIsTrue' /\ NotedAckIsTrue'
    BY <1>1 DEF OpenStart, NoResponse, FramesCarryHead, ArmedIsLast,
                AwaitedAckIsTrue, NotedAckIsTrue, Waiting
  <1>. QED
    BY <1>2, <1>3, <1>4 DEF IInv

LEMMA CloseJoinInv ==
    ASSUME IInv, CloseJoin
    PROVE  IInv'
  <1>. USE DEF CloseJoin, txVars
  <1>1. /\ toAdapter' = <<>> /\ toDriver' = <<>>
        /\ Len(toAdapter') = 0 /\ Len(toDriver') = 0
    OBVIOUS
  <1>2. TypeOK'
    BY <1>1, EmptySeq DEF IInv, TypeOK, listVars, semVars
  <1>3. ClosedIsQuiet' /\ TxPlace' /\ InProgressIsQueued'
    BY DEF IInv, ClosedIsQuiet, TxPlace, InProgressIsQueued, listVars
  <1>4. FramesCarryHead' /\ ArmedIsLast' /\ AwaitedAckIsTrue'
    BY <1>1 DEF FramesCarryHead, ArmedIsLast, AwaitedAckIsTrue
  <1>5. NotedAckIsTrue'
    BY <1>1 DEF IInv, NotedAckIsTrue, Waiting, HeadIsDelivered, listVars
  <1>. QED
    BY <1>2, <1>3, <1>4, <1>5 DEF IInv

-----------------------------------------------------------------------------
(* Steps that change the list.                                             *)

\* An append leaves the head of a non-empty list where it is.
LEMMA AddToListInv ==
    ASSUME IInv, NEW w \in Writers, AddToList(w)
    PROVE  IInv'
  <1>. USE DEF AddToList, txVars, lineVars
  <1>1. /\ m_transmitList' \in Seq(Nat) /\ m_transmitList' # <<>>
        /\ m_transmitList # <<>> => Head(m_transmitList') = Head(m_transmitList)
    <2>1. accepted' \in Nat /\ m_transmitList \in Seq(Nat)
      BY DEF IInv, TypeOK
    <2>2. /\ Append(m_transmitList, accepted') \in Seq(Nat)
          /\ Append(m_transmitList, accepted') # <<>>
      BY <2>1, AppendProperties
    <2>3. ASSUME m_transmitList # <<>>
          PROVE  Head(Append(m_transmitList, accepted')) = Head(m_transmitList)
      <3>1. 1 \in 1..Len(m_transmitList)
        BY <2>1, <2>3, EmptySeq
      <3>2. Append(m_transmitList, accepted')[1] = m_transmitList[1]
        BY <2>1, <3>1, AppendProperties
      <3>. QED
        BY <2>1, <2>2, <2>3, <3>2
    <2>. QED
      BY <2>2, <2>3
  <1>2. TypeOK'
    BY <1>1 DEF IInv, TypeOK, WriterAt, semVars, apiVars
  <1>3. ClosedIsQuiet' /\ TxPlace' /\ InProgressIsQueued'
    BY <1>1 DEF IInv, ClosedIsQuiet, TxPlace, InProgressIsQueued, Waiting,
                Armed, apiVars
  <1>4. FramesCarryHead' /\ ArmedIsLast'
    BY <1>1 DEF IInv, FramesCarryHead, ArmedIsLast, Armed
  <1>5. AwaitedAckIsTrue' /\ NotedAckIsTrue'
    BY <1>1 DEF IInv, AwaitedAckIsTrue, NotedAckIsTrue, Armed, Waiting,
                HeadIsDelivered
  <1>. QED
    BY <1>2, <1>3, <1>4, <1>5 DEF IInv

\* A removal: the reply was an ACK, so nothing is on its way to the adapter
\* and nothing is awaited any more.
LEMMA TxPopInv ==
    ASSUME IInv, TxPop
    PROVE  IInv'
  <1>. USE DEF TxPop, TxAt, AfterRemoval, lineVars
  <1>1. m_transmitList # <<>> /\ m_transmitList' = Tail(m_transmitList)
        /\ tx' = "postPut"
    BY DEF IInv, TxPlace, WithoutHead
  <1>2. m_transmitList' \in Seq(Nat)
    BY <1>1, HeadTailProperties DEF IInv, TypeOK
  <1>3. TypeOK'
    BY <1>1, <1>2 DEF IInv, TypeOK, semVars, apiVars
  <1>4. ClosedIsQuiet' /\ TxPlace' /\ InProgressIsQueued'
    BY <1>1 DEF IInv, ClosedIsQuiet, TxPlace, InProgressIsQueued, apiVars
  <1>5. WaitForAck => toAdapter = <<>> /\ ~Waiting /\ msgResponseInfo.bAck
    BY DEF IInv, TxPlace, NotedAckIsTrue
  <1>6. WaitForAck => Len(toAdapter) = 0
    BY <1>5, EmptySeq
  <1>7. FramesCarryHead' /\ ArmedIsLast'
    BY <1>1, <1>6 DEF IInv, FramesCarryHead, ArmedIsLast, Armed
  <1>8. AwaitedAckIsTrue' /\ NotedAckIsTrue'
    BY <1>5 DEF IInv, AwaitedAckIsTrue, NotedAckIsTrue, Waiting
  <1>. QED
    BY <1>3, <1>4, <1>7, <1>8 DEF IInv

-----------------------------------------------------------------------------
(* transmitMessage.                                                        *)

LEMMA TxFetchInv ==
    ASSUME IInv, TxFetch
    PROVE  IInv'
  <1>. USE DEF TxFetch, TxAt, NextSeq
  <1>1. Head(m_transmitList) \in Nat /\ seq' \in 0..SeqMod - 1
    BY HeadTailProperties, TransmitPathAssumption DEF IInv, TypeOK
  <1>2. frame' \in [seq : 0..SeqMod - 1, msg : Nat]
    BY <1>1 DEF IInv, TypeOK
  <1>3. TypeOK'
    BY <1>1, <1>2 DEF IInv, TypeOK, listVars, semVars, apiVars, lineVars
  <1>4. ClosedIsQuiet' /\ TxPlace'
    BY DEF IInv, ClosedIsQuiet, TxPlace, apiVars, lineVars, listVars
  <1>. QED
    BY <1>3, <1>4, SameLine DEF IInv, listVars

\* Arming with a fresh sequence number: nothing on the line bears it.
LEMMA TxArmInv ==
    ASSUME IInv, TxArm
    PROVE  IInv'
  <1>. USE DEF TxArm, TxAt, ArmedAck, ArmedSeq, lineVars, listVars
  <1>1. TypeOK'
    BY DEF IInv, TypeOK, semVars, apiVars
  <1>2. ClosedIsQuiet' /\ TxPlace' /\ InProgressIsQueued'
    BY DEF IInv, ClosedIsQuiet, TxPlace, InProgressIsQueued, Waiting, Armed,
           apiVars
  <1>3. FramesCarryHead' /\ ArmedIsLast'
    BY DEF IInv, FramesCarryHead, ArmedIsLast, Armed, SeqIsFresh
  <1>4. AwaitedAckIsTrue' /\ NotedAckIsTrue'
    BY DEF AwaitedAckIsTrue, NotedAckIsTrue, Armed, SeqIsFresh
  <1>. QED
    BY <1>1, <1>2, <1>3, <1>4 DEF IInv

\* The frame that carries the armed sequence number becomes the last.
LEMMA TxSendInv ==
    ASSUME IInv, TxSend
    PROVE  IInv'
  <1>. USE DEF TxSend, TxAt, listVars
  <1>1. /\ toAdapter' \in Seq([seq : 0..SeqMod - 1, msg : Nat])
        /\ Len(toAdapter') = Len(toAdapter) + 1
        /\ \A i \in 1..Len(toAdapter) : toAdapter'[i] = toAdapter[i]
        /\ toAdapter'[Len(toAdapter) + 1] = frame
        /\ Len(toAdapter) \in Nat
    BY AppendProperties, LenProperties DEF IInv, TypeOK
  <1>2. TypeOK'
    BY <1>1, TransmitPathAssumption DEF IInv, TypeOK, semVars, apiVars
  <1>3. ClosedIsQuiet' /\ TxPlace' /\ InProgressIsQueued'
    BY DEF IInv, ClosedIsQuiet, TxPlace, InProgressIsQueued, apiVars
  <1>4. FramesCarryHead'
    BY <1>1 DEF IInv, FramesCarryHead, TxPlace
  <1>5. ArmedIsLast'
    BY <1>1 DEF IInv, ArmedIsLast, Armed
  <1>6. AwaitedAckIsTrue' /\ NotedAckIsTrue'
    BY DEF IInv, AwaitedAckIsTrue, NotedAckIsTrue, ArmedIsLast, Armed,
           Waiting, TxPlace
  <1>. QED
    BY <1>2, <1>3, <1>4, <1>5, <1>6 DEF IInv

LEMMA TxSendFailsInv ==
    ASSUME IInv, TxSendFails
    PROVE  IInv'
  <1>. USE DEF TxSendFails, TxAt, lineVars, listVars
  <1>1. TypeOK'
    BY DEF IInv, TypeOK, semVars, apiVars
  <1>2. ClosedIsQuiet' /\ TxPlace' /\ InProgressIsQueued'
    BY DEF IInv, ClosedIsQuiet, TxPlace, InProgressIsQueued, apiVars
  <1>3. FramesCarryHead' /\ ArmedIsLast'
    BY DEF IInv, FramesCarryHead, ArmedIsLast, Armed, TypeOK
  <1>4. AwaitedAckIsTrue' /\ NotedAckIsTrue'
    BY DEF IInv, AwaitedAckIsTrue, NotedAckIsTrue, Waiting, TypeOK, TxPlace
  <1>. QED
    BY <1>1, <1>2, <1>3, <1>4 DEF IInv

-----------------------------------------------------------------------------
(* The line, the adapter and the RX thread.                                *)

\* What is left of a line when its first frame is gone.
LEMMA WithoutFirst ==
    ASSUME NEW S, NEW line \in Seq(S), line # <<>>
    PROVE  /\ Head(line) = line[1] /\ line[1] \in S
           /\ Len(line) \in Nat \ {0}
           /\ Tail(line) \in Seq(S)
           /\ Len(Tail(line)) = Len(line) - 1
           /\ \A i \in 1..Len(Tail(line)) : Tail(line)[i] = line[i + 1]
           /\ Len(line) = 1 => Tail(line) = <<>>
  BY HeadTailProperties, EmptySeq, ElementOfSeq

\* A frame leaves the way to the adapter, answered or lost.
LEMMA FrameGone ==
    ASSUME IInv, toAdapter # <<>>, toAdapter' = Tail(toAdapter)
    PROVE  /\ toAdapter' \in Seq([seq : 0..SeqMod - 1, msg : Nat])
           /\ Len(toAdapter) \in Nat \ {0}
           /\ Len(toAdapter') = Len(toAdapter) - 1
           /\ \A i \in 1..Len(toAdapter') :
                  toAdapter'[i] = toAdapter[i + 1] /\ i + 1 \in 1..Len(toAdapter)
           /\ Head(toAdapter) = toAdapter[1] /\ 1 \in 1..Len(toAdapter)
           /\ Head(toAdapter).seq \in 0..SeqMod - 1
           /\ Head(toAdapter).msg \in Nat
           /\ Armed(Head(toAdapter).seq) => toAdapter' = <<>>
  <1>1. /\ toAdapter[1] \in [seq : 0..SeqMod - 1, msg : Nat]
        /\ Head(toAdapter) = toAdapter[1]
        /\ Len(toAdapter) \in Nat \ {0}
        /\ toAdapter' \in Seq([seq : 0..SeqMod - 1, msg : Nat])
        /\ Len(toAdapter') = Len(toAdapter) - 1
        /\ \A i \in 1..Len(toAdapter') : toAdapter'[i] = toAdapter[i + 1]
        /\ Len(toAdapter) = 1 => toAdapter' = <<>>
    <2>1. toAdapter \in Seq([seq : 0..SeqMod - 1, msg : Nat])
      BY DEF IInv, TypeOK
    <2>. QED
      BY <2>1, WithoutFirst
  <1>2. 1 \in 1..Len(toAdapter)
    BY <1>1
  <1>3. Armed(toAdapter[1].seq) => Len(toAdapter) = 1
    BY <1>2 DEF IInv, ArmedIsLast
  <1>. QED
    BY <1>1, <1>2, <1>3

\* The first frame is lost.
LEMMA LoseFrameInv ==
    ASSUME IInv, LoseFrame
    PROVE  IInv'
  <1>. USE DEF LoseFrame, txVars, listVars
  <1>1. TypeOK'
    BY FrameGone DEF IInv, TypeOK, semVars, apiVars
  <1>2. ClosedIsQuiet' /\ TxPlace' /\ InProgressIsQueued'
    BY DEF IInv, ClosedIsQuiet, TxPlace, InProgressIsQueued, Waiting, Armed,
           apiVars
  <1>3. FramesCarryHead' /\ ArmedIsLast'
    BY FrameGone DEF IInv, FramesCarryHead, ArmedIsLast, Armed
  <1>4. AwaitedAckIsTrue' /\ NotedAckIsTrue'
    BY DEF IInv, AwaitedAckIsTrue, NotedAckIsTrue, Armed, Waiting,
           HeadIsDelivered
  <1>. QED
    BY <1>1, <1>2, <1>3, <1>4 DEF IInv

\* The first frame is answered. If it bears the armed number nothing else is
\* on the way to the adapter, and an ACK for it is about the list's head.
LEMMA AnswerInv ==
    ASSUME IInv, AdapterAccepts \/ AdapterRejects
    PROVE  IInv'
  <1>. DEFINE type == IF AdapterAccepts THEN "ACK" ELSE "NACK"
              reply == toDriver'[Len(toDriver) + 1]
  <1>1. /\ toAdapter # <<>> /\ toAdapter' = Tail(toAdapter)
        /\ toDriver' = Append(toDriver,
                              [type |-> type, seq |-> Head(toAdapter).seq])
        /\ type = "ACK" => atAdapter' = Head(toAdapter).msg
        /\ type # "ACK" => atAdapter' = atAdapter
        /\ type \in {"ACK", "NACK"}
        /\ UNCHANGED <<listVars, semVars, msgResponseInfo, apiVars, wr, txVars>>
    BY DEF AdapterAccepts, AdapterRejects, Answer
  <1>. HIDE DEF type
  <1>2. /\ toDriver' \in Seq([type : {"ACK", "NACK"}, seq : 0..SeqMod - 1])
        /\ Len(toDriver') = Len(toDriver) + 1 /\ Len(toDriver) \in Nat
        /\ \A i \in 1..Len(toDriver) : toDriver'[i] = toDriver[i]
        /\ reply = [type |-> type, seq |-> Head(toAdapter).seq]
    <2>1. [type |-> type, seq |-> Head(toAdapter).seq]
            \in [type : {"ACK", "NACK"}, seq : 0..SeqMod - 1]
      BY <1>1, FrameGone
    <2>2. toDriver \in Seq([type : {"ACK", "NACK"}, seq : 0..SeqMod - 1])
      BY DEF IInv, TypeOK
    <2>. QED
      BY <1>1, <2>1, <2>2, AppendProperties, LenProperties
  <1>3. TypeOK'
    <2>1. atAdapter' \in Nat
      BY <1>1, FrameGone DEF IInv, TypeOK
    <2>. QED
      BY <1>1, <1>2, <2>1, FrameGone
         DEF IInv, TypeOK, listVars, semVars, apiVars, txVars
  <1>4. ClosedIsQuiet' /\ TxPlace' /\ InProgressIsQueued'
    BY <1>1 DEF IInv, ClosedIsQuiet, TxPlace, InProgressIsQueued, Waiting,
                Armed, apiVars, txVars, listVars
  <1>5. FramesCarryHead'
    BY <1>1, FrameGone DEF IInv, FramesCarryHead, listVars
  <1>6. ArmedIsLast'
    <2>1. \A i \in 1..Len(toAdapter') :
              Armed(toAdapter[i + 1].seq) => i = Len(toAdapter')
      BY <1>1, FrameGone DEF IInv, ArmedIsLast
    <2>2. tx = "send" => ~Armed(reply.seq)
      BY <1>1, <1>2, FrameGone DEF IInv, ArmedIsLast
    <2>. QED
      BY <1>1, <1>2, <2>1, <2>2, FrameGone
         DEF IInv, ArmedIsLast, Armed, txVars
  <1>7. AwaitedAckIsTrue'
    <2>. SUFFICES ASSUME WaitForAck, Waiting,
                         NEW i \in 1..Len(toDriver'), Armed(toDriver'[i].seq)
                  PROVE  /\ toAdapter' = <<>>
                         /\ toDriver'[i].type = "ACK" => HeadIsDelivered'
      BY <1>1 DEF AwaitedAckIsTrue, Waiting, Armed
    <2>1. i = Len(toDriver) + 1
      BY <1>1, <1>2 DEF IInv, AwaitedAckIsTrue
    <2>2. toAdapter' = <<>>
      BY <1>1, <1>2, <2>1, FrameGone
    <2>3. type = "ACK" => HeadIsDelivered'
      BY <1>1, FrameGone DEF IInv, FramesCarryHead, HeadIsDelivered, listVars
    <2>. QED
      BY <1>2, <2>1, <2>2, <2>3
  <1>8. NotedAckIsTrue'
    BY <1>1 DEF IInv, NotedAckIsTrue
  <1>. QED
    BY <1>3, <1>4, <1>5, <1>6, <1>7, <1>8 DEF IInv

\* A reply leaves the way back, read or lost.
LEMMA ReplyGone ==
    ASSUME IInv, toDriver # <<>>, toDriver' = Tail(toDriver)
    PROVE  /\ toDriver' \in Seq([type : {"ACK", "NACK"}, seq : 0..SeqMod - 1])
           /\ \A i \in 1..Len(toDriver') :
                 toDriver'[i] = toDriver[i + 1] /\ i + 1 \in 1..Len(toDriver)
           /\ Head(toDriver) = toDriver[1] /\ 1 \in 1..Len(toDriver)
  <1>1. toDriver \in Seq([type : {"ACK", "NACK"}, seq : 0..SeqMod - 1])
    BY DEF IInv, TypeOK
  <1>. QED
    BY <1>1, WithoutFirst

LEMMA ReplyDroppedInv ==
    ASSUME IInv, LoseReply \/ RxIgnore
    PROVE  IInv'
  <1>1. /\ toDriver # <<>> /\ toDriver' = Tail(toDriver)
        /\ UNCHANGED <<listVars, semVars, msgResponseInfo, apiVars, wr, txVars,
                       toAdapter, atAdapter>>
        /\ api # "closed"
    BY DEF LoseReply, RxIgnore, RxRuns, IInv, ClosedIsQuiet
  <1>. USE DEF listVars, txVars
  <1>2. TypeOK'
    BY <1>1, ReplyGone DEF IInv, TypeOK, semVars, apiVars
  <1>3. ClosedIsQuiet' /\ TxPlace' /\ InProgressIsQueued'
    BY <1>1 DEF IInv, ClosedIsQuiet, TxPlace, InProgressIsQueued, Waiting,
                Armed, apiVars
  <1>4. FramesCarryHead' /\ ArmedIsLast'
    BY <1>1, ReplyGone DEF IInv, FramesCarryHead, ArmedIsLast, Armed
  <1>5. AwaitedAckIsTrue' /\ NotedAckIsTrue'
    BY <1>1, ReplyGone DEF IInv, AwaitedAckIsTrue, NotedAckIsTrue, Armed,
                           Waiting, HeadIsDelivered
  <1>. QED
    BY <1>2, <1>3, <1>4, <1>5 DEF IInv

\* The awaited reply: an ACK is noted only when it is about the list's head.
LEMMA RxMatchInv ==
    ASSUME IInv, RxMatch
    PROVE  IInv'
  <1>. USE DEF listVars, txVars
  <1>1. /\ toDriver # <<>> /\ toDriver' = Tail(toDriver)
        /\ UNCHANGED <<listVars, apiVars, wr, txVars, toAdapter, atAdapter,
                       m_transmitDataGetSem, m_transmitDataPutSem>>
        /\ WaitForAck /\ Waiting /\ Armed(Head(toDriver).seq)
        /\ m_transmitAckNackSem' = m_transmitAckNackSem + 1
        /\ api # "closed"
    BY DEF RxMatch, Awaited, Waiting, Armed, RxRuns, semaphorePost
  <1>2. /\ msgResponseInfo' \in [bWaitingForAckNack : BOOLEAN, bAck : BOOLEAN,
                                 seq : 0..SeqMod - 1]
        /\ msgResponseInfo'.seq = msgResponseInfo.seq
        /\ ~msgResponseInfo'.bWaitingForAckNack
        /\ msgResponseInfo'.bAck <=> Head(toDriver).type = "ACK"
    BY DEF RxMatch, IInv, TypeOK
  <1>3. /\ toAdapter = <<>>
        /\ msgResponseInfo'.bAck => HeadIsDelivered
    BY <1>1, <1>2, ReplyGone DEF IInv, AwaitedAckIsTrue
  <1>4. tx # "send"
    BY <1>1, ReplyGone DEF IInv, ArmedIsLast
  <1>5. TypeOK'
    BY <1>1, <1>2, ReplyGone DEF IInv, TypeOK, apiVars
  <1>6. ClosedIsQuiet' /\ InProgressIsQueued'
    BY <1>1 DEF IInv, ClosedIsQuiet, InProgressIsQueued, apiVars
  <1>7. TxPlace'
    BY <1>1, <1>4 DEF IInv, TxPlace, NotedAckIsTrue
  <1>8. FramesCarryHead' /\ ArmedIsLast'
    BY <1>1, <1>2, <1>4 DEF IInv, FramesCarryHead, ArmedIsLast, Armed
  <1>9. AwaitedAckIsTrue' /\ NotedAckIsTrue'
    BY <1>1, <1>2, <1>3
       DEF AwaitedAckIsTrue, NotedAckIsTrue, Waiting, HeadIsDelivered
  <1>. QED
    BY <1>5, <1>6, <1>7, <1>8, <1>9 DEF IInv

-----------------------------------------------------------------------------

LEMMA InitIInv == Init => IInv
  <1>. SUFFICES ASSUME Init PROVE IInv
    OBVIOUS
  <1>. USE DEF Init, NoResponse
  <1>1. TypeOK
    <2>1. 0 \in 0..SeqMod - 1
      BY TransmitPathAssumption
    <2>. QED
      BY <2>1, EmptySeq DEF TypeOK
  <1>2. ClosedIsQuiet /\ TxPlace /\ InProgressIsQueued
    BY DEF ClosedIsQuiet, TxPlace, InProgressIsQueued
  <1>3. FramesCarryHead /\ ArmedIsLast /\ AwaitedAckIsTrue /\ NotedAckIsTrue
    BY DEF FramesCarryHead, ArmedIsLast, AwaitedAckIsTrue, NotedAckIsTrue,
           Waiting
  <1>. QED
    BY <1>1, <1>2, <1>3 DEF IInv

LEMMA NextIInv == IInv /\ [Next]_vars => IInv'
  <1>. SUFFICES ASSUME IInv, [Next]_vars PROVE IInv'
    OBVIOUS
  <1>1. CASE OpenStart \/ OpenDone \/ CloseFlags \/ ClosePosts \/ CloseJoin
    BY <1>1, OpenStartInv, ApiInv, CloseJoinInv DEF ApiStep
  <1>2. ASSUME NEW w \in Writers, Writer(w) PROVE IInv'
    BY <1>2, AddToListInv, WriterMovesInv DEF Writer, WriterMoves
  <1>3. CASE TxThread
    BY <1>3, TxMovesInv, TxPopInv, TxFetchInv, TxArmInv, TxSendInv,
       TxSendFailsInv DEF TxThread, TxRuns, TxMoves
  <1>4. CASE AdapterAccepts \/ AdapterRejects \/ LoseFrame \/ LoseReply
    BY <1>4, AnswerInv, LoseFrameInv, ReplyDroppedInv
  <1>5. CASE RxMatch \/ RxIgnore
    BY <1>5, RxMatchInv, ReplyDroppedInv
  <1>6. CASE UNCHANGED vars
    <2>1. UNCHANGED <<listVars, semVars, msgResponseInfo, apiVars, wr, txVars,
                      lineVars>>
      BY <1>6 DEF vars
    <2>2. TypeOK' /\ ClosedIsQuiet' /\ TxPlace'
      BY <2>1 DEF IInv, TypeOK, ClosedIsQuiet, TxPlace, Waiting, Armed,
                  listVars, semVars, apiVars, txVars, lineVars
    <2>. QED
      BY <2>1, <2>2, SameLine DEF IInv, listVars, txVars
  <1>. QED
    BY <1>1, <1>2, <1>3, <1>4, <1>5, <1>6 DEF Next

LEMMA Invariance == Spec => []IInv
  BY InitIInv, NextIInv, PTL DEF Spec

\* Every variable keeps its type.
THEOREM TypeCorrect == Spec => []TypeOK
  BY Invariance, PTL DEF IInv

\* The branch of workThreadTransmit that "should not happen" does not.
THEOREM ShouldNotHappen == Spec => []InProgressIsQueued
  BY Invariance, PTL DEF IInv

\* In "wait for ACK" mode only a message that the adapter has leaves the list.
THEOREM OnlyDeliveredLeave == Spec => []RemovesOnlyDelivered
  <1>1. IInv => RemovesOnlyDelivered
    BY DEF IInv, RemovesOnlyDelivered, TxPlace, NotedAckIsTrue, HeadIsDelivered
  <1>. QED
    BY <1>1, Invariance, PTL

-----------------------------------------------------------------------------
(* The refinement.                                                         *)

LEMMA StepRefines ==
    ASSUME WaitForAck, IInv, [Next]_vars
    PROVE  [Promise!Next]_(Promise!vars)
  <1>. USE DEF Promise!vars
  <1>1. ASSUME NEW w \in Writers, AddToList(w) PROVE Promise!Accept
    BY <1>1 DEF AddToList, Promise!Accept, lineVars
  <1>2. CASE TxPop
    <2>1. m_transmitList # <<>> /\ Head(m_transmitList) = atAdapter
      BY <1>2 DEF TxPop, TxAt, IInv, TxPlace, NotedAckIsTrue, HeadIsDelivered
    <2>. QED
      BY <1>2, <2>1 DEF TxPop, WithoutHead, lineVars, Promise!Remove,
                        Promise!Next
  <1>3. CASE AdapterAccepts
    <2>1. /\ toAdapter # <<>> /\ toAdapter' = Tail(toAdapter)
          /\ atAdapter' = Head(toAdapter).msg /\ UNCHANGED listVars
      BY <1>3 DEF AdapterAccepts, Answer
    <2>2. m_transmitList # <<>> /\ Head(toAdapter).msg = Head(m_transmitList)
      BY <2>1, FrameGone DEF IInv, FramesCarryHead
    <2>. QED
      BY <2>1, <2>2 DEF listVars, Promise!Deliver, Promise!Next
  <1>4. CASE OpenStart \/ OpenDone \/ CloseFlags \/ ClosePosts \/ CloseJoin
    BY <1>4 DEF OpenStart, OpenDone, CloseFlags, ClosePosts, CloseJoin,
                listVars, lineVars
  <1>5. ASSUME NEW w \in Writers, WriterMoves(w)
        PROVE  UNCHANGED Promise!vars
    BY <1>5 DEF WriterMoves, WriteMsg, WriteMsgBlocking, TestRoom, WakeWriter,
                WriterTimeout, PostGet, listVars, lineVars
  <1>6. CASE TxMoves \/ TxFetch \/ TxArm \/ TxSend \/ TxSendFails
    BY <1>6 DEF TxMoves, TxLoop, TxWakeAck, TxAckTimeout, TxReadAck, TxPostPut,
                TxCheckList, TxWakeGet, TxGetTimeout, TxNothingToSend, TxFetch,
                TxArm, TxSend, TxSendFails, listVars, lineVars
  <1>7. CASE AdapterRejects \/ LoseFrame \/ LoseReply \/ RxMatch \/ RxIgnore
    BY <1>7 DEF AdapterRejects, LoseFrame, LoseReply, RxMatch, RxIgnore,
                listVars
  <1>8. CASE UNCHANGED vars
    BY <1>8 DEF vars, listVars, lineVars
  <1>. QED
    BY <1>1, <1>2, <1>3, <1>4, <1>5, <1>6, <1>7, <1>8
       DEF Next, Writer, WriterMoves, TxThread, TxRuns, TxMoves, Promise!Next

\* In "wait for ACK" mode the threads, the semaphores and the line together
\* do what Outbox says.
THEOREM Refinement ==
    ASSUME WaitForAck
    PROVE  Spec => ImplementsOutbox
  <1>1. Init => Promise!Init
    BY DEF Init, Promise!Init
  <1>2. IInv /\ [Next]_vars => [Promise!Next]_(Promise!vars)
    BY StepRefines
  <1>. QED
    BY <1>1, <1>2, Invariance, PTL DEF Spec, ImplementsOutbox, Promise!Spec

-----------------------------------------------------------------------------
(* The bounds.                                                             *)

\* A reply is noted only while one is awaited, and every arming is followed
\* by a wait that takes a token, or by one that found none.
LEMMA TokenStep == IInv /\ TokenBudget /\ [Next]_vars => TokenBudget'
  <1>. SUFFICES ASSUME IInv, TokenBudget, [Next]_vars, WaitForAck
                PROVE  TokenBudget'
    BY DEF TokenBudget
  <1>0. /\ m_transmitAckNackSem \in Nat /\ sessions \in Nat
        /\ api # "closed" => sessions >= 1
        /\ tx \in {"waitAck", "readAck"} => bTransmissionInProgress
        /\ tx = "send" => Waiting
        /\ Waiting \in BOOLEAN
        /\ api = "closed" => tx = "exit"
    BY DEF IInv, TypeOK, ClosedIsQuiet, TxPlace, Waiting
  <1>. USE DEF TokenBudget, MayWait, Waiting
  <1>1. CASE OpenStart
    BY <1>0, <1>1 DEF OpenStart, NoResponse, semVars
  <1>2. CASE OpenDone \/ CloseFlags
    BY <1>2 DEF OpenDone, CloseFlags, semVars, txVars
  <1>3. CASE ClosePosts
    BY <1>0, <1>3 DEF ClosePosts, semaphorePost, txVars
  <1>4. CASE CloseJoin
    BY <1>4 DEF CloseJoin, semVars, txVars
  <1>5. ASSUME NEW w \in Writers, Writer(w) PROVE TokenBudget'
    BY <1>5 DEF Writer, WriteMsg, WriteMsgBlocking, TestRoom, WakeWriter,
                WriterTimeout, AddToList, PostGet, semVars, apiVars, txVars
  <1>6. CASE TxLoop \/ TxReadAck \/ TxPostPut \/ TxCheckList \/ TxNothingToSend
    BY <1>0, <1>6 DEF TxLoop, TxReadAck, TxPostPut, TxCheckList,
                TxNothingToSend, TxAt, semVars, apiVars
  <1>7. CASE TxWakeAck
    BY <1>0, <1>7 DEF TxWakeAck, TxAt, tokenTaken, apiVars
  <1>8. CASE TxAckTimeout
    BY <1>0, <1>8 DEF TxAckTimeout, TxAt, semVars, apiVars
  <1>9. CASE TxWakeGet \/ TxGetTimeout \/ TxFetch \/ TxPop
    BY <1>0, <1>9 DEF TxWakeGet, TxGetTimeout, TxFetch, TxPop, TxAt,
                AfterRemoval, semVars, apiVars
  <1>10. CASE TxArm
    BY <1>0, <1>10 DEF TxArm, TxAt, semVars, apiVars
  <1>11. CASE TxSend
    BY <1>0, <1>11 DEF TxSend, TxAt, semVars, apiVars
  <1>12. CASE TxSendFails
    <2>1. /\ tx = "send" /\ tx' = "loop"
          /\ UNCHANGED <<m_transmitAckNackSem, sessions, api>>
      BY <1>12 DEF TxSendFails, TxAt, semVars, apiVars
    <2>2. ~msgResponseInfo'.bWaitingForAckNack
      BY <1>12 DEF TxSendFails, IInv, TypeOK
    <2>. QED
      BY <1>0, <2>1, <2>2
  <1>13. CASE AdapterAccepts \/ AdapterRejects \/ LoseFrame \/ LoseReply
                \/ RxIgnore
    BY <1>13 DEF AdapterAccepts, AdapterRejects, LoseFrame, LoseReply,
                RxIgnore, semVars, apiVars, txVars
  <1>14. CASE RxMatch
    BY <1>0, <1>14 DEF RxMatch, Awaited, semaphorePost, apiVars, txVars, IInv,
                TypeOK
  <1>15. CASE UNCHANGED vars
    BY <1>15 DEF vars, semVars, apiVars, txVars
  <1>. QED
    BY <1>1, <1>2, <1>3, <1>4, <1>5, <1>6, <1>7, <1>8, <1>9, <1>10, <1>11,
       <1>12, <1>13, <1>14, <1>15 DEF Next, TxThread, TxRuns

\* Stale tokens, and with them needless resendings, are bounded by the number
\* of sessions, however late the adapter's replies are.
THEOREM TokensAreBounded == Spec => []StaleTokensBounded
  <1>1. Init => TokenBudget
    BY DEF Init, TokenBudget, NoResponse, Waiting, MayWait
  <1>2. Spec => []TokenBudget
    BY <1>1, TokenStep, Invariance, PTL DEF Spec
  <1>3. IInv /\ TokenBudget => StaleTokensBounded
    BY DEF IInv, TypeOK, ClosedIsQuiet, TokenBudget, StaleTokensBounded,
           Waiting
  <1>. QED
    BY <1>2, <1>3, Invariance, PTL

-----------------------------------------------------------------------------

LEMMA AddingFinite ==
    /\ IsFiniteSet(Adding) /\ Cardinality(Adding) \in Nat
    /\ Cardinality(Writers) \in Nat
    /\ Cardinality(Adding) <= Cardinality(Writers)
  BY FS_Subset, FS_CardinalityType, TransmitPathAssumption DEF Adding

LEMMA AddingFiniteNext ==
    /\ IsFiniteSet(Adding') /\ Cardinality(Adding)' \in Nat
    /\ Cardinality(Adding)' <= Cardinality(Writers)
  BY FS_Subset, FS_CardinalityType, TransmitPathAssumption DEF Adding

\* The writers between test and append are counted with the list.
LEMMA WritersStep == TypeOK /\ WritersFit /\ [Next]_vars => WritersFit'
  <1>. SUFFICES ASSUME TypeOK, WritersFit, [Next]_vars, ~BlockingWrites
                PROVE  WritersFit'
    BY DEF WritersFit
  <1>0. Len(m_transmitList) \in Nat /\ CAN4VSCP_MAX_SNDMSG \in Nat
    BY LenProperties, TransmitPathAssumption DEF TypeOK
  <1>1. ASSUME UNCHANGED wr,
               Len(m_transmitList)' \in Nat,
               Len(m_transmitList)' <= Len(m_transmitList)
        PROVE  WritersFit'
    <2>1. Adding' = Adding
      BY <1>1 DEF Adding
    <2>. QED
      BY <1>0, <1>1, <2>1, AddingFinite DEF WritersFit
  <1>2. ASSUME NEW w \in Writers, WriteMsg(w) \/ PostGet(w) PROVE WritersFit'
    <2>1. Adding' = Adding
      BY <1>2 DEF Adding, WriteMsg, PostGet, WriterAt, TypeOK
    <2>. QED
      BY <1>2, <2>1 DEF WritersFit, WriteMsg, PostGet, WriterAt, TypeOK,
                        listVars
  <1>3. ASSUME NEW w \in Writers, TestRoom(w) PROVE WritersFit'
    <2>1. UNCHANGED m_transmitList
          /\ \A v \in Writers : wr'[v] \notin {"testBlocking", "waitPut"}
      BY <1>3 DEF TestRoom, WriterAt, WritersFit, TypeOK, listVars
    <2>2. CASE Full
      <3>1. Adding' = Adding
        BY <1>3, <2>2 DEF Adding, TestRoom, WriterAt, TypeOK
      <3>. QED
        BY <2>1, <3>1 DEF WritersFit
    <2>3. CASE ~Full
      BY <1>0, <2>1, <2>3, AddingFinite, AddingFiniteNext DEF WritersFit, Full
    <2>. QED
      BY <2>2, <2>3
  <1>4. ASSUME NEW w \in Writers, AddToList(w) PROVE WritersFit'
    <2>1. Len(m_transmitList)' = Len(m_transmitList) + 1
      BY <1>4, AppendProperties DEF AddToList, TypeOK
    <2>2. Adding' = Adding \ {w} /\ w \in Adding
      BY <1>4 DEF Adding, AddToList, WriterAt, TypeOK
    <2>3. Cardinality(Adding)' = Cardinality(Adding) - 1
      BY <2>2, AddingFinite, FS_RemoveElement
    <2>4. \A v \in Writers : wr'[v] \notin {"testBlocking", "waitPut"}
      BY <1>4 DEF AddToList, WriterAt, WritersFit, TypeOK
    <2>. QED
      BY <1>0, <2>1, <2>3, <2>4, AddingFinite DEF WritersFit
  <1>5. CASE TxPop
    <2>1. /\ Len(m_transmitList)' \in Nat
          /\ Len(m_transmitList)' <= Len(m_transmitList)
      BY <1>0, <1>5, HeadTailProperties, EmptySeq DEF TxPop, WithoutHead, TypeOK
    <2>. QED
      BY <1>1, <1>5, <2>1 DEF TxPop
  <1>6. CASE UNCHANGED <<listVars, wr>>
    BY <1>0, <1>1, <1>6 DEF listVars
  <1>7. ASSUME NEW w \in Writers,
               WriteMsgBlocking(w) \/ WakeWriter(w) \/ WriterTimeout(w)
        PROVE  FALSE
    BY <1>7 DEF WriteMsgBlocking, WakeWriter, WriterTimeout, WriterAt,
                WritersFit
  <1>8. CASE OpenStart \/ OpenDone \/ CloseFlags \/ ClosePosts \/ CloseJoin
    BY <1>6, <1>8 DEF OpenStart, OpenDone, CloseFlags, ClosePosts, CloseJoin
  <1>9. CASE TxMoves \/ TxFetch \/ TxArm \/ TxSend \/ TxSendFails
    BY <1>6, <1>9 DEF TxMoves, TxLoop, TxWakeAck, TxAckTimeout, TxReadAck,
          TxPostPut, TxCheckList, TxWakeGet, TxGetTimeout, TxNothingToSend,
          TxFetch, TxArm, TxSend, TxSendFails
  <1>10. CASE AdapterAccepts \/ AdapterRejects \/ LoseFrame \/ LoseReply
                \/ RxMatch \/ RxIgnore
    BY <1>6, <1>10 DEF AdapterAccepts, AdapterRejects, LoseFrame, LoseReply,
          RxMatch, RxIgnore
  <1>11. CASE UNCHANGED vars
    BY <1>6, <1>11 DEF vars
  <1>. QED
    BY <1>2, <1>3, <1>4, <1>5, <1>7, <1>8, <1>9, <1>10, <1>11
       DEF Next, Writer, TxThread, TxRuns, TxMoves

\* The limit on the transmit list, for writers that use writeMsg: it is
\* exceeded by as many messages as there are writers and by no more.
THEOREM Overshoot == Spec => []OvershootBounded
  <1>1. Init => WritersFit
    <2>. SUFFICES ASSUME Init PROVE WritersFit
      OBVIOUS
    <2>1. Adding = {}
      BY DEF Init, Adding
    <2>2. Cardinality(Adding) = 0
      BY <2>1, FS_EmptySet
    <2>. QED
      BY <2>2, AddingFinite, TransmitPathAssumption DEF Init, WritersFit
  <1>2. Spec => []WritersFit
    BY <1>1, WritersStep, TypeCorrect, PTL DEF Spec
  <1>3. TypeOK /\ WritersFit => OvershootBounded
    BY AddingFinite, LenProperties, TransmitPathAssumption
       DEF TypeOK, WritersFit, OvershootBounded
  <1>. QED
    BY <1>2, <1>3, TypeCorrect, PTL

-----------------------------------------------------------------------------
(* Without ACKs a message is sent once.                                    *)

\* A new message is the latest of all.
LEMMA AddToListSent ==
    ASSUME TypeOK, InOrder, Numbered, SentBefore,
           NEW w \in Writers, AddToList(w)
    PROVE  InOrder' /\ Numbered' /\ SentBefore'
  <1>. DEFINE n == Len(m_transmitList)
  <1>1. /\ accepted \in Nat /\ accepted' = accepted + 1
        /\ n \in Nat
        /\ Len(m_transmitList') = n + 1
        /\ \A i \in 1..n : m_transmitList[i] \in Nat
                             /\ m_transmitList'[i] = m_transmitList[i]
        /\ m_transmitList'[n + 1] = accepted + 1
    <2>1. /\ m_transmitList \in Seq(Nat)
          /\ accepted \in Nat /\ accepted' = accepted + 1
          /\ m_transmitList' = Append(m_transmitList, accepted + 1)
      BY DEF AddToList, TypeOK
    <2>2. \A i \in 1..n : m_transmitList[i] \in Nat
      BY <2>1, ElementOfSeq
    <2>. QED
      BY <2>1, <2>2, AppendProperties, LenProperties
  <1>2. /\ UNCHANGED <<toAdapter, atAdapter, tx>> /\ atAdapter \in Nat
        /\ \A k \in 1..Len(toAdapter) : toAdapter[k].msg \in Nat
    <2>1. toAdapter \in Seq([seq : 0..SeqMod - 1, msg : Nat])
      BY DEF TypeOK
    <2>2. \A k \in 1..Len(toAdapter) :
                toAdapter[k] \in [seq : 0..SeqMod - 1, msg : Nat]
      BY <2>1, ElementOfSeq
    <2>. QED
      BY <2>2 DEF AddToList, TypeOK, lineVars, txVars
  <1>3. /\ \A i \in 1..n : m_transmitList[i] <= accepted
        /\ \A k \in 1..Len(toAdapter) : toAdapter[k].msg <= accepted
        /\ atAdapter <= accepted
    BY DEF Numbered
  <1>4. \A i \in 1..n + 1 : i \in 1..n \/ i = n + 1
    BY <1>1
  <1>. HIDE DEF n
  <1>5. InOrder'
    <2>1. ASSUME NEW i \in 1..n + 1, NEW j \in 1..n + 1, i < j
          PROVE  m_transmitList'[i] < m_transmitList'[j]
      <3>1. i \in 1..n
        BY <1>1, <2>1
      <3>2. CASE j \in 1..n
        <4>1. m_transmitList[i] < m_transmitList[j]
          BY <2>1, <3>1, <3>2 DEF InOrder, n
        <4>. QED
          BY <1>1, <3>1, <3>2, <4>1
      <3>3. CASE j = n + 1
        BY <1>1, <1>3, <3>1, <3>3
      <3>. QED
        BY <1>4, <3>2, <3>3
    <2>2. \A i, j \in 1..Len(toAdapter') :
                i < j => toAdapter'[i].msg < toAdapter'[j].msg
      BY <1>2 DEF InOrder
    <2>. QED
      BY <1>1, <2>1, <2>2 DEF InOrder
  <1>6. Numbered'
    <2>1. ASSUME NEW i \in 1..n + 1
          PROVE  m_transmitList'[i] <= accepted'
      BY <1>1, <1>3, <1>4
    <2>2. atAdapter' <= accepted'
      BY <1>1, <1>2, <1>3
    <2>3. \A k \in 1..Len(toAdapter') : toAdapter'[k].msg <= accepted'
      BY <1>1, <1>2, <1>3
    <2>. QED
      BY <1>1, <2>1, <2>2, <2>3 DEF Numbered
  <1>7. SentBefore'
    <2>1. \A k \in 1..Len(toAdapter') : atAdapter' < toAdapter'[k].msg
      BY <1>2 DEF SentBefore
    <2>2. ASSUME NEW i \in 1..n + 1, Unsent(i)'
          PROVE  /\ atAdapter' < m_transmitList'[i]
                 /\ \A k \in 1..Len(toAdapter') :
                        toAdapter'[k].msg < m_transmitList'[i]
      <3>1. CASE i \in 1..n
        <4>1. Unsent(i)
          BY <1>2, <2>2, <3>1 DEF Unsent, n
        <4>2. /\ atAdapter < m_transmitList[i]
              /\ \A k \in 1..Len(toAdapter) :
                      toAdapter[k].msg < m_transmitList[i]
          BY <3>1, <4>1 DEF SentBefore, n
        <4>. QED
          BY <1>1, <1>2, <3>1, <4>2
      <3>2. CASE i = n + 1
        BY <1>1, <1>2, <1>3, <3>2
      <3>. QED
        BY <1>4, <3>1, <3>2
    <2>. QED
      BY <1>1, <2>1, <2>2 DEF SentBefore
  <1>. QED
    BY <1>5, <1>6, <1>7

\* The first message goes on the line and is about to be removed.
LEMMA TxSendSent ==
    ASSUME IInv, ~WaitForAck, InOrder, Numbered, SentBefore, TxSend
    PROVE  InOrder' /\ Numbered' /\ SentBefore'
  <1>1. /\ m_transmitList # <<>> /\ frame.msg = m_transmitList[1]
        /\ tx = "send" /\ tx' = "pop"
    BY DEF IInv, TxPlace, TxSend, TxAt, TypeOK
  <1>2. /\ Len(toAdapter) \in Nat
        /\ Len(toAdapter') = Len(toAdapter) + 1
        /\ \A k \in 1..Len(toAdapter) :
                toAdapter[k].msg \in Nat /\ toAdapter'[k] = toAdapter[k]
        /\ toAdapter'[Len(toAdapter) + 1] = frame
        /\ frame.msg \in Nat
    <2>. DEFINE Frames == [seq : 0..SeqMod - 1, msg : Nat]
    <2>1. /\ toAdapter \in Seq(Frames) /\ frame \in Frames
          /\ toAdapter' = Append(toAdapter, frame)
      BY DEF IInv, TypeOK, TxSend
    <2>2. \A k \in 1..Len(toAdapter) : toAdapter[k] \in Frames
      BY <2>1, ElementOfSeq
    <2>3. /\ Len(toAdapter) \in Nat
          /\ Len(toAdapter') = Len(toAdapter) + 1
          /\ \A k \in 1..Len(toAdapter) : toAdapter'[k] = toAdapter[k]
          /\ toAdapter'[Len(toAdapter) + 1] = frame
      BY <2>1, AppendProperties, LenProperties
    <2>. QED
      BY <2>1, <2>2, <2>3
  <1>3. /\ UNCHANGED <<m_transmitList, accepted, atAdapter>>
        /\ accepted \in Nat /\ atAdapter \in Nat
        /\ Len(m_transmitList) \in Nat /\ 1 \in 1..Len(m_transmitList)
        /\ \A i \in 1..Len(m_transmitList) : m_transmitList[i] \in Nat
    BY <1>1, LenProperties, EmptySeq, ElementOfSeq
       DEF IInv, TypeOK, TxSend, listVars
  <1>4. /\ atAdapter < frame.msg /\ frame.msg <= accepted
        /\ \A k \in 1..Len(toAdapter) : toAdapter[k].msg < frame.msg
    BY <1>1, <1>3 DEF SentBefore, Unsent, Numbered
  <1>5. InOrder'
    <2>1. ASSUME NEW i \in 1..Len(toAdapter'), NEW j \in 1..Len(toAdapter'),
                 i < j
          PROVE  toAdapter'[i].msg < toAdapter'[j].msg
      <3>1. i \in 1..Len(toAdapter) /\ toAdapter'[i] = toAdapter[i]
        BY <1>2, <2>1
      <3>2. CASE j \in 1..Len(toAdapter)
        BY <1>2, <2>1, <3>1, <3>2 DEF InOrder
      <3>3. CASE j = Len(toAdapter) + 1
        BY <1>2, <1>4, <3>1, <3>3
      <3>. QED
        BY <1>2, <3>2, <3>3
    <2>2. \A i, j \in 1..Len(m_transmitList') :
                i < j => m_transmitList'[i] < m_transmitList'[j]
      BY <1>3 DEF InOrder
    <2>. QED
      BY <2>1, <2>2 DEF InOrder
  <1>6. Numbered'
    BY <1>2, <1>3, <1>4 DEF Numbered
  <1>7. SentBefore'
    <2>1. \A i \in 1..Len(m_transmitList) :
                i > 1 => frame.msg < m_transmitList[i]
      BY <1>1, <1>3 DEF InOrder
    <2>2. \A k \in 1..Len(toAdapter') : atAdapter' < toAdapter'[k].msg
      BY <1>2, <1>3, <1>4 DEF SentBefore
    <2>3. ASSUME NEW i \in 1..Len(m_transmitList'), i > 1
          PROVE  /\ atAdapter' < m_transmitList'[i]
                 /\ \A k \in 1..Len(toAdapter') :
                        toAdapter'[k].msg < m_transmitList'[i]
      <3>1. /\ frame.msg < m_transmitList[i]
            /\ atAdapter < m_transmitList[i]
            /\ \A k \in 1..Len(toAdapter) :
                    toAdapter[k].msg < m_transmitList[i]
        BY <1>1, <1>3, <2>1, <2>3 DEF SentBefore, Unsent
      <3>2. ASSUME NEW k \in 1..Len(toAdapter')
            PROVE  toAdapter'[k].msg < m_transmitList'[i]
        <4>1. CASE k \in 1..Len(toAdapter)
          BY <1>2, <1>3, <3>1, <4>1
        <4>2. CASE k = Len(toAdapter) + 1
          BY <1>2, <1>3, <3>1, <4>2
        <4>. QED
          BY <1>2, <4>1, <4>2
      <3>. QED
        BY <1>3, <3>1, <3>2
    <2>. QED
      BY <1>1, <2>2, <2>3 DEF SentBefore, Unsent
  <1>. QED
    BY <1>5, <1>6, <1>7

\* The message that was sent leaves the list.
LEMMA TxPopSent ==
    ASSUME IInv, InOrder, Numbered, SentBefore, TxPop
    PROVE  InOrder' /\ Numbered' /\ SentBefore'
  <1>1. /\ m_transmitList # <<>> /\ m_transmitList' = Tail(m_transmitList)
        /\ UNCHANGED <<accepted, toAdapter, atAdapter>>
        /\ tx = "pop" /\ tx' = "postPut"
    BY DEF IInv, TxPlace, TxPop, TxAt, WithoutHead, lineVars
  <1>2. /\ Len(m_transmitList) \in Nat
        /\ Len(m_transmitList') = Len(m_transmitList) - 1
        /\ \A i \in 1..Len(m_transmitList') :
                /\ i + 1 \in 1..Len(m_transmitList) /\ i + 1 > 1
                /\ m_transmitList'[i] = m_transmitList[i + 1]
    <2>1. m_transmitList \in Seq(Nat)
      BY DEF IInv, TypeOK
    <2>2. /\ Len(m_transmitList) \in Nat \ {0}
          /\ Len(m_transmitList') = Len(m_transmitList) - 1
          /\ \A i \in 1..Len(m_transmitList') :
                  m_transmitList'[i] = m_transmitList[i + 1]
      BY <1>1, <2>1, WithoutFirst
    <2>. QED
      BY <2>2
  <1>3. InOrder'
    BY <1>1, <1>2 DEF InOrder
  <1>4. Numbered'
    BY <1>1, <1>2 DEF Numbered
  <1>5. SentBefore'
    BY <1>1, <1>2 DEF SentBefore, Unsent
  <1>. QED
    BY <1>3, <1>4, <1>5

\* The first frame on the line is answered, or lost.
LEMMA FrameGoneSent ==
    ASSUME IInv, InOrder, Numbered, SentBefore,
           toAdapter # <<>>, toAdapter' = Tail(toAdapter),
           UNCHANGED <<m_transmitList, accepted, tx>>,
           atAdapter' \in {atAdapter, Head(toAdapter).msg}
    PROVE  InOrder' /\ Numbered' /\ SentBefore'
  <1>1. /\ Len(toAdapter) \in Nat \ {0} /\ 1 \in 1..Len(toAdapter)
        /\ Len(toAdapter') = Len(toAdapter) - 1
        /\ \A k \in 1..Len(toAdapter') :
                /\ toAdapter'[k] = toAdapter[k + 1]
                /\ k + 1 \in 1..Len(toAdapter) /\ 1 < k + 1
        /\ Head(toAdapter) = toAdapter[1]
    BY FrameGone
  <1>2. InOrder'
    BY <1>1 DEF InOrder
  <1>3. Numbered'
    BY <1>1 DEF Numbered
  <1>4. SentBefore'
    BY <1>1 DEF SentBefore, Unsent, InOrder
  <1>. QED
    BY <1>2, <1>3, <1>4

\* The steps that neither send nor remove.
LEMMA SameSent ==
    ASSUME InOrder, Numbered, SentBefore,
           UNCHANGED <<m_transmitList, accepted, toAdapter, atAdapter>>,
           tx = "pop" => tx' = "pop"
    PROVE  InOrder' /\ Numbered' /\ SentBefore'
  BY DEF InOrder, Numbered, SentBefore, Unsent

LEMMA SentStep == IInv /\ SentOnce /\ [Next]_vars => SentOnce'
  <1>. SUFFICES ASSUME IInv, [Next]_vars, ~WaitForAck,
                       InOrder, Numbered, SentBefore
                PROVE  InOrder' /\ Numbered' /\ SentBefore'
    BY DEF SentOnce
  <1>. DEFINE Kept == InOrder' /\ Numbered' /\ SentBefore'
  <1>. SUFFICES Kept
    OBVIOUS
  <1>. HIDE DEF Kept
  <1>1. CASE OpenStart
    <2>1. tx = "exit"
      BY <1>1 DEF OpenStart, IInv, ClosedIsQuiet
    <2>. QED
      BY <1>1, <2>1, SameSent DEF OpenStart, listVars, lineVars, Kept
  <1>2. CASE OpenDone \/ CloseFlags \/ ClosePosts
    BY <1>2, SameSent DEF OpenDone, CloseFlags, ClosePosts, listVars, lineVars,
          txVars, Kept
  <1>3. CASE CloseJoin
    <2>1. /\ UNCHANGED <<m_transmitList, accepted, atAdapter, tx>>
          /\ Len(toAdapter') = 0
      BY <1>3, EmptySeq DEF CloseJoin, listVars, txVars
    <2>. QED
      BY <2>1 DEF InOrder, Numbered, SentBefore, Unsent, Kept
  <1>4. ASSUME NEW w \in Writers, Writer(w) PROVE Kept
    <2>1. CASE AddToList(w)
      BY <2>1, AddToListSent DEF IInv, Kept
    <2>2. CASE WriterMoves(w)
      BY <2>2, SameSent DEF WriterMoves, WriteMsg, WriteMsgBlocking, TestRoom,
            WakeWriter, WriterTimeout, PostGet, listVars, lineVars, txVars, Kept
    <2>. QED
      BY <1>4, <2>1, <2>2 DEF Writer, WriterMoves
  <1>5. CASE TxMoves \/ TxFetch \/ TxArm \/ TxSendFails
    <2>1. tx # "pop" /\ UNCHANGED <<listVars, lineVars>>
      BY <1>5 DEF TxMoves, TxLoop, TxWakeAck, TxAckTimeout, TxReadAck,
            TxPostPut, TxCheckList, TxWakeGet, TxGetTimeout, TxNothingToSend,
            TxFetch, TxArm, TxSendFails, TxAt
    <2>. QED
      BY <2>1, SameSent DEF listVars, lineVars, Kept
  <1>6. CASE TxSend
    BY <1>6, TxSendSent DEF Kept
  <1>7. CASE TxPop
    BY <1>7, TxPopSent DEF Kept
  <1>8. CASE AdapterAccepts \/ AdapterRejects \/ LoseFrame
    BY <1>8, FrameGoneSent DEF AdapterAccepts, AdapterRejects, LoseFrame,
          Answer, listVars, txVars, Kept
  <1>9. CASE LoseReply \/ RxMatch \/ RxIgnore
    BY <1>9, SameSent DEF LoseReply, RxMatch, RxIgnore, listVars, txVars, Kept
  <1>10. CASE UNCHANGED vars
    BY <1>10, SameSent DEF vars, listVars, txVars, lineVars, Kept
  <1>. QED
    BY <1>1, <1>2, <1>3, <1>4, <1>5, <1>6, <1>7, <1>8, <1>9, <1>10
       DEF Next, TxThread, TxRuns, TxMoves

\* Without ACKs nothing reaches the adapter twice or out of order: not when
\* the port refuses a frame, and not over a close() and the next open().
THEOREM SentOnlyOnce == Spec => AtMostOnce
  <1>1. Init => SentOnce
    <2>. SUFFICES ASSUME Init PROVE SentOnce
      OBVIOUS
    <2>1. Len(m_transmitList) = 0 /\ Len(toAdapter) = 0
      BY EmptySeq DEF Init
    <2>. QED
      BY <2>1 DEF Init, SentOnce, InOrder, Numbered, SentBefore
  <1>2. Spec => []SentOnce
    BY <1>1, SentStep, Invariance, PTL DEF Spec
  <1>3. IInv /\ SentOnce =>
            ((~WaitForAck /\ AdapterAccepts) => atAdapter' > atAdapter)
    <2>. SUFFICES ASSUME IInv, SentOnce, ~WaitForAck, AdapterAccepts
                  PROVE  atAdapter' > atAdapter
      OBVIOUS
    <2>1. /\ atAdapter' = toAdapter[1].msg /\ 1 \in 1..Len(toAdapter)
          /\ toAdapter[1].msg \in Nat /\ atAdapter \in Nat
      BY FrameGone DEF AdapterAccepts, Answer, IInv, TypeOK
    <2>. QED
      BY <2>1 DEF SentOnce, SentBefore
  <1>4. IInv /\ SentOnce =>
            [(~WaitForAck /\ AdapterAccepts) => atAdapter' > atAdapter]_vars
    BY <1>3
  <1>. QED
    BY <1>2, <1>4, Invariance, PTL DEF AtMostOnce
=============================================================================
