---------------------------- MODULE TransmitPath ----------------------------
(***************************************************************************)
(* The transmit path of CCan4VSCPObj: application threads append messages  *)
(* to m_transmitList (writeMsg, writeMsgBlocking), the TX thread sends the *)
(* head as a CANAL frame over the serial line, and in "wait for ACK" mode  *)
(* keeps it there until the RX thread (addToResponseQueue) has matched the *)
(* adapter's ACK with it. Three semaphores, msgResponseInfo and the local  *)
(* variables of workThreadTransmit connect the threads.                    *)
(*                                                                         *)
(* Critical sections of m_transmitMutex and m_responseMutex are one step   *)
(* each: what other threads see of them without the mutex is the list's    *)
(* length, which changes once in each. A message is the number of its      *)
(* acceptance. The serial line is FIFO and loses frames; the adapter       *)
(* answers every frame it gets with an ACK or a NACK bearing its sequence  *)
(* number.                                                                 *)
(***************************************************************************)
EXTENDS Integers, Sequences, FiniteSets

CONSTANTS
    Writers,            \* application threads that write to this channel
    CAN4VSCP_MAX_SNDMSG,\* the transmit list's nominal size
    WaitForAck,         \* CAN4VSCP_FLAG_ENABLE_WAIT_FOR_ACK in m_initFlag
    BlockingWrites,     \* TRUE: writers may use writeMsgBlocking
    LateReplies,        \* FALSE: 20 ms is enough for the adapter's reply
    Losses,             \* FALSE: the serial line loses nothing
    SeqMod,             \* sequence numbers wrap here (256 in the code)
    MaxMessages,        \* bound: messages accepted
    MaxLine,            \* bound: frames on each direction of the line
    MaxSessions         \* bound: times the channel is opened

ASSUME TransmitPathAssumption ==
    /\ IsFiniteSet(Writers)
    /\ CAN4VSCP_MAX_SNDMSG \in Nat
    /\ WaitForAck \in BOOLEAN /\ BlockingWrites \in BOOLEAN
    /\ LateReplies \in BOOLEAN /\ Losses \in BOOLEAN
    /\ SeqMod \in Nat /\ SeqMod > 1
    /\ MaxMessages \in Nat /\ MaxLine \in Nat /\ MaxSessions \in Nat

VARIABLES
    m_transmitList,         \* messages queued, oldest first
    accepted,               \* how many messages were ever appended
    m_transmitDataGetSem,   \* "there is something to send"
    m_transmitDataPutSem,   \* "there is room again"
    m_transmitAckNackSem,   \* "a reply has come"
    msgResponseInfo,        \* what reply is awaited, and what it was
    m_bRun, m_bOpen,        \* the object's state flags
    api, sessions,          \* the thread that opens and closes
    wr,                     \* where each writer is
    tx,                     \* where the TX thread is
    bTransmissionInProgress, seq, \* local variables of workThreadTransmit
    frame,                  \* the frame that transmitMessage has built
    toAdapter, toDriver,    \* frames on the line
    atAdapter               \* the newest message the adapter has accepted

semVars  == <<m_transmitDataGetSem, m_transmitDataPutSem, m_transmitAckNackSem>>
listVars == <<m_transmitList, accepted>>
apiVars  == <<m_bRun, m_bOpen, api, sessions>>
txVars   == <<tx, bTransmissionInProgress, seq, frame>>
lineVars == <<toAdapter, toDriver, atAdapter>>
vars == <<listVars, semVars, msgResponseInfo, apiVars, wr, txVars, lineVars>>

\* sem_post adds a token, a successful wait takes one.
lostPost(value)      == value
semaphorePost(value) == value + 1
tokenStays(value)    == value
tokenTaken(value)    == value - 1

\* memset(&msgResponseInfo, 0, ...)
NoResponse == [bWaitingForAckNack |-> FALSE, bAck |-> FALSE, seq |-> 0]

Init ==
    /\ m_transmitList = <<>> /\ accepted = 0
    /\ m_transmitDataGetSem = 0 /\ m_transmitDataPutSem = 0
    /\ m_transmitAckNackSem = 0
    /\ msgResponseInfo = NoResponse
    /\ m_bRun = FALSE /\ m_bOpen = FALSE /\ api = "closed" /\ sessions = 0
    /\ wr = [w \in Writers |-> "idle"]
    /\ tx = "exit" /\ bTransmissionInProgress = FALSE /\ seq = 0
    /\ frame = [seq |-> 0, msg |-> 0]
    /\ toAdapter = <<>> /\ toDriver = <<>> /\ atAdapter = 0

-----------------------------------------------------------------------------
(* open() and close(), as far as this path is concerned.                   *)

\* open() starts the TX thread, which begins with fresh local variables and
\* clears msgResponseInfo. The list and the semaphores are as they were left.
OpenStart ==
    /\ api = "closed" /\ sessions < MaxSessions
    /\ api' = "opening" /\ sessions' = sessions + 1
    /\ m_bRun' = TRUE
    /\ tx' = "loop" /\ bTransmissionInProgress' = FALSE /\ seq' = 0
    /\ msgResponseInfo' = NoResponse
    /\ UNCHANGED <<listVars, semVars, m_bOpen, wr, frame, lineVars>>

OpenDone ==
    /\ api = "opening"
    /\ api' = "open" /\ m_bOpen' = TRUE
    /\ UNCHANGED <<listVars, semVars, msgResponseInfo, m_bRun, sessions, wr,
                   txVars, lineVars>>

CloseFlags ==
    /\ api = "open"
    /\ api' = "closing" /\ m_bRun' = FALSE /\ m_bOpen' = FALSE
    /\ UNCHANGED <<listVars, semVars, msgResponseInfo, sessions, wr, txVars,
                   lineVars>>

\* "Wake the worker threads so they can detect m_bRun == false"
ClosePosts ==
    /\ api = "closing"
    /\ api' = "joining"
    /\ m_transmitDataPutSem' = semaphorePost(m_transmitDataPutSem)
    /\ m_transmitDataGetSem' = semaphorePost(m_transmitDataGetSem)
    /\ m_transmitAckNackSem' = semaphorePost(m_transmitAckNackSem)
    /\ UNCHANGED <<listVars, msgResponseInfo, m_bRun, m_bOpen, sessions, wr,
                   txVars, lineVars>>

\* pthread_join, then m_com.close(): what is still on the line is gone. This
\* is assumed of the adapter too: it answers nothing that it got before.
CloseJoin ==
    /\ api = "joining" /\ tx = "exit"
    /\ api' = "closed"
    /\ toAdapter' = <<>> /\ toDriver' = <<>>
    /\ UNCHANGED <<listVars, semVars, msgResponseInfo, m_bRun, m_bOpen,
                   sessions, wr, txVars, atAdapter>>

-----------------------------------------------------------------------------
(* The writers.                                                            *)

\* "Must be room for the message", without the mutex.
NeverFull == FALSE
Full      == Len(m_transmitList) > CAN4VSCP_MAX_SNDMSG

WriterAt(w, from, to) == wr[w] = from /\ wr' = [wr EXCEPT ![w] = to]

\* A call on an open channel; the room test is a later step.
WriteMsg(w) ==
    /\ m_bOpen /\ accepted < MaxMessages
    /\ WriterAt(w, "idle", "test")
    /\ UNCHANGED <<listVars, semVars, msgResponseInfo, apiVars, txVars,
                   lineVars>>

WriteMsgBlocking(w) ==
    /\ BlockingWrites /\ m_bOpen /\ accepted < MaxMessages
    /\ WriterAt(w, "idle", "testBlocking")
    /\ UNCHANGED <<listVars, semVars, msgResponseInfo, apiVars, txVars,
                   lineVars>>

\* Full: writeMsg returns CANAL_ERROR_FIFO_FULL, writeMsgBlocking waits.
TestRoom(w) ==
    /\ \/ Full  /\ WriterAt(w, "test", "idle")
       \/ Full  /\ WriterAt(w, "testBlocking", "waitPut")
       \/ ~Full /\ WriterAt(w, "test", "add")
       \/ ~Full /\ WriterAt(w, "testBlocking", "add")
    /\ UNCHANGED <<listVars, semVars, msgResponseInfo, apiVars, txVars,
                   lineVars>>

\* The wait ends with a token: no second look at the list.
WakeWriter(w) ==
    /\ WriterAt(w, "waitPut", "add")
    /\ m_transmitDataPutSem > 0
    /\ m_transmitDataPutSem' = tokenTaken(m_transmitDataPutSem)
    /\ UNCHANGED <<listVars, m_transmitDataGetSem, m_transmitAckNackSem,
                   msgResponseInfo, apiVars, txVars, lineVars>>

\* CANAL_ERROR_TIMEOUT (or GENERIC, when a signal ends the wait).
WriterTimeout(w) ==
    /\ WriterAt(w, "waitPut", "idle")
    /\ m_transmitDataPutSem = 0
    /\ UNCHANGED <<listVars, semVars, msgResponseInfo, apiVars, txVars,
                   lineVars>>

AddToList(w) ==
    /\ WriterAt(w, "add", "post")
    /\ accepted' = accepted + 1
    /\ m_transmitList' = Append(m_transmitList, accepted')
    /\ UNCHANGED <<semVars, msgResponseInfo, apiVars, txVars, lineVars>>

PostGet(w) ==
    /\ WriterAt(w, "post", "idle")
    /\ m_transmitDataGetSem' = semaphorePost(m_transmitDataGetSem)
    /\ UNCHANGED <<listVars, m_transmitDataPutSem, m_transmitAckNackSem,
                   msgResponseInfo, apiVars, txVars, lineVars>>

Writer(w) == WriteMsg(w) \/ WriteMsgBlocking(w) \/ TestRoom(w)
                \/ WakeWriter(w) \/ WriterTimeout(w) \/ AddToList(w)
                \/ PostGet(w)

-----------------------------------------------------------------------------
(* The TX thread.                                                          *)

TxAt(from, to) == tx = from /\ tx' = to

\* The loop head: m_bRun, and "are we in transmission".
TxLoop ==
    /\ \/ ~m_bRun /\ TxAt("loop", "exit")
       \/ m_bRun /\ WaitForAck /\ bTransmissionInProgress
            /\ TxAt("loop", "waitAck")
       \/ m_bRun /\ ~(WaitForAck /\ bTransmissionInProgress)
            /\ TxAt("loop", "checkList")
    /\ UNCHANGED <<listVars, semVars, msgResponseInfo, apiVars, wr,
                   bTransmissionInProgress, seq, frame, lineVars>>

TxWakeAck ==
    /\ TxAt("waitAck", "readAck")
    /\ m_transmitAckNackSem > 0
    /\ m_transmitAckNackSem' = tokenTaken(m_transmitAckNackSem)
    /\ UNCHANGED <<listVars, m_transmitDataGetSem, m_transmitDataPutSem,
                   msgResponseInfo, apiVars, wr, bTransmissionInProgress, seq,
                   frame, lineVars>>

\* No token within 20 ms: resend. If replies are never late, the frame or
\* its reply is lost.
ReplyIsLost == toAdapter = <<>> /\ toDriver = <<>>

TxAckTimeout ==
    /\ TxAt("waitAck", "transmit")
    /\ m_transmitAckNackSem = 0
    /\ LateReplies \/ ReplyIsLost
    /\ UNCHANGED <<listVars, semVars, msgResponseInfo, apiVars, wr,
                   bTransmissionInProgress, seq, frame, lineVars>>

\* bAck, read under the mutex, tells an ACK from a NACK.
TxReadAck ==
    /\ \/ msgResponseInfo.bAck  /\ TxAt("readAck", "pop")
       \/ ~msgResponseInfo.bAck /\ TxAt("readAck", "transmit")
    /\ UNCHANGED <<listVars, semVars, msgResponseInfo, apiVars, wr,
                   bTransmissionInProgress, seq, frame, lineVars>>

\* "If ACK remove the event from the queue"; the branch for an empty list is
\* the one that "should not happen". Either way the transmission is over.
HeadLeftInPlace == m_transmitList
WithoutHead == IF m_transmitList = <<>> THEN <<>> ELSE Tail(m_transmitList)
StillInProgress == bTransmissionInProgress
AfterRemoval    == FALSE

TxPop ==
    /\ TxAt("pop", IF m_transmitList = <<>> THEN "loop" ELSE "postPut")
    /\ m_transmitList' = WithoutHead
    /\ bTransmissionInProgress' = AfterRemoval
    /\ UNCHANGED <<accepted, semVars, msgResponseInfo, apiVars, wr, seq, frame,
                   lineVars>>

\* "Wake any writer blocked on a full transmit queue": always, whether or
\* not one is. Without ACKs the loop starts over, with ACKs it goes on.
TxPostPut ==
    /\ TxAt("postPut", IF WaitForAck THEN "checkList" ELSE "loop")
    /\ m_transmitDataPutSem' = semaphorePost(m_transmitDataPutSem)
    /\ UNCHANGED <<listVars, m_transmitDataGetSem, m_transmitAckNackSem,
                   msgResponseInfo, apiVars, wr, bTransmissionInProgress, seq,
                   frame, lineVars>>

\* The list's length, without the mutex.
TxCheckList ==
    /\ \/ m_transmitList # <<>> /\ TxAt("checkList", "transmit")
       \/ m_transmitList = <<>> /\ TxAt("checkList", "waitGet")
    /\ UNCHANGED <<listVars, semVars, msgResponseInfo, apiVars, wr,
                   bTransmissionInProgress, seq, frame, lineVars>>

\* A token, and a second look at the length: a stale token finds nothing,
\* and the thread sleeps for a while before it starts over.
TxWakeGet ==
    /\ m_transmitDataGetSem > 0
    /\ m_transmitDataGetSem' = tokenTaken(m_transmitDataGetSem)
    /\ \/ m_transmitList # <<>> /\ TxAt("waitGet", "transmit")
       \/ m_transmitList = <<>> /\ TxAt("waitGet", "loop")
    /\ UNCHANGED <<listVars, m_transmitDataPutSem, m_transmitAckNackSem,
                   msgResponseInfo, apiVars, wr, bTransmissionInProgress, seq,
                   frame, lineVars>>

\* 1 ms without a token.
TxGetTimeout ==
    /\ TxAt("waitGet", "loop")
    /\ m_transmitDataGetSem = 0
    /\ UNCHANGED <<listVars, semVars, msgResponseInfo, apiVars, wr,
                   bTransmissionInProgress, seq, frame, lineVars>>

\* transmitMessage. "Must be open", and something must be in the list.
TxNothingToSend ==
    /\ TxAt("transmit", "loop")
    /\ ~m_bOpen \/ m_transmitList = <<>>
    /\ UNCHANGED <<listVars, semVars, msgResponseInfo, apiVars, wr,
                   bTransmissionInProgress, seq, frame, lineVars>>

\* "fetch a copy under lock", and build the frame with (*pseq)++.
NoWrap  == seq + 1
NextSeq == (seq + 1) % SeqMod

TxFetch ==
    /\ m_bOpen /\ m_transmitList # <<>>
    /\ TxAt("transmit", "arm")
    /\ frame' = [seq |-> seq, msg |-> Head(m_transmitList)]
    /\ seq' = NextSeq
    /\ UNCHANGED <<listVars, semVars, msgResponseInfo, apiVars, wr,
                   bTransmissionInProgress, lineVars>>

\* A frame or reply is not on its way for so long that its sequence number
\* comes round again: 256 sendings, 20 ms apart. This bounds the delay of
\* the line and of the adapter; the driver does not test it. Across close() and
\* open(), where the number starts from 0 again, it rests on CloseJoin.
SeqIsFresh ==
    /\ \A i \in 1..Len(toAdapter) : toAdapter[i].seq # frame.seq
    /\ \A i \in 1..Len(toDriver) : toDriver[i].seq # frame.seq

\* "Arm the ACK/NACK mechanism before the frame goes out", "we start out
\* being pessimistic", and the sequence number is *pseq - 1.
ArmedAckKept   == msgResponseInfo.bAck
ArmedAck       == FALSE
ArmedSeqOfNext == seq
ArmedSeq       == frame.seq

TxArm ==
    /\ SeqIsFresh
    /\ TxAt("arm", "send")
    /\ msgResponseInfo' =
            [bWaitingForAckNack |-> TRUE, bAck |-> ArmedAck, seq |-> ArmedSeq]
    /\ UNCHANGED <<listVars, semVars, apiVars, wr, bTransmissionInProgress,
                   seq, frame, lineVars>>

\* sendMsg succeeds. Without ACKs the message is removed at once.
TxSend ==
    /\ Len(toAdapter) < MaxLine
    /\ TxAt("send", IF WaitForAck THEN "loop" ELSE "pop")
    /\ bTransmissionInProgress' = WaitForAck
    /\ toAdapter' = Append(toAdapter, frame)
    /\ UNCHANGED <<listVars, semVars, msgResponseInfo, apiVars, wr, seq, frame,
                   toDriver, atAdapter>>

\* sendMsg fails: nothing is awaited, and a message in transmission stays so.
TxSendFails ==
    /\ Losses
    /\ TxAt("send", "loop")
    /\ msgResponseInfo' = [msgResponseInfo EXCEPT !.bWaitingForAckNack = FALSE]
    /\ UNCHANGED <<listVars, semVars, apiVars, wr, bTransmissionInProgress,
                   seq, frame, lineVars>>

\* The steps that need nothing but the processor.
TxRuns == TxLoop \/ TxReadAck \/ TxPop \/ TxPostPut
             \/ TxCheckList \/ TxNothingToSend \/ TxFetch

TxThread == TxRuns \/ TxWakeAck \/ TxAckTimeout \/ TxWakeGet \/ TxGetTimeout
               \/ TxArm \/ TxSend \/ TxSendFails

-----------------------------------------------------------------------------
(* The serial line and the adapter (external).                             *)

Answer(type) ==
    /\ toAdapter # <<>> /\ Len(toDriver) < MaxLine
    /\ toAdapter' = Tail(toAdapter)
    /\ toDriver' = Append(toDriver, [type |-> type, seq |-> Head(toAdapter).seq])

AdapterAccepts ==
    /\ Answer("ACK")
    /\ atAdapter' = Head(toAdapter).msg
    /\ UNCHANGED <<listVars, semVars, msgResponseInfo, apiVars, wr, txVars>>

AdapterRejects ==
    /\ Losses
    /\ Answer("NACK")
    /\ UNCHANGED <<listVars, semVars, msgResponseInfo, apiVars, wr, txVars,
                   atAdapter>>

LoseFrame ==
    /\ Losses /\ toAdapter # <<>>
    /\ toAdapter' = Tail(toAdapter)
    /\ UNCHANGED <<listVars, semVars, msgResponseInfo, apiVars, wr, txVars,
                   toDriver, atAdapter>>

LoseReply ==
    /\ Losses /\ toDriver # <<>>
    /\ toDriver' = Tail(toDriver)
    /\ UNCHANGED <<listVars, semVars, msgResponseInfo, apiVars, wr, txVars,
                   toAdapter, atAdapter>>

-----------------------------------------------------------------------------
(* The RX thread: addToResponseQueue, the part that concerns this path.    *)
(* The thread finishes what it is on before it sees that m_bRun is false,  *)
(* and close() joins it.                                                   *)

RxRuns == api # "closed"

\* Is this the reply that is awaited?
AnyReply(reply) == msgResponseInfo.bWaitingForAckNack
Awaited(reply)  == /\ msgResponseInfo.bWaitingForAckNack
                   /\ msgResponseInfo.seq = reply.seq

RxMatch ==
    /\ RxRuns /\ toDriver # <<>> /\ WaitForAck /\ Awaited(Head(toDriver))
    /\ toDriver' = Tail(toDriver)
    /\ msgResponseInfo' = [msgResponseInfo EXCEPT
            !.bWaitingForAckNack = FALSE,
            !.bAck = (Head(toDriver).type = "ACK")]
    /\ m_transmitAckNackSem' = semaphorePost(m_transmitAckNackSem)
    /\ UNCHANGED <<listVars, m_transmitDataGetSem, m_transmitDataPutSem,
                   apiVars, wr, txVars, toAdapter, atAdapter>>

RxIgnore ==
    /\ RxRuns /\ toDriver # <<>> /\ ~(WaitForAck /\ Awaited(Head(toDriver)))
    /\ toDriver' = Tail(toDriver)
    /\ UNCHANGED <<listVars, semVars, msgResponseInfo, apiVars, wr, txVars,
                   toAdapter, atAdapter>>

-----------------------------------------------------------------------------

Next ==
    \/ OpenStart \/ OpenDone \/ CloseFlags \/ ClosePosts \/ CloseJoin
    \/ \E w \in Writers : Writer(w)
    \/ TxThread
    \/ AdapterAccepts \/ AdapterRejects \/ LoseFrame \/ LoseReply
    \/ RxMatch \/ RxIgnore

Spec == Init /\ [][Next]_vars

\* Both threads run, waits end, the adapter answers what it gets. A line that
\* loses frames does not lose every one, nor every ACK, and an adapter that
\* rejects frames does not reject every one. Nobody has to write or to close.
Fairness ==
    /\ WF_vars(OpenDone) /\ WF_vars(ClosePosts) /\ WF_vars(CloseJoin)
    /\ WF_vars(TxRuns) /\ WF_vars(TxWakeAck) /\ WF_vars(TxAckTimeout)
    /\ WF_vars(TxWakeGet \/ TxGetTimeout) /\ WF_vars(TxArm) /\ SF_vars(TxSend)
    /\ SF_vars(AdapterAccepts) /\ WF_vars(RxIgnore)
    /\ SF_vars(RxMatch) /\ SF_vars(RxMatch /\ msgResponseInfo'.bAck)
    /\ \A w \in Writers :
          /\ WF_vars(TestRoom(w)) /\ WF_vars(WakeWriter(w))
          /\ WF_vars(AddToList(w)) /\ WF_vars(PostGet(w))

FairSpec == Spec /\ Fairness

-----------------------------------------------------------------------------
(* What makes the transmit path correct.                                   *)

TypeOK ==
    /\ m_transmitList \in Seq(Nat) /\ accepted \in Nat
    /\ m_transmitDataGetSem \in Nat /\ m_transmitDataPutSem \in Nat
    /\ m_transmitAckNackSem \in Nat
    /\ msgResponseInfo \in [bWaitingForAckNack : BOOLEAN, bAck : BOOLEAN,
                            seq : 0..SeqMod - 1]
    /\ m_bRun \in BOOLEAN /\ m_bOpen \in BOOLEAN
    /\ api \in {"closed", "opening", "open", "closing", "joining"}
    /\ sessions \in Nat
    /\ wr \in [Writers -> {"idle", "test", "testBlocking", "waitPut", "add",
                           "post"}]
    /\ tx \in {"exit", "loop", "waitAck", "readAck", "pop", "postPut",
               "checkList", "waitGet", "transmit", "arm", "send"}
    /\ bTransmissionInProgress \in BOOLEAN
    /\ seq \in 0..SeqMod - 1
    /\ frame \in [seq : 0..SeqMod - 1, msg : Nat]
    /\ toAdapter \in Seq([seq : 0..SeqMod - 1, msg : Nat])
    /\ toDriver \in Seq([type : {"ACK", "NACK"}, seq : 0..SeqMod - 1])
    /\ atAdapter \in Nat

\* The "Should not happen" of 2945 does not happen: while a message is in
\* transmission it is in the list, whatever replies come and when.
InProgressIsQueued == bTransmissionInProgress => m_transmitList # <<>>

\* README flag bit 3 in its strong form: when the TX thread is about to
\* remove the head, the adapter has accepted this very message, not an
\* earlier one whose late reply was taken for it.
RemovesOnlyDelivered ==
    (WaitForAck /\ tx = "pop") =>
        m_transmitList # <<>> /\ Head(m_transmitList) = atAdapter

\* A token that nobody waited for makes the TX thread take the next frame
\* for rejected and send it again. However late replies are, a session adds
\* at most one such token and close() one more; open() removes none.
StaleTokensBounded ==
    WaitForAck => m_transmitAckNackSem <= 2 * sessions + 1

\* Without writeMsgBlocking the list overshoots its nominal size by one, as the
\* room test is ">" (so that one writer alone already exceeds the "Max messages
\* in output queue" of can4vscpobj.h:99), and by one more for every further
\* writer between the room test and the append.
OvershootBounded ==
    ~BlockingWrites =>
        Len(m_transmitList) <= CAN4VSCP_MAX_SNDMSG + Cardinality(Writers)

\* Without ACKs a message is sent once: nothing reaches the adapter twice or
\* out of order, over sessions as well.
AtMostOnce ==
    [][(~WaitForAck /\ AdapterAccepts) => atAdapter' > atAdapter]_vars

\* The refinement: an application that writes and an adapter that listens
\* cannot tell this path from Outbox.
Promise == INSTANCE Outbox WITH queue <- m_transmitList
ImplementsOutbox == Promise!Spec

\* An accepted message reaches the adapter and leaves the list, unless the
\* channel is closed.
EventuallyDone ==
    WaitForAck => \A n \in 1..MaxMessages :
        (accepted >= n) ~> (\/ ~m_bOpen
                            \/ /\ atAdapter >= n
                               /\ \A i \in 1..Len(m_transmitList) :
                                     m_transmitList[i] > n)

\* "Wake any writer blocked on a full transmit queue": a writer that waits
\* for room gets on without its timeout, while the channel is open.
BlockedWriterWakes ==
    \A w \in Writers :
        (wr[w] = "waitPut") ~> (wr[w] # "waitPut" \/ ~m_bOpen)

\* "Max messages in output queue", can4vscpobj.h:99, with the allowance that
\* OvershootBounded makes for the room test and the writers' races, also when
\* they use writeMsgBlocking: what blocks is the limit.
BlockingKeepsLimit ==
    Len(m_transmitList) <= CAN4VSCP_MAX_SNDMSG + Cardinality(Writers)
=============================================================================
