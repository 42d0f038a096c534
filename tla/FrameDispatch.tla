---------------------------- MODULE FrameDispatch ----------------------------
(***************************************************************************)
(* readSerialData: what the receive thread does with a frame that Framing  *)
(* has received. CANAL frames, of one message or many, pass the filter     *)
(* into m_receiveList, where readers take them as the next ones are added; *)
(* the application sets filter and mask at any moment, without a lock.     *)
(* NOOP is answered with ACK, and what the driver has no use for with      *)
(* NACK. Replies go to addToResponseQueue, of which TransmitPath and       *)
(* CommandChannel are the continuation.                                    *)
(*                                                                         *)
(* An identifier, a timestamp, a filter and a mask are here the set of the *)
(* bits that are 1. A payload is the sequence of its messages. The waking  *)
(* of readers is in ReceiveQueue, m_activity in Session; "new" throws, it  *)
(* does not return NULL, and the branches for NULL are never taken.        *)
(***************************************************************************)
EXTENDS Integers, Sequences, SequencesExt

CONSTANTS
    Frames,             \* the frames that the adapter may send
    Settings,           \* the arguments of setFilter and setMask
    CAN4VSCP_MAX_RCVMSG,
    MaxFrames           \* bound: frames that arrive

CanalFrames == {"CANAL", "CANAL_TIMESTAMP", "MULTI_FRAME_CANAL",
                "MULTI_FRAME_CANAL_TIMESTAMP"}
Unsupported == {"VSCP_EVENT", "VSCP_EVENT_TIMESTAMP", "CONFIGURE", "POLL", "NO_EVENT",
                "MULTI_FRAME_VSCP", "MULTI_FRAME_VSCP_TIMESTAMP"}
Replies     == {"SENT_ACK", "SENT_NACK", "ACK", "NACK", "ERROR", "COMMAND_REPLY",
                "CAPS_RESPONSE", "COMMAND"}

\* Its sender gives every frame the size that its messages have.
ASSUME FrameDispatchAssumption ==
    /\ CAN4VSCP_MAX_RCVMSG \in Nat /\ MaxFrames \in Nat
    /\ Settings \subseteq SUBSET Nat
    /\ \A f \in Frames :
          /\ f.crcOk \in BOOLEAN
          /\ f.msgs \in Seq([id : SUBSET (0..31), timestamp : SUBSET (0..31), dlc : 0..255])
          /\ f.type = "CANAL_TIMESTAMP" => Len(f.msgs) = 1

VARIABLES
    place,              \* of the receive thread, see TypeOK
    frame,              \* what m_bufferMsgRcv holds
    posFrame,           \* the number of the message it has come to
    maskRead,           \* m_mask and m_filter as doFilter has read them
    filterRead,
    m_receiveList,
    m_filter, m_mask,
    cntReceiveFrames, cntReceiveData, cntOverruns, \* of m_stat
    sent,               \* the answers, in order: type, sequence number
    handedOn,           \* the calls of addToResponseQueue, in order
    arrived,            \* history: the frames received
    filtered,           \* history: messages dropped by the filter
    taken, takenData    \* history: what readers have got

threadVars  == <<place, frame, posFrame, maskRead, filterRead>>
filterVars  == <<m_filter, m_mask>>
statVars    == <<cntReceiveFrames, cntReceiveData, cntOverruns>>
answerVars  == <<sent, handedOn, arrived>>
vars == <<threadVars, m_receiveList, filterVars, statVars, answerVars, filtered,
          taken, takenData>>

NoFrame == [type |-> "none", seq |-> 0, crcOk |-> FALSE, msgs |-> <<>>]

Init ==
    /\ place = "idle" /\ frame = NoFrame /\ posFrame = 1
    /\ maskRead = {} /\ filterRead = {}
    /\ m_receiveList = <<>> /\ m_filter = {} /\ m_mask = {}
    /\ cntReceiveFrames = 0 /\ cntReceiveData = 0 /\ cntOverruns = 0
    /\ sent = <<>> /\ handedOn = <<>> /\ arrived = <<>>
    /\ filtered = 0 /\ taken = 0 /\ takenData = 0

-----------------------------------------------------------------------------
(* The filter.                                                             *)

\* m_filter and m_mask are uint32_t, the arguments unsigned long.
AllBits(n)  == n
uint32_t(n) == n \cap 0..31

setFilter(n) ==
    /\ m_filter' = uint32_t(n)
    /\ UNCHANGED <<threadVars, m_receiveList, m_mask, statVars, answerVars, filtered,
                   taken, takenData>>
setMask(n) ==
    /\ m_mask' = uint32_t(n)
    /\ UNCHANGED <<threadVars, m_receiveList, m_filter, statVars, answerVars, filtered,
                   taken, takenData>>

\* The bits that doFilter sets in the identifier, of whatever message: those of
\* the decimal numbers 80000000 and 40000000, as "flags | ..." is never 0.
BitsOf(n) == {b \in 0..30 : (n \div 2^b) % 2 = 1}
SetBits   == BitsOf(80000000) \cup BitsOf(40000000)
msgid(id) == (id \cap 0..28) \cup SetBits

PassesInverted(id, filter, mask) == (filter \cap msgid(id)) \cap mask = {}
Passes(id, filter, mask) == SymDiff(filter, msgid(id)) \cap mask = {}

-----------------------------------------------------------------------------
(* The messages of a frame.                                                *)

\* A CANAL frame's identifier is read from the frame's beginning each time.
IdOfFirst(f, k)  == f.msgs[1].id
IdOf(f, k)       == IF f.type = "CANAL" THEN f.msgs[1].id ELSE f.msgs[k].id
DataLength(f, k) == IF f.msgs[k].dlc > 8 THEN 8 ELSE f.msgs[k].dlc
HasTimestamp(f)  == f.type \in {"CANAL_TIMESTAMP", "MULTI_FRAME_CANAL_TIMESTAMP"}

\* A timestamp of the host's own clock is {} here. "from" is history.
canalMsg(f, k) ==
    [id        |-> IdOf(f, k) \cap 0..28,
     timestamp |-> IF HasTimestamp(f) THEN f.msgs[k].timestamp \cap 0..28 ELSE {},
     sizeData  |-> DataLength(f, k),
     from      |-> <<Len(arrived), k>>]

CanalMsgs == [id : SUBSET (0..28), timestamp : SUBSET (0..28), sizeData : 0..8,
              from : Nat \X Nat]

\* "Corrupt payload structure inside frame, abandon multi-frame parse".
Abandons(f, k) == f.type \in {"CANAL", "MULTI_FRAME_CANAL_TIMESTAMP"} /\ f.msgs[k].dlc > 8

ForgetsSettings == maskRead' = {} /\ filterRead' = {}
GoesOn == place' = "message" /\ posFrame' = posFrame + 1 /\ ForgetsSettings /\ UNCHANGED frame
Ends   == place' = "idle" /\ posFrame' = 1 /\ ForgetsSettings /\ frame' = NoFrame
AtMessage == place = "message" /\ posFrame <= Len(frame.msgs)
HasRoom   == Len(m_receiveList) < CAN4VSCP_MAX_RCVMSG

\* The end of the payload.
EndOfFrame ==
    /\ place = "message" /\ posFrame > Len(frame.msgs)
    /\ Ends
    /\ UNCHANGED <<m_receiveList, filterVars, statVars, answerVars, filtered, taken, takenData>>

Abandon ==
    /\ AtMessage /\ Abandons(frame, posFrame)
    /\ cntOverruns' = cntOverruns + 1
    /\ Ends
    /\ UNCHANGED <<m_receiveList, filterVars, cntReceiveFrames, cntReceiveData, answerVars,
                   filtered, taken, takenData>>

WaitForRoom == FALSE
SkipsUncounted == GoesOn /\ UNCHANGED cntOverruns
CountsOverrun  == GoesOn /\ cntOverruns' = cntOverruns + 1
\* "Log overrun BUT still advance pointers to prevent hanging".
Overrun ==
    /\ AtMessage /\ ~Abandons(frame, posFrame) /\ ~HasRoom
    /\ CountsOverrun
    /\ UNCHANGED <<m_receiveList, filterVars, cntReceiveFrames, cntReceiveData, answerVars,
                   filtered, taken, takenData>>

\* doFilter passes: to the list, and then to the statistics.
AddToList ==
    /\ m_receiveList' = Append(m_receiveList, canalMsg(frame, posFrame))
    /\ place' = "count" /\ ForgetsSettings
    /\ UNCHANGED <<frame, posFrame, filtered>>

\* doFilter begins: without a mask everything passes ("fast escape").
TakeMessage ==
    /\ AtMessage /\ ~Abandons(frame, posFrame) /\ HasRoom
    /\ \/ m_mask = {} /\ AddToList
       \/ /\ m_mask # {}
          /\ place' = "test" /\ maskRead' = m_mask
          /\ UNCHANGED <<frame, posFrame, filterRead, m_receiveList, filtered>>
    /\ UNCHANGED <<filterVars, statVars, answerVars, taken, takenData>>

\* The first of the two operands of "&". Whether m_mask is read again, and which
\* operand is read first, is the compiler's choice.
ReadOperand ==
    /\ place = "test"
    /\ \/ place' = "filter" /\ maskRead' \in {maskRead, m_mask} /\ UNCHANGED filterRead
       \/ place' = "mask" /\ filterRead' = m_filter /\ maskRead' = {}
    /\ UNCHANGED <<frame, posFrame, m_receiveList, filterVars, statVars, answerVars, filtered,
                   taken, takenData>>

Decide(filter, mask) ==
    IF Passes(IdOf(frame, posFrame), filter, mask)
    THEN AddToList
    ELSE filtered' = filtered + 1 /\ GoesOn /\ UNCHANGED m_receiveList

\* The other operand is read, and doFilter ends.
Test ==
    /\ \/ place = "filter" /\ Decide(m_filter, maskRead)
       \/ place = "mask" /\ Decide(filterRead, m_mask)
    /\ UNCHANGED <<filterVars, statVars, answerVars, taken, takenData>>

\* The statistics, after the mutex has been left.
UnclippedData   == cntReceiveData + frame.msgs[posFrame].dlc
CountedData     == cntReceiveData + DataLength(frame, posFrame)
Count ==
    /\ place = "count"
    /\ cntReceiveData' = CountedData
    /\ cntReceiveFrames' = cntReceiveFrames + 1
    /\ GoesOn
    /\ UNCHANGED <<m_receiveList, filterVars, cntOverruns, answerVars, filtered, taken, takenData>>

HandleMessage ==
    EndOfFrame \/ Abandon \/ Overrun \/ TakeMessage \/ ReadOperand \/ Test \/ Count

-----------------------------------------------------------------------------
(* The frames.                                                             *)

Arrives(f) ==
    /\ place = "idle" /\ Len(arrived) < MaxFrames
    /\ arrived' = Append(arrived, f)
    /\ UNCHANGED <<m_receiveList, filterVars, statVars, filtered, taken, takenData>>

CrcIgnored(f) == TRUE
CrcIsOk(f)    == f.crcOk

\* A wrong CRC, or a type that readSerialData does not know.
ReadIgnored(f) ==
    /\ Arrives(f)
    /\ ~CrcIsOk(f) \/ f.type \notin {"NOOP"} \cup CanalFrames \cup Unsupported \cup Replies
    /\ UNCHANGED <<threadVars, sent, handedOn>>

sendACK(seq)  == sent' = Append(sent, <<"ACK", seq>>)
sendNACK(seq) == sent' = Append(sent, <<"NACK", seq>>)

ReadNoop(f) ==
    /\ Arrives(f) /\ CrcIsOk(f) /\ f.type = "NOOP"
    /\ sendACK(f.seq)
    /\ UNCHANGED <<threadVars, handedOn>>

ReadUnsupported(f) ==
    /\ Arrives(f) /\ CrcIsOk(f) /\ f.type \in Unsupported
    /\ sendNACK(f.seq)
    /\ UNCHANGED <<threadVars, handedOn>>

ReadReply(f) ==
    /\ Arrives(f) /\ CrcIsOk(f) /\ f.type \in Replies
    /\ handedOn' = Append(handedOn, f)
    /\ UNCHANGED <<threadVars, sent>>

ReadCanal(f) ==
    /\ Arrives(f) /\ CrcIsOk(f) /\ f.type \in CanalFrames
    /\ place' = "message" /\ frame' = f /\ posFrame' = 1
    /\ UNCHANGED <<maskRead, filterRead, sent, handedOn>>

\* A reader takes the first message: readMsg and readMsgBlocking.
ReadMsg ==
    /\ m_receiveList # <<>>
    /\ m_receiveList' = Tail(m_receiveList)
    /\ taken' = taken + 1 /\ takenData' = takenData + Head(m_receiveList).sizeData
    /\ UNCHANGED <<threadVars, filterVars, statVars, answerVars, filtered>>

-----------------------------------------------------------------------------

Next ==
    \/ \E f \in Frames : \/ ReadIgnored(f) \/ ReadNoop(f) \/ ReadUnsupported(f)
                         \/ ReadReply(f) \/ ReadCanal(f)
    \/ HandleMessage
    \/ ReadMsg
    \/ \E n \in Settings : setFilter(n) \/ setMask(n)

Spec == Init /\ [][Next]_vars

\* The receive thread runs; nobody has to read, and no frame has to come.
FairSpec == Spec /\ WF_vars(HandleMessage)

-----------------------------------------------------------------------------
(* What makes the dispatch correct.                                        *)

TypeOK ==
    /\ place \in {"idle", "message", "test", "filter", "mask", "count"}
    /\ frame \in Frames \cup {NoFrame} /\ posFrame \in Nat \ {0}
    /\ maskRead \in SUBSET (0..31) /\ filterRead \in SUBSET (0..31)
    /\ m_receiveList \in Seq(CanalMsgs)
    /\ m_filter \in SUBSET (0..31) /\ m_mask \in SUBSET (0..31)
    /\ cntReceiveFrames \in Nat /\ cntReceiveData \in Nat /\ cntOverruns \in Nat
    /\ sent \in Seq({"ACK", "NACK"} \X {f.seq : f \in Frames}) /\ handedOn \in Seq(Frames)
    /\ arrived \in Seq(Frames)
    /\ filtered \in Nat /\ taken \in Nat /\ takenData \in Nat

\* The messages of the CANAL frames that have arrived, each as <<number of its
\* frame, its own number>>; those that the receive thread has not come to; and
\* those that it never looked at, as one in front of them was corrupt.
Canals    == {i \in DOMAIN arrived : arrived[i].crcOk /\ arrived[i].type \in CanalFrames}
Messages  == UNION {{i} \X (1..Len(arrived[i].msgs)) : i \in Canals}
Behind(m) == \E k \in 1..m[2] - 1 : Abandons(arrived[m[1]], k)
ToCome    == {m \in Messages : place # "idle" /\ m[1] = Len(arrived) /\ m[2] >= posFrame}
Abandoned == {m \in Messages \ ToCome : Behind(m)}

\* Each message of the frames that have arrived is counted as received, dropped
\* by the filter or counted as an overrun, once; also when the list is full and
\* while others read and set. What is behind a corrupt message is abandoned with
\* it, and no counter of the driver has it.
Accounted ==
    Cardinality(Messages) = cntReceiveFrames + filtered + cntOverruns
                            + Cardinality(ToCome) + Cardinality(Abandoned)

\* Readers find messages that the adapter has sent, each once and in order, none
\* from behind a corrupt one, with the length sent. This says little of two
\* values: of a timestamp, the lower 29 bits (TimestampAsSent has the rest), and
\* of the messages behind the first in a CANAL frame, which all get the first
\* one's identifier, no identifier.
AsSent(e) ==
    LET f == arrived[e.from[1]]
        a == f.msgs[e.from[2]]
    IN  /\ f.crcOk /\ f.type \in CanalFrames /\ ~Behind(e.from)
        /\ f.type # "CANAL" \/ e.from[2] = 1 => e.id = a.id \cap 0..28
        /\ e.sizeData <= a.dlc /\ (a.dlc <= 8 => e.sizeData = a.dlc)
        /\ HasTimestamp(f) => e.timestamp \cap 0..28 = a.timestamp \cap 0..28
Before(p, q) == p[1] < q[1] \/ (p[1] = q[1] /\ p[2] < q[2])
ListedAsSent ==
    /\ \A i \in DOMAIN m_receiveList : AsSent(m_receiveList[i])
    /\ \A i, j \in DOMAIN m_receiveList :
          i < j => Before(m_receiveList[i].from, m_receiveList[j].from)

\* "Extract 32-bit Timestamp": a message in the list has the whole timestamp that
\* the adapter has sent with it. (It has not: the mask is an identifier's.)
TimestampAsSent ==
    \A i \in DOMAIN m_receiveList :
        LET e == m_receiveList[i]
            f == arrived[e.from[1]]
        IN  HasTimestamp(f) => e.timestamp = f.msgs[e.from[2]].timestamp

\* The numbers of the frames that ask for an answer, and of the replies; which
\* one of them a frame is.
Asking     == {i \in DOMAIN arrived :
                  arrived[i].crcOk /\ arrived[i].type \in {"NOOP"} \cup Unsupported}
Replying   == {i \in DOMAIN arrived : arrived[i].crcOk /\ arrived[i].type \in Replies}
UpTo(S, i) == Cardinality({j \in S : j <= i})
Answer(f)  == <<IF f.type = "NOOP" THEN "ACK" ELSE "NACK", f.seq>>

\* Every NOOP and every frame that the driver does not support has exactly one
\* answer with its own sequence number, every reply goes to those who wait for
\* it, and nothing else is answered: no answer to an answer, none to a frame
\* whose CRC is wrong. Answers and replies keep the order of the frames. An
\* answer is one that is given to sendMsg, whose failure nobody looks at.
AnsweredOnce ==
    /\ Len(sent) = Cardinality(Asking)
    /\ \A i \in Asking : sent[UpTo(Asking, i)] = Answer(arrived[i])
    /\ Len(handedOn) = Cardinality(Replying)
    /\ \A i \in Replying : handedOn[UpTo(Replying, i)] = arrived[i]

\* The data bytes of the messages in a list.
DataBytes(list) == {p \in (DOMAIN list) \X (1..8) : p[2] <= list[p[1]].sizeData}

\* The statistics agree with what readers have got and can get. They are one
\* message behind when it is read before the receive thread has counted it. This
\* is of one session: open() resets them, and the list may outlive close().
StatisticsFollow ==
    LET behind == place = "count"
        queued == Cardinality(DataBytes(m_receiveList))
    IN  /\ taken + Len(m_receiveList) = cntReceiveFrames + IF behind THEN 1 ELSE 0
        /\ takenData + queued = cntReceiveData + IF behind THEN DataLength(frame, posFrame) ELSE 0

\* The filter lets pass what the table beside m_filter says, for masks without
\* the bits that doFilter changes, if what doFilter has read is still set.
Tabled(id, filter, mask) == \A b \in mask : b \in filter <=> b \in id
FilterAsTabled ==
    [][LET listed  == Len(m_receiveList') > Len(m_receiveList)
           dropped == filtered' > filtered
       IN  /\ listed \/ dropped
           /\ (place = "filter" => maskRead = m_mask)
           /\ (place = "mask" => filterRead = m_filter)
           /\ m_mask \cap (SetBits \cup 29..31) = {}
           => (listed <=> Tabled(IdOf(frame, posFrame), m_filter, m_mask))]_vars

\* The receive thread comes to the end of every frame, whether anybody reads or
\* not: a full list does not hold up the replies behind it.
FrameIsHandled == place # "idle" ~> place = "idle"
=============================================================================
