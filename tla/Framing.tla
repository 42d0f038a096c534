------------------------------- MODULE Framing -------------------------------
(***************************************************************************)
(* Frames on the serial line: can4vscp_buildFrame stuffs a frame, sendMsg  *)
(* writes it to the port under m_can4vscpMutex, whichever thread sends,    *)
(* and at the other end serialData2StateMachine takes the bytes, as they   *)
(* come, for frames again. Both directions use the same format; the model  *)
(* has the driver's sender at one end and its receiver at the other.       *)
(*                                                                         *)
(* The line may lose, change or invent a byte, a write may be cut short,   *)
(* and the receiving end may be opened anew at any moment. A frame is      *)
(* stuffed as it is written, and a byte is received as it is sent: the     *)
(* buffers between have no other user.                                     *)
(***************************************************************************)
EXTENDS Integers, Sequences

CONSTANTS
    Threads,            \* threads that send frames
    Frames,             \* contents: type, channel, sequence number, size (2), payload
    Bytes, DLE, STX, ETX,
    Crc(_),             \* crc8 over a sequence of bytes
    BufferSize,         \* of m_bufferMsgRcv
    MaxFrames,          \* bound: frames begun
    MaxFaults           \* bound: disturbances of the line

\* No frame type and no channel in use is DLE: these two are not stuffed.
ASSUME FramingAssumption ==
    /\ "none" \notin Threads
    /\ {DLE, STX, ETX} \subseteq Bytes
    /\ DLE # STX /\ DLE # ETX /\ STX # ETX
    /\ BufferSize \in Nat /\ MaxFrames \in Nat /\ MaxFaults \in Nat
    /\ \A f \in Frames :
          /\ f \in Seq(Bytes)
          /\ Len(f) >= 5 /\ Len(f) < BufferSize
          /\ f[1] # DLE /\ f[2] # DLE
          /\ Crc(f) \in Bytes

VARIABLES
    m_can4vscpMutex,    \* the thread that writes to the port, or "none"
    phase,              \* where each thread is in its frame
    content,            \* the frame each thread sends, CRC included
    pos,                \* how much of it has been written
    m_RxMsgState, m_RxMsgSubState, \* of the receiver
    m_bufferMsgRcv,     \* its first m_lengthMsgRcv bytes
    begun, faults,      \* counters for the bounds
    written,            \* history: bytes that went into each thread's frame
    disturbed,          \* history: since the frame that is being sent began
    sent, arrived, newest, doubt \* history: see FrameLine

senderVars   == <<m_can4vscpMutex, phase, content, pos, written>>
receiverVars == <<m_RxMsgState, m_RxMsgSubState, m_bufferMsgRcv>>
frameVars    == <<sent, arrived, newest, doubt>>
vars == <<senderVars, receiverVars, begun, faults, disturbed, frameVars>>

Init ==
    /\ m_can4vscpMutex = "none"
    /\ phase = [t \in Threads |-> "idle"]
    /\ content = [t \in Threads |-> <<>>] /\ pos = [t \in Threads |-> 0]
    /\ m_RxMsgState = "NONE" /\ m_RxMsgSubState = "NONE"
    /\ m_bufferMsgRcv = <<>>
    /\ begun = 0 /\ faults = 0
    /\ written = [t \in Threads |-> 0]
    /\ disturbed = FALSE
    /\ sent = 0 /\ arrived = 0 /\ newest = <<>> /\ doubt = FALSE

-----------------------------------------------------------------------------
(* The receiver.                                                           *)

Receiver(state, subState, buffer) ==
    /\ m_RxMsgState' = state /\ m_RxMsgSubState' = subState
    /\ m_bufferMsgRcv' = buffer

\* Data is kept while there is room; then "start all over".
RoomForOneMore == Len(m_bufferMsgRcv) <= BufferSize
HasRoom        == Len(m_bufferMsgRcv) < BufferSize
Store(c) ==
    \/ HasRoom /\ Receiver("STX", "NONE", Append(m_bufferMsgRcv, c))
    \/ ~HasRoom /\ Receiver("NONE", "NONE", <<>>)

\* INCOMING_STATE_NONE: waiting for DLE STX.
AwaitStart(c) ==
    \/ /\ m_RxMsgSubState = "NONE" /\ c = DLE
       /\ Receiver("NONE", "DLE", m_bufferMsgRcv)
    \/ /\ m_RxMsgSubState = "DLE" /\ c = STX
       /\ Receiver("STX", "NONE", <<>>)
    \/ /\ ~(m_RxMsgSubState = "NONE" /\ c = DLE)
       /\ ~(m_RxMsgSubState = "DLE" /\ c = STX)
       /\ Receiver("NONE", "NONE", <<>>)

\* can4vscp_checkCRC
ContentReceived == SubSeq(m_bufferMsgRcv, 1, Len(m_bufferMsgRcv) - 1)
checkCRC ==
    /\ m_bufferMsgRcv # <<>>
    /\ Crc(ContentReceived) = m_bufferMsgRcv[Len(m_bufferMsgRcv)]

\* INCOMING_STATE_STX: within a frame. DLE STX starts it again, DLE ETX ends
\* it, and readSerialData passes it on if its CRC is right.
StateETX     == "ETX"
StateAfter   == "NONE"
FrameEnds(c) == m_RxMsgState = "STX" /\ m_RxMsgSubState = "DLE" /\ c = ETX

InFrame(c) ==
    \/ /\ m_RxMsgSubState = "NONE" /\ c = DLE
       /\ Receiver("STX", "DLE", m_bufferMsgRcv)
    \/ /\ m_RxMsgSubState = "DLE" /\ c = STX
       /\ Receiver("STX", "NONE", <<>>)
    \/ /\ FrameEnds(c)
       /\ Receiver(StateAfter, "NONE", m_bufferMsgRcv)
    \/ /\ IF m_RxMsgSubState = "NONE" THEN c # DLE ELSE c \notin {STX, ETX}
       /\ Store(c)

\* serialData2StateMachine takes one byte.
serialData2StateMachine(c) ==
    /\ \/ m_RxMsgState = "NONE" /\ AwaitStart(c)
       \/ m_RxMsgState = "STX" /\ InFrame(c)
    /\ IF FrameEnds(c) /\ checkCRC
       THEN arrived' = arrived + 1 /\ newest' = ContentReceived
       ELSE UNCHANGED <<arrived, newest>>

-----------------------------------------------------------------------------
(* The sender.                                                             *)

\* sendMsg is alone with the port.
AnyoneWrites == TRUE
PortIsFree   == m_can4vscpMutex = "none"

\* buildFrame; then sendMsg takes the mutex and writes.
Begin(t, f) ==
    /\ phase[t] = "idle" /\ begun < MaxFrames
    /\ PortIsFree
    /\ m_can4vscpMutex' = t
    /\ phase' = [phase EXCEPT ![t] = "start"]
    /\ content' = [content EXCEPT ![t] = Append(f, Crc(f))]
    /\ begun' = begun + 1
    /\ disturbed' = FALSE
    /\ UNCHANGED <<pos, written, receiverVars, faults, frameVars>>

Remains(t)  == pos[t] < Len(content[t])
NextByte(t) == content[t][pos[t] + 1]

\* can4vscp_addWithEscape: from the sequence number on, DLE is doubled.
StuffedLate(t) == pos[t] >= 3 /\ NextByte(t) = DLE
Stuffed(t)     == pos[t] >= 2 /\ NextByte(t) = DLE

StaysAtByte(t) == pos[t]
PastByte(t)    == pos[t] + 1

Step(t, from, byte, c, to, next) ==
    /\ phase[t] = from /\ c = byte
    /\ phase' = [phase EXCEPT ![t] = to]
    /\ pos' = [pos EXCEPT ![t] = next]
    /\ written' = [written EXCEPT ![t] = written[t] + 1]
    /\ UNCHANGED <<m_can4vscpMutex, content>>

\* The thread lets go of the port and forgets its frame.
Ends(t) ==
    /\ phase' = [phase EXCEPT ![t] = "idle"]
    /\ m_can4vscpMutex' = "none"
    /\ content' = [content EXCEPT ![t] = <<>>]
    /\ pos' = [pos EXCEPT ![t] = 0]
    /\ written' = [written EXCEPT ![t] = 0]

\* buildFrame's next byte is c.
Writes(t, c) ==
    /\ \/ Step(t, "start", DLE, c, "stx", 0)
       \/ Step(t, "stx", STX, c, "body", 0)
       \/ /\ Remains(t) /\ Stuffed(t)
          /\ Step(t, "body", DLE, c, "escape", pos[t])
       \/ Step(t, "escape", DLE, c, "body", PastByte(t))
       \/ /\ Remains(t) /\ ~Stuffed(t)
          /\ Step(t, "body", NextByte(t), c, "body", pos[t] + 1)
       \/ /\ ~Remains(t)
          /\ Step(t, "body", DLE, c, "end", pos[t])
       \/ phase[t] = "end" /\ c = ETX /\ Ends(t)
    /\ UNCHANGED begun

\* A byte goes over the line. The frame that passes undisturbed ends a doubt.
SendByte(t) ==
    /\ \E c \in Bytes : Writes(t, c) /\ serialData2StateMachine(c)
    /\ IF phase[t] = "end" /\ ~disturbed
       THEN sent' = sent + 1 /\ doubt' = FALSE
       ELSE UNCHANGED <<sent, doubt>>
    /\ UNCHANGED <<faults, disturbed>>

-----------------------------------------------------------------------------
(* Faults of the line (external) and what else breaks a frame off.         *)

Disturbs ==
    /\ faults < MaxFaults
    /\ faults' = faults + 1
    /\ disturbed' = TRUE /\ doubt' = TRUE
    /\ UNCHANGED sent

LoseByte(t) ==
    /\ \E c \in Bytes : Writes(t, c)
    /\ Disturbs
    /\ UNCHANGED <<receiverVars, arrived, newest>>

ChangeByte(t) ==
    /\ \E c \in Bytes : Writes(t, c)
                        /\ \E d \in Bytes \ {c} : serialData2StateMachine(d)
    /\ Disturbs

\* Noise, or a byte that comes twice.
InventByte ==
    /\ \E d \in Bytes : serialData2StateMachine(d)
    /\ Disturbs
    /\ UNCHANGED <<senderVars, begun>>

\* comm_puts fails after some bytes: sendMsg returns false.
CutShort(t) ==
    /\ phase[t] # "idle"
    /\ Ends(t)
    /\ Disturbs
    /\ UNCHANGED <<receiverVars, begun, arrived, newest>>

\* open() resets the state machine, while the other end may be sending.
OpenAnew ==
    /\ Receiver("NONE", "NONE", m_bufferMsgRcv)
    /\ Disturbs
    /\ UNCHANGED <<senderVars, begun, arrived, newest>>

-----------------------------------------------------------------------------

Next ==
    \/ \E t \in Threads :
          \/ \E f \in Frames : Begin(t, f)
          \/ SendByte(t) \/ LoseByte(t) \/ ChangeByte(t) \/ CutShort(t)
    \/ InventByte \/ OpenAnew

Spec == Init /\ [][Next]_vars

-----------------------------------------------------------------------------
(* What makes the framing correct.                                         *)

TypeOK ==
    /\ m_can4vscpMutex \in Threads \cup {"none"}
    /\ phase \in [Threads -> {"idle", "start", "stx", "body", "escape", "end"}]
    /\ content \in [Threads -> Seq(Bytes)]
    /\ pos \in [Threads -> Nat] /\ written \in [Threads -> Nat]
    /\ m_RxMsgState \in {"NONE", "STX"} /\ m_RxMsgSubState \in {"NONE", "DLE"}
    /\ m_bufferMsgRcv \in Seq(Bytes)
    /\ begun \in Nat /\ faults \in Nat /\ disturbed \in BOOLEAN
    /\ sent \in Nat /\ arrived \in Nat /\ newest \in Seq(Bytes)
    /\ doubt \in BOOLEAN

\* "pbuf ... must be large enough to hold the worst case stuffed frame (2 *
\* (7 + lenPayload) bytes)" (can4vscp-protocol.h:129): buildFrame never
\* writes more than that, wherever DLE falls, in the CRC too. (Within a frame
\* ETX at least is still to come.)
WorstCase(t) == 2 * (7 + (Len(content[t]) - 6))
WorstCaseHolds ==
    \A t \in Threads : phase[t] # "idle" => written[t] < WorstCase(t)

\* The receiver's buffer is never overrun, and what is in it came since the
\* frame's start, also when frames run into each other.
BufferHolds == Len(m_bufferMsgRcv) <= BufferSize

\* No buffer is overrun on either side, whatever bytes the frames hold, however
\* the threads' frames follow on each other and whatever the line makes of them.
BuffersHold == WorstCaseHolds /\ BufferHolds

\* The line of bytes is a line of frames: one that passes undisturbed arrives
\* as it was sent, and none is lost but the first after a disturbance.
Line == INSTANCE FrameLine
ImplementsFrameLine == Line!Spec
=============================================================================
