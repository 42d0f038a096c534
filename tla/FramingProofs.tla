---------------------------- MODULE FramingProofs ----------------------------
(***************************************************************************)
(* Framing for every set of threads and frames, every checksum and every   *)
(* buffer size: a frame that passes undisturbed brings the receiver back   *)
(* into step, and in step nothing is lost.                                 *)
(***************************************************************************)
EXTENDS Framing, SequenceTheorems, TLAPS

\* What a thread has of its frame. Up to the sequence number a byte is
\* written once, from there on at most twice.
IsFrame(s) == \E f \in Frames : s = Append(f, Crc(f))
AtMost(n)  == IF n <= 2 THEN 2 + n ELSE 2 * n

SenderInv(t) ==
    /\ phase[t] # "idle" => IsFrame(content[t])
    /\ phase[t] \in {"idle", "start", "stx"} => pos[t] = 0
    /\ phase[t] \in {"idle", "start"} => written[t] = 0
    /\ phase[t] = "stx" => written[t] = 1
    /\ phase[t] = "body" => pos[t] <= Len(content[t]) /\ written[t] <= AtMost(pos[t])
    /\ phase[t] = "escape" =>
          /\ Remains(t) /\ Stuffed(t)
          /\ written[t] <= AtMost(pos[t]) + 1
    /\ phase[t] = "end" =>
          pos[t] = Len(content[t]) /\ written[t] <= AtMost(pos[t]) + 1

Exclusion == \A t \in Threads : phase[t] # "idle" <=> m_can4vscpMutex = t

\* The parity of the DLEs is right in a frame that nothing has disturbed,
\* even if the receiver takes its bytes for something else.
Phased(t) ==
    /\ phase[t] = "body" => m_RxMsgSubState = "NONE"
    /\ phase[t] \in {"escape", "end"} => m_RxMsgSubState = "DLE"

Matches(t) ==
    /\ m_RxMsgState = "STX"
    /\ Len(m_bufferMsgRcv) = pos[t]
    /\ \A i \in 1..pos[t] : m_bufferMsgRcv[i] = content[t][i]

InStep(t) ==
    /\ phase[t] = "start" => m_RxMsgState = "NONE" /\ m_RxMsgSubState = "NONE"
    /\ phase[t] = "stx" => m_RxMsgState = "NONE" /\ m_RxMsgSubState = "DLE"
    /\ phase[t] \in {"body", "escape", "end"} => Matches(t)

IInv ==
    /\ TypeOK
    /\ BufferHolds
    /\ Exclusion
    /\ \A t \in Threads : SenderInv(t)
    /\ \A t \in Threads : phase[t] # "idle" /\ disturbed => doubt
    /\ \A t \in Threads : phase[t] # "idle" /\ ~disturbed => Phased(t)
    /\ \A t \in Threads : phase[t] # "idle" /\ ~doubt => InStep(t)
    /\ m_can4vscpMutex = "none" /\ ~doubt =>
          m_RxMsgState = "NONE" /\ m_RxMsgSubState = "NONE"

-----------------------------------------------------------------------------
(* Frames.                                                                 *)

\* What a thread sends is a sequence of bytes with two that are not DLE in
\* front, it is longer than its header, and the receiver has room for it.
LEMMA FrameFacts ==
    ASSUME NEW s, IsFrame(s)
    PROVE  /\ s \in Seq(Bytes)
           /\ Len(s) \in Nat /\ Len(s) >= 6 /\ Len(s) <= BufferSize
           /\ s[1] # DLE /\ s[2] # DLE
           /\ \A i \in 1..Len(s) : s[i] \in Bytes
  <1>1. PICK f \in Frames : s = Append(f, Crc(f))
    BY DEF IsFrame
  <1>2. /\ f \in Seq(Bytes) /\ Len(f) \in Nat /\ Len(f) >= 5 /\ Len(f) < BufferSize
        /\ f[1] # DLE /\ f[2] # DLE /\ Crc(f) \in Bytes
    BY FramingAssumption
  <1>3. /\ s \in Seq(Bytes) /\ Len(s) = Len(f) + 1
        /\ \A i \in 1..Len(f) : s[i] = f[i]
    BY <1>1, <1>2, AppendProperties
  <1>4. s[1] = f[1] /\ s[2] = f[2]
    BY <1>2, <1>3
  <1>5. \A i \in 1..Len(s) : s[i] \in Bytes
    BY <1>3, ElementOfSeq
  <1>. QED
    BY <1>2, <1>3, <1>4, <1>5, FramingAssumption

\* A frame whose bytes are all there has passed the test of its checksum.
LEMMA WholeFrame ==
    ASSUME NEW f \in Frames, NEW s, s = Append(f, Crc(f)),
           NEW buffer \in Seq(Bytes), Len(buffer) = Len(s),
           \A i \in 1..Len(s) : buffer[i] = s[i]
    PROVE  /\ buffer # <<>>
           /\ SubSeq(buffer, 1, Len(buffer) - 1) = f
           /\ Crc(f) = buffer[Len(buffer)]
  <1>1. f \in Seq(Bytes) /\ Len(f) \in Nat /\ Len(f) >= 5 /\ Crc(f) \in Bytes
    BY FramingAssumption
  <1>2. /\ Len(s) = Len(f) + 1 /\ s[Len(f) + 1] = Crc(f)
        /\ \A i \in 1..Len(f) : s[i] = f[i]
    BY <1>1, AppendProperties
  <1>3. /\ SubSeq(buffer, 1, Len(f)) \in Seq(Bytes)
        /\ Len(SubSeq(buffer, 1, Len(f))) = Len(f)
        /\ \A i \in 1..Len(f) : SubSeq(buffer, 1, Len(f))[i] = buffer[i]
    BY <1>1, <1>2, SubSeqProperties
  <1>4. SubSeq(buffer, 1, Len(f)) = f
    BY <1>1, <1>2, <1>3, SeqEqual
  <1>5. buffer # <<>>
    BY <1>1, <1>2, EmptySeq
  <1>. QED
    BY <1>1, <1>2, <1>4, <1>5

-----------------------------------------------------------------------------
(* The receiver, byte by byte.                                             *)

\* Whatever comes, the receiver's state stays well formed.
LEMMA ReceiverKeepsType ==
    ASSUME TypeOK, BufferHolds, NEW c \in Bytes, serialData2StateMachine(c)
    PROVE  /\ m_RxMsgState' \in {"NONE", "STX"}
           /\ m_RxMsgSubState' \in {"NONE", "DLE"}
           /\ m_bufferMsgRcv' \in Seq(Bytes)
           /\ BufferHolds'
           /\ arrived' \in Nat /\ newest' \in Seq(Bytes)
  <1>1. /\ Append(m_bufferMsgRcv, c) \in Seq(Bytes)
        /\ Len(Append(m_bufferMsgRcv, c)) = Len(m_bufferMsgRcv) + 1
        /\ Len(m_bufferMsgRcv) \in Nat
    BY AppendProperties, LenProperties DEF TypeOK
  <1>2. <<>> \in Seq(Bytes) /\ Len(<<>>) = 0
    BY EmptySeq
  <1>3. m_bufferMsgRcv # <<>> => ContentReceived \in Seq(Bytes)
    BY SubSeqProperties, EmptySeq DEF TypeOK, ContentReceived
  <1>. BufferSize \in Nat
    BY FramingAssumption
  <1>4. CASE m_RxMsgState = "NONE" /\ AwaitStart(c)
    <2>1. UNCHANGED <<arrived, newest>>
      BY <1>4 DEF serialData2StateMachine, FrameEnds
    <2>2. /\ m_RxMsgState' \in {"NONE", "STX"}
          /\ m_RxMsgSubState' \in {"NONE", "DLE"}
          /\ m_bufferMsgRcv' = m_bufferMsgRcv \/ m_bufferMsgRcv' = <<>>
      BY <1>4 DEF AwaitStart, Receiver
    <2>3. m_bufferMsgRcv' \in Seq(Bytes)
      BY <1>2, <2>2 DEF TypeOK
    <2>5. m_bufferMsgRcv' = <<>> => Len(m_bufferMsgRcv') = 0
      BY <2>3, EmptySeq
    <2>6. Len(m_bufferMsgRcv') <= BufferSize
      BY <2>2, <2>5 DEF BufferHolds
    <2>4. arrived' \in Nat /\ newest' \in Seq(Bytes)
      BY <2>1 DEF TypeOK
    <2>. QED
      BY <2>2, <2>3, <2>4, <2>6 DEF BufferHolds
  <1>5. CASE m_RxMsgState = "STX" /\ InFrame(c)
    <2>1. /\ m_RxMsgState' \in {"NONE", "STX"}
          /\ m_RxMsgSubState' \in {"NONE", "DLE"}
          /\ \/ m_bufferMsgRcv' = m_bufferMsgRcv
             \/ m_bufferMsgRcv' = <<>>
             \/ /\ m_bufferMsgRcv' = Append(m_bufferMsgRcv, c)
                /\ Len(m_bufferMsgRcv) < BufferSize
      BY <1>5 DEF InFrame, Store, HasRoom, Receiver, StateAfter
    <2>2. arrived' \in Nat /\ newest' \in Seq(Bytes)
      BY <1>3 DEF serialData2StateMachine, checkCRC, TypeOK
    <2>3. m_bufferMsgRcv' \in Seq(Bytes)
      BY <1>1, <1>2, <2>1 DEF TypeOK
    <2>4. m_bufferMsgRcv' = <<>> => Len(m_bufferMsgRcv') = 0
      BY <2>3, EmptySeq
    <2>5. Len(m_bufferMsgRcv') <= BufferSize
      BY <1>1, <2>1, <2>4 DEF BufferHolds
    <2>. QED
      BY <2>1, <2>2, <2>3, <2>5 DEF BufferHolds
  <1>. QED
    BY <1>4, <1>5 DEF serialData2StateMachine

\* The first DLE of a pair only changes the sub-state.
LEMMA TakesDLE ==
    ASSUME TypeOK, m_RxMsgSubState = "NONE", serialData2StateMachine(DLE)
    PROVE  /\ m_RxMsgSubState' = "DLE"
           /\ UNCHANGED <<m_RxMsgState, m_bufferMsgRcv, arrived, newest>>
  BY FramingAssumption
     DEF TypeOK, serialData2StateMachine, AwaitStart, InFrame, Receiver,
         FrameEnds, Store

\* After any other byte, and after the second DLE of a pair, the receiver is
\* between bytes, and no frame has ended unless the byte was ETX.
LEMMA TakesOther ==
    ASSUME TypeOK, NEW c \in Bytes, serialData2StateMachine(c),
           c # DLE \/ m_RxMsgSubState = "DLE"
    PROVE  /\ m_RxMsgSubState' = "NONE"
           /\ c # ETX => UNCHANGED <<arrived, newest>>
  BY FramingAssumption
     DEF TypeOK, serialData2StateMachine, AwaitStart, InFrame, Receiver,
         FrameEnds, Store

\* Data within a frame is kept, plain or stuffed.
LEMMA TakesData ==
    ASSUME TypeOK, NEW c \in Bytes, serialData2StateMachine(c),
           m_RxMsgState = "STX", Len(m_bufferMsgRcv) < BufferSize,
           (c = DLE) <=> (m_RxMsgSubState = "DLE")
    PROVE  /\ m_RxMsgState' = "STX"
           /\ m_bufferMsgRcv' = Append(m_bufferMsgRcv, c)
           /\ UNCHANGED <<arrived, newest>>
  BY FramingAssumption
     DEF TypeOK, serialData2StateMachine, InFrame, Receiver,
         FrameEnds, Store, HasRoom

\* DLE ETX leaves the receiver waiting for a start, frame or no frame.
LEMMA TakesETX ==
    ASSUME TypeOK, m_RxMsgSubState = "DLE", serialData2StateMachine(ETX)
    PROVE  /\ m_RxMsgState' = "NONE" /\ m_RxMsgSubState' = "NONE"
           /\ m_RxMsgState = "STX" /\ checkCRC =>
                 arrived' = arrived + 1 /\ newest' = ContentReceived
  BY FramingAssumption
     DEF TypeOK, serialData2StateMachine, AwaitStart, InFrame, Receiver,
         FrameEnds, Store, StateAfter

\* DLE STX begins a frame.
LEMMA TakesStart ==
    ASSUME TypeOK, m_RxMsgState = "NONE", m_RxMsgSubState = "DLE",
           serialData2StateMachine(STX)
    PROVE  /\ m_RxMsgState' = "STX" /\ m_RxMsgSubState' = "NONE"
           /\ m_bufferMsgRcv' = <<>>
  BY FramingAssumption
     DEF TypeOK, serialData2StateMachine, AwaitStart, Receiver

-----------------------------------------------------------------------------
(* The sender.                                                             *)

\* Only the thread that has the port is within a frame.
LEMMA OthersIdle ==
    ASSUME Exclusion, NEW t \in Threads, phase[t] # "idle", NEW u \in Threads, u # t
    PROVE  phase[u] = "idle"
  BY DEF Exclusion

\* The bytes of a frame that are still to come are bytes; the two that are
\* not stuffed are not DLE.
LEMMA NextByteFacts ==
    ASSUME TypeOK, NEW t \in Threads, SenderInv(t),
           phase[t] \in {"body", "escape"}, Remains(t)
    PROVE  /\ NextByte(t) \in Bytes
           /\ ~Stuffed(t) => NextByte(t) # DLE
           /\ pos[t] < BufferSize
  <1>1. IsFrame(content[t]) /\ pos[t] \in Nat
    BY DEF TypeOK, SenderInv
  <1>2. /\ Len(content[t]) \in Nat /\ Len(content[t]) <= BufferSize
        /\ content[t][1] # DLE /\ content[t][2] # DLE
        /\ \A i \in 1..Len(content[t]) : content[t][i] \in Bytes
    BY <1>1, FrameFacts
  <1>3. pos[t] + 1 \in 1..Len(content[t])
    BY <1>1, <1>2 DEF Remains
  <1>4. NextByte(t) \in Bytes
    BY <1>2, <1>3 DEF NextByte
  <1>5. ASSUME ~Stuffed(t) PROVE NextByte(t) # DLE
    <2>1. CASE pos[t] >= 2
      BY <1>5, <2>1 DEF Stuffed
    <2>2. CASE ~(pos[t] >= 2)
      <3>1. pos[t] + 1 = 1 \/ pos[t] + 1 = 2
        BY <1>1, <2>2
      <3>. QED
        BY <1>2, <3>1 DEF NextByte
    <2>. QED
      BY <2>1, <2>2
  <1>6. BufferSize \in Nat
    BY FramingAssumption
  <1>. QED
    BY <1>1, <1>2, <1>3, <1>4, <1>5, <1>6

SenderTypeOK ==
    /\ m_can4vscpMutex \in Threads \cup {"none"}
    /\ phase \in [Threads -> {"idle", "start", "stx", "body", "escape", "end"}]
    /\ content \in [Threads -> Seq(Bytes)]
    /\ pos \in [Threads -> Nat] /\ written \in [Threads -> Nat]
    /\ begun \in Nat

\* A step of buildFrame moves t's frame on and nobody else's.
LEMMA StepStep ==
    ASSUME TypeOK, NEW t \in Threads, phase[t] # "idle", SenderInv(t),
           NEW c, NEW from, NEW byte, NEW next \in Nat, UNCHANGED begun,
           NEW to \in {"stx", "body", "escape", "end"},
           Step(t, from, byte, c, to, next)
    PROVE  /\ SenderTypeOK'
           /\ phase'[t] = to /\ pos'[t] = next /\ written'[t] = written[t] + 1
           /\ UNCHANGED <<m_can4vscpMutex, content>>
           /\ \A u \in Threads \ {t} :
                 /\ phase'[u] = phase[u] /\ pos'[u] = pos[u]
                 /\ written'[u] = written[u]
  BY DEF TypeOK, SenderTypeOK, Step

\* The frame t is in stays the frame it is in.
LEMMA StepOwn ==
    ASSUME TypeOK, NEW t \in Threads, phase[t] # "idle", SenderInv(t),
           NEW c, NEW from, NEW byte, NEW next \in Nat,
           NEW to \in {"stx", "body", "escape", "end"},
           Step(t, from, byte, c, to, next)
    PROVE  /\ phase[t] = from /\ phase'[t] = to /\ pos'[t] = next
           /\ written'[t] = written[t] + 1 /\ content'[t] = content[t]
           /\ IsFrame(content[t])'
  <1>1. /\ phase[t] = from /\ phase'[t] = to /\ pos'[t] = next
        /\ written'[t] = written[t] + 1 /\ content' = content
    BY DEF TypeOK, Step
  <1>2. IsFrame(content[t])
    BY DEF SenderInv
  <1>. QED
    BY <1>1, <1>2 DEF IsFrame

LEMMA EndsStep ==
    ASSUME TypeOK, NEW t \in Threads, Ends(t), UNCHANGED begun
    PROVE  /\ SenderTypeOK'
           /\ phase'[t] = "idle" /\ pos'[t] = 0 /\ written'[t] = 0
           /\ m_can4vscpMutex' = "none"
           /\ \A u \in Threads \ {t} :
                 /\ phase'[u] = phase[u] /\ pos'[u] = pos[u]
                 /\ written'[u] = written[u] /\ content'[u] = content[u]
  <1>1. <<>> \in Seq(Bytes)
    BY EmptySeq
  <1>. QED
    BY <1>1 DEF TypeOK, SenderTypeOK, Ends

\* The invariant of the senders, whatever becomes of the byte.
Senders == SenderTypeOK /\ Exclusion /\ \A u \in Threads : SenderInv(u)

LEMMA EndsKeepsSenders ==
    ASSUME IInv, NEW t \in Threads, phase[t] # "idle", Ends(t), UNCHANGED begun
    PROVE  Senders'
  <1>1. SenderInv(t)'
    BY EndsStep DEF IInv, SenderInv
  <1>2. ASSUME NEW u \in Threads, u # t PROVE SenderInv(u)' /\ phase'[u] = "idle"
    BY <1>2, EndsStep, OthersIdle DEF IInv, SenderInv
  <1>3. Exclusion'
    <2>1. "none" \notin Threads
      BY FramingAssumption
    <2>. QED
      BY <1>2, <2>1, EndsStep DEF Exclusion, IInv
  <1>. QED
    BY <1>1, <1>2, <1>3, EndsStep DEF Senders, IInv

LEMMA StepKeepsSenders ==
    ASSUME IInv, NEW t \in Threads, phase[t] # "idle",
           NEW c, NEW from, NEW byte, NEW next \in Nat, UNCHANGED begun,
           NEW to \in {"stx", "body", "escape", "end"},
           Step(t, from, byte, c, to, next), SenderInv(t)'
    PROVE  Senders'
  <1>1. TypeOK /\ SenderInv(t) /\ Exclusion
    BY DEF IInv
  <1>2. ASSUME NEW u \in Threads, u # t PROVE SenderInv(u)' /\ phase'[u] = "idle"
    <2>1. phase[u] = "idle" /\ SenderInv(u)
      BY <1>1, <1>2, OthersIdle DEF IInv
    <2>2. phase'[u] = "idle" /\ pos'[u] = pos[u] /\ written'[u] = written[u]
      BY <1>1, <1>2, <2>1, StepStep
    <2>. QED
      BY <2>1, <2>2 DEF SenderInv
  <1>3. phase'[t] # "idle" /\ m_can4vscpMutex' = m_can4vscpMutex /\ SenderTypeOK'
    BY <1>1, StepStep
  <1>4. Exclusion'
    BY <1>1, <1>2, <1>3 DEF Exclusion
  <1>. QED
    BY <1>2, <1>3, <1>4 DEF Senders

\* The steps of buildFrame, by name.
LEMMA WritesCases ==
    ASSUME NEW t \in Threads, NEW c, Writes(t, c)
    PROVE  \/ Step(t, "start", DLE, c, "stx", 0)
           \/ Step(t, "stx", STX, c, "body", 0)
           \/ /\ Remains(t) /\ Stuffed(t)
              /\ Step(t, "body", DLE, c, "escape", pos[t])
           \/ Step(t, "escape", DLE, c, "body", pos[t] + 1)
           \/ /\ Remains(t) /\ ~Stuffed(t)
              /\ Step(t, "body", NextByte(t), c, "body", pos[t] + 1)
           \/ ~Remains(t) /\ Step(t, "body", DLE, c, "end", pos[t])
           \/ phase[t] = "end" /\ c = ETX /\ Ends(t)
  BY DEF Writes, PastByte

\* A byte of a frame has been written: the sender is where it should be.
LEMMA WritesKeepsSenders ==
    ASSUME IInv, NEW t \in Threads, NEW c, Writes(t, c)
    PROVE  /\ Senders' /\ phase[t] # "idle"
           /\ \A u \in Threads \ {t} : phase[u] = "idle" /\ phase'[u] = "idle"
           /\ m_can4vscpMutex = t
           /\ phase[t] # "end" => UNCHANGED <<m_can4vscpMutex, content>>
           /\ phase[t] = "end" => phase'[t] = "idle" /\ m_can4vscpMutex' = "none"
  <1>1. /\ TypeOK /\ SenderInv(t) /\ Exclusion /\ UNCHANGED begun
        /\ pos[t] \in Nat /\ pos[t] + 1 \in Nat /\ 0 \in Nat /\ written[t] \in Nat
    BY DEF IInv, TypeOK, Writes
  <1>2. phase[t] # "idle"
    BY WritesCases DEF Step
  <1>3. Len(content[t]) \in Nat /\ Len(content[t]) >= 6
    BY <1>1, <1>2, FrameFacts DEF SenderInv
  <1>4. CASE Step(t, "start", DLE, c, "stx", 0)
    <2>2. /\ phase[t] = "start" /\ phase'[t] = "stx" /\ pos'[t] = 0
          /\ written'[t] = written[t] + 1 /\ content'[t] = content[t]
          /\ IsFrame(content[t])'
      BY <1>1, <1>2, <1>4, StepOwn
    <2>1. SenderInv(t)'
      BY <1>1, <2>2 DEF SenderInv
    <2>. QED
      BY <1>1, <1>2, <1>4, <2>1, StepKeepsSenders, StepStep, OthersIdle
         DEF Step, Exclusion
  <1>5. CASE Step(t, "stx", STX, c, "body", 0)
    <2>2. /\ phase[t] = "stx" /\ phase'[t] = "body" /\ pos'[t] = 0
          /\ written'[t] = written[t] + 1 /\ content'[t] = content[t]
          /\ IsFrame(content[t])'
      BY <1>1, <1>2, <1>5, StepOwn
    <2>1. SenderInv(t)'
      BY <1>1, <1>3, <2>2 DEF SenderInv, AtMost
    <2>. QED
      BY <1>1, <1>2, <1>5, <2>1, StepKeepsSenders, StepStep, OthersIdle
         DEF Step, Exclusion
  <1>6. CASE /\ Remains(t) /\ Stuffed(t)
             /\ Step(t, "body", DLE, c, "escape", pos[t])
    <2>1. (Remains(t) /\ Stuffed(t))'
      BY <1>1, <1>2, <1>6, StepStep DEF Remains, Stuffed, NextByte
    <2>3. /\ phase[t] = "body" /\ phase'[t] = "escape" /\ pos'[t] = pos[t]
          /\ written'[t] = written[t] + 1 /\ content'[t] = content[t]
          /\ IsFrame(content[t])'
      BY <1>1, <1>2, <1>6, StepOwn
    <2>2. SenderInv(t)'
      BY <1>1, <1>3, <2>1, <2>3 DEF SenderInv, AtMost
    <2>. QED
      BY <1>1, <1>2, <1>6, <2>2, StepKeepsSenders, StepStep, OthersIdle
         DEF Step, Exclusion
  <1>7. CASE Step(t, "escape", DLE, c, "body", pos[t] + 1)
    <2>1. /\ written[t] <= 2 * pos[t] + 1 /\ pos[t] >= 2
          /\ pos[t] + 1 <= Len(content[t])
      BY <1>1, <1>3, <1>7 DEF SenderInv, Step, AtMost, Remains, Stuffed
    <2>3. /\ phase[t] = "escape" /\ phase'[t] = "body" /\ pos'[t] = pos[t] + 1
          /\ written'[t] = written[t] + 1 /\ content'[t] = content[t]
          /\ IsFrame(content[t])'
      BY <1>1, <1>2, <1>7, StepOwn
    <2>2. SenderInv(t)'
      BY <1>1, <1>3, <2>1, <2>3 DEF SenderInv, AtMost
    <2>. QED
      BY <1>1, <1>2, <1>7, <2>2, StepKeepsSenders, StepStep, OthersIdle
         DEF Step, Exclusion
  <1>8. CASE /\ Remains(t) /\ ~Stuffed(t)
             /\ Step(t, "body", NextByte(t), c, "body", pos[t] + 1)
    <2>1. /\ written[t] <= AtMost(pos[t])
          /\ pos[t] + 1 <= Len(content[t])
      BY <1>1, <1>3, <1>8 DEF SenderInv, Step, Remains
    <2>3. /\ phase[t] = "body" /\ phase'[t] = "body" /\ pos'[t] = pos[t] + 1
          /\ written'[t] = written[t] + 1 /\ content'[t] = content[t]
          /\ IsFrame(content[t])'
      BY <1>1, <1>2, <1>8, StepOwn
    <2>2. SenderInv(t)'
      BY <1>1, <1>3, <2>1, <2>3 DEF SenderInv, AtMost
    <2>. QED
      BY <1>1, <1>2, <1>8, <2>2, StepKeepsSenders, StepStep, OthersIdle
         DEF Step, Exclusion
  <1>9. CASE ~Remains(t) /\ Step(t, "body", DLE, c, "end", pos[t])
    <2>1. written[t] <= AtMost(pos[t]) /\ pos[t] = Len(content[t])
      BY <1>1, <1>3, <1>9 DEF SenderInv, Step, Remains
    <2>3. /\ phase[t] = "body" /\ phase'[t] = "end" /\ pos'[t] = pos[t]
          /\ written'[t] = written[t] + 1 /\ content'[t] = content[t]
          /\ IsFrame(content[t])'
      BY <1>1, <1>2, <1>9, StepOwn
    <2>2. SenderInv(t)'
      BY <1>1, <1>3, <2>1, <2>3 DEF SenderInv, AtMost
    <2>. QED
      BY <1>1, <1>2, <1>9, <2>2, StepKeepsSenders, StepStep, OthersIdle
         DEF Step, Exclusion
  <1>10. CASE phase[t] = "end" /\ c = ETX /\ Ends(t)
    BY <1>1, <1>2, <1>10, EndsKeepsSenders, EndsStep, OthersIdle DEF Exclusion
  <1>. QED
    BY <1>4, <1>5, <1>6, <1>7, <1>8, <1>9, <1>10, WritesCases

-----------------------------------------------------------------------------
(* Sender and receiver.                                                    *)

\* As long as a frame is undisturbed, the receiver knows whether a DLE is the
\* first of a pair; as long as there is no doubt, it has what was written.
Tracked(t) ==
    /\ phase[t] # "idle" /\ ~disturbed => Phased(t)
    /\ phase[t] # "idle" /\ ~doubt => InStep(t)

LEMMA MatchesMore ==
    ASSUME TypeOK, NEW t \in Threads, Matches(t), NEW c \in Bytes,
           c = NextByte(t), pos[t] \in Nat, content' = content, pos'[t] = pos[t] + 1,
           m_RxMsgState' = "STX", m_bufferMsgRcv' = Append(m_bufferMsgRcv, c)
    PROVE  Matches(t)'
  <1>1. /\ m_bufferMsgRcv \in Seq(Bytes) /\ Len(m_bufferMsgRcv) = pos[t]
        /\ \A i \in 1..pos[t] : m_bufferMsgRcv[i] = content[t][i]
    BY DEF TypeOK, Matches
  <1>2. /\ Len(m_bufferMsgRcv') = pos[t] + 1
        /\ \A i \in 1..pos[t] : m_bufferMsgRcv'[i] = content[t][i]
        /\ m_bufferMsgRcv'[pos[t] + 1] = content[t][pos[t] + 1]
    BY <1>1, AppendProperties DEF NextByte
  <1>3. ASSUME NEW i \in 1..(pos[t] + 1) PROVE m_bufferMsgRcv'[i] = content[t][i]
    <2>1. i \in 1..pos[t] \/ i = pos[t] + 1
      OBVIOUS
    <2>. QED
      BY <1>2, <2>1
  <1>. QED
    BY <1>2, <1>3 DEF Matches

\* A byte of a frame that is not its last.
LEMMA ByteTracks ==
    ASSUME IInv, NEW t \in Threads, NEW c \in Bytes, Writes(t, c),
           serialData2StateMachine(c), phase[t] # "end",
           UNCHANGED <<disturbed, doubt>>
    PROVE  /\ Tracked(t)'
           /\ ~doubt => UNCHANGED <<arrived, newest>>
  <1>1. /\ TypeOK /\ SenderInv(t) /\ UNCHANGED begun /\ pos[t] \in Nat
        /\ pos[t] + 1 \in Nat /\ 0 \in Nat
    BY DEF IInv, TypeOK, Writes
  <1>2. phase[t] # "idle" /\ content' = content
    BY WritesKeepsSenders
  <1>3. /\ ~disturbed => Phased(t)
        /\ ~doubt => InStep(t) /\ Phased(t)
    BY <1>2 DEF IInv
  <1>4. DLE # STX /\ DLE # ETX /\ STX # ETX
    BY FramingAssumption
  <1>5. CASE Step(t, "start", DLE, c, "stx", 0)
    <2>1. phase[t] = "start" /\ phase'[t] = "stx" /\ c = DLE
      BY <1>1, <1>2, <1>5, StepOwn DEF Step
    <2>2. ~doubt => /\ m_RxMsgState' = "NONE" /\ m_RxMsgSubState' = "DLE"
                    /\ UNCHANGED <<arrived, newest>>
      BY <1>1, <1>3, <2>1, TakesDLE DEF InStep
    <2>. QED
      BY <2>1, <2>2 DEF Tracked, Phased, InStep
  <1>6. CASE Step(t, "stx", STX, c, "body", 0)
    <2>1. phase[t] = "stx" /\ phase'[t] = "body" /\ pos'[t] = 0 /\ c = STX
      BY <1>1, <1>2, <1>6, StepOwn DEF Step
    <2>2. m_RxMsgSubState' = "NONE" /\ UNCHANGED <<arrived, newest>>
      BY <1>1, <1>4, <2>1, TakesOther
    <2>3. ~doubt => m_RxMsgState' = "STX" /\ m_bufferMsgRcv' = <<>>
      BY <1>1, <1>3, <2>1, TakesStart DEF InStep
    <2>4. ~doubt => Matches(t)'
      <3>1. ~doubt => Len(m_bufferMsgRcv') = 0
        BY <2>3, EmptySeq
      <3>. QED
        BY <2>1, <2>3, <3>1 DEF Matches
    <2>. QED
      BY <2>1, <2>2, <2>4 DEF Tracked, Phased, InStep
  <1>7. CASE /\ Remains(t) /\ Stuffed(t)
             /\ Step(t, "body", DLE, c, "escape", pos[t])
    <2>1. phase[t] = "body" /\ phase'[t] = "escape" /\ pos'[t] = pos[t] /\ c = DLE
      BY <1>1, <1>2, <1>7, StepOwn DEF Step
    <2>2. ~disturbed => m_RxMsgSubState' = "DLE"
      BY <1>1, <1>3, <2>1, TakesDLE DEF Phased
    <2>3. ~doubt => UNCHANGED <<m_RxMsgState, m_bufferMsgRcv, arrived, newest>>
      BY <1>1, <1>3, <2>1, TakesDLE DEF Phased
    <2>4. ~doubt => Matches(t)'
      BY <1>2, <1>3, <2>1, <2>3 DEF InStep, Matches
    <2>. QED
      BY <2>1, <2>2, <2>3, <2>4 DEF Tracked, Phased, InStep
  <1>8. CASE Step(t, "escape", DLE, c, "body", pos[t] + 1)
    <2>1. /\ phase[t] = "escape" /\ phase'[t] = "body" /\ pos'[t] = pos[t] + 1
          /\ c = DLE
      BY <1>1, <1>2, <1>8, StepOwn DEF Step
    <2>2. /\ Remains(t) /\ NextByte(t) = DLE /\ pos[t] < BufferSize
      BY <1>1, <2>1, NextByteFacts DEF SenderInv, Stuffed
    <2>3. ~disturbed => m_RxMsgSubState' = "NONE"
      BY <1>1, <1>3, <2>1, TakesOther DEF Phased
    <2>4. ~doubt => /\ m_RxMsgState = "STX" /\ m_RxMsgSubState = "DLE"
                    /\ Len(m_bufferMsgRcv) < BufferSize /\ Matches(t)
      BY <1>3, <2>1, <2>2 DEF Phased, InStep, Matches
    <2>5. ~doubt => /\ m_RxMsgState' = "STX"
                    /\ m_bufferMsgRcv' = Append(m_bufferMsgRcv, c)
                    /\ UNCHANGED <<arrived, newest>>
      BY <1>1, <2>1, <2>4, TakesData
    <2>6. ~doubt => Matches(t)'
      BY <1>1, <1>2, <2>1, <2>2, <2>4, <2>5, MatchesMore
    <2>. QED
      BY <2>1, <2>3, <2>5, <2>6 DEF Tracked, Phased, InStep
  <1>9. CASE /\ Remains(t) /\ ~Stuffed(t)
             /\ Step(t, "body", NextByte(t), c, "body", pos[t] + 1)
    <2>1. /\ phase[t] = "body" /\ phase'[t] = "body" /\ pos'[t] = pos[t] + 1
          /\ c = NextByte(t)
      BY <1>1, <1>2, <1>9, StepOwn DEF Step
    <2>2. c # DLE /\ pos[t] < BufferSize
      BY <1>1, <1>9, <2>1, NextByteFacts
    <2>3. m_RxMsgSubState' = "NONE"
      BY <1>1, <2>2, TakesOther
    <2>4. ~doubt => /\ m_RxMsgState = "STX" /\ m_RxMsgSubState = "NONE"
                    /\ Len(m_bufferMsgRcv) < BufferSize /\ Matches(t)
      BY <1>3, <2>1, <2>2 DEF Phased, InStep, Matches
    <2>5. ~doubt => /\ m_RxMsgState' = "STX"
                    /\ m_bufferMsgRcv' = Append(m_bufferMsgRcv, c)
                    /\ UNCHANGED <<arrived, newest>>
      BY <1>1, <2>2, <2>4, TakesData
    <2>6. ~doubt => Matches(t)'
      BY <1>1, <1>2, <2>1, <2>4, <2>5, MatchesMore
    <2>. QED
      BY <2>1, <2>3, <2>5, <2>6 DEF Tracked, Phased, InStep
  <1>10. CASE ~Remains(t) /\ Step(t, "body", DLE, c, "end", pos[t])
    <2>1. phase[t] = "body" /\ phase'[t] = "end" /\ pos'[t] = pos[t] /\ c = DLE
      BY <1>1, <1>2, <1>10, StepOwn DEF Step
    <2>2. ~disturbed => m_RxMsgSubState' = "DLE"
      BY <1>1, <1>3, <2>1, TakesDLE DEF Phased
    <2>3. ~doubt => UNCHANGED <<m_RxMsgState, m_bufferMsgRcv, arrived, newest>>
      BY <1>1, <1>3, <2>1, TakesDLE DEF Phased
    <2>4. ~doubt => Matches(t)'
      BY <1>2, <1>3, <2>1, <2>3 DEF InStep, Matches
    <2>. QED
      BY <2>1, <2>2, <2>3, <2>4 DEF Tracked, Phased, InStep
  <1>. QED
    BY <1>5, <1>6, <1>7, <1>8, <1>9, <1>10, WritesCases

\* The last byte of a frame: undisturbed, it leaves the receiver waiting for
\* a start, and if there was no doubt the frame has arrived.
LEMMA LastByte ==
    ASSUME IInv, NEW t \in Threads, NEW c \in Bytes, Writes(t, c),
           serialData2StateMachine(c), phase[t] = "end", ~disturbed
    PROVE  /\ m_RxMsgState' = "NONE" /\ m_RxMsgSubState' = "NONE"
           /\ ~doubt => arrived' = arrived + 1 /\ newest' \in Frames
  <1>1. TypeOK /\ SenderInv(t) /\ Phased(t) /\ (~doubt => InStep(t))
    BY DEF IInv
  <1>2. c = ETX
    BY WritesCases DEF Step
  <1>3. m_RxMsgSubState = "DLE"
    BY <1>1 DEF Phased
  <1>4. m_RxMsgState' = "NONE" /\ m_RxMsgSubState' = "NONE"
    BY <1>1, <1>2, <1>3, TakesETX
  <1>5. ASSUME ~doubt PROVE arrived' = arrived + 1 /\ newest' \in Frames
    <2>1. /\ m_RxMsgState = "STX" /\ m_bufferMsgRcv \in Seq(Bytes)
          /\ Len(m_bufferMsgRcv) = Len(content[t])
          /\ \A i \in 1..Len(content[t]) : m_bufferMsgRcv[i] = content[t][i]
      BY <1>1, <1>5 DEF InStep, Matches, SenderInv, TypeOK
    <2>2. PICK f \in Frames : content[t] = Append(f, Crc(f))
      BY <1>1 DEF SenderInv, IsFrame
    <2>3. /\ m_bufferMsgRcv # <<>> /\ ContentReceived = f
          /\ Crc(f) = m_bufferMsgRcv[Len(m_bufferMsgRcv)]
      BY <2>1, <2>2, WholeFrame DEF ContentReceived
    <2>4. checkCRC
      BY <2>3 DEF checkCRC
    <2>. QED
      BY <1>1, <1>2, <1>3, <2>1, <2>3, <2>4, TakesETX
  <1>. QED
    BY <1>4, <1>5

-----------------------------------------------------------------------------
(* The invariant.                                                          *)

\* What the parts come to.
LEMMA Gather ==
    ASSUME Senders', BufferHolds',
           m_RxMsgState' \in {"NONE", "STX"}, m_RxMsgSubState' \in {"NONE", "DLE"},
           m_bufferMsgRcv' \in Seq(Bytes), arrived' \in Nat, newest' \in Seq(Bytes),
           faults' \in Nat, disturbed' \in BOOLEAN, sent' \in Nat, doubt' \in BOOLEAN,
           \A t \in Threads : phase'[t] # "idle" /\ disturbed' => doubt',
           \A t \in Threads : Tracked(t)',
           m_can4vscpMutex' = "none" /\ ~doubt' =>
              m_RxMsgState' = "NONE" /\ m_RxMsgSubState' = "NONE"
    PROVE  IInv'
  BY DEF IInv, Senders, SenderTypeOK, TypeOK, Tracked

LEMMA SendByteStep ==
    ASSUME IInv, NEW t \in Threads, SendByte(t)
    PROVE  IInv'
  <1>1. PICK c \in Bytes : Writes(t, c) /\ serialData2StateMachine(c)
    BY DEF SendByte
  <1>2. /\ Senders' /\ phase[t] # "idle"
        /\ \A u \in Threads \ {t} : phase'[u] = "idle"
        /\ phase[t] # "end" => m_can4vscpMutex' = t
        /\ phase[t] = "end" => phase'[t] = "idle"
    BY <1>1, WritesKeepsSenders
  <1>3. /\ BufferHolds'
        /\ m_RxMsgState' \in {"NONE", "STX"} /\ m_RxMsgSubState' \in {"NONE", "DLE"}
        /\ m_bufferMsgRcv' \in Seq(Bytes) /\ arrived' \in Nat /\ newest' \in Seq(Bytes)
    BY <1>1, ReceiverKeepsType DEF IInv
  <1>4. /\ faults' \in Nat /\ disturbed' \in BOOLEAN /\ sent' \in Nat
        /\ doubt' \in BOOLEAN
    <2>1. /\ faults \in Nat /\ disturbed \in BOOLEAN
          /\ sent \in Nat /\ sent + 1 \in Nat /\ doubt \in BOOLEAN
      BY DEF IInv, TypeOK
    <2>2. /\ faults' = faults /\ disturbed' = disturbed
          /\ sent' = sent \/ sent' = sent + 1
          /\ doubt' = doubt \/ doubt' = FALSE
      BY DEF SendByte
    <2>. QED
      BY <2>1, <2>2
  <1>5. ASSUME NEW u \in Threads, phase'[u] # "idle", disturbed' PROVE doubt'
    <2>1. u = t /\ phase[t] # "end"
      BY <1>2, <1>5
    <2>. QED
      BY <1>2, <1>5, <2>1 DEF SendByte, IInv
  <1>6. ASSUME NEW u \in Threads PROVE Tracked(u)'
    <2>1. CASE u = t /\ phase[t] # "end"
      <3>1. UNCHANGED <<disturbed, doubt>>
        BY <2>1 DEF SendByte
      <3>. QED
        BY <1>1, <2>1, <3>1, ByteTracks
    <2>2. CASE ~(u = t /\ phase[t] # "end")
      BY <1>2, <2>2 DEF Tracked
    <2>. QED
      BY <2>1, <2>2
  <1>7. ASSUME m_can4vscpMutex' = "none", ~doubt'
        PROVE  m_RxMsgState' = "NONE" /\ m_RxMsgSubState' = "NONE"
    <2>1. phase[t] = "end"
      BY <1>2, <1>7, FramingAssumption
    <2>2. ~disturbed
      BY <1>2, <1>7, <2>1 DEF SendByte, IInv
    <2>. QED
      BY <1>1, <2>1, <2>2, LastByte
  <1>. QED
    BY <1>2, <1>3, <1>4, <1>5, <1>6, <1>7, Gather

\* Nothing is asked of a receiver that may be out of step.
LEMMA DisturbedStep ==
    ASSUME IInv, Senders', BufferHolds', Disturbs,
           m_RxMsgState' \in {"NONE", "STX"}, m_RxMsgSubState' \in {"NONE", "DLE"},
           m_bufferMsgRcv' \in Seq(Bytes), arrived' \in Nat, newest' \in Seq(Bytes)
    PROVE  IInv'
  <1>1. /\ faults' \in Nat /\ sent' \in Nat
        /\ disturbed' = TRUE /\ doubt' = TRUE
    BY DEF Disturbs, IInv, TypeOK
  <1>. QED
    BY <1>1, Gather DEF Tracked

LEMMA SendersStay ==
    ASSUME IInv, UNCHANGED <<senderVars, begun>>
    PROVE  Senders'
  BY DEF IInv, TypeOK, Senders, SenderTypeOK, Exclusion, SenderInv, senderVars,
         IsFrame, Remains, Stuffed, NextByte

LEMMA ReceiverStays ==
    ASSUME IInv, UNCHANGED receiverVars
    PROVE  /\ BufferHolds'
           /\ m_RxMsgState' \in {"NONE", "STX"} /\ m_RxMsgSubState' \in {"NONE", "DLE"}
           /\ m_bufferMsgRcv' \in Seq(Bytes)
  BY DEF IInv, TypeOK, BufferHolds, receiverVars

LEMMA BeginKeepsSenders ==
    ASSUME IInv, NEW t \in Threads, NEW f \in Frames, Begin(t, f)
    PROVE  /\ Senders' /\ phase'[t] = "start" /\ m_can4vscpMutex' = t
           /\ \A u \in Threads \ {t} : phase'[u] = "idle"
  <1>1. /\ f \in Seq(Bytes) /\ Crc(f) \in Bytes /\ "none" \notin Threads
    BY FramingAssumption
  <1>2. Append(f, Crc(f)) \in Seq(Bytes)
    BY <1>1, AppendProperties
  <1>3. \A u \in Threads : phase[u] = "idle" /\ SenderInv(u)
    BY <1>1 DEF IInv, Exclusion, Begin, PortIsFree
  <1>4. SenderTypeOK'
    BY <1>2 DEF IInv, TypeOK, SenderTypeOK, Begin
  <1>5. /\ phase'[t] = "start" /\ pos'[t] = pos[t] /\ written'[t] = written[t]
        /\ content'[t] = Append(f, Crc(f)) /\ m_can4vscpMutex' = t
    BY DEF Begin, IInv, TypeOK
  <1>6. ASSUME NEW u \in Threads \ {t}
        PROVE  /\ phase'[u] = "idle" /\ pos'[u] = pos[u]
               /\ written'[u] = written[u] /\ u # t
    BY <1>3 DEF Begin, IInv, TypeOK
  <1>7. IsFrame(content[t])'
    BY <1>5 DEF IsFrame
  <1>8. SenderInv(t)'
    BY <1>3, <1>5, <1>7 DEF SenderInv
  <1>9. ASSUME NEW u \in Threads PROVE SenderInv(u)'
    <2>1. CASE u = t
      BY <1>8, <2>1
    <2>2. CASE u # t
      BY <1>3, <1>6, <2>2 DEF SenderInv
    <2>. QED
      BY <2>1, <2>2
  <1>10. Exclusion'
    BY <1>5, <1>6 DEF Exclusion
  <1>. QED
    BY <1>4, <1>5, <1>6, <1>9, <1>10 DEF Senders

LEMMA BeginStep ==
    ASSUME IInv, NEW t \in Threads, NEW f \in Frames, Begin(t, f)
    PROVE  IInv'
  <1>1. /\ Senders' /\ phase'[t] = "start" /\ m_can4vscpMutex' = t
        /\ \A u \in Threads \ {t} : phase'[u] = "idle"
    BY BeginKeepsSenders
  <1>2. /\ BufferHolds'
        /\ m_RxMsgState' \in {"NONE", "STX"} /\ m_RxMsgSubState' \in {"NONE", "DLE"}
        /\ m_bufferMsgRcv' \in Seq(Bytes)
    BY ReceiverStays DEF Begin
  <1>3. /\ arrived' \in Nat /\ newest' \in Seq(Bytes) /\ faults' \in Nat
        /\ sent' \in Nat /\ doubt' \in BOOLEAN
    BY DEF Begin, frameVars, IInv, TypeOK
  <1>4. disturbed' = FALSE /\ UNCHANGED <<doubt, m_RxMsgState, m_RxMsgSubState>>
    BY DEF Begin, frameVars, receiverVars
  <1>5. m_can4vscpMutex = "none" /\ m_can4vscpMutex' # "none"
    BY <1>1, FramingAssumption DEF Begin, PortIsFree
  <1>6. ASSUME NEW u \in Threads PROVE Tracked(u)'
    <2>1. CASE u = t
      BY <1>1, <1>4, <1>5, <2>1 DEF Tracked, Phased, InStep, IInv
    <2>2. CASE u # t
      BY <1>1, <2>2 DEF Tracked
    <2>. QED
      BY <2>1, <2>2
  <1>. QED
    BY <1>1, <1>2, <1>3, <1>4, <1>5, <1>6, Gather

\* What the receiver makes of a byte is a frame or nothing.
LEMMA FrameOrNothing ==
    ASSUME NEW c, serialData2StateMachine(c)
    PROVE  arrived' = arrived + 1 \/ UNCHANGED <<arrived, newest>>
  BY DEF serialData2StateMachine

LEMMA FaultsInFrame ==
    ASSUME IInv, NEW t \in Threads, LoseByte(t) \/ ChangeByte(t) \/ CutShort(t)
    PROVE  IInv' /\ Line!Disturb
  <1>1. arrived \in Nat /\ newest \in Seq(Bytes)
    BY DEF IInv, TypeOK
  <1>2. CASE LoseByte(t)
    <2>1. /\ Disturbs /\ UNCHANGED receiverVars /\ UNCHANGED <<arrived, newest>>
          /\ \E c \in Bytes : Writes(t, c)
      BY <1>2 DEF LoseByte
    <2>2. Senders'
      BY <2>1, WritesKeepsSenders
    <2>. QED
      BY <1>1, <2>1, <2>2, ReceiverStays, DisturbedStep
         DEF Disturbs, Line!Disturb, Line!ReceiveAnything, Line!ReceiveNothing
  <1>3. CASE ChangeByte(t)
    <2>1. PICK c \in Bytes : Writes(t, c) /\ \E d \in Bytes \ {c} : serialData2StateMachine(d)
      BY <1>3 DEF ChangeByte
    <2>2. PICK d \in Bytes : serialData2StateMachine(d)
      BY <2>1
    <2>3. Senders' /\ Disturbs
      BY <1>3, <2>1, WritesKeepsSenders DEF ChangeByte
    <2>4. TypeOK /\ BufferHolds
      BY DEF IInv
    <2>. QED
      BY <2>2, <2>3, <2>4, ReceiverKeepsType, FrameOrNothing, DisturbedStep
         DEF Disturbs, Line!Disturb, Line!ReceiveAnything, Line!ReceiveNothing
  <1>4. CASE CutShort(t)
    <2>1. /\ Disturbs /\ UNCHANGED receiverVars /\ UNCHANGED <<arrived, newest>>
          /\ phase[t] # "idle" /\ Ends(t) /\ UNCHANGED begun
      BY <1>4 DEF CutShort
    <2>2. Senders'
      BY <2>1, EndsKeepsSenders
    <2>. QED
      BY <1>1, <2>1, <2>2, ReceiverStays, DisturbedStep
         DEF Disturbs, Line!Disturb, Line!ReceiveAnything, Line!ReceiveNothing
  <1>. QED
    BY <1>2, <1>3, <1>4

LEMMA FaultsAlone ==
    ASSUME IInv, InventByte \/ OpenAnew
    PROVE  IInv' /\ Line!Disturb
  <1>3. arrived \in Nat /\ newest \in Seq(Bytes)
    BY DEF IInv, TypeOK
  <1>1. CASE InventByte
    <2>1. PICK d \in Bytes : serialData2StateMachine(d)
      BY <1>1 DEF InventByte
    <2>2. Senders' /\ Disturbs /\ TypeOK /\ BufferHolds
      BY <1>1, SendersStay DEF InventByte, IInv
    <2>. QED
      BY <2>1, <2>2, ReceiverKeepsType, FrameOrNothing, DisturbedStep
         DEF Disturbs, Line!Disturb, Line!ReceiveAnything, Line!ReceiveNothing
  <1>2. CASE OpenAnew
    <2>1. /\ Senders' /\ Disturbs /\ UNCHANGED <<arrived, newest>>
          /\ m_RxMsgState' = "NONE" /\ m_RxMsgSubState' = "NONE"
          /\ UNCHANGED m_bufferMsgRcv
      BY <1>2, SendersStay DEF OpenAnew, Receiver
    <2>2. m_bufferMsgRcv' \in Seq(Bytes) /\ BufferHolds'
      BY <2>1 DEF IInv, TypeOK, BufferHolds
    <2>. QED
      BY <1>3, <2>1, <2>2, DisturbedStep
         DEF Disturbs, Line!Disturb, Line!ReceiveAnything, Line!ReceiveNothing
  <1>. QED
    BY <1>1, <1>2

LEMMA InitInv == Init => IInv
  <1>. SUFFICES ASSUME Init PROVE IInv
    OBVIOUS
  <1>1. <<>> \in Seq(Bytes) /\ Len(<<>>) = 0
    BY EmptySeq
  <1>2. "none" \notin Threads /\ BufferSize \in Nat
    BY FramingAssumption
  <1>3. TypeOK
    BY <1>1 DEF Init, TypeOK
  <1>4. BufferHolds
    BY <1>1, <1>2 DEF Init, BufferHolds
  <1>5. \A t \in Threads : phase[t] = "idle" /\ pos[t] = 0 /\ written[t] = 0
    BY DEF Init
  <1>. QED
    BY <1>2, <1>3, <1>4, <1>5 DEF Init, IInv, Exclusion, SenderInv

LEMMA StutterStep == ASSUME IInv, UNCHANGED vars PROVE IInv'
  <1>1. Senders' /\ UNCHANGED receiverVars
    BY SendersStay DEF vars
  <1>2. /\ UNCHANGED <<arrived, newest, faults, disturbed, sent, doubt>>
        /\ UNCHANGED <<m_can4vscpMutex, phase, m_RxMsgState, m_RxMsgSubState>>
        /\ UNCHANGED <<content, pos, m_bufferMsgRcv>>
    BY DEF vars, frameVars, senderVars, receiverVars
  <1>3. \A t \in Threads : Tracked(t)'
    BY <1>2 DEF Tracked, IInv, Phased, InStep, Matches
  <1>4. /\ arrived' \in Nat /\ newest' \in Seq(Bytes) /\ faults' \in Nat
        /\ disturbed' \in BOOLEAN /\ sent' \in Nat /\ doubt' \in BOOLEAN
    BY <1>2 DEF IInv, TypeOK
  <1>5. /\ \A t \in Threads : phase'[t] # "idle" /\ disturbed' => doubt'
        /\ m_can4vscpMutex' = "none" /\ ~doubt' =>
              m_RxMsgState' = "NONE" /\ m_RxMsgSubState' = "NONE"
    BY <1>2 DEF IInv
  <1>. QED
    BY <1>1, <1>3, <1>4, <1>5, ReceiverStays, Gather

LEMMA NextInv == IInv /\ [Next]_vars => IInv'
  <1>. SUFFICES ASSUME IInv, [Next]_vars PROVE IInv'
    OBVIOUS
  <1>1. CASE \E t \in Threads : \E f \in Frames : Begin(t, f)
    BY <1>1, BeginStep
  <1>2. CASE \E t \in Threads : SendByte(t)
    BY <1>2, SendByteStep
  <1>3. CASE \E t \in Threads : LoseByte(t) \/ ChangeByte(t) \/ CutShort(t)
    BY <1>3, FaultsInFrame
  <1>4. CASE InventByte \/ OpenAnew
    BY <1>4, FaultsAlone
  <1>5. CASE UNCHANGED vars
    BY <1>5, StutterStep
  <1>. QED
    BY <1>1, <1>2, <1>3, <1>4, <1>5 DEF Next

-----------------------------------------------------------------------------
(* What follows.                                                           *)

THEOREM Correctness == Spec => []IInv
  BY InitInv, NextInv, PTL DEF Spec

\* Every variable keeps its type; in particular the receiver is always in one
\* of its two states, never in INCOMING_STATE_ETX.
THEOREM TypeCorrect == Spec => []TypeOK
  <1>1. IInv => TypeOK
    BY DEF IInv
  <1>. QED
    BY <1>1, Correctness, PTL

\* A buffer of 2 * (7 + lenPayload) bytes is enough for a stuffed frame: the
\* two bytes of type and channel, never stuffed, leave room for DLE STX. And the
\* receiver's buffer holds what is put into it.
THEOREM BuffersAreEnough == Spec => []BuffersHold
  <1>1. IInv => WorstCaseHolds
    <2>. SUFFICES ASSUME IInv, NEW t \in Threads, phase[t] # "idle"
                  PROVE  written[t] < WorstCase(t)
      BY DEF WorstCaseHolds
    <2>1. /\ SenderInv(t) /\ written[t] \in Nat /\ pos[t] \in Nat
          /\ phase[t] \in {"start", "stx", "body", "escape", "end"}
      BY DEF IInv, TypeOK
    <2>2. Len(content[t]) \in Nat /\ Len(content[t]) >= 6
      BY <2>1, FrameFacts DEF SenderInv
    <2>3. CASE phase[t] \in {"start", "stx"}
      BY <2>1, <2>2, <2>3 DEF SenderInv, WorstCase
    <2>4. CASE phase[t] \in {"body", "escape", "end"}
      <3>1. pos[t] <= Len(content[t]) /\ written[t] <= AtMost(pos[t]) + 1
        BY <2>1, <2>2, <2>4 DEF SenderInv, Remains, AtMost
      <3>. QED
        BY <2>1, <2>2, <3>1 DEF WorstCase, AtMost
    <2>. QED
      BY <2>1, <2>3, <2>4
  <1>2. IInv => BuffersHold
    BY <1>1 DEF IInv, BuffersHold
  <1>. QED
    BY <1>2, Correctness, PTL

\* Every step is one of the frame line's, or is not seen there.
LEMMA LineStep == IInv /\ [Next]_vars => [Line!Next]_(Line!vars)
  <1>. SUFFICES ASSUME IInv, [Next]_vars PROVE [Line!Next]_(Line!vars)
    OBVIOUS
  <1>1. CASE UNCHANGED vars \/ \E t \in Threads : \E f \in Frames : Begin(t, f)
    BY <1>1 DEF vars, Begin, frameVars, Line!vars
  <1>2. ASSUME NEW t \in Threads, SendByte(t) PROVE [Line!Next]_(Line!vars)
    <2>1. PICK c \in Bytes : Writes(t, c) /\ serialData2StateMachine(c)
      BY <1>2 DEF SendByte
    <2>2. arrived' = arrived + 1 \/ UNCHANGED <<arrived, newest>>
      BY <2>1, FrameOrNothing
    <2>3. CASE phase[t] = "end" /\ ~disturbed
      <3>1. sent' = sent + 1 /\ doubt' = FALSE
        BY <1>2, <2>3 DEF SendByte
      <3>2. CASE doubt
        BY <2>2, <3>1, <3>2
           DEF Line!Next, Line!Settle, Line!ReceiveAnything, Line!ReceiveNothing
      <3>3. CASE ~doubt
        <4>1. arrived' = arrived + 1 /\ newest' \in Frames
          BY <2>1, <2>3, <3>3, LastByte
        <4>. QED
          BY <3>1, <3>3, <4>1
             DEF Line!Next, Line!SendUndisturbed, Line!Receive, IInv, TypeOK
      <3>. QED
        BY <3>2, <3>3
    <2>4. CASE ~(phase[t] = "end" /\ ~disturbed)
      <3>1. UNCHANGED <<sent, doubt, disturbed>>
        BY <1>2, <2>4 DEF SendByte
      <3>4. doubt \in BOOLEAN
        BY DEF IInv, TypeOK
      <3>2. CASE doubt
        BY <2>2, <3>1, <3>2, <3>4
           DEF Line!Next, Line!Disturb, Line!ReceiveAnything, Line!ReceiveNothing
      <3>3. CASE ~doubt
        <4>1. phase[t] # "end"
          BY <2>1, <2>4, <3>3, WritesKeepsSenders DEF IInv
        <4>2. UNCHANGED <<arrived, newest>>
          BY <2>1, <3>1, <3>3, <4>1, ByteTracks
        <4>. QED
          BY <3>1, <4>2 DEF Line!vars
      <3>. QED
        BY <3>2, <3>3
    <2>. QED
      BY <2>3, <2>4
  <1>3. CASE \E t \in Threads : LoseByte(t) \/ ChangeByte(t) \/ CutShort(t)
    BY <1>3, FaultsInFrame DEF Line!Next
  <1>4. CASE InventByte \/ OpenAnew
    BY <1>4, FaultsAlone DEF Line!Next
  <1>. QED
    BY <1>1, <1>2, <1>3, <1>4 DEF Next

\* The stuffed bytes are a line of frames: what passes undisturbed arrives as
\* it was sent, and after a disturbance one undisturbed frame is enough to
\* bring the receiver back into step.
THEOREM Refinement == Spec => ImplementsFrameLine
  <1>1. Init => Line!Init
    BY DEF Init, Line!Init
  <1>. QED
    BY <1>1, LineStep, Correctness, PTL DEF Spec, ImplementsFrameLine, Line!Spec
=============================================================================
