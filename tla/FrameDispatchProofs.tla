------------------------- MODULE FrameDispatchProofs -------------------------
(***************************************************************************)
(* FrameDispatch for every set of frames, every filter and mask and every  *)
(* size of the list: each message has exactly one end, and readers find    *)
(* what the adapter has sent.                                              *)
(***************************************************************************)
EXTENDS FrameDispatch, FiniteSetTheorems, TLAPS

\* The frame being handled is the last that has arrived, and no message before
\* the one that the receive thread has come to was corrupt.
FrameInv ==
    place # "idle" =>
        /\ frame \in Frames /\ frame.crcOk /\ frame.type \in CanalFrames
        /\ Len(arrived) > 0 /\ frame = arrived[Len(arrived)]
        /\ posFrame <= Len(frame.msgs) + 1
        /\ \A i \in 1..posFrame - 1 : ~Abandons(frame, i)
        /\ place \in {"test", "filter", "mask", "count"} =>
              posFrame <= Len(frame.msgs) /\ ~Abandons(frame, posFrame)

\* A message in the list is one of a frame that has arrived, and one that the
\* receive thread is through with.
From(e) ==
    /\ e.from[1] \in 1..Len(arrived)
    /\ e.from[2] \in 1..Len(arrived[e.from[1]].msgs)
    /\ place # "idle" /\ e.from[1] = Len(arrived) =>
          e.from[2] < posFrame \/ (place = "count" /\ e.from[2] = posFrame)

\* The messages that have come to their end are as many as are counted.
Ended == Messages \ (ToCome \cup Abandoned)
CountInv ==
    /\ IsFiniteSet(Messages)
    /\ Cardinality(Ended) = cntReceiveFrames + filtered + cntOverruns

IInv ==
    /\ TypeOK
    /\ FrameInv
    /\ CountInv
    /\ ListedAsSent
    /\ \A i \in DOMAIN m_receiveList : From(m_receiveList[i])

-----------------------------------------------------------------------------
(* The messages of a frame.                                                *)

LEMMA MessageFacts ==
    ASSUME TypeOK, NEW f \in Frames, NEW k \in 1..Len(f.msgs)
    PROVE  /\ f.msgs[k] \in [id : SUBSET (0..31), timestamp : SUBSET (0..31), dlc : 0..255]
           /\ DataLength(f, k) \in 0..8
           /\ canalMsg(f, k) \in CanalMsgs
  <1>. DEFINE M == [id : SUBSET (0..31), timestamp : SUBSET (0..31), dlc : 0..255]
  <1>1. f.msgs[k] \in M
    <2>1. f.msgs \in Seq(M)
      BY FrameDispatchAssumption
    <2>. HIDE DEF M
    <2>. QED
      BY <2>1
  <1>2. DataLength(f, k) \in 0..8
    <2>. DEFINE d == f.msgs[k].dlc
    <2>1. d \in Nat
      <3>. DEFINE Byte == 0..255
      <3>1. \A n \in Byte : n \in Nat
        OBVIOUS
      <3>2. \A m \in M : m.dlc \in Byte
        OBVIOUS
      <3>. HIDE DEF M, Byte
      <3>. QED
        BY <1>1, <3>1, <3>2
    <2>2. DataLength(f, k) = IF d > 8 THEN 8 ELSE d
      BY DEF DataLength
    <2>. HIDE DEF d
    <2>. QED
      BY <2>1, <2>2
  <1>3. Len(arrived) \in Nat
    BY DEF TypeOK
  <1>. QED
    <2>1. IdOf(f, k) \cap 0..28 \in SUBSET (0..28)
      OBVIOUS
    <2>2. (IF HasTimestamp(f) THEN f.msgs[k].timestamp \cap 0..28 ELSE {}) \in SUBSET (0..28)
      OBVIOUS
    <2>3. <<Len(arrived), k>> \in Nat \X Nat
      BY <1>3
    <2>. QED
      BY <1>1, <1>2, <2>1, <2>2, <2>3 DEF canalMsg, CanalMsgs

\* What it is to be one of the messages, and one that has come to its end.
Ahead(m) == place # "idle" /\ m[1] = Len(arrived) /\ m[2] >= posFrame

LEMMA MessagesAre ==
    /\ \A i, k : <<i, k>> \in Messages <=> i \in Canals /\ k \in 1..Len(arrived[i].msgs)
    /\ \A m \in Messages : /\ m = <<m[1], m[2]>> /\ m[1] \in Canals
                           /\ m[2] \in 1..Len(arrived[m[1]].msgs)
  BY DEF Messages

LEMMA EndedAre == Ended = {m \in Messages : ~Ahead(m) /\ ~Behind(m)}
  BY DEF Ended, ToCome, Abandoned, Ahead

\* The messages are those that have ended, those to come and those abandoned.
LEMMA Partition == CountInv /\ TypeOK => Accounted
  <1>. SUFFICES ASSUME CountInv, TypeOK PROVE Accounted
    OBVIOUS
  <1>. DEFINE rest == Messages \ ToCome
  <1>1. /\ IsFiniteSet(Messages) /\ ToCome \in SUBSET Messages
        /\ Abandoned \in SUBSET rest /\ rest \in SUBSET Messages
    BY DEF CountInv, ToCome, Abandoned
  <1>2. /\ IsFiniteSet(rest) /\ IsFiniteSet(ToCome) /\ IsFiniteSet(Abandoned)
    BY <1>1, FS_Subset
  <1>3. /\ Cardinality(Messages) \in Nat /\ Cardinality(rest) \in Nat
        /\ Cardinality(ToCome) \in Nat /\ Cardinality(Abandoned) \in Nat
    BY <1>1, <1>2, FS_CardinalityType
  <1>4. Cardinality(rest) = Cardinality(Messages) - Cardinality(ToCome)
    <2>1. Messages \cap ToCome = ToCome
      BY <1>1
    <2>. QED
      BY <1>1, <2>1, FS_Difference
  <1>5. Cardinality(rest \ Abandoned) = Cardinality(rest) - Cardinality(Abandoned)
    <2>1. rest \cap Abandoned = Abandoned
      BY <1>1
    <2>. HIDE DEF rest
    <2>. QED
      BY <1>2, <2>1, FS_Difference
  <1>6. rest \ Abandoned = Ended
    BY DEF Ended
  <1>. HIDE DEF rest
  <1>7. Cardinality(Ended) = cntReceiveFrames + filtered + cntOverruns
    BY DEF CountInv
  <1>8. Cardinality(Messages) = Cardinality(Ended) + Cardinality(ToCome) + Cardinality(Abandoned)
    BY <1>3, <1>4, <1>5, <1>6
  <1>. QED
    BY <1>7, <1>8 DEF Accounted

\* The same frames, at the same message: nothing has ended.
LEMMA SameMessage ==
    ASSUME CountInv, UNCHANGED <<arrived, posFrame, cntReceiveFrames, filtered, cntOverruns>>,
           place = "idle" <=> place' = "idle"
    PROVE  CountInv'
  <1>1. Messages' = Messages /\ ToCome' = ToCome /\ Abandoned' = Abandoned
    BY DEF Messages, Canals, ToCome, Abandoned, Behind, Abandons
  <1>. QED
    BY <1>1 DEF CountInv, Ended

LEMMA InitInv == Init => IInv
  <1>. SUFFICES ASSUME Init PROVE IInv
    OBVIOUS
  <1>. USE FrameDispatchAssumption DEF Init
  <1>1. TypeOK
    BY DEF TypeOK
  <1>2. FrameInv /\ ListedAsSent
    BY DEF FrameInv, ListedAsSent
  <1>3. CountInv
    <2>1. Messages = {} /\ Ended = {}
      BY DEF Messages, Canals, Ended
    <2>. QED
      BY <2>1, FS_EmptySet DEF CountInv
  <1>. QED
    BY <1>1, <1>2, <1>3 DEF IInv

-----------------------------------------------------------------------------
(* The steps.                                                              *)

\* The application sets the filter or the mask.
LEMMA SetStep ==
    ASSUME IInv, NEW n \in Settings, setFilter(n) \/ setMask(n)
    PROVE  IInv'
  <1>1. /\ UNCHANGED <<threadVars, m_receiveList, statVars, answerVars, filtered, taken, takenData>>
        /\ m_filter' \in SUBSET (0..31) /\ m_mask' \in SUBSET (0..31)
    BY DEF setFilter, setMask, uint32_t, IInv, TypeOK
  <1>2. TypeOK'
    BY <1>1 DEF IInv, TypeOK, threadVars, statVars, answerVars
  <1>3. FrameInv' /\ CountInv' /\ ListedAsSent'
    BY <1>1, SameMessage DEF IInv, FrameInv, ListedAsSent, AsSent, Behind,
                             threadVars, statVars, answerVars
  <1>4. \A i \in DOMAIN m_receiveList' : From(m_receiveList[i])'
    BY <1>1 DEF IInv, From, threadVars, answerVars
  <1>. QED
    BY <1>2, <1>3, <1>4 DEF IInv

\* A reader takes the first message; the others move up and stay in order.
LEMMA ReadMsgStep ==
    ASSUME IInv, ReadMsg
    PROVE  IInv'
  <1>. USE DEF ReadMsg, threadVars, filterVars, statVars, answerVars
  <1>1. m_receiveList \in Seq(CanalMsgs) /\ m_receiveList # <<>>
    BY DEF IInv, TypeOK
  <1>2. /\ m_receiveList' \in Seq(CanalMsgs)
        /\ Head(m_receiveList) \in CanalMsgs
        /\ \A i \in DOMAIN m_receiveList' :
              i + 1 \in DOMAIN m_receiveList /\ m_receiveList'[i] = m_receiveList[i + 1]
    BY <1>1
  <1>3. Head(m_receiveList).sizeData \in Nat
    <2>1. \A e \in CanalMsgs : e.sizeData \in 0..8
      BY DEF CanalMsgs
    <2>2. Head(m_receiveList).sizeData \in 0..8
      BY <1>2, <2>1
    <2>3. \A n \in 0..8 : n \in Nat
      OBVIOUS
    <2>. QED
      BY <2>2, <2>3
  <1>4. TypeOK'
    BY <1>2, <1>3 DEF IInv, TypeOK
  <1>5. FrameInv' /\ CountInv'
    BY SameMessage DEF IInv, FrameInv
  <1>6. ListedAsSent'
    <2>1. \A i \in DOMAIN m_receiveList' : AsSent(m_receiveList[i])'
      <3>1. SUFFICES ASSUME NEW i \in DOMAIN m_receiveList' PROVE AsSent(m_receiveList[i])'
        OBVIOUS
      <3>2. AsSent(m_receiveList[i + 1]) /\ m_receiveList'[i] = m_receiveList[i + 1]
        BY <1>2 DEF IInv, ListedAsSent
      <3>. QED
        BY <3>2 DEF AsSent, Behind
    <2>2. ASSUME NEW i \in DOMAIN m_receiveList', NEW j \in DOMAIN m_receiveList', i < j
          PROVE  Before(m_receiveList'[i].from, m_receiveList'[j].from)
      <3>1. i \in Nat /\ j \in Nat /\ i + 1 < j + 1
        BY <1>2, <2>2
      <3>. QED
        BY <1>2, <3>1 DEF IInv, ListedAsSent
    <2>. QED
      BY <2>1, <2>2 DEF ListedAsSent
  <1>7. \A i \in DOMAIN m_receiveList' : From(m_receiveList[i])'
    BY <1>2 DEF IInv, From
  <1>. QED
    BY <1>4, <1>5, <1>6, <1>7 DEF IInv

\* One more frame has arrived: the list is about the ones before.
LEMMA ArrivesFacts ==
    ASSUME IInv, NEW f \in Frames, Arrives(f)
    PROVE  /\ arrived' \in Seq(Frames) /\ Len(arrived') = Len(arrived) + 1
           /\ arrived'[Len(arrived')] = f
           /\ ListedAsSent'
           /\ \A i \in DOMAIN m_receiveList' : From(m_receiveList[i])'
  <1>1. arrived \in Seq(Frames) /\ arrived' = Append(arrived, f) /\ UNCHANGED m_receiveList
    BY DEF Arrives, IInv, TypeOK
  <1>2. /\ arrived' \in Seq(Frames) /\ Len(arrived') = Len(arrived) + 1
        /\ arrived'[Len(arrived')] = f
        /\ \A i \in 1..Len(arrived) : arrived'[i] = arrived[i]
    BY <1>1
  <1>3. ASSUME NEW i \in DOMAIN m_receiveList
        PROVE  AsSent(m_receiveList[i])' /\ From(m_receiveList[i])'
    <2>. DEFINE e == m_receiveList[i]
    <2>1. /\ AsSent(e) /\ e.from[1] \in 1..Len(arrived)
          /\ e.from[2] \in 1..Len(arrived[e.from[1]].msgs)
      BY DEF IInv, ListedAsSent, From
    <2>2. e.from[1] \in 1..Len(arrived') /\ e.from[1] # Len(arrived')
      BY <1>1, <1>2, <2>1
    <2>3. m_receiveList'[i] = e /\ arrived'[e.from[1]] = arrived[e.from[1]]
      BY <1>1, <1>2, <2>1
    <2>. HIDE DEF e
    <2>. QED
      BY <2>1, <2>2, <2>3 DEF AsSent, Behind, From
  <1>. QED
    BY <1>1, <1>2, <1>3 DEF IInv, ListedAsSent

\* Its messages, if it has any, are all to come.
LEMMA ArrivesCount ==
    ASSUME IInv, NEW f \in Frames, Arrives(f),
           \/ /\ f.crcOk /\ f.type \in CanalFrames
              /\ place' # "idle" /\ posFrame' = 1
           \/ ~(f.crcOk /\ f.type \in CanalFrames) /\ place' = "idle"
    PROVE  CountInv'
  <1>. DEFINE n == Len(arrived)
              fresh == {n + 1} \X (1..Len(f.msgs))
              IsCanal(g) == g.crcOk /\ g.type \in CanalFrames
  <1>1. /\ place = "idle" /\ arrived \in Seq(Frames) /\ arrived' = Append(arrived, f)
        /\ UNCHANGED <<cntReceiveFrames, filtered, cntOverruns>>
    BY DEF Arrives, statVars, IInv, TypeOK
  <1>2. /\ n \in Nat /\ DOMAIN arrived = 1..n /\ DOMAIN arrived' = 1..n \cup {n + 1}
        /\ Len(arrived') = n + 1 /\ n + 1 \notin 1..n
        /\ arrived'[n + 1] = f /\ \A i \in 1..n : arrived'[i] = arrived[i]
    BY <1>1
  <1>3. Len(f.msgs) \in Nat
    BY FrameDispatchAssumption
  <1>. HIDE DEF n
  <1>4. Canals = {i \in 1..n : IsCanal(arrived[i])}
    BY <1>2 DEF Canals
  <1>5. Canals' = {i \in 1..n \cup {n + 1} : IsCanal(arrived'[i])}
    BY <1>2 DEF Canals
  <1>6. Canals' = IF IsCanal(f) THEN Canals \cup {n + 1} ELSE Canals
    <2>. HIDE DEF IsCanal
    <2>. QED
      BY <1>2, <1>4, <1>5
  <1>7. \A i \in Canals : i \in 1..n /\ i # n + 1 /\ arrived'[i] = arrived[i]
    BY <1>2, <1>4
  <1>8. ASSUME NEW m \in Messages
        PROVE  /\ m \in Messages' /\ m[1] # Len(arrived')
               /\ Behind(m)' <=> Behind(m)
    <2>1. m = <<m[1], m[2]>> /\ m[1] \in Canals /\ m[2] \in 1..Len(arrived[m[1]].msgs)
      BY MessagesAre
    <2>2. arrived'[m[1]] = arrived[m[1]] /\ m[1] \in Canals' /\ m[1] # n + 1
      BY <1>6, <1>7, <2>1
    <2>3. {m[1]} \X (1..Len(arrived'[m[1]].msgs)) \subseteq Messages'
      BY <2>2 DEF Messages
    <2>4. m \in {m[1]} \X (1..Len(arrived'[m[1]].msgs))
      BY <2>1, <2>2
    <2>. QED
      BY <1>2, <2>2, <2>3, <2>4 DEF Behind, Abandons
  <1>9. ASSUME NEW m \in Messages', m \notin Messages
        PROVE  IsCanal(f) /\ m \in fresh
    <2>1. PICK i \in Canals' : m \in {i} \X (1..Len(arrived'[i].msgs))
      BY DEF Messages
    <2>2. i \notin Canals
      <3>. SUFFICES ASSUME i \in Canals PROVE FALSE
        OBVIOUS
      <3>1. m \in {i} \X (1..Len(arrived[i].msgs))
        BY <1>7, <2>1
      <3>. QED
        BY <3>1, <1>9 DEF Messages
    <2>3. IsCanal(f) /\ i = n + 1
      BY <1>6, <2>1, <2>2
    <2>. QED
      BY <1>2, <2>1, <2>3
  <1>10. IsFiniteSet(Messages')
    <2>1. IsFiniteSet(fresh)
      <3>1. IsFiniteSet({n + 1})
        BY FS_Singleton
      <3>2. IsFiniteSet(1..Len(f.msgs))
        BY <1>3, FS_Interval
      <3>. QED
        BY <3>1, <3>2, FS_Product
    <2>2. Messages' \in SUBSET (Messages \cup fresh)
      BY <1>9
    <2>3. IsFiniteSet(Messages \cup fresh)
      BY <2>1, FS_Union DEF IInv, CountInv
    <2>. QED
      BY <2>2, <2>3, FS_Subset
  <1>11. Ended' = Ended
    <2>1. ASSUME NEW m \in Messages PROVE m \in Ended' <=> m \in Ended
      <3>1. ~Ahead(m) /\ ~Ahead(m)'
        BY <1>1, <1>8 DEF Ahead
      <3>. QED
        BY <1>8, <3>1 DEF Ended, ToCome, Abandoned, Ahead
    <2>2. ASSUME NEW m \in Messages', m \notin Messages PROVE m \notin Ended'
      <3>1. IsCanal(f) /\ m \in fresh
        BY <1>9, <2>2
      <3>2. place' # "idle" /\ posFrame' = 1 /\ m[1] = n + 1 /\ m[2] \in 1..Len(f.msgs)
        BY <3>1
      <3>3. Ahead(m)'
        BY <1>2, <1>3, <3>2 DEF Ahead
      <3>. QED
        BY <3>3 DEF Ended, ToCome, Abandoned, Ahead
    <2>3. Ended \subseteq Messages /\ Ended' \subseteq Messages'
      BY DEF Ended
    <2>. QED
      BY <1>8, <2>1, <2>2, <2>3
  <1>. QED
    BY <1>1, <1>10, <1>11 DEF IInv, CountInv

\* A frame that is not one of messages: an answer, a reply handed on, nothing.
LEMMA ReadOtherStep ==
    ASSUME IInv, NEW f \in Frames,
           ReadIgnored(f) \/ ReadNoop(f) \/ ReadUnsupported(f) \/ ReadReply(f)
    PROVE  IInv'
  <1>1. /\ Arrives(f) /\ place = "idle"
        /\ UNCHANGED <<threadVars, m_receiveList, filterVars, statVars, filtered, taken,
                       takenData>>
        /\ ~(f.crcOk /\ f.type \in CanalFrames)
        /\ \/ UNCHANGED sent
           \/ sent' = Append(sent, <<"ACK", f.seq>>)
           \/ sent' = Append(sent, <<"NACK", f.seq>>)
        /\ UNCHANGED handedOn \/ handedOn' = Append(handedOn, f)
    BY DEF ReadIgnored, ReadNoop, ReadUnsupported, ReadReply, sendACK, sendNACK, Arrives,
           CrcIsOk, CanalFrames, Unsupported, Replies
  <1>. USE <1>1 DEF threadVars, filterVars, statVars
  <1>2. /\ arrived' \in Seq(Frames) /\ ListedAsSent'
        /\ Len(arrived') = Len(arrived) + 1
        /\ \A i \in DOMAIN m_receiveList' : From(m_receiveList[i])'
    BY ArrivesFacts
  <1>. DEFINE Answers == {"ACK", "NACK"} \X {g.seq : g \in Frames}
  <1>3. sent' \in Seq(Answers) /\ handedOn' \in Seq(Frames)
    <2>1. sent \in Seq(Answers) /\ handedOn \in Seq(Frames)
      BY DEF IInv, TypeOK
    <2>2. <<"ACK", f.seq>> \in Answers /\ <<"NACK", f.seq>> \in Answers
      OBVIOUS
    <2>3. \A a \in Answers : Append(sent, a) \in Seq(Answers)
      <3>. HIDE DEF Answers
      <3>. QED
        BY <2>1
    <2>4. sent' \in Seq(Answers)
      BY <2>1, <2>2, <2>3
    <2>5. handedOn' \in Seq(Frames)
      BY <2>1
    <2>. QED
      BY <2>4, <2>5
  <1>4. TypeOK'
    BY <1>2, <1>3 DEF IInv, TypeOK
  <1>5. FrameInv' /\ CountInv'
    BY ArrivesCount DEF IInv, FrameInv
  <1>. QED
    BY <1>2, <1>4, <1>5 DEF IInv

LEMMA ReadCanalStep ==
    ASSUME IInv, NEW f \in Frames, ReadCanal(f)
    PROVE  IInv'
  <1>. USE DEF filterVars, statVars
  <1>1. /\ Arrives(f) /\ place = "idle" /\ place' = "message" /\ frame' = f /\ posFrame' = 1
        /\ f.crcOk /\ f.type \in CanalFrames
        /\ UNCHANGED <<maskRead, filterRead, sent, handedOn, m_receiveList, filterVars, statVars, filtered,
                       taken, takenData>>
    BY DEF ReadCanal, Arrives, CrcIsOk
  <1>2. /\ arrived' \in Seq(Frames) /\ Len(arrived') = Len(arrived) + 1
        /\ arrived'[Len(arrived')] = f
        /\ ListedAsSent'
        /\ \A i \in DOMAIN m_receiveList' : From(m_receiveList[i])'
    BY <1>1, ArrivesFacts
  <1>4. TypeOK'
    BY <1>1, <1>2 DEF IInv, TypeOK
  <1>5. FrameInv'
    BY <1>1, <1>2, FrameDispatchAssumption DEF FrameInv, IInv, TypeOK
  <1>6. CountInv'
    BY <1>1, ArrivesCount
  <1>. QED
    BY <1>2, <1>4, <1>5, <1>6 DEF IInv

\* The receive thread is in the middle of a frame.
LEMMA InFrame ==
    ASSUME IInv, place # "idle"
    PROVE  /\ frame \in Frames /\ posFrame \in Nat \ {0}
           /\ \A i \in 1..posFrame - 1 : ~Abandons(frame, i)
           /\ Len(frame.msgs) \in Nat
           /\ Len(arrived) \in Nat /\ Len(arrived) \in Canals
           /\ frame = arrived[Len(arrived)]
  BY FrameDispatchAssumption DEF IInv, FrameInv, TypeOK, Canals

\* One more message has ended: the one that it had come to.
LEMMA OneMoreEnded ==
    ASSUME IInv, place # "idle", posFrame <= Len(frame.msgs), UNCHANGED arrived,
           \/ place' # "idle" /\ posFrame' = posFrame + 1
           \/ place' = "idle" /\ Abandons(frame, posFrame),
           cntReceiveFrames' + filtered' + cntOverruns' =
               cntReceiveFrames + filtered + cntOverruns + 1
    PROVE  CountInv'
  <1>. DEFINE n == Len(arrived)
  <1>0. PICK m0 : m0 = <<n, posFrame>>
    OBVIOUS
  <1>1. /\ n \in Nat /\ n \in Canals /\ posFrame \in Nat \ {0}
        /\ frame = arrived[n] /\ posFrame \in 1..Len(arrived[n].msgs)
        /\ \A i \in 1..posFrame - 1 : ~Abandons(arrived[n], i)
    BY InFrame
  <1>2. Messages' = Messages /\ IsFiniteSet(Messages)
    BY DEF Messages, Canals, IInv, CountInv
  <1>3. m0 \in Messages /\ Ahead(m0) /\ ~Behind(m0)
    BY <1>0, <1>1, MessagesAre DEF Ahead, Behind
  <1>4. ASSUME NEW m \in Messages, m # m0
        PROVE  ~Ahead(m)' /\ ~Behind(m)' <=> ~Ahead(m) /\ ~Behind(m)
    <2>1. /\ m = <<m[1], m[2]>> /\ m[1] \in Canals
          /\ m[2] \in 1..Len(arrived[m[1]].msgs)
      BY MessagesAre
    <2>2. Behind(m)' <=> Behind(m)
      BY DEF Behind, Abandons
    <2>3. CASE m[1] # n
      BY <2>2, <2>3 DEF Ahead
    <2>4. CASE m[1] = n
      <3>1. m[2] # posFrame /\ m[2] \in Nat
        BY <1>0, <1>1, <1>4, <2>1, <2>4
      <3>2. CASE m[2] < posFrame
        BY <1>1, <2>2, <3>1, <3>2 DEF Ahead
      <3>3. CASE m[2] > posFrame
        <4>1. Ahead(m)
          BY <1>1, <2>4, <3>1, <3>3 DEF Ahead
        <4>2. Ahead(m)' \/ Behind(m)
          <5>1. CASE place' # "idle" /\ posFrame' = posFrame + 1
            BY <1>1, <2>4, <3>1, <3>3, <5>1 DEF Ahead
          <5>2. CASE Abandons(frame, posFrame)
            BY <1>1, <2>4, <3>1, <3>3, <5>2 DEF Behind
          <5>. QED
            BY <5>1, <5>2
        <4>. QED
          BY <2>2, <4>1, <4>2
      <3>. QED
        BY <1>1, <3>1, <3>2, <3>3
    <2>. QED
      BY <2>3, <2>4
  <1>5. ~Ahead(m0)' /\ ~Behind(m0)'
    <2>1. Behind(m0)' <=> Behind(m0)
      BY DEF Behind, Abandons
    <2>2. ~Ahead(m0)'
      BY <1>0, <1>1 DEF Ahead
    <2>. QED
      BY <1>3, <2>1, <2>2
  <1>6. Ended' = Ended \cup {m0} /\ m0 \notin Ended
    <2>1. Ended = {m \in Messages : ~Ahead(m) /\ ~Behind(m)}
      BY EndedAre
    <2>2. Ended' = {m \in Messages : ~Ahead(m)' /\ ~Behind(m)'}
      BY <1>2 DEF Ended, ToCome, Abandoned, Ahead
    <2>. QED
      BY <1>3, <1>4, <1>5, <2>1, <2>2
  <1>7. IsFiniteSet(Ended)
    <2>1. Ended \in SUBSET Messages
      BY DEF Ended
    <2>. QED
      BY <1>2, <2>1, FS_Subset
  <1>8. Cardinality(Ended') = Cardinality(Ended) + 1
    BY <1>6, <1>7, FS_AddElement
  <1>. QED
    BY <1>2, <1>8 DEF IInv, CountInv

\* The end of a frame: none of its messages was left.
LEMMA NoneLeft ==
    ASSUME IInv, place # "idle", posFrame > Len(frame.msgs), place' = "idle",
           UNCHANGED <<arrived, cntReceiveFrames, filtered, cntOverruns>>
    PROVE  CountInv'
  <1>1. ToCome = {} /\ ToCome' = {}
    <2>1. ASSUME NEW m \in Messages PROVE ~Ahead(m)
      <3>1. m[1] \in Canals /\ m[2] \in 1..Len(arrived[m[1]].msgs)
        BY MessagesAre
      <3>. QED
        BY <3>1, InFrame DEF Ahead
    <2>. QED
      BY <2>1 DEF ToCome, Ahead
  <1>2. Messages' = Messages /\ Abandoned' = Abandoned
    BY <1>1 DEF Messages, Canals, Abandoned, Behind, Abandons
  <1>. QED
    BY <1>1, <1>2 DEF IInv, CountInv, Ended

\* It leaves the frame, with nothing left or with a corrupt message counted.
LEMMA LeaveStep ==
    ASSUME IInv, EndOfFrame \/ Abandon
    PROVE  IInv'
  <1>1. /\ place = "message" /\ place' = "idle" /\ posFrame' = 1 /\ frame' = NoFrame
        /\ maskRead' = {} /\ filterRead' = {}
        /\ UNCHANGED <<m_receiveList, m_filter, m_mask, cntReceiveFrames, cntReceiveData, sent,
                       handedOn, arrived, filtered, taken, takenData>>
        /\ \/ posFrame > Len(frame.msgs) /\ UNCHANGED cntOverruns
           \/ /\ posFrame <= Len(frame.msgs) /\ Abandons(frame, posFrame)
              /\ cntOverruns' = cntOverruns + 1
    BY DEF EndOfFrame, Abandon, AtMessage, Ends, ForgetsSettings, filterVars, statVars,
           answerVars
  <1>. USE <1>1
  <1>2. TypeOK'
    BY DEF IInv, TypeOK
  <1>3. FrameInv'
    BY DEF FrameInv
  <1>4. CountInv'
    <2>1. cntReceiveFrames \in Nat /\ filtered \in Nat /\ cntOverruns \in Nat
      BY DEF IInv, TypeOK
    <2>2. CASE posFrame > Len(frame.msgs) /\ UNCHANGED cntOverruns
      BY <2>2, NoneLeft
    <2>3. CASE /\ posFrame <= Len(frame.msgs) /\ Abandons(frame, posFrame)
               /\ cntOverruns' = cntOverruns + 1
      <3>1. cntReceiveFrames' + filtered' + cntOverruns' =
                cntReceiveFrames + filtered + cntOverruns + 1
        BY <2>1, <2>3
      <3>. QED
        BY <2>3, <3>1, OneMoreEnded
    <2>. QED
      BY <2>2, <2>3
  <1>5. ListedAsSent' /\ \A i \in DOMAIN m_receiveList' : From(m_receiveList[i])'
    BY DEF IInv, ListedAsSent, AsSent, Behind, From
  <1>. QED
    BY <1>2, <1>3, <1>4, <1>5 DEF IInv

\* It has dealt with the message, and goes on to the next.
LEMMA GoesOnStep ==
    ASSUME IInv, place # "idle", GoesOn,
           posFrame <= Len(frame.msgs), ~Abandons(frame, posFrame),
           UNCHANGED <<m_receiveList, m_filter, m_mask, sent, handedOn, arrived, taken,
                       takenData>>,
           cntReceiveFrames' \in Nat, cntReceiveData' \in Nat, cntOverruns' \in Nat,
           filtered' \in Nat,
           cntReceiveFrames' + filtered' + cntOverruns' =
               cntReceiveFrames + filtered + cntOverruns + 1
    PROVE  IInv'
  <1>1. /\ place' = "message" /\ posFrame' = posFrame + 1 /\ UNCHANGED frame
        /\ maskRead' = {} /\ filterRead' = {}
    BY DEF GoesOn, ForgetsSettings
  <1>. USE <1>1
  <1>2. TypeOK'
    BY DEF IInv, TypeOK
  <1>3. frame \in Frames /\ posFrame \in Nat \ {0} /\ Len(frame.msgs) \in Nat
    BY InFrame
  <1>4. \A i \in 1..posFrame' - 1 : ~Abandons(frame, i)
    <2>1. \A i \in 1..posFrame' - 1 : i \in 1..posFrame - 1 \/ i = posFrame
      BY <1>3
    <2>2. \A i \in 1..posFrame - 1 : ~Abandons(frame, i)
      BY InFrame
    <2>. QED
      BY <2>1, <2>2
  <1>5. FrameInv'
    <2>1. FrameInv
      BY DEF IInv
    <2>2. posFrame' <= Len(frame.msgs) + 1
      BY <1>3
    <2>. QED
      BY <1>4, <2>1, <2>2 DEF FrameInv, Abandons
  <1>6. CountInv'
    BY OneMoreEnded
  <1>7. ListedAsSent'
    BY DEF IInv, ListedAsSent, AsSent, Behind
  <1>8. \A i \in DOMAIN m_receiveList' : From(m_receiveList[i])'
    <2>1. posFrame \in Nat
      BY DEF IInv, TypeOK
    <2>2. ASSUME NEW i \in DOMAIN m_receiveList PROVE From(m_receiveList[i])'
      <3>. DEFINE e == m_receiveList[i]
      <3>1. From(e) /\ e.from[2] \in Nat
        <4>1. m_receiveList \in Seq(CanalMsgs)
          BY DEF IInv, TypeOK
        <4>2. \A c \in CanalMsgs : c.from[2] \in Nat
          BY DEF CanalMsgs
        <4>. QED
          BY <4>1, <4>2 DEF IInv
      <3>2. m_receiveList'[i] = e
        OBVIOUS
      <3>3. e.from[1] = Len(arrived) => e.from[2] < posFrame'
        <4>. HIDE DEF e
        <4>1. e.from[1] = Len(arrived) => e.from[2] < posFrame \/ e.from[2] = posFrame
          BY <3>1 DEF From
        <4>2. \A k \in Nat : k < posFrame \/ k = posFrame => k < posFrame'
          BY <2>1
        <4>. QED
          BY <3>1, <4>1, <4>2
      <3>. HIDE DEF e
      <3>. QED
        BY <3>1, <3>2, <3>3 DEF From
    <2>. QED
      BY <2>2
  <1>. QED
    BY <1>2, <1>5, <1>6, <1>7, <1>8 DEF IInv

\* The message goes to the end of the list.
LEMMA AddToListStep ==
    ASSUME IInv, place \in {"message", "filter", "mask"}, AddToList,
           posFrame <= Len(frame.msgs), ~Abandons(frame, posFrame),
           UNCHANGED <<m_filter, m_mask, statVars, answerVars, taken, takenData>>
    PROVE  IInv'
  <1>. USE DEF statVars, answerVars
  <1>0. frame.msgs[posFrame].dlc \in 0..255
    <2>1. TypeOK /\ frame \in Frames /\ posFrame \in 1..Len(frame.msgs)
      BY InFrame DEF IInv
    <2>2. frame.msgs[posFrame] \in
                [id : SUBSET (0..31), timestamp : SUBSET (0..31), dlc : 0..255]
      BY <2>1, MessageFacts, ZenonT(40)
    <2>. QED
      BY <2>2
  <1>. DEFINE m == canalMsg(frame, posFrame)
  <1>1. /\ place' = "count" /\ maskRead' = {} /\ filterRead' = {}
        /\ UNCHANGED <<frame, posFrame, filtered>>
        /\ m_receiveList' = Append(m_receiveList, m)
    BY DEF AddToList, ForgetsSettings
  <1>2. /\ FrameInv /\ TypeOK /\ frame \in Frames /\ posFrame \in 1..Len(frame.msgs)
        /\ Len(arrived) > 0 /\ frame = arrived[Len(arrived)] /\ Len(arrived) \in Nat
        /\ frame.crcOk /\ frame.type \in CanalFrames
    BY InFrame DEF IInv, FrameInv, TypeOK
  <1>3. m \in CanalMsgs /\ m.from = <<Len(arrived), posFrame>>
    BY <1>2, MessageFacts DEF canalMsg
  <1>4. m_receiveList \in Seq(CanalMsgs)
    BY <1>2 DEF TypeOK
  <1>5. /\ m_receiveList' \in Seq(CanalMsgs)
        /\ Len(m_receiveList) \in Nat /\ Len(m_receiveList') = Len(m_receiveList) + 1
        /\ m_receiveList'[Len(m_receiveList')] = m
        /\ \A i \in 1..Len(m_receiveList) : m_receiveList'[i] = m_receiveList[i]
    <2>. HIDE DEF m
    <2>. QED
      BY <1>1, <1>3, <1>4
  <1>6. TypeOK'
    BY <1>1, <1>2, <1>5 DEF TypeOK
  <1>7. FrameInv'
    BY <1>1, <1>2 DEF FrameInv, Abandons
  <1>8. CountInv'
    BY <1>1, SameMessage DEF IInv
  <1>9. AsSent(m)
    <2>. DEFINE a == frame.msgs[posFrame]
    <2>1. a.dlc \in 0..255 /\ DataLength(frame, posFrame) = IF a.dlc > 8 THEN 8 ELSE a.dlc
      BY <1>0 DEF DataLength
    <2>2. /\ m.sizeData = DataLength(frame, posFrame)
          /\ m.id = IdOf(frame, posFrame) \cap 0..28
          /\ HasTimestamp(frame) => m.timestamp \cap 0..28 = a.timestamp \cap 0..28
      BY DEF canalMsg
    <2>3. frame.type # "CANAL" \/ posFrame = 1 => IdOf(frame, posFrame) = a.id
      BY <1>2 DEF IdOf
    <2>4. m.from[1] = Len(arrived) /\ m.from[2] = posFrame
      BY <1>3
    <2>5. m.sizeData <= a.dlc /\ (a.dlc <= 8 => m.sizeData = a.dlc)
      <3>. DEFINE d == a.dlc  n == m.sizeData
      <3>1. d \in 0..255 /\ n = IF d > 8 THEN 8 ELSE d
        BY <2>1, <2>2
      <3>. HIDE DEF d, n
      <3>2. n <= d /\ (d <= 8 => n = d)
        BY <3>1
      <3>. QED
        BY <3>2 DEF d, n
    <2>6. ~Behind(m.from)
      BY <1>2, <1>3, InFrame DEF Behind
    <2>. HIDE DEF m, a
    <2>7. arrived[m.from[1]] = frame /\ frame.msgs[m.from[2]] = a
      BY <1>2, <2>4 DEF a
    <2>. QED
      BY <1>2, <2>2, <2>3, <2>4, <2>5, <2>6, <2>7 DEF AsSent
  <1>10. \A i \in DOMAIN m_receiveList' : AsSent(m_receiveList[i])'
    <2>. SUFFICES ASSUME NEW i \in DOMAIN m_receiveList' PROVE AsSent(m_receiveList[i])'
      OBVIOUS
    <2>1. CASE i = Len(m_receiveList')
      <3>1. m_receiveList'[i] = m
        BY <1>5, <2>1
      <3>. HIDE DEF m
      <3>. QED
        BY <1>9, <3>1 DEF AsSent, Behind
    <2>2. CASE i \in 1..Len(m_receiveList)
      <3>1. AsSent(m_receiveList[i]) /\ m_receiveList'[i] = m_receiveList[i]
        BY <1>4, <1>5, <2>2 DEF IInv, ListedAsSent
      <3>. QED
        BY <3>1 DEF AsSent, Behind
    <2>. QED
      BY <1>5, <2>1, <2>2
  <1>11. \A i \in 1..Len(m_receiveList) :
            Before(m_receiveList[i].from, <<Len(arrived), posFrame>>)
    <2>. SUFFICES ASSUME NEW i \in 1..Len(m_receiveList)
                  PROVE  Before(m_receiveList[i].from, <<Len(arrived), posFrame>>)
      OBVIOUS
    <2>. DEFINE p == m_receiveList[i].from
    <2>1. p[1] \in 1..Len(arrived) /\ (p[1] = Len(arrived) => p[2] < posFrame)
      BY <1>4 DEF IInv, From
    <2>. HIDE DEF p
    <2>2. Before(p, <<Len(arrived), posFrame>>)
      BY <1>2, <2>1 DEF Before
    <2>. QED
      BY <2>2 DEF p
  <1>12. ASSUME NEW i \in DOMAIN m_receiveList', NEW j \in DOMAIN m_receiveList', i < j
         PROVE  Before(m_receiveList'[i].from, m_receiveList'[j].from)
    <2>1. i \in 1..Len(m_receiveList)
      BY <1>5, <1>12
    <2>2. CASE j = Len(m_receiveList')
      BY <1>3, <1>5, <1>11, <2>1, <2>2
    <2>3. CASE j \in 1..Len(m_receiveList)
      BY <1>4, <1>5, <1>12, <2>1, <2>3 DEF IInv, ListedAsSent
    <2>. QED
      BY <1>5, <2>2, <2>3
  <1>13. \A i \in DOMAIN m_receiveList' : From(m_receiveList[i])'
    <2>. SUFFICES ASSUME NEW i \in DOMAIN m_receiveList' PROVE From(m_receiveList[i])'
      OBVIOUS
    <2>1. CASE i = Len(m_receiveList')
      <3>. DEFINE e == m_receiveList'[i]
      <3>1. e.from[1] = Len(arrived) /\ e.from[2] = posFrame
        BY <1>3, <1>5, <2>1
      <3>2. /\ Len(arrived) \in 1..Len(arrived) /\ posFrame \in 1..Len(arrived[Len(arrived)].msgs)
            /\ place' = "count" /\ UNCHANGED <<arrived, posFrame>>
        BY <1>1, <1>2
      <3>. HIDE DEF e
      <3>3. /\ e.from[1] \in 1..Len(arrived') /\ e.from[2] \in 1..Len(arrived'[e.from[1]].msgs)
            /\ place' = "count" /\ e.from[2] = posFrame'
        BY <3>1, <3>2
      <3>. QED
        BY <3>3 DEF From, e
    <2>2. CASE i \in 1..Len(m_receiveList)
      <3>1. From(m_receiveList[i]) /\ m_receiveList'[i] = m_receiveList[i]
        BY <1>4, <1>5, <2>2 DEF IInv
      <3>. QED
        BY <1>1, <3>1 DEF From
    <2>. QED
      BY <1>5, <2>1, <2>2
  <1>. QED
    BY <1>6, <1>7, <1>8, <1>10, <1>12, <1>13 DEF IInv, ListedAsSent

\* doFilter goes on with the same message.
LEMMA FilterStep ==
    ASSUME IInv, place \in {"message", "test"}, place' \in {"test", "filter", "mask"},
           posFrame <= Len(frame.msgs), ~Abandons(frame, posFrame),
           maskRead' \in SUBSET (0..31), filterRead' \in SUBSET (0..31),
           UNCHANGED <<frame, posFrame, m_receiveList, m_filter, m_mask, statVars, answerVars,
                       filtered, taken, takenData>>
    PROVE  IInv'
  <1>. USE DEF statVars, answerVars
  <1>1. TypeOK'
    BY DEF IInv, TypeOK
  <1>2. FrameInv' /\ CountInv' /\ ListedAsSent'
    BY SameMessage DEF IInv, FrameInv, ListedAsSent, AsSent, Behind, Abandons
  <1>3. \A i \in DOMAIN m_receiveList' : From(m_receiveList[i])'
    BY DEF IInv, From
  <1>. QED
    BY <1>1, <1>2, <1>3 DEF IInv

LEMMA HandleMessageStep ==
    ASSUME IInv, HandleMessage
    PROVE  IInv'
  <1>. USE DEF filterVars, statVars, answerVars
  <1>0. /\ cntReceiveFrames \in Nat /\ cntReceiveData \in Nat /\ cntOverruns \in Nat
        /\ filtered \in Nat
    BY DEF IInv, TypeOK
  <1>1. CASE EndOfFrame \/ Abandon
    BY <1>1, LeaveStep
  <1>2. CASE Overrun
    <2>1. /\ place = "message" /\ GoesOn
          /\ posFrame <= Len(frame.msgs) /\ ~Abandons(frame, posFrame)
          /\ cntOverruns' = cntOverruns + 1
          /\ UNCHANGED <<m_receiveList, m_filter, m_mask, sent, handedOn, arrived,
                         taken, takenData, cntReceiveFrames, cntReceiveData, filtered>>
      BY <1>2 DEF Overrun, AtMessage, CountsOverrun
    <2>. QED
      BY <1>0, <2>1, GoesOnStep
  <1>3. CASE TakeMessage
    <2>1. /\ place = "message"
          /\ posFrame <= Len(frame.msgs) /\ ~Abandons(frame, posFrame)
          /\ UNCHANGED <<m_filter, m_mask, statVars, answerVars, taken, takenData>>
      BY <1>3 DEF TakeMessage, AtMessage
    <2>2. CASE AddToList
      BY <2>1, <2>2, AddToListStep
    <2>3. CASE /\ place' = "test" /\ maskRead' = m_mask
               /\ UNCHANGED <<frame, posFrame, filterRead, m_receiveList, filtered>>
      BY <2>1, <2>3, FilterStep DEF IInv, TypeOK
    <2>. QED
      BY <1>3, <2>2, <2>3 DEF TakeMessage
  <1>4. CASE Test
    <2>1. /\ place \in {"filter", "mask"}
          /\ posFrame <= Len(frame.msgs) /\ ~Abandons(frame, posFrame)
          /\ UNCHANGED <<m_filter, m_mask, statVars, answerVars, taken, takenData>>
      BY <1>4 DEF Test, IInv, FrameInv
    <2>2. CASE AddToList
      BY <2>1, <2>2, AddToListStep
    <2>3. CASE filtered' = filtered + 1 /\ GoesOn /\ UNCHANGED m_receiveList
      BY <1>0, <2>1, <2>3, GoesOnStep
    <2>. QED
      BY <1>4, <2>2, <2>3 DEF Test, Decide
  <1>5. CASE Count
    <2>1. /\ place = "count" /\ GoesOn
          /\ posFrame <= Len(frame.msgs) /\ ~Abandons(frame, posFrame)
          /\ frame \in Frames /\ posFrame \in 1..Len(frame.msgs)
          /\ cntReceiveFrames' = cntReceiveFrames + 1
          /\ cntReceiveData' = cntReceiveData + DataLength(frame, posFrame)
          /\ UNCHANGED <<m_receiveList, m_filter, m_mask, sent, handedOn, arrived,
                         taken, takenData, cntOverruns, filtered>>
      BY <1>5, InFrame DEF Count, CountedData, IInv, FrameInv
    <2>2. DataLength(frame, posFrame) \in 0..8
      BY <2>1, MessageFacts DEF IInv
    <2>3. cntReceiveData' \in Nat
      BY <1>0, <2>1, <2>2
    <2>. QED
      BY <1>0, <2>1, <2>3, GoesOnStep
  <1>6. CASE ReadOperand
    <2>1. /\ place = "test" /\ place' \in {"filter", "mask"}
          /\ posFrame <= Len(frame.msgs) /\ ~Abandons(frame, posFrame)
          /\ maskRead' \in SUBSET (0..31) /\ filterRead' \in SUBSET (0..31)
      BY <1>6 DEF ReadOperand, IInv, FrameInv, TypeOK
    <2>. QED
      BY <1>6, <2>1, FilterStep DEF ReadOperand
  <1>. QED
    BY <1>1, <1>2, <1>3, <1>4, <1>5, <1>6 DEF HandleMessage

LEMMA NextInv == IInv /\ [Next]_vars => IInv'
  <1>. SUFFICES ASSUME IInv, [Next]_vars PROVE IInv'
    OBVIOUS
  <1>1. CASE HandleMessage
    BY <1>1, HandleMessageStep
  <1>2. CASE ReadMsg
    BY <1>2, ReadMsgStep
  <1>3. ASSUME NEW f \in Frames,
               ReadIgnored(f) \/ ReadNoop(f) \/ ReadUnsupported(f) \/ ReadReply(f)
                   \/ ReadCanal(f)
        PROVE  IInv'
    BY <1>3, ReadOtherStep, ReadCanalStep
  <1>4. ASSUME NEW n \in Settings, setFilter(n) \/ setMask(n) PROVE IInv'
    BY <1>4, SetStep
  <1>5. CASE UNCHANGED vars
    <2>. USE <1>5 DEF vars, threadVars, filterVars, statVars, answerVars
    <2>1. TypeOK'
      BY DEF IInv, TypeOK
    <2>2. FrameInv' /\ CountInv' /\ ListedAsSent'
      BY SameMessage DEF IInv, FrameInv, ListedAsSent, AsSent, Behind
    <2>3. \A i \in DOMAIN m_receiveList' : From(m_receiveList[i])'
      BY DEF IInv, From
    <2>. QED
      BY <2>1, <2>2, <2>3 DEF IInv
  <1>. QED
    BY <1>1, <1>2, <1>3, <1>4, <1>5 DEF Next

-----------------------------------------------------------------------------

\* The inductive invariant holds in every behaviour.
THEOREM Correctness == Spec => []IInv
  BY InitInv, NextInv, PTL DEF Spec

\* Every variable keeps its type: m_filter and m_mask have 32 bits.
THEOREM TypeCorrect == Spec => []TypeOK
  <1>1. IInv => TypeOK
    BY DEF IInv
  <1>. QED
    BY <1>1, Correctness, PTL

\* Each message of each frame that has arrived is counted as received, dropped by
\* the filter, counted as overrun, still to come, or abandoned behind a corrupt one.
THEOREM EachMessageOnce == Spec => []Accounted
  <1>1. IInv => Accounted
    BY Partition DEF IInv
  <1>. QED
    BY <1>1, Correctness, PTL

\* What readers find was sent, in this order, with this length; the identifier
\* and the timestamp as far as ListedAsSent goes.
THEOREM ReadersGetWhatWasSent == Spec => []ListedAsSent
  <1>1. IInv => ListedAsSent
    BY DEF IInv
  <1>. QED
    BY <1>1, Correctness, PTL

\* doFilter's formula is the table, where it leaves the identifier's bits alone.
LEMMA PassesIsTabled ==
    ASSUME NEW id, NEW filter, NEW mask \in SUBSET (0..31),
           mask \cap (SetBits \cup 29..31) = {}
    PROVE  Passes(id, filter, mask) <=> Tabled(id, filter, mask)
  <1>1. \A b \in mask : b \in 0..28 /\ b \notin SetBits
    <2>1. \A b \in 0..31 : b \in 0..28 \/ b \in 29..31
      OBVIOUS
    <2>. QED
      BY <2>1
  <1>2. \A b \in mask : b \in msgid(id) <=> b \in id
    BY <1>1 DEF msgid
  <1>. QED
    BY <1>2 DEF Passes, Tabled, SymDiff

\* What one step may not do, if IInv holds before it.
Selects ==
    LET listed  == Len(m_receiveList') > Len(m_receiveList)
        dropped == filtered' > filtered
    IN  /\ listed \/ dropped
        /\ (place = "filter" => maskRead = m_mask)
        /\ (place = "mask" => filterRead = m_filter)
        /\ m_mask \cap (SetBits \cup 29..31) = {}
        => (listed <=> Tabled(IdOf(frame, posFrame), m_filter, m_mask))

LEMMA AddToListGrows ==
    ASSUME IInv, AddToList
    PROVE  Len(m_receiveList') > Len(m_receiveList) /\ filtered' = filtered
  <1>. DEFINE m == canalMsg(frame, posFrame)
  <1>1. m_receiveList \in Seq(CanalMsgs) /\ m_receiveList' = Append(m_receiveList, m)
        /\ filtered' = filtered
    BY DEF AddToList, IInv, TypeOK
  <1>. HIDE DEF m
  <1>. QED
    BY <1>1

LEMMA StepSelects == IInv /\ [Next]_vars => [Selects]_vars
  <1>. SUFFICES ASSUME IInv, Next PROVE Selects
    OBVIOUS
  <1>0. /\ m_receiveList \in Seq(CanalMsgs) /\ filtered \in Nat
        /\ m_mask \in SUBSET (0..31)
    BY DEF IInv, TypeOK
  <1>1. CASE UNCHANGED <<m_receiveList, filtered>>
    BY <1>0, <1>1 DEF Selects
  <1>2. CASE ReadMsg
    <2>1. Len(m_receiveList') = Len(m_receiveList) - 1 /\ filtered' = filtered
          /\ Len(m_receiveList) \in Nat
      BY <1>0, <1>2 DEF ReadMsg
    <2>. QED
      BY <1>0, <2>1 DEF Selects
  <1>3. CASE TakeMessage
    <2>1. CASE m_mask = {} /\ AddToList
      <3>1. Tabled(IdOf(frame, posFrame), m_filter, m_mask)
        BY <2>1 DEF Tabled
      <3>. QED
        BY <2>1, <3>1, AddToListGrows DEF Selects
    <2>2. CASE UNCHANGED <<m_receiveList, filtered>>
      BY <1>1, <2>2
    <2>. QED
      BY <1>3, <2>1, <2>2 DEF TakeMessage
  <1>4. CASE Test
    <2>. SUFFICES ASSUME place = "filter" => maskRead = m_mask,
                         place = "mask" => filterRead = m_filter,
                         m_mask \cap (SetBits \cup 29..31) = {}
                  PROVE  Len(m_receiveList') > Len(m_receiveList)
                             <=> Tabled(IdOf(frame, posFrame), m_filter, m_mask)
      BY <1>4 DEF Selects
    <2>1. Passes(IdOf(frame, posFrame), m_filter, m_mask)
              <=> Tabled(IdOf(frame, posFrame), m_filter, m_mask)
      BY <1>0, PassesIsTabled
    <2>2. CASE Passes(IdOf(frame, posFrame), m_filter, m_mask) /\ AddToList
      BY <2>1, <2>2, AddToListGrows
    <2>3. CASE ~Passes(IdOf(frame, posFrame), m_filter, m_mask) /\ UNCHANGED m_receiveList
      BY <1>0, <2>1, <2>3
    <2>. QED
      BY <1>4, <2>2, <2>3 DEF Test, Decide
  <1>5. CASE EndOfFrame \/ Abandon \/ Overrun \/ ReadOperand \/ Count
    BY <1>1, <1>5 DEF EndOfFrame, Abandon, Overrun, ReadOperand, Count
  <1>6. ASSUME NEW f \in Frames,
               ReadIgnored(f) \/ ReadNoop(f) \/ ReadUnsupported(f) \/ ReadReply(f)
                   \/ ReadCanal(f)
        PROVE  Selects
    BY <1>1, <1>6 DEF ReadIgnored, ReadNoop, ReadUnsupported, ReadReply, ReadCanal, Arrives
  <1>7. ASSUME NEW n \in Settings, setFilter(n) \/ setMask(n) PROVE Selects
    BY <1>1, <1>7 DEF setFilter, setMask
  <1>. QED
    BY <1>2, <1>3, <1>4, <1>5, <1>6, <1>7 DEF Next, HandleMessage

\* The filter lets pass what its table says, for the masks it works for.
THEOREM FilterFollowsTable == Spec => FilterAsTabled
  <1>1. [][Selects]_vars => FilterAsTabled
    BY DEF FilterAsTabled, Selects
  <1>. QED
    BY <1>1, Correctness, StepSelects, PTL DEF Spec

-----------------------------------------------------------------------------
(* Each request has its answer, each reply is handed on.                   *)

\* A frame more that is one of S: it is the last of them, and the number of
\* each of the others stays what it was.
LEMMA UpToFacts ==
    ASSUME NEW n \in Nat, NEW S \in SUBSET (1..n)
    PROVE  LET T == S \cup {n + 1}
           IN  /\ Cardinality(S) \in Nat
               /\ \A i \in S : UpTo(S, i) \in 1..Cardinality(S)
               /\ Cardinality(T) = Cardinality(S) + 1
               /\ UpTo(T, n + 1) = Cardinality(S) + 1
               /\ \A i \in S : UpTo(T, i) = UpTo(S, i)
  <1>. DEFINE T == S \cup {n + 1}
  <1>1. IsFiniteSet(S) /\ Cardinality(S) \in Nat
    <2>1. IsFiniteSet(1..n)
      BY FS_Interval
    <2>2. IsFiniteSet(S)
      BY <2>1, FS_Subset
    <2>. QED
      BY <2>2, FS_CardinalityType
  <1>2. n + 1 \notin S
    OBVIOUS
  <1>3. Cardinality(T) = Cardinality(S) + 1
    BY <1>1, <1>2, FS_AddElement
  <1>4. UpTo(T, n + 1) = Cardinality(S) + 1
    <2>1. \A j \in T : j <= n + 1
      OBVIOUS
    <2>2. {j \in T : j <= n + 1} = T
      BY <2>1
    <2>. QED
      BY <1>3, <2>2 DEF UpTo
  <1>5. ASSUME NEW i \in S
        PROVE  UpTo(T, i) = UpTo(S, i) /\ UpTo(S, i) \in 1..Cardinality(S)
    <2>. DEFINE U == {j \in S : j <= i}
    <2>1. {j \in T : j <= i} = U
      OBVIOUS
    <2>2. U \in SUBSET S
      OBVIOUS
    <2>3. IsFiniteSet(U) /\ Cardinality(U) \in Nat /\ Cardinality(U) <= Cardinality(S)
      BY <1>1, <2>2, FS_Subset, FS_CardinalityType
    <2>4. i \in U
      OBVIOUS
    <2>5. Cardinality(U) # 0
      BY <2>3, <2>4, FS_EmptySet
    <2>6. UpTo(T, i) = Cardinality(U) /\ UpTo(S, i) = Cardinality(U)
      BY <2>1 DEF UpTo
    <2>. HIDE DEF U
    <2>. QED
      BY <1>1, <2>3, <2>5, <2>6
  <1>. QED
    BY <1>1, <1>3, <1>4, <1>5

LEMMA AppendFacts ==
    ASSUME NEW A, NEW s \in Seq(A), NEW x \in A
    PROVE  /\ Len(s) \in Nat /\ Len(Append(s, x)) = Len(s) + 1
           /\ Append(s, x)[Len(s) + 1] = x
           /\ \A k \in 1..Len(s) : Append(s, x)[k] = s[k]
  OBVIOUS

\* The numbers of those that ask and those that reply, with a frame more.
LEMMA ArrivesNumbers ==
    ASSUME TypeOK, NEW f \in Frames, Arrives(f)
    PROVE  /\ Len(arrived) \in Nat
           /\ Asking \in SUBSET (1..Len(arrived)) /\ Replying \in SUBSET (1..Len(arrived))
           /\ arrived'[Len(arrived) + 1] = f
           /\ \A i \in 1..Len(arrived) : arrived'[i] = arrived[i]
           /\ Asking' = IF f.crcOk /\ f.type \in {"NOOP"} \cup Unsupported
                        THEN Asking \cup {Len(arrived) + 1} ELSE Asking
           /\ Replying' = IF f.crcOk /\ f.type \in Replies
                          THEN Replying \cup {Len(arrived) + 1} ELSE Replying
  <1>. DEFINE n == Len(arrived)
  <1>1. arrived \in Seq(Frames) /\ arrived' = Append(arrived, f)
    BY DEF TypeOK, Arrives
  <1>2. /\ n \in Nat /\ DOMAIN arrived = 1..n /\ DOMAIN arrived' = 1..(n + 1)
        /\ arrived'[n + 1] = f /\ \A i \in 1..n : arrived'[i] = arrived[i]
    BY <1>1
  <1>3. 1..(n + 1) = 1..n \cup {n + 1} /\ n + 1 \notin 1..n
    BY <1>2
  <1>. HIDE DEF n
  <1>. DEFINE Asks(g) == g.crcOk /\ g.type \in {"NOOP"} \cup Unsupported
              IsReply(g) == g.crcOk /\ g.type \in Replies
  <1>4. /\ Asking = {i \in 1..n : Asks(arrived[i])}
        /\ Replying = {i \in 1..n : IsReply(arrived[i])}
    BY <1>2 DEF Asking, Replying
  <1>5. /\ Asking' = {i \in 1..n \cup {n + 1} : Asks(arrived'[i])}
        /\ Replying' = {i \in 1..n \cup {n + 1} : IsReply(arrived'[i])}
    BY <1>2, <1>3 DEF Asking, Replying
  <1>. HIDE DEF Asks, IsReply
  <1>6. Asking' = IF Asks(f) THEN Asking \cup {n + 1} ELSE Asking
    BY <1>2, <1>3, <1>4, <1>5
  <1>7. Replying' = IF IsReply(f) THEN Replying \cup {n + 1} ELSE Replying
    BY <1>2, <1>3, <1>4, <1>5
  <1>. QED
    BY <1>2, <1>4, <1>6, <1>7 DEF n, Asks, IsReply

LEMMA AnswerStep ==
    ASSUME IInv, AnsweredOnce, [Next]_vars
    PROVE  AnsweredOnce'
  <1>. DEFINE n == Len(arrived)
              Answers == {"ACK", "NACK"} \X {g.seq : g \in Frames}
  <1>1. TypeOK /\ sent \in Seq(Answers) /\ handedOn \in Seq(Frames)
    BY DEF IInv, TypeOK
  <1>2. CASE UNCHANGED <<sent, handedOn, arrived>>
    BY <1>2 DEF AnsweredOnce, Asking, Replying
  <1>3. ASSUME NEW f \in Frames, Arrives(f),
               ReadIgnored(f) \/ ReadNoop(f) \/ ReadUnsupported(f) \/ ReadReply(f)
                   \/ ReadCanal(f)
        PROVE  AnsweredOnce'
    <2>. DEFINE Asks == f.crcOk /\ f.type \in {"NOOP"} \cup Unsupported
                IsReply == f.crcOk /\ f.type \in Replies
                value == [i \in 1..n |-> Answer(arrived[i])]
    <2>1. /\ n \in Nat /\ Asking \in SUBSET (1..n) /\ Replying \in SUBSET (1..n)
          /\ arrived'[n + 1] = f /\ \A i \in 1..n : arrived'[i] = arrived[i]
          /\ Asking' = IF Asks THEN Asking \cup {n + 1} ELSE Asking
          /\ Replying' = IF IsReply THEN Replying \cup {n + 1} ELSE Replying
      BY <1>1, <1>3, ArrivesNumbers
    <2>2. /\ Asks => sent' = Append(sent, Answer(f))
          /\ ~Asks => UNCHANGED sent
          /\ IsReply => handedOn' = Append(handedOn, f)
          /\ ~IsReply => UNCHANGED handedOn
      BY <1>3 DEF ReadIgnored, ReadNoop, ReadUnsupported, ReadReply, ReadCanal, CrcIsOk,
                  sendACK, sendNACK, Answer, Unsupported, Replies, CanalFrames
    <2>3. Answer(f) \in Answers
      BY DEF Answer
    <2>. HIDE DEF Asks, IsReply, n
    <2>4. /\ Len(sent) = Cardinality(Asking)
          /\ \A i \in Asking : sent[UpTo(Asking, i)] = value[i]
          /\ Len(handedOn) = Cardinality(Replying)
          /\ \A i \in Replying : handedOn[UpTo(Replying, i)] = arrived[i]
      BY <2>1 DEF AnsweredOnce
    <2>5. /\ \A i \in Asking : value[i] = Answer(arrived'[i])
          /\ \A i \in Replying : arrived[i] = arrived'[i]
      BY <2>1
    <2>. HIDE DEF Answers, value
    <2>6. /\ Len(sent') = Cardinality(Asking')
          /\ \A i \in Asking' : sent'[UpTo(Asking', i)] = Answer(arrived'[i])
      <3>1. CASE ~Asks
        BY <2>1, <2>2, <2>4, <2>5, <3>1
      <3>2. CASE Asks
        <4>1. Asking' = Asking \cup {n + 1} /\ sent' = Append(sent, Answer(f))
          BY <2>1, <2>2, <3>2
        <4>2. /\ \A i \in Asking : UpTo(Asking, i) \in 1..Cardinality(Asking)
              /\ Cardinality(Asking') = Cardinality(Asking) + 1
              /\ UpTo(Asking', n + 1) = Cardinality(Asking) + 1
              /\ \A i \in Asking : UpTo(Asking', i) = UpTo(Asking, i)
          <5>1. n \in Nat /\ Asking \in SUBSET (1..n)
            BY <2>1
          <5>2. \A i \in Asking : UpTo(Asking, i) \in 1..Cardinality(Asking)
            BY <5>1, UpToFacts
          <5>3. Cardinality(Asking \cup {n + 1}) = Cardinality(Asking) + 1
            BY <5>1, UpToFacts
          <5>4. UpTo(Asking \cup {n + 1}, n + 1) = Cardinality(Asking) + 1
            BY <5>1, UpToFacts
          <5>5. \A i \in Asking : UpTo(Asking \cup {n + 1}, i) = UpTo(Asking, i)
            BY <5>1, UpToFacts
          <5>. QED
            BY <4>1, <5>2, <5>3, <5>4, <5>5
        <4>3. /\ Len(sent) \in Nat /\ Len(sent') = Len(sent) + 1
              /\ sent'[Len(sent) + 1] = Answer(f)
              /\ \A k \in 1..Len(sent) : sent'[k] = sent[k]
          BY <1>1, <2>3, <4>1, AppendFacts
        <4>4. \A i \in Asking : sent'[UpTo(Asking', i)] = Answer(arrived'[i])
          BY <2>4, <2>5, <4>2, <4>3
        <4>5. sent'[UpTo(Asking', n + 1)] = Answer(arrived'[n + 1])
          BY <2>1, <2>4, <4>2, <4>3
        <4>. QED
          BY <2>4, <4>1, <4>2, <4>3, <4>4, <4>5
      <3>. QED
        BY <3>1, <3>2
    <2>7. /\ Len(handedOn') = Cardinality(Replying')
          /\ \A i \in Replying' : handedOn'[UpTo(Replying', i)] = arrived'[i]
      <3>1. CASE ~IsReply
        BY <2>1, <2>2, <2>4, <2>5, <3>1
      <3>2. CASE IsReply
        <4>1. Replying' = Replying \cup {n + 1} /\ handedOn' = Append(handedOn, f)
          BY <2>1, <2>2, <3>2
        <4>2. /\ \A i \in Replying : UpTo(Replying, i) \in 1..Cardinality(Replying)
              /\ Cardinality(Replying') = Cardinality(Replying) + 1
              /\ UpTo(Replying', n + 1) = Cardinality(Replying) + 1
              /\ \A i \in Replying : UpTo(Replying', i) = UpTo(Replying, i)
          <5>1. n \in Nat /\ Replying \in SUBSET (1..n)
            BY <2>1
          <5>2. \A i \in Replying : UpTo(Replying, i) \in 1..Cardinality(Replying)
            BY <5>1, UpToFacts
          <5>3. Cardinality(Replying \cup {n + 1}) = Cardinality(Replying) + 1
            BY <5>1, UpToFacts
          <5>4. UpTo(Replying \cup {n + 1}, n + 1) = Cardinality(Replying) + 1
            BY <5>1, UpToFacts
          <5>5. \A i \in Replying : UpTo(Replying \cup {n + 1}, i) = UpTo(Replying, i)
            BY <5>1, UpToFacts
          <5>. QED
            BY <4>1, <5>2, <5>3, <5>4, <5>5
        <4>3. /\ Len(handedOn) \in Nat /\ Len(handedOn') = Len(handedOn) + 1
              /\ handedOn'[Len(handedOn) + 1] = f
              /\ \A k \in 1..Len(handedOn) : handedOn'[k] = handedOn[k]
          BY <1>1, <4>1, AppendFacts
        <4>4. \A i \in Replying : handedOn'[UpTo(Replying', i)] = arrived'[i]
          BY <2>4, <2>5, <4>2, <4>3
        <4>5. handedOn'[UpTo(Replying', n + 1)] = arrived'[n + 1]
          BY <2>1, <2>4, <4>2, <4>3
        <4>. QED
          BY <2>4, <4>1, <4>2, <4>3, <4>4, <4>5
      <3>. QED
        BY <3>1, <3>2
    <2>. QED
      BY <2>6, <2>7 DEF AnsweredOnce, UpTo
  <1>4. CASE HandleMessage
    <2>1. UNCHANGED answerVars
      BY <1>4 DEF HandleMessage, EndOfFrame, Abandon, Overrun, TakeMessage, ReadOperand,
                     Test, Count
    <2>. QED
      BY <1>2, <2>1 DEF answerVars
  <1>5. CASE ReadMsg \/ \E k \in Settings : setFilter(k) \/ setMask(k)
    BY <1>2, <1>5 DEF ReadMsg, setFilter, setMask, answerVars
  <1>6. CASE UNCHANGED vars
    BY <1>2, <1>6 DEF vars, answerVars
  <1>7. ASSUME NEW f \in Frames,
               ReadIgnored(f) \/ ReadNoop(f) \/ ReadUnsupported(f) \/ ReadReply(f)
                   \/ ReadCanal(f)
        PROVE  AnsweredOnce'
    <2>1. Arrives(f)
      BY <1>7 DEF ReadIgnored, ReadNoop, ReadUnsupported, ReadReply, ReadCanal
    <2>. QED
      BY <1>3, <1>7, <2>1
  <1>. QED
    BY <1>4, <1>5, <1>6, <1>7 DEF Next

\* Each NOOP and each frame without a handler is answered once, with its own
\* number, and each reply is handed on once, all in the order of arrival.
THEOREM EachRequestIsAnswered == Spec => []AnsweredOnce
  <1>1. Init => AnsweredOnce
    BY FS_EmptySet DEF Init, AnsweredOnce, Asking, Replying
  <1>. QED
    BY <1>1, Correctness, AnswerStep, PTL DEF Spec

-----------------------------------------------------------------------------
(* The statistics.                                                         *)

LEMMA SizeFacts ==
    ASSUME NEW e \in CanalMsgs
    PROVE  e.sizeData \in Nat /\ e.sizeData <= 8
  <1>1. e.sizeData \in 0..8
    BY DEF CanalMsgs
  <1>2. \A n \in 0..8 : n \in Nat /\ n <= 8
    OBVIOUS
  <1>. QED
    BY <1>1, <1>2

\* The data bytes of the message that has number k.
BytesOf(k, size) == {k} \X (1..size)

LEMMA BytesOfFacts ==
    ASSUME NEW k, NEW size \in Nat
    PROVE  IsFiniteSet(BytesOf(k, size)) /\ Cardinality(BytesOf(k, size)) = size
  <1>1. IsFiniteSet({k}) /\ Cardinality({k}) = 1
    BY FS_Singleton
  <1>2. IsFiniteSet(1..size) /\ Cardinality(1..size) = size
    BY FS_Interval
  <1>3. /\ IsFiniteSet({k} \X (1..size))
        /\ Cardinality({k} \X (1..size)) = Cardinality({k}) * Cardinality(1..size)
    BY <1>1, <1>2, FS_Product
  <1>. QED
    BY <1>1, <1>2, <1>3 DEF BytesOf

LEMMA DataBytesFacts ==
    ASSUME NEW list \in Seq(CanalMsgs)
    PROVE  IsFiniteSet(DataBytes(list)) /\ Cardinality(DataBytes(list)) \in Nat
  <1>1. IsFiniteSet(1..Len(list)) /\ IsFiniteSet(1..8)
    <2>1. Len(list) \in Int /\ 1 \in Int /\ 8 \in Int
      OBVIOUS
    <2>. QED
      BY <2>1, FS_Interval
  <1>2. IsFiniteSet((1..Len(list)) \X (1..8))
    BY <1>1, FS_Product
  <1>3. DataBytes(list) \in SUBSET ((1..Len(list)) \X (1..8))
    BY DEF DataBytes
  <1>. QED
    BY <1>2, <1>3, FS_Subset, FS_CardinalityType

\* A list that has those of another one, and one more message's.
LEMMA DataBytesSum ==
    ASSUME NEW S, IsFiniteSet(S), NEW k, NEW size \in Nat,
           \A p \in S : p[1] # k
    PROVE  Cardinality(S \cup BytesOf(k, size)) = Cardinality(S) + size
  <1>1. S \cap BytesOf(k, size) = {}
    BY DEF BytesOf
  <1>2. Cardinality(S \cap BytesOf(k, size)) = 0
    BY <1>1, FS_EmptySet
  <1>3. Cardinality(S) \in Nat
    BY FS_CardinalityType
  <1>4. IsFiniteSet(BytesOf(k, size)) /\ Cardinality(BytesOf(k, size)) = size
    BY BytesOfFacts
  <1>5. Cardinality(S \cup BytesOf(k, size)) =
            Cardinality(S) + Cardinality(BytesOf(k, size))
                - Cardinality(S \cap BytesOf(k, size))
    BY <1>4, FS_Union
  <1>. QED
    BY <1>2, <1>3, <1>4, <1>5

LEMMA DataBytesAppend ==
    ASSUME NEW list \in Seq(CanalMsgs), NEW m \in CanalMsgs
    PROVE  Cardinality(DataBytes(Append(list, m))) =
               Cardinality(DataBytes(list)) + m.sizeData
  <1>. DEFINE n == Len(list)
              more == Append(list, m)
  <1>1. /\ n \in Nat /\ DOMAIN list = 1..n /\ DOMAIN more = 1..(n + 1)
        /\ more[n + 1] = m /\ \A i \in 1..n : more[i] = list[i]
    OBVIOUS
  <1>2. m.sizeData \in Nat /\ m.sizeData <= 8
    BY SizeFacts
  <1>. HIDE DEF n, more
  <1>3. DataBytes(more) = DataBytes(list) \cup BytesOf(n + 1, m.sizeData)
    <2>1. ASSUME NEW i \in 1..(n + 1), NEW b \in 1..8
          PROVE  b <= more[i].sizeData <=>
                     (i \in 1..n /\ b <= list[i].sizeData) \/ (i = n + 1 /\ b <= m.sizeData)
      BY <1>1
    <2>2. \A p \in DataBytes(more) : p \in DataBytes(list) \cup BytesOf(n + 1, m.sizeData)
      BY <1>1, <1>2, <2>1 DEF DataBytes, BytesOf
    <2>3. \A p \in DataBytes(list) : p \in DataBytes(more)
      BY <1>1, <1>2, <2>1 DEF DataBytes
    <2>4. \A p \in BytesOf(n + 1, m.sizeData) : p \in DataBytes(more)
      <3>1. ASSUME NEW b \in 1..m.sizeData PROVE <<n + 1, b>> \in DataBytes(more)
        BY <1>1, <1>2, <2>1 DEF DataBytes
      <3>. QED
        BY <3>1 DEF BytesOf
    <2>. QED
      BY <2>2, <2>3, <2>4
  <1>4. \A p \in DataBytes(list) : p[1] # n + 1
    BY <1>1 DEF DataBytes
  <1>5. IsFiniteSet(DataBytes(list)) /\ n + 1 \in Nat
    BY <1>1, DataBytesFacts
  <1>6. Cardinality(DataBytes(list) \cup BytesOf(n + 1, m.sizeData)) =
            Cardinality(DataBytes(list)) + m.sizeData
    BY <1>2, <1>4, <1>5, DataBytesSum
  <1>. QED
    BY <1>3, <1>6 DEF more

LEMMA DataBytesTail ==
    ASSUME NEW list \in Seq(CanalMsgs), list # <<>>
    PROVE  Cardinality(DataBytes(list)) =
               Cardinality(DataBytes(Tail(list))) + Head(list).sizeData
  <1>. DEFINE n == Len(list)
              rest == Tail(list)
              h == Head(list).sizeData
              S == {p \in DataBytes(list) : p[1] # 1}
              shift == [p \in DataBytes(rest) |-> <<p[1] + 1, p[2]>>]
  <1>1. /\ n \in Nat /\ n >= 1 /\ DOMAIN list = 1..n /\ DOMAIN rest = 1..(n - 1)
        /\ list[1] = Head(list) /\ Head(list) \in CanalMsgs
        /\ \A i \in 1..(n - 1) : rest[i] = list[i + 1]
        /\ rest \in Seq(CanalMsgs)
    OBVIOUS
  <1>2. h \in Nat /\ h <= 8
    BY <1>1, SizeFacts
  <1>. HIDE DEF n, rest
  <1>3. DataBytes(list) = S \cup BytesOf(1, h)
    <2>1. \A p \in DataBytes(list) : p \in S \cup BytesOf(1, h)
      BY <1>1, <1>2 DEF DataBytes, BytesOf
    <2>2. \A b \in 1..h : b \in 1..8 /\ b <= list[1].sizeData
      BY <1>1, <1>2
    <2>3. \A p \in BytesOf(1, h) : p \in DataBytes(list)
      <3>1. 1 \in 1..n
        BY <1>1
      <3>. HIDE DEF h
      <3>. QED
        BY <1>1, <2>2, <3>1 DEF DataBytes, BytesOf
    <2>. QED
      BY <2>1, <2>3
  <1>4. IsFiniteSet(S)
    BY DataBytesFacts, FS_Subset
  <1>5. Cardinality(S) = Cardinality(DataBytes(rest))
    <2>1. \A p \in DataBytes(rest) : shift[p] \in S
      BY <1>1 DEF DataBytes
    <2>2. \A p, q \in DataBytes(rest) : shift[p] = shift[q] => p = q
      BY <1>1 DEF DataBytes
    <2>3. \A q \in S : \E p \in DataBytes(rest) : shift[p] = q
      <3>. SUFFICES ASSUME NEW q \in S PROVE \E p \in DataBytes(rest) : shift[p] = q
        OBVIOUS
      <3>1. /\ q = <<q[1], q[2]>> /\ q[1] \in 1..n /\ q[1] # 1 /\ q[2] \in 1..8
            /\ q[2] <= list[q[1]].sizeData
        BY <1>1 DEF DataBytes
      <3>2. q[1] - 1 \in 1..(n - 1) /\ rest[q[1] - 1] = list[q[1]]
        BY <1>1, <3>1
      <3>3. <<q[1] - 1, q[2]>> \in DataBytes(rest)
        BY <1>1, <3>1, <3>2 DEF DataBytes
      <3>4. shift[<<q[1] - 1, q[2]>>] = q
        BY <3>1, <3>3
      <3>. QED
        BY <3>3, <3>4
    <2>4. shift \in Bijection(DataBytes(rest), S)
      <3>1. shift \in [DataBytes(rest) -> S]
        BY <2>1
      <3>. HIDE DEF shift, S
      <3>2. shift \in Injection(DataBytes(rest), S)
        BY <2>2, <3>1 DEF Injection, IsInjective
      <3>3. shift \in Surjection(DataBytes(rest), S)
        BY <2>3, <3>1 DEF Surjection
      <3>. QED
        BY <3>2, <3>3 DEF Bijection
    <2>5. ExistsBijection(DataBytes(rest), S)
      BY <2>4 DEF ExistsBijection
    <2>. QED
      BY <1>1, <2>5, DataBytesFacts, FS_Bijection
  <1>6. Cardinality(S \cup BytesOf(1, h)) = Cardinality(S) + h
    BY <1>2, <1>4, DataBytesSum
  <1>. QED
    BY <1>3, <1>5, <1>6 DEF rest

\* The list gains or loses a message, or the message is counted; nothing else
\* changes what StatisticsFollow speaks of.
LEMMA StatisticsStep ==
    ASSUME IInv, StatisticsFollow, [Next]_vars
    PROVE  StatisticsFollow'
  <1>. DEFINE bytes == Cardinality(DataBytes(m_receiveList))
              d == DataLength(frame, posFrame)
  <1>1. /\ m_receiveList \in Seq(CanalMsgs) /\ Len(m_receiveList) \in Nat
        /\ cntReceiveFrames \in Nat /\ cntReceiveData \in Nat
        /\ taken \in Nat /\ takenData \in Nat
    BY DEF IInv, TypeOK
  <1>2. bytes \in Nat
    BY <1>1, DataBytesFacts
  <1>3. ASSUME UNCHANGED <<m_receiveList, cntReceiveFrames, cntReceiveData, taken, takenData>>,
               place # "count", place' # "count"
        PROVE  StatisticsFollow'
    BY <1>3 DEF StatisticsFollow
  <1>4. ASSUME AddToList, place \in {"message", "filter", "mask"},
               posFrame <= Len(frame.msgs),
               UNCHANGED <<cntReceiveFrames, cntReceiveData, taken, takenData>>
        PROVE  StatisticsFollow'
    <2>. DEFINE m == canalMsg(frame, posFrame)
    <2>1. frame \in Frames /\ posFrame \in 1..Len(frame.msgs)
      BY <1>4, InFrame
    <2>2. m \in CanalMsgs /\ m.sizeData = d /\ d \in 0..8
      BY <2>1, MessageFacts DEF canalMsg, IInv
    <2>3. m_receiveList' = Append(m_receiveList, m) /\ place' = "count"
          /\ UNCHANGED <<frame, posFrame>>
      BY <1>4 DEF AddToList
    <2>. HIDE DEF m, d
    <2>4. Cardinality(DataBytes(m_receiveList')) = bytes + d
      BY <1>1, <2>2, <2>3, DataBytesAppend
    <2>5. Len(m_receiveList') = Len(m_receiveList) + 1
      BY <1>1, <2>2, <2>3
    <2>6. taken + Len(m_receiveList) = cntReceiveFrames /\ takenData + bytes = cntReceiveData
      BY <1>1, <1>2, <1>4 DEF StatisticsFollow
    <2>7. d' = d
      BY <2>3 DEF d
    <2>8. /\ taken + Len(m_receiveList') = cntReceiveFrames + 1
          /\ takenData + (bytes + d) = cntReceiveData + d
      BY <1>1, <1>2, <2>2, <2>5, <2>6
    <2>. QED
      BY <1>4, <2>3, <2>4, <2>7, <2>8 DEF StatisticsFollow, d
  <1>5. CASE EndOfFrame \/ Abandon \/ Overrun \/ ReadOperand
    BY <1>3, <1>5 DEF EndOfFrame, Abandon, Overrun, ReadOperand, AtMessage, Ends, CountsOverrun,
                      GoesOn, filterVars, statVars, answerVars
  <1>6. CASE TakeMessage
    <2>1. /\ place = "message" /\ posFrame <= Len(frame.msgs)
          /\ UNCHANGED <<cntReceiveFrames, cntReceiveData, taken, takenData>>
          /\ AddToList \/ (place' = "test" /\ UNCHANGED m_receiveList)
      BY <1>6 DEF TakeMessage, AtMessage, statVars
    <2>. QED
      BY <1>3, <1>4, <2>1
  <1>7. CASE Test
    <2>1. /\ place \in {"filter", "mask"} /\ posFrame <= Len(frame.msgs)
          /\ UNCHANGED <<cntReceiveFrames, cntReceiveData, taken, takenData>>
          /\ AddToList \/ (place' = "message" /\ UNCHANGED m_receiveList)
      BY <1>7 DEF Test, Decide, GoesOn, statVars, IInv, FrameInv
    <2>. QED
      BY <1>3, <1>4, <2>1
  <1>8. CASE Count
    <2>1. /\ place = "count" /\ place' = "message"
          /\ cntReceiveFrames' = cntReceiveFrames + 1 /\ cntReceiveData' = cntReceiveData + d
          /\ UNCHANGED <<m_receiveList, taken, takenData>>
      BY <1>8 DEF Count, GoesOn, CountedData
    <2>2. taken + Len(m_receiveList) = cntReceiveFrames + 1
          /\ takenData + bytes = cntReceiveData + d
      BY <2>1 DEF StatisticsFollow
    <2>3. frame \in Frames /\ posFrame \in 1..Len(frame.msgs)
      BY <2>1, InFrame DEF IInv, FrameInv
    <2>4. d \in 0..8
      BY <2>3, MessageFacts DEF IInv
    <2>. HIDE DEF d
    <2>5. /\ taken' + Len(m_receiveList') = cntReceiveFrames'
          /\ takenData' + Cardinality(DataBytes(m_receiveList')) = cntReceiveData'
      BY <2>1, <2>2
    <2>. QED
      BY <1>1, <2>1, <2>4, <2>5 DEF StatisticsFollow
  <1>9. CASE ReadMsg
    <2>. DEFINE h == Head(m_receiveList).sizeData
                left == Cardinality(DataBytes(Tail(m_receiveList)))
    <2>1. /\ m_receiveList # <<>> /\ m_receiveList' = Tail(m_receiveList)
          /\ taken' = taken + 1 /\ takenData' = takenData + h
          /\ UNCHANGED <<place, frame, posFrame, cntReceiveFrames, cntReceiveData>>
      BY <1>9 DEF ReadMsg, threadVars, statVars
    <2>2. /\ Head(m_receiveList) \in CanalMsgs /\ Tail(m_receiveList) \in Seq(CanalMsgs)
          /\ Len(m_receiveList') = Len(m_receiveList) - 1
      BY <1>1, <2>1
    <2>3. bytes = left + h
      BY <1>1, <2>1, DataBytesTail
    <2>4. h \in Nat /\ left \in Nat
      BY <2>2, SizeFacts, DataBytesFacts
    <2>. HIDE DEF h, left
    <2>5. /\ taken' + Len(m_receiveList') = taken + Len(m_receiveList)
          /\ takenData' + left = takenData + bytes
      BY <1>1, <2>1, <2>2, <2>3, <2>4
    <2>6. Cardinality(DataBytes(m_receiveList')) = left /\ d' = d
      BY <2>1 DEF left
    <2>. HIDE DEF d
    <2>. QED
      BY <2>1, <2>5, <2>6 DEF StatisticsFollow, d
  <1>10. ASSUME NEW f \in Frames,
                ReadIgnored(f) \/ ReadNoop(f) \/ ReadUnsupported(f) \/ ReadReply(f)
                    \/ ReadCanal(f)
         PROVE  StatisticsFollow'
    BY <1>3, <1>10 DEF ReadIgnored, ReadNoop, ReadUnsupported, ReadReply, ReadCanal, Arrives,
                       threadVars, statVars
  <1>11. CASE \E n \in Settings : setFilter(n) \/ setMask(n)
    BY <1>11 DEF setFilter, setMask, threadVars, statVars, StatisticsFollow
  <1>12. CASE UNCHANGED vars
    BY <1>12 DEF vars, threadVars, statVars, StatisticsFollow
  <1>. QED
    BY <1>5, <1>6, <1>7, <1>8, <1>9, <1>10, <1>11, <1>12 DEF Next, HandleMessage

\* The counters of received messages and of received bytes agree with what
\* readers have got and what the list holds, at every step.
THEOREM StatisticsAreRight == Spec => []StatisticsFollow
  <1>1. Init => StatisticsFollow
    <2>. SUFFICES ASSUME Init PROVE StatisticsFollow
      OBVIOUS
    <2>1. DataBytes(m_receiveList) = {}
      BY DEF Init, DataBytes
    <2>2. Cardinality(DataBytes(m_receiveList)) = 0
      BY <2>1, FS_EmptySet
    <2>. QED
      BY <2>2 DEF Init, StatisticsFollow
  <1>. QED
    BY <1>1, Correctness, StatisticsStep, PTL DEF Spec
=============================================================================
