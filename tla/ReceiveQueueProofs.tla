------------------------- MODULE ReceiveQueueProofs -------------------------
(***************************************************************************)
(* The receive queue for any number of readers and any list size: its      *)
(* types, its bound, and that no wake-up is lost.                          *)
(***************************************************************************)
EXTENDS ReceiveQueue, FiniteSetTheorems, SequenceTheorems, TLAPS

\* Who holds the mutex is known from where the threads are.
MutexOwner ==
    /\ rx = "post" <=> m_receiveMutex = RX
    /\ \A r \in Readers : pc[r] = "drain" <=> m_receiveMutex = r
    /\ m_receiveMutex \in Readers => m_receiveList = <<>>
    /\ m_receiveMutex = RX => m_receiveList # <<>>

\* The room that the RX thread saw is still there when it appends.
RoomIsKept == rx = "add" => Len(m_receiveList) < CAN4VSCP_MAX_RCVMSG

\* close() has joined the RX thread before the channel counts as closed.
ClosedIsJoined == api = "closed" => rx = "stopped"

IInv ==
    /\ TypeOK
    /\ ClosedIsJoined
    /\ MutexOwner
    /\ RoomIsKept
    /\ ReceiveListBounded
    /\ NoLostWakeup
    /\ NoStaleTokens

-----------------------------------------------------------------------------

\* Removing the head of a non-empty list leaves one that is shorter by one,
\* hence empty when it had one element.
LEMMA WithoutHeadFacts ==
    ASSUME NEW list \in Seq(Nat), list # <<>>
    PROVE  /\ Len(list) \in Nat \ {0}
           /\ Head(list) \in Nat
           /\ Tail(list) \in Seq(Nat)
           /\ Len(Tail(list)) = Len(list) - 1
           /\ (Tail(list) = <<>>) <=> (Len(list) = 1)
  <1>1. Len(list) \in Nat \ {0}
    BY EmptySeq
  <1>2. Head(list) \in Nat /\ Tail(list) \in Seq(Nat)
        /\ Len(Tail(list)) = Len(list) - 1
    BY HeadTailProperties
  <1>3. (Tail(list) = <<>>) <=> (Len(Tail(list)) = 0)
    BY <1>2, EmptySeq
  <1>. QED
    BY <1>1, <1>2, <1>3

\* The readers that hold a token are finitely many.
LEMMA WokenFinite ==
    /\ IsFiniteSet(Woken)
    /\ Cardinality(Woken) \in Nat
  <1>1. Woken \subseteq Readers
    BY DEF Woken
  <1>2. IsFiniteSet(Woken)
    BY <1>1, FS_Subset, ReceiveQueueAssumption
  <1>. QED
    BY <1>2, FS_CardinalityType

LEMMA WokenFiniteNext ==
    /\ IsFiniteSet(Woken')
    /\ Cardinality(Woken)' \in Nat
  <1>1. Woken' \subseteq Readers
    BY DEF Woken
  <1>2. IsFiniteSet(Woken')
    BY <1>1, FS_Subset, ReceiveQueueAssumption
  <1>. QED
    BY <1>2, FS_CardinalityType

\* A reader that moves elsewhere than to "woken" takes at most its own token
\* away; one that was not woken takes none.
LEMMA WokenLeaves ==
    ASSUME TypeOK, NEW r \in Readers, NEW to, to # "woken",
           pc' = [pc EXCEPT ![r] = to]
    PROVE  /\ Cardinality(Woken)' >= Cardinality(Woken) - 1
           /\ pc[r] # "woken" => Cardinality(Woken)' = Cardinality(Woken)
  <1>1. Woken' = Woken \ {r}
    BY DEF Woken, TypeOK
  <1>2. CASE r \in Woken
    <2>1. Cardinality(Woken \ {r}) = Cardinality(Woken) - 1
      BY <1>2, WokenFinite, FS_RemoveElement
    <2>. QED
      BY <1>1, <1>2, <2>1, WokenFinite DEF Woken
  <1>3. CASE r \notin Woken
    <2>1. Woken' = Woken
      BY <1>1, <1>3
    <2>. QED
      BY <2>1, WokenFinite
  <1>. QED
    BY <1>2, <1>3

\* A reader that takes a token joins the woken ones.
LEMMA WokenJoins ==
    ASSUME TypeOK, NEW r \in Readers, Wake(r)
    PROVE  Cardinality(Woken)' = Cardinality(Woken) + 1
  <1>1. Woken' = Woken \cup {r} /\ r \notin Woken
    BY DEF Woken, TypeOK, Wake, ReaderAt
  <1>2. Cardinality(Woken \cup {r}) = Cardinality(Woken) + 1
    BY <1>1, WokenFinite, FS_AddElement
  <1>. QED
    BY <1>1, <1>2

-----------------------------------------------------------------------------

\* While no reader moves the woken readers stay the same.
LEMMA WokenSame ==
    ASSUME UNCHANGED pc
    PROVE  Cardinality(Woken)' = Cardinality(Woken)
  <1>1. Woken' = Woken
    BY DEF Woken
  <1>. QED
    BY <1>1

\* The steps that touch neither the list, the semaphore, the mutex nor a
\* reader: open() and close() but for its post, and the RX thread between
\* its critical sections.
QuietStep ==
    \/ OpenStart \/ OpenDone \/ CloseFlags \/ CloseJoin
    \/ RxFrame \/ RxStop \/ RxAccept \/ RxFiltered \/ RxOverrun
    \/ RxMalformed

LEMMA QuietInv ==
    ASSUME IInv, QuietStep
    PROVE  IInv'
  <1>. USE ReceiveQueueAssumption DEF IInv
  <1>1. UNCHANGED <<m_receiveList, m_receiveDataSem, m_receiveMutex, pc,
                    lastRead, closePosts>>
        /\ (rx' = "post" <=> rx = "post")
        /\ (rx' = "add" => Len(m_receiveList) < CAN4VSCP_MAX_RCVMSG)
    BY DEF QuietStep, OpenStart, OpenDone, CloseFlags, CloseJoin, RxFrame,
           RxStop, RxAccept, RxFiltered, RxOverrun, RxMalformed, RxAfter,
           HasRoom, rxVars, objectVars, RoomIsKept, ClosedIsJoined
  <1>2. TypeOK'
    <2>. USE DEF TypeOK, rxVars, objectVars
    <2>1. CASE OpenStart \/ OpenDone \/ CloseFlags \/ CloseJoin
      BY <2>1 DEF OpenStart, OpenDone, CloseFlags, CloseJoin
    <2>2. CASE RxFrame \/ RxStop \/ RxAccept
      BY <2>2 DEF RxFrame, RxStop, RxAccept
    <2>3. CASE RxFiltered \/ RxOverrun \/ RxMalformed
      BY <2>3 DEF RxFiltered, RxOverrun, RxMalformed, RxAfter
    <2>. QED
      BY <2>1, <2>2, <2>3 DEF QuietStep
  <1>8. ClosedIsJoined'
    BY DEF ClosedIsJoined, QuietStep, OpenStart, OpenDone, CloseFlags,
           CloseJoin, RxFrame, RxStop, RxAccept, RxFiltered, RxOverrun,
           RxMalformed, rxVars, objectVars
  <1>3. MutexOwner'
    BY <1>1 DEF MutexOwner
  <1>4. RoomIsKept'
    BY <1>1 DEF RoomIsKept
  <1>5. ReceiveListBounded'
    BY <1>1 DEF ReceiveListBounded
  <1>6. NoLostWakeup'
    BY <1>1, WokenSame DEF NoLostWakeup
  <1>7. NoStaleTokens'
    BY <1>1 DEF NoStaleTokens, Free
  <1>. QED
    BY <1>2, <1>3, <1>4, <1>5, <1>6, <1>7, <1>8

\* A post only adds tokens; the one of close() is counted.
LEMMA ClosePostInv ==
    ASSUME IInv, ClosePost
    PROVE  IInv'
  <1>1. TypeOK'
    BY DEF IInv, TypeOK, ClosePost, semaphorePost, rxVars
  <1>2. ClosedIsJoined' /\ MutexOwner' /\ RoomIsKept' /\ ReceiveListBounded'
    BY DEF IInv, ClosePost, ClosedIsJoined, MutexOwner, RoomIsKept,
           ReceiveListBounded, rxVars
  <1>3. NoLostWakeup'
    BY WokenSame, WokenFinite
       DEF IInv, TypeOK, ClosePost, semaphorePost, NoLostWakeup, rxVars
  <1>4. NoStaleTokens'
    BY DEF IInv, TypeOK, ClosePost, semaphorePost, NoStaleTokens, Free
  <1>. QED
    BY <1>1, <1>2, <1>3, <1>4 DEF IInv

\* Between the append and the post the list is one token ahead, and the room
\* was there because only this thread appends.
LEMMA RxAddInv ==
    ASSUME IInv, RxAdd
    PROVE  IInv'
  <1>. USE DEF RxAdd, Free, RX, rxVars, objectVars
  <1>1. /\ m_receiveList' \in Seq(Nat)
        /\ Len(m_receiveList') = Len(m_receiveList) + 1
        /\ Len(m_receiveList) \in Nat
        /\ m_receiveList' # <<>>
    BY AppendProperties DEF IInv, TypeOK
  <1>2. TypeOK'
    BY <1>1 DEF IInv, TypeOK
  <1>3. ClosedIsJoined'
    BY DEF IInv, ClosedIsJoined
  <1>4. MutexOwner'
    BY <1>1, ReceiveQueueAssumption DEF IInv, MutexOwner
  <1>5. RoomIsKept' /\ ReceiveListBounded'
    BY <1>1, ReceiveQueueAssumption DEF IInv, RoomIsKept, ReceiveListBounded
  <1>6. NoLostWakeup'
    BY <1>1, WokenSame, WokenFinite DEF IInv, TypeOK, NoLostWakeup
  <1>7. NoStaleTokens'
    BY <1>1 DEF NoStaleTokens
  <1>. QED
    BY <1>2, <1>3, <1>4, <1>5, <1>6, <1>7 DEF IInv

LEMMA RxPostInv ==
    ASSUME IInv, RxPost
    PROVE  IInv'
  <1>. USE DEF RxPost, RX, RxAfter, objectVars, semaphorePost
  <1>1. TypeOK'
    BY DEF IInv, TypeOK
  <1>2. ClosedIsJoined' /\ RoomIsKept' /\ ReceiveListBounded'
    BY DEF IInv, ClosedIsJoined, RoomIsKept, ReceiveListBounded
  <1>3. MutexOwner'
    BY ReceiveQueueAssumption DEF IInv, MutexOwner
  <1>4. NoLostWakeup'
    BY WokenSame, WokenFinite DEF IInv, TypeOK, NoLostWakeup
  <1>5. NoStaleTokens'
    BY DEF IInv, NoStaleTokens, Free, MutexOwner
  <1>. QED
    BY <1>1, <1>2, <1>3, <1>4, <1>5 DEF IInv

-----------------------------------------------------------------------------

\* A reader's steps outside the critical section.
LEMMA WakeInv ==
    ASSUME IInv, NEW r \in Readers, Wake(r)
    PROVE  IInv'
  <1>0. Cardinality(Woken)' = Cardinality(Woken) + 1
    BY WokenJoins DEF IInv
  <1>. USE DEF Wake, ReaderAt, rxVars, objectVars
  <1>1. TypeOK'
    BY DEF IInv, TypeOK, AtMutex
  <1>2. ClosedIsJoined' /\ RoomIsKept' /\ ReceiveListBounded'
    BY DEF IInv, ClosedIsJoined, RoomIsKept, ReceiveListBounded
  <1>3. MutexOwner'
    BY DEF IInv, TypeOK, MutexOwner
  <1>4. NoLostWakeup'
    BY <1>0, WokenFinite DEF IInv, TypeOK, NoLostWakeup
  <1>5. NoStaleTokens'
    BY DEF IInv, TypeOK, NoStaleTokens, Free
  <1>. QED
    BY <1>1, <1>2, <1>3, <1>4, <1>5 DEF IInv

OutsideStep(r) ==
    \/ Poll(r) \/ ReadBlocking(r) \/ TestLength(r) \/ TimeOut(r)
    \/ Interrupt(r) \/ FindEmpty(r)

LEMMA OutsideInv ==
    ASSUME IInv, NEW r \in Readers, OutsideStep(r)
    PROVE  IInv'
  <1>. USE DEF IInv
  <1>1. /\ UNCHANGED <<m_receiveList, m_receiveDataSem, m_receiveMutex,
                       objectVars, rxVars, lastRead>>
        /\ pc[r] # "drain"
        /\ pc[r] = "woken" => m_receiveList = <<>>
    BY DEF OutsideStep, Poll, ReadBlocking, TestLength, TimeOut, Interrupt,
           FindEmpty, ReaderAt, AtMutex
  <1>2. PICK to \in {"idle", "test", "poll", "take", "wait", "interrupted"} :
            pc' = [pc EXCEPT ![r] = to]
    BY DEF OutsideStep, Poll, ReadBlocking, TestLength, TimeOut, Interrupt,
           FindEmpty, ReaderAt
  <1>3. TypeOK'
    BY <1>1, <1>2 DEF TypeOK, AtMutex, rxVars, objectVars
  <1>4. ClosedIsJoined' /\ RoomIsKept' /\ ReceiveListBounded'
    BY <1>1 DEF ClosedIsJoined, RoomIsKept, ReceiveListBounded, objectVars,
                rxVars
  <1>5. MutexOwner'
    BY <1>1, <1>2, ReceiveQueueAssumption DEF MutexOwner, TypeOK, rxVars
  <1>6. NoLostWakeup'
    <2>1. /\ Cardinality(Woken)' >= Cardinality(Woken) - 1
          /\ pc[r] # "woken" => Cardinality(Woken)' = Cardinality(Woken)
      BY <1>2, WokenLeaves
    <2>2. CASE m_receiveList = <<>>
      BY <1>1, <2>2, WokenFiniteNext DEF NoLostWakeup, TypeOK, rxVars
    <2>3. CASE m_receiveList # <<>>
      BY <1>1, <2>1, <2>3, WokenFinite DEF NoLostWakeup, TypeOK, rxVars
    <2>. QED
      BY <2>2, <2>3
  <1>7. NoStaleTokens'
    BY <1>1 DEF NoStaleTokens, Free, objectVars
  <1>. QED
    BY <1>3, <1>4, <1>5, <1>6, <1>7

\* Taking the head uses up the reader's own token at most, and shortens the
\* list by as much.
LEMMA TakeHeadInv ==
    ASSUME IInv, NEW r \in Readers, TakeHead(r)
    PROVE  IInv'
  <1>. USE DEF TakeHead, WithoutHead, HeadIsLast, rxVars, objectVars
  <1>1. /\ Len(m_receiveList) \in Nat \ {0}
        /\ Head(m_receiveList) \in Nat
        /\ m_receiveList' \in Seq(Nat)
        /\ Len(m_receiveList') = Len(m_receiveList) - 1
        /\ (m_receiveList' = <<>>) <=> (Len(m_receiveList) = 1)
    BY WithoutHeadFacts DEF IInv, TypeOK
  <1>2. PICK to \in {"idle", "drain"} :
            /\ pc' = [pc EXCEPT ![r] = to]
            /\ to = "drain" => m_receiveList' = <<>> /\ m_receiveMutex' = r
            /\ to = "idle" => m_receiveList' # <<>> /\ UNCHANGED m_receiveMutex
    OBVIOUS
  <1>3. TypeOK'
    BY <1>1, <1>2 DEF IInv, TypeOK
  <1>4. ClosedIsJoined' /\ RoomIsKept' /\ ReceiveListBounded'
    BY <1>1, ReceiveQueueAssumption
       DEF IInv, ClosedIsJoined, RoomIsKept, ReceiveListBounded
  <1>5. MutexOwner'
    BY <1>2, ReceiveQueueAssumption
       DEF IInv, TypeOK, MutexOwner, AtMutex, Free, RX
  <1>6. NoLostWakeup'
    <2>1. Cardinality(Woken)' >= Cardinality(Woken) - 1
      BY <1>2, WokenLeaves DEF IInv
    <2>. QED
      BY <1>1, <2>1, WokenFinite, WokenFiniteNext
         DEF IInv, TypeOK, NoLostWakeup
  <1>7. NoStaleTokens'
    BY <1>1, <1>2, ReceiveQueueAssumption DEF NoStaleTokens, Free
  <1>. QED
    BY <1>3, <1>4, <1>5, <1>6, <1>7 DEF IInv

\* The drain loop runs with the list empty and the mutex held, so the tokens
\* it takes back no message.
LEMMA DrainInv ==
    ASSUME IInv, NEW r \in Readers, Drain(r) \/ DrainDone(r)
    PROVE  IInv'
  <1>. USE DEF Drain, DrainDone, ReaderAt, rxVars, objectVars
  <1>1. m_receiveMutex = r /\ m_receiveList = <<>> /\ Len(m_receiveList) = 0
    BY DEF IInv, MutexOwner
  <1>2. TypeOK'
    BY DEF IInv, TypeOK
  <1>3. ClosedIsJoined' /\ RoomIsKept' /\ ReceiveListBounded'
    BY DEF IInv, ClosedIsJoined, RoomIsKept, ReceiveListBounded
  <1>4. MutexOwner'
    BY <1>1, ReceiveQueueAssumption DEF IInv, TypeOK, MutexOwner, RX
  <1>5. NoLostWakeup'
    BY <1>1, <1>2, WokenFiniteNext DEF TypeOK, NoLostWakeup
  <1>6. NoStaleTokens'
    BY <1>1, ReceiveQueueAssumption DEF IInv, TypeOK, NoStaleTokens, Free
  <1>. QED
    BY <1>2, <1>3, <1>4, <1>5, <1>6 DEF IInv

-----------------------------------------------------------------------------

LEMMA InitIInv == Init => IInv
  <1>. SUFFICES ASSUME Init PROVE IInv
    OBVIOUS
  <1>. USE ReceiveQueueAssumption DEF Init
  <1>1. TypeOK
    BY EmptySeq DEF TypeOK, AtMutex, RX
  <1>2. ClosedIsJoined /\ MutexOwner /\ RoomIsKept
    BY DEF ClosedIsJoined, MutexOwner, RoomIsKept, RX
  <1>3. ReceiveListBounded /\ NoLostWakeup /\ NoStaleTokens
    BY WokenFinite DEF ReceiveListBounded, NoLostWakeup, NoStaleTokens
  <1>. QED
    BY <1>1, <1>2, <1>3 DEF IInv

LEMMA NextIInv == IInv /\ [Next]_vars => IInv'
  <1>. SUFFICES ASSUME IInv, [Next]_vars PROVE IInv'
    OBVIOUS
  <1>1. CASE QuietStep
    BY <1>1, QuietInv
  <1>2. CASE ClosePost
    BY <1>2, ClosePostInv
  <1>3. CASE RxAdd
    BY <1>3, RxAddInv
  <1>4. CASE RxPost
    BY <1>4, RxPostInv
  <1>5. ASSUME NEW r \in Readers, Reader(r) PROVE IInv'
    <2>1. CASE Wake(r)
      BY <2>1, WakeInv
    <2>2. CASE OutsideStep(r)
      BY <2>2, OutsideInv
    <2>3. CASE TakeHead(r)
      BY <2>3, TakeHeadInv
    <2>4. CASE Drain(r) \/ DrainDone(r)
      BY <2>4, DrainInv
    <2>. QED
      BY <1>5, <2>1, <2>2, <2>3, <2>4 DEF Reader, ReaderRuns, OutsideStep
  <1>6. CASE UNCHANGED vars
    BY <1>6, WokenSame
       DEF vars, rxVars, objectVars, IInv, TypeOK, ClosedIsJoined, MutexOwner,
           RoomIsKept, ReceiveListBounded, NoLostWakeup, NoStaleTokens, Free
  <1>. QED
    BY <1>1, <1>2, <1>3, <1>4, <1>5, <1>6 DEF Next, RxThread, QuietStep

LEMMA Invariance == Spec => []IInv
  BY InitIInv, NextIInv, PTL DEF Spec

\* Every variable keeps its type.
THEOREM TypeCorrect == Spec => []TypeOK
  BY Invariance, PTL DEF IInv

\* The list is bounded although room test and append are separate steps: the
\* RX thread alone appends.
THEOREM ListIsBounded == Spec => []ReceiveListBounded
  BY Invariance, PTL DEF IInv

\* Every queued message is backed by a token or a reader that holds one.
THEOREM NoWakeupIsLost == Spec => []NoLostWakeup
  BY Invariance, PTL DEF IInv

\* The drain loop leaves no token behind an empty queue.
THEOREM TokensAreDrained == Spec => []NoStaleTokens
  BY Invariance, PTL DEF IInv

-----------------------------------------------------------------------------
(* A channel with a single reader.                                         *)

LEMMA SoleReaderIsAlone ==
    ASSUME Cardinality(Readers) = 1, NEW r \in Readers, NEW q \in Readers
    PROVE  r = q
  BY FS_Singleton, ReceiveQueueAssumption

LEMMA SoleReaderStep ==
    IInv /\ SoleReaderFindsMessage /\ [Next]_vars => SoleReaderFindsMessage'
  <1>. SUFFICES ASSUME IInv, SoleReaderFindsMessage, [Next]_vars,
                       Cardinality(Readers) = 1, closePosts' = 0,
                       NEW r \in Readers, pc'[r] \in {"take", "woken"}
                PROVE  m_receiveList' # <<>>
    BY DEF SoleReaderFindsMessage
  <1>1. \A q \in Readers : q = r
    BY SoleReaderIsAlone
  <1>2. CASE Wake(r)
    <2>1. m_receiveMutex \notin Readers
      BY <1>1, <1>2 DEF IInv, MutexOwner, Wake, ReaderAt
    <2>2. m_receiveDataSem > 0 /\ closePosts = 0
      BY <1>2 DEF Wake, objectVars
    <2>. QED
      BY <1>2, <2>1, <2>2
         DEF IInv, TypeOK, MutexOwner, NoStaleTokens, Free, Wake
  <1>3. CASE TestLength(r)
    BY <1>3 DEF TestLength, ReaderAt, IInv, TypeOK
  <1>4. CASE ~Wake(r) /\ ~TestLength(r)
    <2>1. /\ pc[r] \in {"take", "woken"}
          /\ closePosts = 0
          /\ m_receiveList' = m_receiveList \/ RxAdd
      <3>. USE <1>4 DEF IInv, TypeOK
      <3>1. CASE QuietStep
        BY <3>1 DEF QuietStep, OpenStart, OpenDone, CloseFlags, CloseJoin,
              RxFrame, RxStop, RxAccept, RxFiltered, RxOverrun, RxMalformed,
              objectVars
      <3>2. CASE ClosePost
        BY <3>2 DEF ClosePost, TypeOK
      <3>3. CASE RxAdd \/ RxPost
        BY <3>3 DEF RxAdd, RxPost, objectVars
      <3>4. CASE Reader(r)
        BY <3>4 DEF Reader, ReaderRuns, ReaderAt, Poll, ReadBlocking, TimeOut,
              Interrupt, TakeHead, FindEmpty, Drain, DrainDone, objectVars
      <3>5. CASE UNCHANGED vars
        BY <3>5 DEF vars, objectVars
      <3>. QED
        BY <1>1, <3>1, <3>2, <3>3, <3>4, <3>5 DEF Next, RxThread, QuietStep
    <2>2. m_receiveList # <<>>
      BY <2>1 DEF SoleReaderFindsMessage
    <2>3. CASE RxAdd
      BY <2>3, AppendProperties DEF RxAdd, IInv, TypeOK
    <2>. QED
      BY <2>1, <2>2, <2>3
  <1>. QED
    BY <1>2, <1>3, <1>4

\* A single blocking reader never comes back with an empty queue, as long as
\* nobody closes the channel and no signal arrives.
THEOREM SoleReaderIsServed == Spec => []SoleReaderFindsMessage
  <1>1. Init => SoleReaderFindsMessage
    BY DEF Init, SoleReaderFindsMessage
  <1>. QED
    BY <1>1, SoleReaderStep, Invariance, PTL DEF Spec

-----------------------------------------------------------------------------
(* Order. The message that the RX thread is about to append is newer than  *)
(* all that are queued or read.                                            *)

NewestLast ==
    /\ lastRead <= arrived
    /\ rx = "add" => /\ lastRead < arrived
                     /\ \A i \in 1..Len(m_receiveList) :
                            m_receiveList[i] < arrived

OrderInv == InOrder /\ NewestLast

LEMMA OrderStep == TypeOK /\ OrderInv /\ [Next]_vars => OrderInv'
  <1>. SUFFICES ASSUME TypeOK, OrderInv, [Next]_vars PROVE OrderInv'
    OBVIOUS
  <1>. USE DEF OrderInv
  <1>0. /\ Len(m_receiveList) \in Nat
        /\ \A i \in 1..Len(m_receiveList) : m_receiveList[i] \in Nat
    BY ElementOfSeq, LenProperties DEF TypeOK
  <1>1. ASSUME UNCHANGED <<m_receiveList, lastRead>>,
               arrived' \in Nat, arrived' >= arrived,
               rx' = "add" => \/ arrived' > arrived
                              \/ arrived' = arrived /\ rx = "add"
        PROVE  OrderInv'
    BY <1>0, <1>1 DEF InOrder, NewestLast, TypeOK
  <1>2. CASE RxAdd
    <2>1. /\ Len(m_receiveList') = Len(m_receiveList) + 1
          /\ \A i \in 1..Len(m_receiveList) :
                m_receiveList'[i] = m_receiveList[i]
          /\ m_receiveList'[Len(m_receiveList) + 1] = arrived
      BY <1>2, AppendProperties DEF RxAdd, TypeOK
    <2>2. arrived' = arrived /\ lastRead' = lastRead /\ rx' = "post"
          /\ rx = "add"
      BY <1>2 DEF RxAdd
    <2>. QED
      BY <1>0, <2>1, <2>2 DEF InOrder, NewestLast, TypeOK
  <1>3. ASSUME NEW r \in Readers, TakeHead(r) PROVE OrderInv'
    <2>1. /\ Len(m_receiveList') = Len(m_receiveList) - 1
          /\ \A i \in 1..Len(m_receiveList') :
                m_receiveList'[i] = m_receiveList[i + 1]
          /\ lastRead' = m_receiveList[1]
          /\ Len(m_receiveList) >= 1
      BY <1>0, <1>3, HeadTailProperties, EmptySeq
         DEF TakeHead, WithoutHead, TypeOK
    <2>2. arrived' = arrived /\ rx' = rx
      BY <1>3 DEF TakeHead, rxVars
    <2>3. ASSUME NEW i \in 1..Len(m_receiveList')
          PROVE  /\ i \in 1..Len(m_receiveList)
                 /\ i + 1 \in 1..Len(m_receiveList)
                 /\ m_receiveList[1] < m_receiveList[i + 1]
      BY <1>0, <2>1 DEF InOrder
    <2>4. ASSUME NEW i \in 1..Len(m_receiveList'),
                 NEW j \in 1..Len(m_receiveList'), i < j
          PROVE  m_receiveList'[i] < m_receiveList'[j]
      <3>1. m_receiveList[i + 1] < m_receiveList[j + 1]
        BY <2>3, <2>4 DEF InOrder
      <3>. QED
        BY <2>1, <3>1
    <2>5. \A i \in 1..Len(m_receiveList') :
             lastRead' < m_receiveList'[i] /\ m_receiveList'[i] <= arrived'
      BY <1>0, <2>1, <2>2, <2>3 DEF InOrder
    <2>6. NewestLast'
      <3>1. 1 \in 1..Len(m_receiveList)
        BY <1>0, <2>1
      <3>2. lastRead' <= arrived'
        BY <2>1, <2>2, <3>1 DEF InOrder
      <3>3. rx' = "add" => lastRead' < arrived'
        BY <2>1, <2>2, <3>1 DEF NewestLast
      <3>4. ASSUME rx' = "add", NEW i \in 1..Len(m_receiveList')
            PROVE  m_receiveList'[i] < arrived'
        BY <2>1, <2>2, <2>3, <3>4 DEF NewestLast
      <3>. QED
        BY <3>2, <3>3, <3>4 DEF NewestLast
    <2>. QED
      BY <2>4, <2>5, <2>6 DEF InOrder
  <1>4. CASE QuietStep
    <2>1. CASE RxMalformed
      BY <1>1, <2>1 DEF RxMalformed, TypeOK
    <2>2. CASE RxAccept \/ RxFiltered \/ RxOverrun
      BY <1>1, <2>2 DEF RxAccept, RxFiltered, RxOverrun, RxAfter, TypeOK
    <2>. QED
      BY <1>1, <1>4, <2>1, <2>2
         DEF QuietStep, OpenStart, OpenDone, CloseFlags, CloseJoin, RxFrame,
             RxStop, rxVars, TypeOK
  <1>5. CASE ClosePost \/ RxPost
    BY <1>1, <1>5 DEF ClosePost, RxPost, RxAfter, rxVars, TypeOK
  <1>6. ASSUME NEW r \in Readers,
               \/ Wake(r) \/ OutsideStep(r) \/ Drain(r) \/ DrainDone(r)
        PROVE  OrderInv'
    BY <1>1, <1>6
       DEF Wake, OutsideStep, Poll, ReadBlocking, TestLength, TimeOut,
           Interrupt, FindEmpty, Drain, DrainDone, rxVars, TypeOK
  <1>7. CASE UNCHANGED vars
    BY <1>1, <1>7 DEF vars, rxVars, TypeOK
  <1>. QED
    BY <1>2, <1>3, <1>4, <1>5, <1>6, <1>7
       DEF Next, RxThread, QuietStep, Reader, ReaderRuns, OutsideStep

\* Messages are handed out in arrival order and none twice, by however many
\* racing readers.
THEOREM ReadInOrder == Spec => []InOrder
  <1>1. Init => OrderInv
    BY EmptySeq DEF Init, OrderInv, InOrder, NewestLast
  <1>2. Spec => []OrderInv
    BY <1>1, OrderStep, TypeCorrect, PTL DEF Spec
  <1>. QED
    BY <1>2, PTL DEF OrderInv
=============================================================================
