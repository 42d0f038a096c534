---------------------------- MODULE ReceiveQueue ----------------------------
(***************************************************************************)
(* The receive queue of CCan4VSCPObj: the RX thread takes CANAL frames off *)
(* the serial line and appends their messages to m_receiveList; any number *)
(* of application threads take them with readMsg and readMsgBlocking.      *)
(* m_receiveDataSem counts wake-up tokens and m_receiveMutex guards the    *)
(* list, but two tests read the list's length without the mutex: the RX    *)
(* thread's room test and the blocking reader's "is it empty" test.        *)
(*                                                                         *)
(* A message is the number of its arrival. A critical section whose        *)
(* intermediate states no other thread can see is one step; the two that   *)
(* other threads do see into (append then post, remove then drain) are     *)
(* taken a step at a time with the mutex held.                             *)
(***************************************************************************)
EXTENDS ReceiveParameters, Sequences

VARIABLES
    m_receiveList,      \* the messages queued, oldest first
    m_receiveDataSem,   \* value of the counting semaphore
    m_receiveMutex,     \* the thread in the critical section, or "none"
    m_bRun, m_bOpen,    \* the object's state flags
    api,                \* where the thread that opens and closes is
    rx,                 \* where the RX thread is
    rxLeft,             \* messages of the current frame still to handle
    pc,                 \* where each reader is
    arrived,            \* messages that have come off the line
    cntOverruns,        \* m_stat.cntOverruns
    lastRead,           \* history: the newest message handed to a reader
    closePosts          \* history: tokens posted by close()

rxVars     == <<rx, rxLeft, arrived, cntOverruns>>
objectVars == <<m_bRun, m_bOpen, api, closePosts>>
vars == <<m_receiveList, m_receiveDataSem, m_receiveMutex, objectVars,
          rxVars, pc, lastRead>>

RX   == "RX"
Free == m_receiveMutex = "none"

\* sem_post adds one to the semaphore, whoever waits for it.
lostPost(value)      == value
semaphorePost(value) == value + 1

\* The room test of readSerialData.
RoomForOneMore == Len(m_receiveList) <= CAN4VSCP_MAX_RCVMSG
HasRoom        == Len(m_receiveList) < CAN4VSCP_MAX_RCVMSG

\* dll_removeNode of the head, and the test that follows it: is the list
\* empty now, so that the semaphore has to be drained?
HeadLeftInPlace == m_receiveList
WithoutHead     == Tail(m_receiveList)
DrainsAlways    == TRUE
DrainsNever     == FALSE
HeadIsLast      == WithoutHead = <<>>

-----------------------------------------------------------------------------

\* The object is constructed: the list is empty, the semaphore is zero, no
\* worker thread runs.
Init ==
    /\ m_receiveList = <<>> /\ m_receiveDataSem = 0 /\ m_receiveMutex = "none"
    /\ m_bRun = FALSE /\ m_bOpen = FALSE /\ api = "closed" /\ closePosts = 0
    /\ rx = "stopped" /\ rxLeft = 0 /\ arrived = 0 /\ cntOverruns = 0
    /\ pc = [r \in Readers |-> "idle"]
    /\ lastRead = 0

-----------------------------------------------------------------------------
(* open() and close(), as far as this queue is concerned.                  *)

\* open() sets m_bRun and starts the worker threads; what an earlier session
\* left in the list and in the semaphore stays there.
OpenStart ==
    /\ api = "closed" /\ closePosts < MaxSessions
    /\ m_bRun' = TRUE /\ rx' = "loop" /\ api' = "opening"
    /\ UNCHANGED <<m_receiveList, m_receiveDataSem, m_receiveMutex, m_bOpen,
                   closePosts, rxLeft, arrived, cntOverruns, pc, lastRead>>

OpenDone ==
    /\ api = "opening"
    /\ m_bOpen' = TRUE /\ api' = "open"
    /\ UNCHANGED <<m_receiveList, m_receiveDataSem, m_receiveMutex, m_bRun,
                   closePosts, rxVars, pc, lastRead>>

CloseFlags ==
    /\ api = "open"
    /\ m_bRun' = FALSE /\ m_bOpen' = FALSE /\ api' = "closing"
    /\ UNCHANGED <<m_receiveList, m_receiveDataSem, m_receiveMutex,
                   closePosts, rxVars, pc, lastRead>>

\* One post, without the mutex, however many readers are blocked.
ClosePost ==
    /\ api = "closing"
    /\ m_receiveDataSem' = semaphorePost(m_receiveDataSem)
    /\ closePosts' = closePosts + 1
    /\ api' = "joining"
    /\ UNCHANGED <<m_receiveList, m_receiveMutex, m_bRun, m_bOpen, rxVars, pc,
                   lastRead>>

CloseJoin ==
    /\ api = "joining" /\ rx = "stopped"
    /\ api' = "closed"
    /\ UNCHANGED <<m_receiveList, m_receiveDataSem, m_receiveMutex, m_bRun,
                   m_bOpen, closePosts, rxVars, pc, lastRead>>

-----------------------------------------------------------------------------
(* The RX thread: workThreadReceive and the CANAL branch of readSerialData.*)

\* A CANAL frame with n messages has been received and its CRC is right.
RxFrame ==
    /\ rx = "loop" /\ m_bRun
    /\ \E n \in 1..MaxBatch :
          /\ arrived + n <= MaxArrivals
          /\ rxLeft' = n
    /\ rx' = "room"
    /\ UNCHANGED <<m_receiveList, m_receiveDataSem, m_receiveMutex,
                   objectVars, arrived, cntOverruns, pc, lastRead>>

RxStop ==
    /\ rx = "loop" /\ ~m_bRun
    /\ rx' = "stopped"
    /\ UNCHANGED <<m_receiveList, m_receiveDataSem, m_receiveMutex,
                   objectVars, rxLeft, arrived, cntOverruns, pc, lastRead>>

\* Where the thread goes when it is done with a message.
RxNext  == "room"
RxAfter == IF rxLeft = 1 THEN "loop" ELSE "room"

\* The room test, without the mutex; doFilter then passes the message.
RxAccept ==
    /\ rx = "room"
    /\ HasRoom
    /\ arrived' = arrived + 1
    /\ rx' = "add"
    /\ UNCHANGED <<m_receiveList, m_receiveDataSem, m_receiveMutex,
                   objectVars, rxLeft, cntOverruns, pc, lastRead>>

\* There is room but doFilter rejects the message.
RxFiltered ==
    /\ rx = "room"
    /\ HasRoom
    /\ arrived' = arrived + 1
    /\ rx' = RxAfter /\ rxLeft' = rxLeft - 1
    /\ UNCHANGED <<m_receiveList, m_receiveDataSem, m_receiveMutex,
                   objectVars, cntOverruns, pc, lastRead>>

RxOverrun ==
    /\ rx = "room"
    /\ ~HasRoom
    /\ arrived' = arrived + 1
    /\ cntOverruns' = cntOverruns + 1
    /\ rx' = RxAfter /\ rxLeft' = rxLeft - 1
    /\ UNCHANGED <<m_receiveList, m_receiveDataSem, m_receiveMutex,
                   objectVars, pc, lastRead>>

\* Lock and dll_addNode; readers that test the length without the mutex see
\* the message before its token is posted.
RxAdd ==
    /\ rx = "add" /\ Free
    /\ m_receiveMutex' = RX
    /\ m_receiveList' = Append(m_receiveList, arrived)
    /\ rx' = "post"
    /\ UNCHANGED <<m_receiveDataSem, objectVars, rxLeft, arrived, cntOverruns,
                   pc, lastRead>>

RxPost ==
    /\ rx = "post"
    /\ m_receiveDataSem' = semaphorePost(m_receiveDataSem)
    /\ m_receiveMutex' = "none"
    /\ rx' = RxAfter /\ rxLeft' = rxLeft - 1
    /\ UNCHANGED <<m_receiveList, objectVars, arrived, cntOverruns, pc,
                   lastRead>>

\* A message with an impossible length: counted as an overrun, and the rest
\* of the frame is abandoned.
RxMalformed ==
    /\ rx = "room"
    /\ cntOverruns' = cntOverruns + 1
    /\ rx' = "loop" /\ rxLeft' = 0
    /\ arrived' = arrived + rxLeft
    /\ UNCHANGED <<m_receiveList, m_receiveDataSem, m_receiveMutex,
                   objectVars, pc, lastRead>>

RxThread == RxStop \/ RxAccept \/ RxFiltered \/ RxOverrun \/ RxMalformed
               \/ RxAdd \/ RxPost

-----------------------------------------------------------------------------
(* The application's readers.                                              *)

ReaderAt(r, from, to) == pc[r] = from /\ pc' = [pc EXCEPT ![r] = to]

\* readMsg on an open channel: straight to the mutex.
Poll(r) ==
    /\ m_bOpen /\ ReaderAt(r, "idle", "poll")
    /\ UNCHANGED <<m_receiveList, m_receiveDataSem, m_receiveMutex,
                   objectVars, rxVars, lastRead>>

\* readMsgBlocking on an open channel.
ReadBlocking(r) ==
    /\ m_bOpen /\ ReaderAt(r, "idle", "test")
    /\ UNCHANGED <<m_receiveList, m_receiveDataSem, m_receiveMutex,
                   objectVars, rxVars, lastRead>>

\* Its next test, without the mutex: a message is there to take, or the
\* reader goes to wait for a token.
TestLength(r) ==
    /\ \/ m_receiveList # <<>> /\ ReaderAt(r, "test", "take")
       \/ m_receiveList = <<>> /\ ReaderAt(r, "test", "wait")
    /\ UNCHANGED <<m_receiveList, m_receiveDataSem, m_receiveMutex,
                   objectVars, rxVars, lastRead>>

\* sem_timedwait takes a token.
Wake(r) ==
    /\ ReaderAt(r, "wait", "woken")
    /\ m_receiveDataSem > 0
    /\ m_receiveDataSem' = m_receiveDataSem - 1
    /\ UNCHANGED <<m_receiveList, m_receiveMutex, objectVars, rxVars,
                   lastRead>>

\* CANAL_ERROR_TIMEOUT
TimeOut(r) ==
    /\ Timeouts /\ ReaderAt(r, "wait", "idle")
    /\ m_receiveDataSem = 0
    /\ UNCHANGED <<m_receiveList, m_receiveDataSem, m_receiveMutex,
                   objectVars, rxVars, lastRead>>

\* EINTR is not EAGAIN: the reader goes on to the mutex without a token.
Interrupt(r) ==
    /\ Interrupts /\ ReaderAt(r, "wait", "interrupted")
    /\ UNCHANGED <<m_receiveList, m_receiveDataSem, m_receiveMutex,
                   objectVars, rxVars, lastRead>>

AtMutex == {"poll", "take", "woken", "interrupted"}

\* Under the mutex: copy and remove the head. A reader that emptied the list
\* keeps the mutex to drain the semaphore.
TakeHead(r) ==
    /\ pc[r] \in AtMutex /\ Free
    /\ m_receiveList # <<>>
    /\ lastRead' = Head(m_receiveList)
    /\ m_receiveList' = WithoutHead
    /\ \/ /\ HeadIsLast
          /\ m_receiveMutex' = r
          /\ pc' = [pc EXCEPT ![r] = "drain"]
       \/ /\ ~HeadIsLast
          /\ pc' = [pc EXCEPT ![r] = "idle"]
          /\ UNCHANGED m_receiveMutex
    /\ UNCHANGED <<m_receiveDataSem, objectVars, rxVars>>

\* Under the mutex: CANAL_ERROR_FIFO_EMPTY.
FindEmpty(r) ==
    /\ pc[r] \in AtMutex /\ Free
    /\ m_receiveList = <<>>
    /\ pc' = [pc EXCEPT ![r] = "idle"]
    /\ UNCHANGED <<m_receiveList, m_receiveDataSem, m_receiveMutex,
                   objectVars, rxVars, lastRead>>

\* while (0 == semaphoreTimedWait(&m_receiveDataSem, 0)), one token at a time.
Drain(r) ==
    /\ pc[r] = "drain"
    /\ m_receiveDataSem > 0
    /\ m_receiveDataSem' = m_receiveDataSem - 1
    /\ UNCHANGED <<m_receiveList, m_receiveMutex, objectVars, rxVars, pc,
                   lastRead>>

DrainDone(r) ==
    /\ ReaderAt(r, "drain", "idle")
    /\ m_receiveDataSem = 0
    /\ m_receiveMutex' = "none"
    /\ UNCHANGED <<m_receiveList, m_receiveDataSem, objectVars, rxVars,
                   lastRead>>

\* What a call does once it has begun and is not waiting.
ReaderRuns(r) == TestLength(r) \/ TakeHead(r) \/ FindEmpty(r) \/ Drain(r) \/ DrainDone(r)

Reader(r) == Poll(r) \/ ReadBlocking(r) \/ Wake(r) \/ TimeOut(r)
                \/ Interrupt(r) \/ ReaderRuns(r)

-----------------------------------------------------------------------------

Next ==
    \/ OpenStart \/ OpenDone \/ CloseFlags \/ ClosePost \/ CloseJoin
    \/ RxFrame \/ RxThread
    \/ \E r \in Readers : Reader(r)

Spec == Init /\ [][Next]_vars

\* The scheduler runs every thread that can run, and pthread mutexes and
\* semaphores are granted in turn; the application goes on reading with
\* readMsgBlocking. Nothing makes frames arrive or anybody close.
Fairness ==
    /\ WF_vars(OpenDone) /\ WF_vars(ClosePost) /\ WF_vars(CloseJoin)
    /\ WF_vars(RxStop) /\ WF_vars(RxAccept \/ RxFiltered \/ RxOverrun \/ RxMalformed)
    /\ SF_vars(RxAdd) /\ WF_vars(RxPost)
    /\ \A r \in Readers :
          /\ WF_vars(ReadBlocking(r)) /\ WF_vars(TestLength(r))
          /\ WF_vars(Wake(r))
          /\ SF_vars(TakeHead(r) \/ FindEmpty(r))
          /\ WF_vars(Drain(r)) /\ WF_vars(DrainDone(r))

FairSpec == Spec /\ Fairness

-----------------------------------------------------------------------------
(* What makes the queue correct.                                           *)

Woken == {r \in Readers : pc[r] = "woken"}

TypeOK ==
    /\ m_receiveList \in Seq(Nat)
    /\ m_receiveDataSem \in Nat
    /\ m_receiveMutex \in Readers \cup {RX, "none"}
    /\ m_bRun \in BOOLEAN /\ m_bOpen \in BOOLEAN
    /\ api \in {"closed", "opening", "open", "closing", "joining"}
    /\ rx \in {"stopped", "loop", "room", "add", "post"}
    /\ rxLeft \in Nat
    /\ rx \in {"room", "add", "post"} => rxLeft > 0
    /\ pc \in [Readers -> AtMutex \cup {"idle", "test", "wait", "drain"}]
    /\ arrived \in Nat /\ cntOverruns \in Nat /\ lastRead \in Nat
    /\ closePosts \in Nat

\* No wake-up is lost: every queued message is backed by a token in the
\* semaphore or by a reader that has taken one and is on its way to the
\* mutex, whatever the polling readers, the drain loop and close() do
\* (the append is ahead of its post by one step).
NoLostWakeup ==
    Len(m_receiveList) <= m_receiveDataSem + Cardinality(Woken)
                            + (IF rx = "post" THEN 1 ELSE 0)

\* The list never holds more than CAN4VSCP_MAX_RCVMSG messages although the
\* room test and the append are two steps with readers in between.
ReceiveListBounded == Len(m_receiveList) <= CAN4VSCP_MAX_RCVMSG

\* "Drain stale wakeup tokens now that the queue is empty": outside the
\* critical section an empty queue leaves no token behind, except those that
\* close() posted.
NoStaleTokens ==
    (Free /\ m_receiveList = <<>>) => m_receiveDataSem <= closePosts

\* A channel with one reader never hands readMsgBlocking an empty queue: once
\* past its test or its wait the reader finds a message under the mutex,
\* unless a close() or a signal interfered.
SoleReaderFindsMessage ==
    (Cardinality(Readers) = 1 /\ closePosts = 0) =>
        \A r \in Readers : pc[r] \in {"take", "woken"} => m_receiveList # <<>>

\* Messages leave in the order they arrived and none is handed out twice, by
\* whichever of the racing readers.
InOrder ==
    /\ \A i, j \in 1..Len(m_receiveList) :
          i < j => m_receiveList[i] < m_receiveList[j]
    /\ \A i \in 1..Len(m_receiveList) :
          lastRead < m_receiveList[i] /\ m_receiveList[i] <= arrived

\* Every queued message is read in the end by readers that only ever block,
\* while the channel stays open.
Queued(n) == \E i \in 1..Len(m_receiveList) : m_receiveList[i] = n
QueuedIsRead ==
    \A n \in 1..MaxArrivals : Queued(n) ~> (lastRead >= n \/ ~m_bOpen)

\* A reader blocked when the channel is closed does not stay blocked, if it
\* is alone (close() posts one token).
CloseWakesSoleReader ==
    \A r \in Readers :
        (pc[r] = "wait" /\ ~m_bOpen /\ Cardinality(Readers) = 1)
            ~> (pc[r] # "wait" \/ m_bOpen)
=============================================================================
