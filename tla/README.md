# A formal model of vscpl1drv-can4vscp

TLA+ modules, model-checking runs (TLC) and machine-checked proofs (TLAPS)
for the CANAL driver of the CAN4VSCP serial adapter. Line numbers without a
file are those of `src/src/common/can4vscpobj.cpp`; the POSIX branches of the
code are the ones modelled.

## 1. The system

An application opens a *channel* with `CanalOpen`; behind it is one
`CCan4VSCPObj` with two worker threads. The RX thread reads bytes from a serial
port, puts frames together and hands out their contents. The TX thread takes
messages from a queue, sends them, and may wait for the adapter to acknowledge
each of them. Commands (open, close, no-op ...) go over the same line.

    application threads            worker threads             line, adapter
    writeMsg[Blocking]  -> m_transmitList -> TX thread  ---- CANAL frames -->
    readMsg[Blocking]   <- m_receiveList  <- RX thread  <--- CANAL frames ---
    open, close --- sendCommandWait ------------------------ commands ------>
         softOpen (TX thread) --- sendCommandWait ---------- commands ------>
                    m_responseList        <- RX thread  <--- replies --------
                    msgResponseInfo       <- RX thread  <--- ACK, NACK ------

### Inventory

| Component | State | Operations | Talks to | Hard part | Correct when |
| --- | --- | --- | --- | --- | --- |
| Receive queue | `m_receiveList`, `m_receiveDataSem`, `m_receiveMutex` | `readMsg`, `readMsgBlocking`, `dataAvailable`, the CANAL branch of `readSerialData` | RX thread, readers, `close()` | length tests without the mutex; draining the semaphore while others post to it | no wake-up lost, none left over, bounded, in order |
| Transmit path | `m_transmitList`, three semaphores, `msgResponseInfo`, the TX thread's local variables | `writeMsg`, `writeMsgBlocking`, `workThreadTransmit`, `transmitMessage`, the matching part of `addToResponseQueue` | writers, RX thread, adapter, `close()` | lost and late ACKs, retransmission, sequence numbers that wrap, stale tokens | nothing leaves the queue undelivered; everything gets delivered; bounded |
| Command channel | `m_sequencyno`, `m_responseList` | `sendCommandWait`, `getDeviceCapabilities`, the queueing part of `addToResponseQueue` | application thread, TX thread, RX thread, adapter | two callers share an unlocked counter and one response list | TRUE only for what has been carried out |
| Session | `m_bRun`, `m_bOpen`, `m_bStrict`, `m_initFlag`, the threads | `open`, `close`, `softOpen`, the inactivity test | all of the above | failure at any step, restart of the adapter, joining threads that are busy, softOpen against close | nothing left after close; strict mode means what it says; close returns |
| Framing | `m_RxMsgState`, `m_bufferMsgRcv`, `m_can4vscpMutex` | `can4vscp_buildFrame`, `sendMsg`, `serialData2StateMachine`, `checkCRC` | serial port, all threads that send | resynchronisation after a disturbance; several senders | what is sent undisturbed is what is received |
| Frame dispatch | `m_stat`; the frame in `m_bufferMsgRcv` | `readSerialData`: CANAL, timestamped and multi frames, NOOP, capabilities, responses, ACK/NACK it sends | all of the above | several messages in a frame, partial room, corrupt ones; readers and settings in between | each message counted once or abandoned with a corrupt one, each request answered once |
| Filter | `m_filter`, `m_mask` | `doFilter`, `setFilter`, `setMask` | RX thread, application | set without a lock while it is applied | passes what the mask says |
| Clocks, semaphores | -- | `getClockMilliSeconds`, `semaphoreTimedWait` ... | all | wrap-around; EINTR | waits end, and not early |
| Driver handles (Linux `Ccan4vscpApp`, `CDllDrvObj`, Windows) | the array of channels | `CanalOpen`, `CanalClose`, look-up | application threads | look-up without the mutex, reuse of a slot, a full array | a handle means one open channel; nothing leaks |
| Configuration string, serial port, statistics, logging | strings, counters | `nextConfigToken`, `OpenSerialInterface`, `getStatistics` ... | port library, spdlog | -- | -- |

`PROJECT.json` lists the components with their status, and under `hazards`
each place where this code is hard to test, with the properties that watch it.

## 2. The modules

| Module | What it is |
| --- | --- |
| `ReceiveQueue`, `ReceiveParameters` | the receive queue, its readers and the RX thread's side |
| `ReceiveQueueProofs` | six theorems about it |
| `MCReceiveQueueProofs` | that the run's channel with one reader is a `ReceiveQueue`, and the theorem that follows |
| `TransmitPath` | writers, TX thread, ACK matching, line and adapter |
| `Outbox` | what the transmit path promises in wait-for-ACK mode |
| `TransmitPathProofs` | seven theorems about it, one of them the refinement of `Outbox` |
| `CommandChannel`, `CommandParameters` | callers, response list, sequence number, line and adapter |
| `CommandService` | what `sendCommandWait` promises its callers |
| `CommandChannelProofs` | four theorems, one of them the refinement of `CommandService` |
| `Session` | open, close, strict mode, worker threads, softOpen, adapter restarts |
| `SessionProofs` | four theorems about it |
| `Framing` | bytes: stuffing, senders, a faulty line, the receive state machine |
| `FrameLine` | what the framing promises: a line of frames |
| `FramingProofs` | four theorems, one of them the refinement of `FrameLine` |
| `FrameDispatch` | `readSerialData`, the filter, the statistics of the receive side |
| `FrameDispatchProofs` | seven theorems about it |
| `DriverHandles` | the CANAL API: handles, the array of channels, its look-ups |
| `DriverHandlesProofs` | five theorems about it |
| `MCReceiveQueue`, `MCTransmitPath`, `MCTransmitBoth`, `MCCommandChannel`, `MCSession`, `MCSessionParts`, `MCFraming`, `MCLine`, `MCFrameDispatch`, `MCDriverHandles` | small instances for TLC |

`PROJECT.json`, `map`, gives for every definition the lines it stands for.
The modules are layers. `Framing` turns bytes into frames; its abstraction
`FrameLine`, a line that loses whole frames, is what the lines of
`TransmitPath`, `CommandChannel` and `Session` are, and `FrameDispatch` takes
its frames. `FrameDispatch` puts messages into the list whose waking is
`ReceiveQueue`, and hands replies on to where `TransmitPath` and
`CommandChannel` go on. These three look at one queue each, with the steps of
its threads apart wherever another thread can see between them. `Session` puts
the threads' lives and the commands together and takes the queues for
counters; `DriverHandles` has a channel only as an object that exists or not
and whose threads run or not. That is a division of labour and not a
composition by `INSTANCE`: the queues share no state but `m_bRun` and
`m_bOpen`, which each of them has.

### ReceiveQueue

A message is the number of its arrival. RX thread: `RxFrame` (a frame with 1
to `MaxBatch` messages), `RxAccept`/`RxOverrun`/`RxMalformed`/`RxFiltered`
(the unlocked test of the room and what else may become of a message),
`RxAdd` (append under the mutex), `RxPost` (post, mutex released). A reader:
`Poll` or `ReadBlocking`, `TestLength` (unlocked), `Wake`/`TimeOut`/
`Interrupt` (what `sem_timedwait` returns), `TakeHead`/`FindEmpty` under the
mutex, `Drain` one token at a time, `DrainDone`. The thread that opens and
closes: `OpenStart`, `OpenDone`, `CloseFlags`, `ClosePost`, `CloseJoin`.
`lastRead` and `closePosts` are history variables.

### TransmitPath

A message is the number of its acceptance. Writers: `WriteMsg` or
`WriteMsgBlocking`, `TestRoom`, `WakeWriter`/`WriterTimeout`, `AddToList`,
`PostGet`. The TX thread follows `workThreadTransmit` a step at a time:
waiting for the ACK or for a message, reading `msgResponseInfo`, removing the
head, fetching a message and a number (`TxFetch`), arming the response
(`TxArm`), sending (`TxSend`, `TxSendFails`). The line is FIFO and loses
frames; the adapter (external) accepts or rejects each frame and answers with
its number. With `LateReplies` a reply may come after the 20 ms that the TX
thread waits. `SeqIsFresh` is the one thing assumed of time: no frame or reply
is under way for so long that its number comes round again. The driver does
not test that; with 256 numbers and 20 ms between them it is 5 s. This argument
is about one session: `open()` lets the numbers start from 0 again (2895).
Across a reopen it is `CloseJoin` that keeps them apart, by emptying the line in
both directions; a reply that the adapter sends into the next session, to a frame
of the last one, is left out.

`OvershootBounded` states an overshoot that the code allows: the room test is
`>` (1306), so that already one writer alone brings the list to one more than
the header's "Max messages in output queue" (`can4vscpobj.h:99`).

### CommandChannel

A call is `SaveSeq`, `LoadSeq`, `StoreSeq` (the two halves of
`m_sequencyno++`), `ClearList`, `Send`, and then `TakeOldest` until a response
matches, or `GiveUp`. `received` and `executed` are history variables. A caller
makes the calls that `CodesAfter` allows after the one before, so that `open()`
can be given its own script in the run where it matters.

With `LateReplies`, `SaveSeq` has a guard that the code has not, `SeqIsFresh`: no
response still about bears the number with which a call starts. For one caller
that is a bound on delays (256 commands). For several callers it also assumes
away the increment that one of them loses, so that `TrueMeansExecuted` and
`ImplementsService` say of several callers only what is true as long as no
number comes back early; `command_race`, without the guard, shows one coming
back, and both properties fail with it. Runs check the refinement of one caller.

### Session

`api` is where `open()` or `close()` is, `tx` and `rx` where the threads are.
A command is a frame in a FIFO line; `cmd[c]` tells what it has come to.
`OpenSends`/`OpenSucceeds`/`OpenFails` are the steps `noop` (three tries),
`caps`, `timestamp`, `baud`, `mode`; `AfterFailure` is the code's
"`if (m_bStrict) close()`". The TX thread is the loop of `workThreadTransmit`
as far as it leads to the test for inactivity, then `softOpen`. Two points of
the code are modelled by what they do, not by what they are meant for:

 * `sendConfigWait` sends its number as a *command* (1850), so enabling
   timestamps sends LISTEN and the baud rate LOOPBACK (`ConfigCommand`).
 * The test for inactivity subtracts milliseconds from microseconds (3039);
   which way it turns out has nothing to do with activity, and it is a free
   choice (`TxIsActive`, `TxIsInactive`).

The thread that opens is one: `CanalOpen` makes a new object, so `open()` is
never called on an open channel, and objects that are opened again after
`close()` (as the tests do, and as the code allows) are covered.

Three things are in the model that no property speaks of, because no document
says how they should be. `Write` is possible from `StartThreads` on, as `m_bOpen`
is true there (765): messages are accepted, and sent, while `open()` is still
configuring the adapter. With reopen, a softOpen in flight can open an adapter
that has just confirmed CLOSE; `ConfirmedCloseHolds` leaves channels with reopen
out. And as the test for inactivity is a free choice, no property can say that it
is right. One thing is left out: a command comes to "done" only by the reply to
its own frame (`Succeeds`), while `command_race` shows that, when both threads
send commands, one may take the other's reply.

### Framing

A thread sends a frame: `Begin` (build it, take the port's mutex), then
`SendByte` for each byte that `Writes` says is next, the DLE of the escape
included. Stuffing and writing are one step per byte, as nobody else sees the
buffer between them. `serialData2StateMachine` takes each byte as it comes;
its branches are `AwaitStart` and `InFrame`. The faults are `LoseByte`,
`ChangeByte`, `InventByte` (a doubled byte is one of these), `CutShort` (the
port takes only part of a frame) and `OpenAnew` (open() resets the state
machine, 558). The checksum is a constant operator of which nothing is
assumed: after a disturbance any content may pass for a frame, and what is
proved needs no luck of the CRC. Frame type and channel are not stuffed by
`buildFrame`; the assumption says that neither is DLE, which holds for
channel 0 and every frame type that the driver sends.

### FrameDispatch

A frame arrives and is handled by one of `ReadIgnored`, `ReadNoop`,
`ReadUnsupported`, `ReadReply`, `ReadCanal`; the CANAL frames then message by
message: `Abandon` (corrupt), `Overrun` (no room), `TakeMessage` (room, and
doFilter's first reading of `m_mask`), `ReadOperand` (`m_filter` or, if the
compiler has it read again, `m_mask`), `Test` (the other of the two, and what
doFilter returns), `AddToList`, `Count`, `EndOfFrame`. `ReadMsg`, `setFilter` and
`setMask` come between any two of these. Numbers that are masked bit by bit are
sets of bits.

`Accounted` is a ledger of *all* messages of all CANAL frames that have arrived.
Each is counted as received, dropped by the filter, counted as an overrun, still
to come, or abandoned. The last are the messages behind a corrupt one: the code
leaves the loop there (2255, 2623) with one overrun counted for the corrupt
message, and those behind it, which may have been in order, are in no counter of
the driver. That is what the code does; no document says that they are counted.

Four points are modelled by what the code does:

 * `doFilter` tests the flags with `|`, so every message is treated as an
   extended RTR message, and it sets "bit 32" and "bit 31" with the *decimal*
   numbers 80000000 and 40000000, which are the bits 9 to 15, 17, 18, 21 to
   23, 25 and 26 (`SetBits`). Only masks that keep off these bits filter as
   the table beside `m_filter` (`can4vscpobj.h:668`) says, and `FilterAsTabled`
   claims no more. Without that condition TLC finds it violated at once: with
   the mask {1, 9} and the filter {} every message is rejected, also one with the
   identifier {0}, as bit 9 is set before it is compared.
 * The filter's values may be replaced between doFilter's readings.
   `FilterAsTabled` is about decisions made with values that are still set.
 * Timestamps are masked with 0x1fffffff like identifiers (2364, 2649, the
   latter under "Extract 32-bit Timestamp"): they start again after 2^29
   microseconds, about nine minutes. `ListedAsSent` claims the lower 29 bits;
   that all 32 arrive is `TimestampAsSent`, which is violated (finding 5).
 * The loop of the plain CANAL frame takes the identifier from the frame's
   beginning each time (2273, `IdOf`): if such a frame has several messages, the
   later ones are listed with the first one's identifier. `ListedAsSent` claims
   nothing of their identifiers; TLC finds them wrong as soon as it does. The
   loop is there for several messages, but what an adapter sends under this type
   no document in the repository says, so this is no finding.

The statistics begin at 0: open() resets them before its threads run. The model
is of one session: that a list which outlives `close()` holds messages that the
next session's counters do not have is not covered by `StatisticsFollow`. The
answers of `AnsweredOnce` are those given to `sendMsg`; that `sendACK` and
`sendNACK` do not look at what it returns (1870-1895) is not modelled.

### DriverHandles

A thread is in `CanalOpen` (`New`, `OpenSucceeds`/`OpenFails`, `FindSlot` and
`StoreObject` under the mutex, or `Destroy`), in a call (`Call`,
`CallReturns`), or in `CanalClose` (`CloseCall`, `CloseObject`, `DeleteObject`
and `ClearSlot` under the mutex). `Exit` is the destructor of the application
object, or `DLL_PROCESS_DETACH`: it passes indices where `getDriverObject`
expects handles, and finds nothing. `held` is what the application has. The
contract assumed of it: it uses handles that `CanalOpen` returned and 0, and
closes one when it has no call with it in progress. Nothing in the driver
enforces that. `CDllDrvObj` (`dlldrvobj.cpp`, used by the Windows build) is the
same code.

## 3. The runs

| Run | Question | Result |
| --- | --- | --- |
| `receive_queue` | two racing readers, polling and blocking, signals, time-outs, two sessions, frames of two messages: tokens, bound, order; and one reader that only blocks: does it find every message, does close release it | holds |
| `transmit_ack` | wait-for-ACK mode, losses, late replies, numbers that wrap at 5, polling and blocking writes, two sessions: nothing removed undelivered, tokens bounded, implements `Outbox` | holds |
| `transmit_live` | lossy line, replies in time: delivered and removed; blocked writer goes on. No ACKs, two writers, two sessions: overshoot bounded, nothing sent twice | holds |
| `transmit_block_limit` | does `writeMsgBlocking` keep to the maximum | **violated**, finding |
| `line` | two senders, frames full of control bytes, two faults anywhere: is every undisturbed frame received, do the buffers hold; and commands of one caller, with losses, refusals, late replies, other traffic, numbers that wrap at 2 | holds, implements `FrameLine` and `CommandService` |
| `command_race` | `open()` against softOpen | **violated**, finding |
| `session` | three configurations, two sessions, failures anywhere, a restart: what open and close leave; close returns; with traffic, a restarted adapter is opened again | holds |
| `session_idle` | the same without that traffic | **violated**, finding |
| `session_timestamp` | timestamps in strict mode | **violated**, finding |
| `dispatch` | every kind of frame against readers, filter and mask: each message counted once or abandoned, none listed wrongly, each request answered once, no hang | holds |
| `dispatch_timestamp` | do the 32 bits of a timestamp get into the list | **violated**, finding |
| `handles` | three threads open, use and close two slots' worth of channels: own object, no use after delete, no leak, calls return | holds |

`receive_queue`, `transmit_live` and `session` check two configurations of one
module each, side by side: a variable that never changes says which of the two
a behaviour belongs to. In the first two they are two channels with variables
of their own (`Sole` and `Ack` are instances), one of which is never opened;
the instances' properties are `SoleReaderAlwaysFinds` (`SoleReaderFindsMessage`
of the reader that is alone), `SoleReaderGetsOn` (its `QueuedIsRead` and
`CloseWakesSoleReader`), `AckEventuallyDone` and `AckBlockedWriterWakes`
(`EventuallyDone` and `BlockedWriterWakes` of the writer that waits for ACKs).
`line` has two modules side by side in the same way: in a behaviour either the
bytes move (`Framing`) or the commands do (`Command`, an instance of
`CommandChannel`). Its `CommandTypeOK`, `SoleCallerIsAnswered` and
`ImplementsService` are the instance's. The theorems of `CommandChannelProofs` are
about `CommandChannel` itself, with any callers, and not about this instance.

### Findings

 1. *`transmit_block_limit`* (1366). The TX thread posts
    `m_transmitDataPutSem` for every message it removes, waited for or not,
    and `writeMsgBlocking` does not look again after its wait. Each message
    ever sent lets one writer pass a full queue later. The header calls the
    constant "Max messages in output queue".
 2. *`command_race`* (1698). `m_sequencyno++` by two threads may set the
    counter back. softOpen, which opens again and again, then sends an OPEN
    under the number of the OPEN that `open()` has sent, and takes the reply to
    that one for its own. The header: "True on success".
 3. *`session_idle`* (2990). softOpen is to open an adapter again that has
    restarted ("in case no traffic is detected"). But with no traffic the TX
    thread's wait for a message times out, and `continue` passes by the test.
    The test is reached only over a token that finds no message: one left by
    `close()`, or by a message that was written while another was being sent.
    And with a message in transmission in wait-for-ACK mode, never.
 4. *`session_timestamp`* (1850). See `ConfigCommand` above. In strict mode
    `open()` reports success, as the adapter does confirm LISTEN.
 5. *`dispatch_timestamp`* (2649, and 2364). The first byte of a timestamp is
    masked with 0x1f, which is right for an identifier. A message sent at
    2^29 + 2^2 microseconds is listed with the timestamp 2^2. The comment of the
    line before: "Extract 32-bit Timestamp".

### Bounds, and why they are enough

Every bound is a constant and occurs in guards only. The receive runs have
4 messages for a list of 2, so that it overflows, empties and refills, also
over a close and open. The acknowledged transmit run has two messages for a
list of nominal size 0: one in transmission, one that finds the list full and
then is behind it, several retransmissions of each (5 numbers) and up to 2 frames under way in each
direction, so an ACK can be late by more than one retransmission. The
unacknowledged channel has two writers and a list of nominal size 0, enough
for both to be past the room test together and for a third message to find no
room (`MaxMessages = 2` is looked at when a call begins: two calls that begin
together after a first message make three). The commands of `line` are 3 calls with 2
numbers, so that the third call has the number of the first. `session` has two sessions with any
two of three configurations: listen in strict mode; settings and reopen;
strict mode, reopen and wait-for-ACK. `MaxLine = 2` lets a frame that nobody
waits for any more be ahead of one that somebody does.

`line` has three frames of bytes and two faults: one frame before the faults, one
that is hit, one that shows whether the receiver is in step again; the frames
hold DLE, STX and ETX in every place where they may be, the CRC included, and
the buffer is one byte longer than the longest, so that frames run together
overflow it. `dispatch` has a list of 2 for frames of up to three messages, so
that it fills in the middle of one, corrupt messages in the middle and at the
end of a frame, identifiers with bits that the filter tests, changes and drops, timestamps
with bit 29 and without, lengths of 0, 8 and 9, and three frames, so
that two come to lie in the list with a third behind them. `handles` has three threads
and four objects for two slots: the array is full while a third channel is
opened, and a slot is used again. What the bounds leave
out is covered by the proofs, which have none of them as assumptions beyond
being natural numbers.

No run needs the deadlock check: an application that makes no more calls,
within the bounds, is a state in which the system may stop. That threads do
not wait for one another for ever is stated as liveness instead
(`QueuedIsRead`, `CloseWakesSoleReader`, `EventuallyDone`,
`BlockedWriterWakes`, `CloseReturns`, `CallsReturn`, `FrameIsHandled`).

### Fairness

Weak fairness for every step a thread takes by itself, and for waits that end
by time-out: threads are scheduled. Strong fairness only where the code waits
for something that others can take away and give back: the mutex (POSIX
mutexes do not starve a waiter for ever in practice), a line that loses frames
but not every one, an adapter that rejects but not every frame, a bounded line
(`MaxLine`, which the code does not have). In `Session`, the inactivity test
does not turn out wrong every time. No fairness for the application's calls,
with two exceptions that their runs are about: the reader of the second half
of `receive_queue` goes on reading, and `Traffic` of `Session` is an
application that keeps writing, also while a message is being sent. In
`DriverHandles` the functions of the object return, which is what
`CloseReturns` and the time-outs of the blocking calls say.

`EventuallyDone` assumes replies within the 20 ms (`LateReplies = FALSE`). With
an adapter that is always late it does not hold: each retransmission has a new
number, so every ACK comes for a number that is no longer awaited. It is
checked for one session (`MaxSessions = 1`): in a second one the token that
`close()` has left makes the TX thread look one reply too early, and if every
ACK came in the moment between that look and the arming of the next frame, it
would send the same message for ever. With two sessions TLC finds this
behaviour. It takes the same coincidence with every retransmission, so it is no
property of the code that messages get stuck so; but nothing in the code drains
the token either.

### What the properties mean

Every property has a comment where it is defined; each property of a passing
run has a mutant in `PROJECT.json`, a change of one definition as a bug in the
code would make it, under which TLC finds the property violated. `TypeOK` is
the only one per module that is about types.

## 4. The proofs

All proofs are for every value of the constants allowed by the module's
`ASSUME`, and checked by tlapm to the last leaf.

 * **ReceiveQueue** (`IInv` of `ReceiveQueueProofs`): types; who holds the mutex
   is known from where the threads are (`MutexOwner`); the room that the RX
   thread has seen is still there when it appends, because nobody else appends
   (`RoomIsKept`); tokens and woken readers cover the list (`NoLostWakeup`), and
   an empty list leaves only close()'s tokens (`NoStaleTokens`). Neither of the
   last two is inductive alone: draining is harmless only because it happens
   under the mutex with an empty list, and the post of the RX thread is under
   the mutex with a list that is not. The set of woken readers is finite, and
   its cardinality is tracked step by step. `InOrder` needs besides that the
   newest message is the last (`NewestLast`). The channel with one reader of
   the run is such a queue (`SoleChannel`), which gives `SoleReaderAlwaysFinds`.
 * **TransmitPath**: in wait-for-ACK mode all frames under way carry the head
   of the list (`FramesCarryHead`); only the last of them may bear the number
   that is awaited (`ArmedIsLast`); a reply that bears it is about the head,
   and nothing is behind it (`AwaitedAckIsTrue`, `NotedAckIsTrue`). Hence an ACK
   is never taken for another message, whatever is lost or late, and hence the
   refinement: every step maps to `Accept`, `Deliver`, `Remove` or a stutter.
   The tokens of `m_transmitAckNackSem` have a budget of two per session
   (`TokenBudget`), writers past the room test fit in the overshoot
   (`WritersFit`). Without ACKs (`SentOnce`) list and line are in the order of
   acceptance (`InOrder`, `Numbered`), and what the adapter has is older than
   what is on the line, which is older than what is in the list
   (`SentBefore`), except for the head that has been sent and not yet been
   removed. That exception is all there is to it: no other step comes between
   the two, a refusal by the port leaves the TX thread before it, and close()
   joins the thread, so the next session cannot begin in the middle. Hence
   `AtMostOnce`.
 * **CommandChannel**: a response that a caller would take comes from a command
   carried out since its call began (`RepliesAreTrue`); under `LateReplies`,
   where a call starts only with a number that no response bears
   (`SeqIsFresh`), this is inductive for any number of callers and gives
   `TrueMeansExecuted` and the refinement of `CommandService`. Without the
   proviso `command_race` shows the opposite: the increment that is lost is
   what breaks it. `SoleCallerIsAnswered` needs no proviso. Its invariant
   (`SoleInv`) says where the answer is while a caller that is alone waits,
   unless something has happened that excuses a FALSE: in the frame on its way
   to the adapter, in the reply on its way back, or in the list
   (`AnswerUnderWay`), and there so far from the end that of what came since
   the call began nothing has pushed it out. A frame under way is about the
   call by its number (`OwnNumber`), which needs that nobody else increments
   the counter.
 * **Session**: flags and threads fit where open() or close() is (`Control`);
   a frame that is waited for is its sender's only one and is for his step
   (`Waited`); without reopen nothing is behind it on the line (`CloseIsLast`);
   in strict mode nothing but the mode's command follows the mode's command
   (`ModeIsLast`). This gives `ClosedIsQuiet`, `ConfirmedCloseHolds` and
   `StrictOpenIsInMode` for any number of sessions and restarts. `Control` and
   `Waited` are needed together: that a command comes to "done" only for a
   caller that has sent one is `Waited`, that he is alone is `Control`.
 * **Framing** (`IInv` of `FramingProofs`): how much has been written is known
   from the position and from the bytes escaped so far, each of which is one
   (`WorstCaseHolds`, one half of `BuffersHold`, is not inductive without it); only the holder of the mutex
   is in a frame; and, while nothing has been disturbed, the receiver's state
   is exactly what the sender's position says (`InStep`), its buffer the part of
   the content that has been sent. The last is what the refinement rests on:
   after a disturbance nothing is known of the receiver, and it may miss the
   start of the next frame, if the byte it took last was a DLE; but within an
   undisturbed frame it takes the DLEs in the pairs in which they are sent
   (`Phased`), so that the DLE ETX at the latest brings it into step: hence
   "at most one frame".
 * **FrameDispatch**: the messages of all frames that have arrived are
   partitioned: those to come, those abandoned, and the rest, which have ended
   (`Ended`, `Partition`). A message is a pair of numbers, so the three are finite
   sets, and each step moves exactly one message, or the rest of a frame, from the
   first to one of the others; `CountInv` says that the driver's counters and the
   filter's history add up to the cardinality of those that have ended
   (`OneMoreEnded`, `ArrivesCount`), hence `Accounted`. What is listed came from a
   frame before the present one, or from an earlier message of it, which keeps the
   order (`ListedAsSent`); the receive thread is never behind a corrupt message of
   its frame, so none that is listed is; the filter's theorem is about one step and needs only the
   types. `AnsweredOnce` says that the frame with the n-th smallest number of
   those that ask has the n-th answer; it is inductive with the types alone,
   once it is known what a new frame, the last, does to these ranks
   (`UpToFacts`, `AnswerStep`). `StatisticsFollow` counts the listed data
   bytes as pairs of a position and a byte; the lemmas `DataBytesAppend` and
   `DataBytesTail` say by how much that set grows and shrinks, and what is one
   message ahead of its counter is the message in `Count`.
 * **DriverHandles**: objects have one owner. An object is in one slot at
   most, in one thread's hands as long as it is not registered, and in the
   application's under one handle; a thread that holds the mutex knows its
   slot. So neither objects nor slots are lost (`NothingIsLost`). The look-up without the mutex is safe because the slot of a handle
   that is held is not written by anybody else, which is the content of
   `HandleIsOwn`. The lemma `NothingFound` says that the destructor of the
   application object never finds an object.

**Only model-checked**: all liveness properties (`QueuedIsRead`,
`CloseWakesSoleReader`, `EventuallyDone`, `BlockedWriterWakes`, `CloseReturns`,
`ReopensWithTraffic`, `CallsReturn`, `FrameIsHandled`), because fairness and
ENABLED are beyond the prover. Every invariant, every action property and every
refinement that a passing run checks is a theorem (those of the command channel
as theorems of `CommandChannel`, see section 3); the three that are stated
with a proviso say so (`Refinement` of the transmit path: `WaitForAck`;
`TrueIsConfirmed` and `Refinement` of the command channel: `LateReplies`, where
a call starts only with a number that no response bears). No module that is proved about has a RECURSIVE
definition: `AnsweredOnce` and `StatisticsFollow` count sets instead, as folds
over sequences could be evaluated but not be proved about.

## 5. What is not modelled

 * The 32-bit arithmetic of the clocks: time-outs are choices that may come at
   any moment, so that nothing shown depends on when they come.
 * The configuration string, the serial port (it opens; the code always opens
   `/dev/ttyUSB0`, 1072), the text "set mode vscp", the statistics of the
   transmit side, logging: no decision of the driver depends on them, or they
   are calls of libraries.
 * Payloads that are shorter than their messages say, in a frame whose CRC is
   right: the adapter is assumed to count as the driver does.
 * Applications that use a handle while or after another thread closes it:
   the driver promises nothing then.
 * Threads that cannot be created (751): what the join of such a thread does is
   undefined. Memory that runs out: `new` throws, and the branches for NULL are
   never taken.
 * `sendConfig` and `wait4ConfigResponse` (1768-1838): called from nowhere.
 * The Windows branches of `CCan4VSCPObj`: events in place of semaphores, exit
   codes in place of joins.
 * Git submodules that are not in the repository (list, serial port, CRC,
   CANAL headers): modelled from how they are used, marked external.

## 6. Plan

Done: every component that decides anything has its module, its runs and its
proofs (section 2). What could follow:

 1. That `FrameDispatch` and `ReceiveQueue` together implement a queue of
    messages from the adapter to the reader; so far they share the list by
    description.
 2. The WIN32 branches of the receive queue: a manual-reset event instead of a
    counting semaphore, with `ResetEvent` under the mutex.
 3. Clocks as functions modulo 2^32, with the units of the inactivity test.
 4. Proofs: a bound on the list with `writeMsgBlocking`, in terms of the tokens
    that were posted, which would say how far finding 1 can go.
