------------------------------ MODULE Session ------------------------------
(***************************************************************************)
(* A channel's life: open() with its commands to the adapter and its       *)
(* strict mode, close(), the two worker threads, softOpen and the test for *)
(* inactivity that leads to it, and an adapter that may lose its power.    *)
(*                                                                         *)
(* What the other modules look into is coarse here. A command is one frame *)
(* in a FIFO line, and its sender is told TRUE only once the adapter has   *)
(* carried out this frame, FALSE at any time (CommandChannel). Writers and *)
(* the transmit list are a count of messages and the count of tokens that  *)
(* their writers have posted (TransmitPath). The port opens and threads    *)
(* can be created; m_activity is not kept (see Inactive).                  *)
(***************************************************************************)
EXTENDS Integers, Sequences

CONSTANTS
    Configs,        \* configurations that open() may be called with
    Faults,         \* TRUE: commands may fail although the adapter is there
    MaxOpens,       \* bound: calls of open()
    MaxRestarts,    \* bound: times the adapter loses its power
    MaxQueued,      \* bound: messages in the transmit list
    MaxTokens,      \* bound: tokens in m_transmitDataGetSem
    MaxLine         \* bound: commands on the line

Modes == {"normal", "listen", "loopback"}
Configurations ==
    [mode : Modes, timestamp : BOOLEAN, baud : BOOLEAN, reopen : BOOLEAN,
     strict : BOOLEAN, waitAck : BOOLEAN]

ASSUME SessionAssumption ==
    /\ Configs \subseteq Configurations
    /\ Faults \in BOOLEAN
    /\ MaxOpens \in Nat /\ MaxRestarts \in Nat
    /\ MaxQueued \in Nat /\ MaxTokens \in Nat /\ MaxLine \in Nat

VARIABLES
    m_bRun, m_bOpen, m_bStrict, \* the object's state flags
    config,             \* m_initFlag and m_nBaud
    api, tries,         \* where open() or close() is; NOOPs already sent
    tx, rx,             \* where the TX and the RX thread are
    bTransmissionInProgress,
    queued,             \* m_transmitList.nCount
    getSem,             \* m_transmitDataGetSem
    cmd,                \* what each caller's command has come to
    line,               \* commands on their way to the adapter
    adapter,            \* the mode the adapter is in, and its timestamps
    opens, restarts,    \* bounds
    closeConfirmed,     \* history: the adapter has confirmed the last CLOSE
    undisturbed         \* history: no loss of power since open() was called

flags   == <<m_bRun, m_bOpen, m_bStrict, config>>
txVars  == <<tx, bTransmissionInProgress, queued, getSem>>
cmdVars == <<cmd, line>>
history == <<opens, restarts, closeConfirmed, undisturbed>>
vars == <<flags, api, tries, txVars, rx, cmdVars, adapter, history>>

Callers == {"API", "TX"}
Off     == [mode |-> "closed", timestamps |-> FALSE]

Init ==
    /\ m_bRun = FALSE /\ m_bOpen = FALSE /\ m_bStrict = FALSE
    /\ config \in Configs
    /\ api = "closed" /\ tries = 0
    /\ tx = "none" /\ rx = "none" /\ bTransmissionInProgress = FALSE
    /\ queued = 0 /\ getSem = 0
    /\ cmd = [c \in Callers |-> "none"] /\ line = <<>>
    /\ adapter = Off
    /\ opens = 0 /\ restarts = 0
    /\ closeConfirmed = FALSE /\ undisturbed = TRUE

-----------------------------------------------------------------------------
(* Commands, and what each step of open() and softOpen sends.              *)

ModeCommand == [normal |-> "OPEN", listen |-> "LISTEN", loopback |-> "LOOPBACK"]

\* sendConfigWait sends a COMMAND frame with the number of the configuration,
\* and the numbers of TIMESTAMP and BAUDRATE are those of LISTEN and LOOPBACK.
ConfigCommand == [timestamp |-> "LISTEN", baud |-> "LOOPBACK"]

CommandOf(step) ==
    CASE step = "noop"      -> "NOOP"
      [] step = "caps"      -> "CAPS"
      [] step = "timestamp" -> ConfigCommand.timestamp
      [] step = "baud"      -> ConfigCommand.baud
      [] step = "mode"      -> ModeCommand[config.mode]
      [] step = "close"     -> "CLOSE"

\* The next step of open() or softOpen that the configuration asks for.
AfterTimestamp == IF config.baud THEN "baud" ELSE "mode"
FirstSetting   == IF config.timestamp THEN "timestamp" ELSE AfterTimestamp

\* The frame of a caller that does not wait for it any more.
Forgotten(c) ==
    [i \in 1..Len(line) |->
        IF line[i].by = c THEN [line[i] EXCEPT !.by = "nobody"] ELSE line[i]]

SendCommand(c, step) ==
    /\ cmd[c] = "none" /\ Len(line) < MaxLine
    /\ cmd' = [cmd EXCEPT ![c] = "sent"]
    /\ line' = Append(line, [by |-> c, code |-> CommandOf(step)])

\* The RX thread has to be there to see the reply. Only the reply to the
\* caller's own frame counts: how one can be taken for another when both
\* threads send commands is command_race, and left out here.
Succeeds(c) ==
    /\ cmd[c] = "done" /\ rx = "running"
    /\ cmd' = [cmd EXCEPT ![c] = "none"]
    /\ UNCHANGED line

\* The line without its frame number i.
Lost(i) == [j \in 1..(Len(line) - 1) |-> IF j < i THEN line[j] ELSE line[j + 1]]

\* The command or its reply is lost, refused or late; without faults, only
\* when the adapter has lost its power or the RX thread is gone.
Fails(c) ==
    /\ cmd[c] # "none"
    /\ \/ Faults
       \/ rx # "running"
       \/ cmd[c] = "sent" /\ \A i \in 1..Len(line) : line[i].by # c
    /\ cmd' = [cmd EXCEPT ![c] = "none"]
    /\ \/ line' = Forgotten(c)
       \/ \E i \in 1..Len(line) : line[i].by = c /\ line' = Lost(i)

-----------------------------------------------------------------------------
(* open().                                                                 *)

\* Strict mode is set and never reset. The port is opened.
Open ==
    /\ api = "closed" /\ opens < MaxOpens
    /\ opens' = opens + 1
    /\ config' \in Configs
    /\ m_bStrict' = (m_bStrict \/ config'.strict)
    /\ undisturbed' = TRUE /\ closeConfirmed' = FALSE
    /\ api' = "start" /\ tries' = 0
    /\ UNCHANGED <<m_bRun, m_bOpen, txVars, rx, cmdVars, adapter, restarts>>

\* Both threads are created, and the channel is open before it is known
\* whether there is an adapter.
StartThreads ==
    /\ api = "start" /\ api' = "noop"
    /\ m_bRun' = TRUE /\ m_bOpen' = TRUE
    /\ tx' = "loop" /\ rx' = "running" /\ bTransmissionInProgress' = FALSE
    /\ UNCHANGED <<m_bStrict, config, tries, queued, getSem, cmdVars, adapter,
                   history>>

OpenSteps == {"noop", "caps", "timestamp", "baud", "mode"}

OpenSends ==
    /\ api \in OpenSteps
    /\ SendCommand("API", api)
    /\ UNCHANGED <<flags, api, tries, txVars, rx, adapter, history>>

\* Where open() goes when a command has succeeded ...
OpenGoesOn ==
    CASE api = "noop"      -> "caps"
      [] api = "caps"      -> FirstSetting
      [] api = "timestamp" -> AfterTimestamp
      [] api = "baud"      -> "mode"
      [] api = "mode"      -> "open"

\* ... and when it has failed: in strict mode to close(), except that a NOOP
\* is tried three times and that nobody minds about the capabilities.
TriesForever == api = "noop"
TriesAgain   == api = "noop" /\ tries < 2

ReturnsAtOnce == "closed"
GivesUp       == "close"

NeverStrict  == IF TriesAgain THEN "noop" ELSE OpenGoesOn
AfterFailure ==
    IF TriesAgain THEN "noop"
    ELSE IF m_bStrict /\ api # "caps" THEN GivesUp
    ELSE OpenGoesOn

OpenSucceeds ==
    /\ api \in OpenSteps
    /\ Succeeds("API")
    /\ api' = OpenGoesOn
    /\ UNCHANGED <<flags, tries, txVars, rx, adapter, history>>

OpenFails ==
    /\ api \in OpenSteps
    /\ Fails("API")
    /\ api' = AfterFailure
    /\ tries' = IF TriesAgain THEN tries + 1 ELSE tries
    /\ UNCHANGED <<flags, txVars, rx, adapter, history>>

-----------------------------------------------------------------------------
(* close(), called by the application or by open() in strict mode.         *)

Close ==
    /\ api = "open" /\ api' = "close"
    /\ UNCHANGED <<flags, tries, txVars, rx, cmdVars, adapter, history>>

CloseSends ==
    /\ api = "close"
    /\ SendCommand("API", "close")
    /\ UNCHANGED <<flags, api, tries, txVars, rx, adapter, history>>

\* The answer to CLOSE is not looked at.
CloseCommandEnds ==
    /\ api = "close" /\ api' = "flags"
    /\ \/ Succeeds("API") /\ closeConfirmed' = TRUE
       \/ Fails("API") /\ UNCHANGED closeConfirmed
    /\ UNCHANGED <<flags, tries, txVars, rx, adapter, opens, restarts,
                   undisturbed>>

CloseFlags ==
    /\ api = "flags" /\ api' = "post"
    /\ m_bRun' = FALSE /\ m_bOpen' = FALSE
    /\ UNCHANGED <<m_bStrict, config, tries, txVars, rx, cmdVars, adapter,
                   history>>

\* "Wake the worker threads". The token stays when it finds none asleep.
ClosePosts ==
    /\ api = "post" /\ api' = "join"
    /\ getSem' = getSem + 1
    /\ UNCHANGED <<flags, tries, tx, bTransmissionInProgress, queued, rx,
                   cmdVars, adapter, history>>

JoinsReceive == rx = "exited"
Joined       == rx = "exited" /\ tx = "exited"

\* pthread_join, twice, and m_com.close(): what has not left the port may be
\* gone. Nobody waits for it any more.
CloseJoins ==
    /\ api = "join" /\ Joined
    /\ api' = "closed"
    /\ line' \in {line, <<>>}
    /\ UNCHANGED <<flags, tries, txVars, rx, cmd, adapter, history>>

-----------------------------------------------------------------------------
(* The application's writers, and the RX thread's end.                     *)

Write ==
    /\ m_bOpen /\ queued < MaxQueued /\ getSem < MaxTokens
    /\ queued' = queued + 1 /\ getSem' = getSem + 1
    /\ UNCHANGED <<flags, api, tries, tx, bTransmissionInProgress, rx, cmdVars,
                   adapter, history>>

RxEnds ==
    /\ rx = "running" /\ ~m_bRun
    /\ rx' = "exited"
    /\ UNCHANGED <<flags, api, tries, txVars, cmdVars, adapter, history>>

-----------------------------------------------------------------------------
(* The TX thread.                                                          *)

\* The loop head.
StopsWhenDone == ~m_bRun /\ queued = 0
Stops         == ~m_bRun

TxLoop ==
    /\ tx = "loop"
    /\ \/ Stops /\ tx' = "exited"
       \/ /\ ~Stops
          /\ tx' = IF \/ config.waitAck /\ bTransmissionInProgress
                      \/ queued > 0
                   THEN "transmit" ELSE "waitGet"
    /\ UNCHANGED <<flags, api, tries, bTransmissionInProgress, queued, getSem,
                   rx, cmdVars, adapter, history>>

\* A message leaves the list when it is sent or, in wait-for-ACK mode, when
\* an adapter that is open has acknowledged it; until then it is in
\* transmission and sent again and again.
TxTransmits ==
    /\ tx = "transmit" /\ tx' = "loop"
    /\ \/ /\ ~m_bOpen \/ queued = 0
          /\ UNCHANGED <<queued, bTransmissionInProgress>>
       \/ /\ m_bOpen /\ queued > 0
          /\ config.waitAck => adapter.mode # "closed"
          /\ queued' = queued - 1
          /\ bTransmissionInProgress' = FALSE
       \/ /\ m_bOpen /\ queued > 0
          /\ config.waitAck /\ adapter.mode = "closed"
          /\ bTransmissionInProgress' = TRUE
          /\ UNCHANGED queued
    /\ UNCHANGED <<flags, api, tries, getSem, rx, cmdVars, adapter, history>>

\* No token for 1 ms: "continue", past the test for inactivity.
TxTimeout ==
    /\ tx = "waitGet" /\ getSem = 0
    /\ tx' = "loop"
    /\ UNCHANGED <<flags, api, tries, bTransmissionInProgress, queued, getSem,
                   rx, cmdVars, adapter, history>>

TxWakes ==
    /\ tx = "waitGet" /\ getSem > 0
    /\ getSem' = getSem - 1
    /\ tx' = IF queued > 0 THEN "transmit" ELSE "inactive?"
    /\ UNCHANGED <<flags, api, tries, bTransmissionInProgress, queued, rx,
                   cmdVars, adapter, history>>

\* getClockMicroSeconds() - m_activity > SOFT_OPEN_TIMOUT subtracts the time
\* in milliseconds from the time in microseconds, both mod 2^32: which way it
\* turns out does not depend on any activity. It is nearly always true.
AlwaysReopens == TRUE
NeverReopens  == FALSE
ReopenEnabled == config.reopen

TxIsActive ==
    /\ tx = "inactive?" /\ tx' = "loop"
    /\ UNCHANGED <<flags, api, tries, bTransmissionInProgress, queued, getSem,
                   rx, cmdVars, adapter, history>>

TxIsInactive ==
    /\ tx = "inactive?" /\ ReopenEnabled
    /\ tx' = FirstSetting
    /\ UNCHANGED <<flags, api, tries, bTransmissionInProgress, queued, getSem,
                   rx, cmdVars, adapter, history>>

\* softOpen gives up at its first failure: "try again later".
SoftOpenSteps == {"timestamp", "baud", "mode"}

SoftOpenSends ==
    /\ tx \in SoftOpenSteps
    /\ SendCommand("TX", tx)
    /\ UNCHANGED <<flags, api, tries, txVars, rx, adapter, history>>

SoftOpenSucceeds ==
    /\ tx \in SoftOpenSteps
    /\ Succeeds("TX")
    /\ tx' = CASE tx = "timestamp" -> AfterTimestamp
               [] tx = "baud"      -> "mode"
               [] tx = "mode"      -> "loop"
    /\ UNCHANGED <<flags, api, tries, bTransmissionInProgress, queued, getSem,
                   rx, adapter, history>>

SoftOpenFails ==
    /\ tx \in SoftOpenSteps
    /\ Fails("TX")
    /\ tx' = "loop"
    /\ UNCHANGED <<flags, api, tries, bTransmissionInProgress, queued, getSem,
                   rx, adapter, history>>

-----------------------------------------------------------------------------
(* The adapter (external).                                                 *)

Executed(code) ==
    [mode |-> CASE code = "OPEN"     -> "normal"
                [] code = "LISTEN"   -> "listen"
                [] code = "LOOPBACK" -> "loopback"
                [] code = "CLOSE"    -> "closed"
                [] OTHER             -> adapter.mode,
     timestamps |-> adapter.timestamps \/ code = "CONFIGURE TIMESTAMP"]

AdapterExecutes ==
    /\ line # <<>>
    /\ line' = Tail(line)
    /\ adapter' = Executed(Head(line).code)
    /\ cmd' = [c \in Callers |-> IF Head(line).by = c THEN "done" ELSE cmd[c]]
    /\ UNCHANGED <<flags, api, tries, txVars, rx, history>>

\* "If power is briken for a can4vscp adapter it will be logically closed."
AdapterRestarts ==
    /\ restarts < MaxRestarts
    /\ restarts' = restarts + 1
    /\ adapter' = Off /\ line' = <<>>
    /\ undisturbed' = FALSE
    /\ UNCHANGED <<flags, api, tries, txVars, rx, cmd, opens, closeConfirmed>>

-----------------------------------------------------------------------------

Api == OpenSends \/ OpenSucceeds \/ OpenFails \/ CloseSends \/ CloseCommandEnds
          \/ CloseFlags \/ ClosePosts \/ CloseJoins \/ StartThreads
SoftOpen == SoftOpenSends \/ SoftOpenSucceeds \/ SoftOpenFails
TxThread == TxLoop \/ TxTransmits \/ TxTimeout \/ TxWakes \/ TxIsActive
               \/ TxIsInactive \/ SoftOpen

Next ==
    \/ Open \/ Close \/ Write \/ RxEnds \/ AdapterExecutes \/ AdapterRestarts
    \/ Api \/ TxThread

Spec == Init /\ [][Next]_vars

\* Threads run and the adapter works through its commands. The test for
\* inactivity does not turn out the wrong way every time. MaxLine, which the
\* code does not have, never keeps the application from sending for good.
Fairness ==
    /\ WF_vars(Api) /\ WF_vars(RxEnds) /\ WF_vars(TxThread)
    /\ SF_vars(OpenSends \/ CloseSends)
    /\ WF_vars(AdapterExecutes) /\ SF_vars(TxIsInactive)
FairSpec == Spec /\ Fairness

\* The application keeps writing, again and again while another message is
\* being sent, but not so fast that the TX thread never finds the list empty.
Traffic ==
    /\ WF_vars(Write) /\ SF_vars(Write /\ tx = "transmit")
    /\ SF_vars(TxWakes /\ queued = 0)

-----------------------------------------------------------------------------
(* What makes a session correct.                                           *)

Frames == [by : Callers \cup {"nobody"},
           code : {"NOOP", "CAPS", "OPEN", "LISTEN", "LOOPBACK", "CLOSE"}]

TypeOK ==
    /\ m_bRun \in BOOLEAN /\ m_bOpen \in BOOLEAN /\ m_bStrict \in BOOLEAN
    /\ config \in Configurations
    /\ api \in OpenSteps \cup {"closed", "start", "open", "close", "flags",
                               "post", "join"}
    /\ tries \in 0..2
    /\ tx \in SoftOpenSteps \cup {"none", "loop", "transmit", "waitGet",
                                  "inactive?", "exited"}
    /\ rx \in {"none", "running", "exited"}
    /\ bTransmissionInProgress \in BOOLEAN
    /\ queued \in Nat /\ getSem \in Nat
    /\ cmd \in [Callers -> {"none", "sent", "done"}]
    /\ line \in Seq(Frames)
    /\ adapter \in [mode : Modes \cup {"closed"}, timestamps : BOOLEAN]
    /\ opens \in Nat /\ restarts \in Nat
    /\ closeConfirmed \in BOOLEAN /\ undisturbed \in BOOLEAN

\* When open() has failed or close() has returned, nothing of the session is
\* left: both threads are gone, the flags are down, no command is waited for.
ClosedIsQuiet ==
    api = "closed" =>
        /\ ~m_bRun /\ ~m_bOpen
        /\ tx \in {"none", "exited"} /\ rx \in {"none", "exited"}
        /\ \A c \in Callers : cmd[c] = "none"

\* Strict mode, "Driver will terminate on all errors" (README.md:138): if
\* open() succeeds the adapter is in the mode asked for and stays in it, as
\* long as it keeps its power, whatever is still on the line from an earlier
\* session. (softOpen that also sets timestamp or baud rate breaks it: see
\* ConfigCommand.)
StrictOpenIsInMode ==
    (/\ api = "open" /\ config.strict /\ undisturbed
     /\ ~(config.reopen /\ FirstSetting # "mode"))
        => adapter.mode = config.mode

\* An adapter that has confirmed CLOSE stays closed until the next open():
\* no command of the session overtakes it or follows it. (With reopen
\* enabled a softOpen that is under way may well follow it.)
ConfirmedCloseHolds ==
    (api = "closed" /\ closeConfirmed /\ ~config.reopen)
        => adapter.mode = "closed"

\* close() returns: no join waits for a thread that is caught in softOpen or
\* in the retransmissions of wait-for-ACK mode.
CloseReturns == (api = "close") ~> (api = "closed")

\* "Reopen the channel in case of adapter being restarted while in operation"
\* (can4vscpobj.h:277): an adapter that has lost its power is opened again.
ReopensAfterRestart ==
    (api = "open" /\ adapter.mode = "closed" /\ config.reopen)
        ~> (adapter.mode = config.mode \/ api # "open")

\* What the code does of it: Traffic is needed. Only a token that finds
\* no message leads to softOpen, one left over by a message that was written
\* while another was on its way; and no message may be in transmission, as
\* one is for good that waits for the ACK of an adapter without power.
ReopensUnderTraffic ==
    (api = "open" /\ adapter.mode = "closed" /\ config.reopen /\ ~config.waitAck)
        ~> (adapter.mode = config.mode \/ api # "open")

\* README.md:136, "The timestamp will be written by the hardware": once
\* open() has succeeded in strict mode the adapter writes timestamps.
HardwareTimestamps ==
    (api = "open" /\ config.strict /\ config.timestamp /\ undisturbed)
        => adapter.timestamps
=============================================================================
