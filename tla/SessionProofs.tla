--------------------------- MODULE SessionProofs ---------------------------
(***************************************************************************)
(* Sessions for every set of configurations, with or without faults, and   *)
(* any number of sessions, restarts, messages and commands on the line:    *)
(* types, what close() leaves behind, and what strict mode promises.       *)
(***************************************************************************)
EXTENDS Session, TLAPS

-----------------------------------------------------------------------------
(* The inductive invariant.                                                *)

\* Flags, threads and callers fit the place where open() or close() is.
Control ==
    /\ api \in {"closed", "start", "post", "join"} => ~m_bRun /\ ~m_bOpen
    /\ api \in {"closed", "start"} =>
           tx \in {"none", "exited"} /\ rx \in {"none", "exited"}
    /\ api \notin OpenSteps \cup {"close"} => cmd["API"] = "none"
    /\ tx \notin SoftOpenSteps => cmd["TX"] = "none"
    /\ tx \in SoftOpenSteps => config.reopen
    /\ tx \in SoftOpenSteps /\ FirstSetting = "mode" => tx = "mode"
    /\ api # "closed" /\ config.strict => m_bStrict

\* A frame that somebody waits for is his only one, and is for the step he
\* is at.
Waited ==
    \A i \in 1..Len(line) :
        /\ line[i].by = "API" => cmd["API"] = "sent" /\ line[i].code = CommandOf(api)
        /\ line[i].by = "TX"  => cmd["TX"] = "sent" /\ line[i].code = CommandOf(tx)
        /\ \A j \in 1..Len(line) :
               line[i].by \in Callers /\ line[j].by = line[i].by => i = j

\* Without reopen nothing follows what open() and close() send, and so the
\* line is empty behind a CLOSE that has been carried out.
CloseIsLast ==
    ~config.reopen =>
        /\ \A i \in 1..Len(line) : line[i].by = "API" => i = Len(line)
        /\ cmd["API"] = "done" => line = <<>>
        /\ cmd["API"] = "done" /\ api = "close" => adapter.mode = "closed"
        /\ closeConfirmed => line = <<>> /\ adapter.mode = "closed"

Confirmed == closeConfirmed => api \in {"flags", "post", "join", "closed"}

\* In strict mode nothing but the command of this mode follows it.
ModeOnly(first) ==
    \A i \in 1..Len(line) : i >= first => line[i].code = ModeCommand[config.mode]

StrictSession ==
    config.strict /\ undisturbed /\ (config.reopen => FirstSetting = "mode")

ModeIsLast ==
    StrictSession =>
        /\ api = "mode" =>
               \A i \in 1..Len(line) : line[i].by = "API" => ModeOnly(i)
        /\ api = "open" \/ (api = "mode" /\ cmd["API"] = "done") =>
               adapter.mode = config.mode /\ ModeOnly(1)

IInv == TypeOK /\ Control /\ Waited /\ Confirmed /\ CloseIsLast /\ ModeIsLast

-----------------------------------------------------------------------------
(* What happens to the line.                                               *)

LEMMA LineEmpty == <<>> \in Seq(Frames)
  OBVIOUS

LEMMA LineAppended ==
    ASSUME NEW q \in Seq(Frames), NEW f \in Frames
    PROVE  /\ Append(q, f) \in Seq(Frames) /\ Len(Append(q, f)) = Len(q) + 1
           /\ \A i \in 1..Len(Append(q, f)) :
                 \/ i \in 1..Len(q) /\ Append(q, f)[i] = q[i]
                 \/ i = Len(q) + 1 /\ Append(q, f)[i] = f
  OBVIOUS

LEMMA LineConsumed ==
    ASSUME NEW q \in Seq(Frames), q # <<>>
    PROVE  /\ Head(q) = q[1] /\ q[1] \in Frames /\ 1 \in 1..Len(q)
           /\ Tail(q) \in Seq(Frames) /\ Len(Tail(q)) = Len(q) - 1
           /\ \A i \in 1..Len(Tail(q)) :
                 i + 1 \in 1..Len(q) /\ Tail(q)[i] = q[i + 1]
  OBVIOUS

LEMMA LineForgotten ==
    ASSUME TypeOK, NEW c \in Callers
    PROVE  /\ Forgotten(c) \in Seq(Frames) /\ Len(Forgotten(c)) = Len(line)
           /\ \A i \in 1..Len(line) :
                 /\ Forgotten(c)[i].code = line[i].code
                 /\ Forgotten(c)[i].by # c
                 /\ Forgotten(c)[i].by \in {line[i].by, "nobody"}
  <1>1. /\ line \in Seq(Frames) /\ Len(line) \in Nat
        /\ \A i \in 1..Len(line) : line[i] \in Frames
    BY DEF TypeOK
  <1>2. \A i \in 1..Len(line) :
           [line[i] EXCEPT !.by = "nobody"] \in Frames
    BY <1>1 DEF Frames
  <1>3. \A i \in 1..Len(line) : Forgotten(c)[i] \in Frames
    BY <1>1, <1>2 DEF Forgotten
  <1>4. DOMAIN Forgotten(c) = 1..Len(line)
    BY DEF Forgotten
  <1>5. Forgotten(c) \in [1..Len(line) -> Frames]
    BY <1>1, <1>2 DEF Forgotten
  <1>6. Forgotten(c) \in Seq(Frames) /\ Len(Forgotten(c)) = Len(line)
    BY <1>1, <1>5
  <1>7. ASSUME NEW i \in 1..Len(line)
        PROVE  /\ Forgotten(c)[i].code = line[i].code
               /\ Forgotten(c)[i].by # c
               /\ Forgotten(c)[i].by \in {line[i].by, "nobody"}
    BY <1>1 DEF Forgotten, Frames, Callers
  <1>. QED
    BY <1>6, <1>7

LEMMA LineLost ==
    ASSUME TypeOK, NEW k \in 1..Len(line)
    PROVE  /\ Lost(k) \in Seq(Frames) /\ Len(Lost(k)) = Len(line) - 1
           /\ \A i \in 1..Len(Lost(k)) :
                 \/ i < k /\ i \in 1..Len(line) /\ Lost(k)[i] = line[i]
                 \/ i >= k /\ i + 1 \in 1..Len(line) /\ Lost(k)[i] = line[i + 1]
  <1>1. /\ line \in Seq(Frames) /\ Len(line) \in Nat
        /\ \A i \in 1..Len(line) : line[i] \in Frames
    BY DEF TypeOK
  <1>2. Lost(k) \in [1..(Len(line) - 1) -> Frames]
    BY <1>1 DEF Lost
  <1>3. Lost(k) \in Seq(Frames) /\ Len(Lost(k)) = Len(line) - 1
    BY <1>1, <1>2
  <1>. QED
    BY <1>1, <1>3 DEF Lost

-----------------------------------------------------------------------------
(* Types.                                                                  *)

LEMMA CommandsAreCodes ==
    ASSUME TypeOK, NEW step \in OpenSteps \cup {"close"}
    PROVE  CommandOf(step) \in {"NOOP", "CAPS", "OPEN", "LISTEN", "LOOPBACK",
                                "CLOSE"}
  BY DEF TypeOK, CommandOf, OpenSteps, ModeCommand, ConfigCommand,
         Configurations, Modes

LEMMA SendTypes ==
    ASSUME TypeOK, NEW c \in Callers, NEW step \in OpenSteps \cup {"close"},
           SendCommand(c, step)
    PROVE  /\ [by |-> c, code |-> CommandOf(step)] \in Frames
           /\ line' \in Seq(Frames)
           /\ cmd' \in [Callers -> {"none", "sent", "done"}]
  <1>1. [by |-> c, code |-> CommandOf(step)] \in Frames
    BY CommandsAreCodes DEF Frames
  <1>. QED
    BY <1>1, LineAppended DEF SendCommand, TypeOK

LEMMA EndTypes ==
    ASSUME TypeOK, NEW c \in Callers, Succeeds(c) \/ Fails(c)
    PROVE  /\ line' \in Seq(Frames)
           /\ cmd' \in [Callers -> {"none", "sent", "done"}]
  BY LineForgotten, LineLost DEF Succeeds, Fails, TypeOK

LEMMA GoesOnTypes ==
    ASSUME TypeOK, api \in OpenSteps
    PROVE  /\ OpenGoesOn \in OpenSteps \cup {"open"}
           /\ AfterFailure \in OpenSteps \cup {"open", "close"}
           /\ FirstSetting \in SoftOpenSteps
           /\ AfterTimestamp \in SoftOpenSteps
  BY DEF OpenGoesOn, AfterFailure, FirstSetting, AfterTimestamp, OpenSteps,
         SoftOpenSteps, TriesAgain, GivesUp

LEMMA TypeStep == TypeOK /\ [Next]_vars => TypeOK'
  <1>. SUFFICES ASSUME TypeOK, [Next]_vars PROVE TypeOK'
    OBVIOUS
  <1>. USE SessionAssumption
       DEF TypeOK, flags, txVars, cmdVars, history, OpenSteps, SoftOpenSteps
  <1>1. CASE UNCHANGED vars
    BY <1>1 DEF vars
  <1>2. CASE Open
    <2>1. config' \in Configurations
      BY <1>2 DEF Open
    <2>2. m_bStrict' \in BOOLEAN
      BY <1>2, <2>1 DEF Open, Configurations
    <2>3. opens' \in Nat /\ tries' \in 0..2 /\ api' = "start"
      BY <1>2 DEF Open
    <2>. QED
      BY <1>2, <2>1, <2>2, <2>3 DEF Open
  <1>3. CASE Close \/ CloseFlags \/ ClosePosts
    <2>1. api' \in {"close", "post", "join"} /\ getSem' \in Nat
      BY <1>3 DEF Close, CloseFlags, ClosePosts
    <2>2. m_bRun' \in BOOLEAN /\ m_bOpen' \in BOOLEAN
      BY <1>3 DEF Close, CloseFlags, ClosePosts
    <2>. QED
      BY <1>3, <2>1, <2>2 DEF Close, CloseFlags, ClosePosts
  <1>19. CASE Write
    BY <1>19 DEF Write
  <1>20. CASE RxEnds
    BY <1>20 DEF RxEnds
  <1>4. CASE StartThreads
    BY <1>4 DEF StartThreads
  <1>5. CASE OpenSends
    BY <1>5, SendTypes DEF OpenSends, Callers
  <1>6. CASE CloseSends
    BY <1>6, SendTypes DEF CloseSends, Callers
  <1>7. CASE SoftOpenSends
    BY <1>7, SendTypes DEF SoftOpenSends, Callers
  <1>8. CASE OpenSucceeds
    <2>1. OpenGoesOn \in OpenSteps \cup {"open"}
      BY <1>8, GoesOnTypes DEF OpenSucceeds
    <2>. QED
      BY <1>8, <2>1, EndTypes DEF OpenSucceeds, Callers
  <1>9. CASE OpenFails
    <2>1. AfterFailure \in OpenSteps \cup {"open", "close"}
      BY <1>9, GoesOnTypes DEF OpenFails
    <2>2. tries' \in 0..2
      BY <1>9 DEF OpenFails, TriesAgain
    <2>. QED
      BY <1>9, <2>1, <2>2, EndTypes DEF OpenFails, Callers
  <1>10. CASE CloseCommandEnds
    <2>1. closeConfirmed' \in BOOLEAN /\ (Succeeds("API") \/ Fails("API"))
      BY <1>10 DEF CloseCommandEnds
    <2>2. "API" \in Callers
      BY DEF Callers
    <2>3. /\ line' \in Seq(Frames)
          /\ cmd' \in [Callers -> {"none", "sent", "done"}]
      BY <2>1, <2>2, EndTypes
    <2>. QED
      BY <1>10, <2>1, <2>3 DEF CloseCommandEnds
  <1>11. CASE CloseJoins
    <2>1. line' \in Seq(Frames)
      <3>1. line' = line \/ line' = <<>>
        BY <1>11 DEF CloseJoins
      <3>. QED
        BY <3>1, LineEmpty
    <2>2. /\ api' = "closed"
          /\ UNCHANGED <<flags, tries, txVars, rx, cmd, adapter, history>>
      BY <1>11 DEF CloseJoins
    <2>. QED
      BY <2>1, <2>2
  <1>12. CASE TxLoop \/ TxTimeout \/ TxWakes \/ TxIsActive
    BY <1>12 DEF TxLoop, TxTimeout, TxWakes, TxIsActive
  <1>13. CASE TxTransmits
    <2>1. queued' \in Nat /\ bTransmissionInProgress' \in BOOLEAN
      <3>1. CASE UNCHANGED <<queued, bTransmissionInProgress>>
        BY <3>1
      <3>2. CASE queued > 0 /\ queued' = queued - 1
                    /\ bTransmissionInProgress' = FALSE
        <4>1. queued' \in Nat
          BY <3>2
        <4>2. bTransmissionInProgress' \in BOOLEAN
          BY <3>2
        <4>. QED
          BY <4>1, <4>2
      <3>3. CASE bTransmissionInProgress' = TRUE /\ UNCHANGED queued
        BY <3>3
      <3>. QED
        BY <1>13, <3>1, <3>2, <3>3 DEF TxTransmits
    <2>2. /\ tx' = "loop"
          /\ UNCHANGED <<flags, api, tries, getSem, rx, cmdVars, adapter,
                         history>>
      BY <1>13 DEF TxTransmits
    <2>. QED
      BY <2>1, <2>2
  <1>14. CASE TxIsInactive
    BY <1>14 DEF TxIsInactive, FirstSetting, AfterTimestamp
  <1>15. CASE SoftOpenSucceeds
    <2>1. tx' \in SoftOpenSteps \cup {"loop"}
      BY <1>15 DEF SoftOpenSucceeds, AfterTimestamp
    <2>. QED
      BY <1>15, <2>1, EndTypes DEF SoftOpenSucceeds, Callers
  <1>16. CASE SoftOpenFails
    BY <1>16, EndTypes DEF SoftOpenFails, Callers
  <1>17. CASE AdapterExecutes
    <2>1. line' \in Seq(Frames)
      BY <1>17, LineConsumed DEF AdapterExecutes
    <2>2. cmd' \in [Callers -> {"none", "sent", "done"}]
      BY <1>17 DEF AdapterExecutes
    <2>3. adapter' \in [mode : Modes \cup {"closed"}, timestamps : BOOLEAN]
      BY <1>17 DEF AdapterExecutes, Executed, Modes
    <2>. QED
      BY <1>17, <2>1, <2>2, <2>3 DEF AdapterExecutes
  <1>18. CASE AdapterRestarts
    <2>1. adapter' \in [mode : Modes \cup {"closed"}, timestamps : BOOLEAN]
      BY <1>18 DEF AdapterRestarts, Off
    <2>2. /\ line' \in Seq(Frames) /\ restarts' \in Nat
          /\ undisturbed' \in BOOLEAN
      <3>1. line' = <<>>
        BY <1>18 DEF AdapterRestarts
      <3>2. restarts' \in Nat
        BY <1>18 DEF AdapterRestarts
      <3>3. undisturbed' \in BOOLEAN
        BY <1>18 DEF AdapterRestarts
      <3>. QED
        BY <3>1, <3>2, <3>3, LineEmpty
    <2>3. UNCHANGED <<flags, api, tries, txVars, rx, cmd, opens,
                      closeConfirmed>>
      BY <1>18 DEF AdapterRestarts
    <2>. QED
      BY <2>1, <2>2, <2>3
  <1>. QED
    BY <1>1, <1>2, <1>3, <1>4, <1>5, <1>6, <1>7, <1>8, <1>9, <1>10, <1>11,
       <1>12, <1>13, <1>14, <1>15, <1>16, <1>17, <1>18, <1>19, <1>20
       DEF Next, Api, TxThread, SoftOpen

-----------------------------------------------------------------------------
(* Control.                                                                *)

LEMMA CommandEnds ==
    ASSUME TypeOK, NEW c \in Callers, Succeeds(c) \/ Fails(c)
    PROVE  cmd[c] # "none" /\ cmd' = [cmd EXCEPT ![c] = "none"]
  BY DEF TypeOK, Succeeds, Fails

LEMMA ControlStep == TypeOK /\ Control /\ Waited /\ [Next]_vars => Control'
  <1>. SUFFICES ASSUME TypeOK, Control, Waited, [Next]_vars PROVE Control'
    OBVIOUS
  <1>. USE DEF TypeOK, Control, flags, txVars, cmdVars, history, OpenSteps,
               SoftOpenSteps, Callers, FirstSetting, AfterTimestamp
  <1>1. CASE UNCHANGED vars
    BY <1>1 DEF vars
  <1>2. CASE Open
    BY <1>2 DEF Open
  <1>3. CASE Close
    BY <1>3 DEF Close
  <1>4. CASE CloseFlags
    BY <1>4 DEF CloseFlags
  <1>5. CASE ClosePosts
    BY <1>5 DEF ClosePosts
  <1>6. CASE StartThreads
    BY <1>6 DEF StartThreads
  <1>7. CASE OpenSends
    BY <1>7 DEF OpenSends, SendCommand
  <1>8. CASE CloseSends
    BY <1>8 DEF CloseSends, SendCommand
  <1>9. CASE SoftOpenSends
    BY <1>9 DEF SoftOpenSends, SendCommand
  <1>10. CASE OpenSucceeds
    <2>1. api' \in OpenSteps \cup {"open"}
      BY <1>10, GoesOnTypes DEF OpenSucceeds
    <2>2. cmd' = [cmd EXCEPT !["API"] = "none"]
      BY <1>10, CommandEnds DEF OpenSucceeds
    <2>. QED
      BY <1>10, <2>1, <2>2 DEF OpenSucceeds
  <1>11. CASE OpenFails
    <2>1. api' \in OpenSteps \cup {"open", "close"}
      BY <1>11, GoesOnTypes DEF OpenFails
    <2>2. cmd' = [cmd EXCEPT !["API"] = "none"]
      BY <1>11, CommandEnds DEF OpenFails
    <2>. QED
      BY <1>11, <2>1, <2>2 DEF OpenFails
  <1>12. CASE CloseCommandEnds
    <2>1. cmd' = [cmd EXCEPT !["API"] = "none"]
      BY <1>12, CommandEnds DEF CloseCommandEnds
    <2>. QED
      BY <1>12, <2>1 DEF CloseCommandEnds
  <1>13. CASE CloseJoins
    BY <1>13 DEF CloseJoins, Joined
  <1>14. CASE Write \/ RxEnds
    BY <1>14 DEF Write, RxEnds
  <1>15. CASE TxLoop \/ TxTimeout \/ TxWakes \/ TxIsActive
    BY <1>15 DEF TxLoop, TxTimeout, TxWakes, TxIsActive
  <1>16. CASE TxTransmits
    BY <1>16 DEF TxTransmits
  <1>17. CASE TxIsInactive
    BY <1>17 DEF TxIsInactive, ReopenEnabled
  <1>18. CASE SoftOpenSucceeds
    <2>1. cmd' = [cmd EXCEPT !["TX"] = "none"]
      BY <1>18, CommandEnds DEF SoftOpenSucceeds
    <2>2. /\ tx' \in {"baud", "mode", "loop"}
          /\ FirstSetting = "mode" => tx' = "loop"
      BY <1>18 DEF SoftOpenSucceeds
    <2>. QED
      BY <1>18, <2>1, <2>2 DEF SoftOpenSucceeds
  <1>19. CASE SoftOpenFails
    <2>1. cmd' = [cmd EXCEPT !["TX"] = "none"]
      BY <1>19, CommandEnds DEF SoftOpenFails
    <2>. QED
      BY <1>19, <2>1 DEF SoftOpenFails
  <1>20. CASE AdapterExecutes
    <2>1. Head(line).by \in Callers => cmd[Head(line).by] = "sent"
      BY <1>20, LineConsumed DEF AdapterExecutes, Waited
    <2>2. \A c \in Callers : cmd[c] = "none" => cmd'[c] = "none"
      BY <1>20, <2>1 DEF AdapterExecutes
    <2>. QED
      BY <1>20, <2>2 DEF AdapterExecutes
  <1>21. CASE AdapterRestarts
    BY <1>21 DEF AdapterRestarts
  <1>. QED
    BY <1>1, <1>2, <1>3, <1>4, <1>5, <1>6, <1>7, <1>8, <1>9, <1>10, <1>11,
       <1>12, <1>13, <1>14, <1>15, <1>16, <1>17, <1>18, <1>19, <1>20, <1>21
       DEF Next, Api, TxThread, SoftOpen

-----------------------------------------------------------------------------
(* Frames that somebody waits for.                                         *)

\* A step that leaves line and commands alone, and open(), close() and
\* softOpen where they are while they wait.
LEMMA WaitedStays ==
    ASSUME TypeOK, Waited, UNCHANGED <<line, cmd>>,
           cmd["API"] = "none" \/ UNCHANGED <<api, config>>,
           cmd["TX"] = "none" \/ UNCHANGED <<tx, config>>
    PROVE  Waited'
  BY DEF Waited, CommandOf, ModeCommand, TypeOK

LEMMA WaitedSend ==
    ASSUME TypeOK, Waited, UNCHANGED <<api, tx, config>>,
           NEW c \in Callers, NEW step \in OpenSteps \cup {"close"},
           SendCommand(c, step),
           c = "API" => step = api,
           c = "TX" => step = tx
    PROVE  Waited'
  <1>. DEFINE f == [by |-> c, code |-> CommandOf(step)]
  <1>1. line \in Seq(Frames) /\ f \in Frames /\ line' = Append(line, f)
    BY SendTypes DEF TypeOK, SendCommand
  <1>2. cmd[c] = "none" /\ cmd' = [cmd EXCEPT ![c] = "sent"]
    BY DEF SendCommand
  <1>3. \A i \in 1..Len(line) : line[i].by # c
    BY <1>2 DEF Waited, Callers
  <1>4. /\ Len(line') = Len(line) + 1
        /\ \A i \in 1..Len(line') :
              \/ i \in 1..Len(line) /\ line'[i] = line[i]
              \/ i = Len(line) + 1 /\ line'[i] = f
    BY <1>1, LineAppended
  <1>5. f.by = c /\ f.code = CommandOf(step)
    OBVIOUS
  <1>6. \A d \in Callers : cmd[d] = "sent" => cmd'[d] = "sent"
    BY <1>2 DEF TypeOK
  <1>7. cmd'[c] = "sent"
    BY <1>2 DEF TypeOK
  <1>8. CommandOf(api)' = CommandOf(api) /\ CommandOf(tx)' = CommandOf(tx)
    BY DEF CommandOf, ModeCommand
  <1>. HIDE DEF f
  <1>9. ASSUME NEW i \in 1..Len(line')
        PROVE  /\ line'[i].by = "API" =>
                     cmd'["API"] = "sent" /\ line'[i].code = CommandOf(api)
               /\ line'[i].by = "TX" =>
                     cmd'["TX"] = "sent" /\ line'[i].code = CommandOf(tx)
    <2>1. CASE i \in 1..Len(line) /\ line'[i] = line[i]
      BY <2>1, <1>6 DEF Waited, Callers
    <2>2. CASE line'[i] = f
      BY <2>2, <1>5, <1>7 DEF Callers
    <2>. QED
      BY <1>4, <2>1, <2>2
  <1>10. ASSUME NEW i \in 1..Len(line'), NEW j \in 1..Len(line'),
                line'[i].by \in Callers, line'[j].by = line'[i].by
         PROVE  i = j
    BY <1>10, <1>3, <1>4, <1>5 DEF Waited
  <1>. QED
    BY <1>8, <1>9, <1>10 DEF Waited

LEMMA WaitedEnd ==
    ASSUME TypeOK, Waited, config' = config,
           NEW c \in Callers, Succeeds(c) \/ Fails(c),
           c = "API" => tx' = tx,
           c = "TX" => api' = api
    PROVE  Waited'
  <1>1. cmd' = [cmd EXCEPT ![c] = "none"]
    BY CommandEnds
  <1>2. \A d \in Callers : d # c => cmd'[d] = cmd[d]
    BY <1>1 DEF TypeOK
  <1>3. /\ c # "API" => CommandOf(api)' = CommandOf(api)
        /\ c # "TX"  => CommandOf(tx)' = CommandOf(tx)
    BY DEF CommandOf, ModeCommand, Callers
  <1>4. CASE UNCHANGED line /\ \A i \in 1..Len(line) : line[i].by # c
    BY <1>2, <1>3, <1>4 DEF Waited, Callers
  <1>5. CASE line' = Forgotten(c)
    <2>1. /\ Len(line') = Len(line)
          /\ \A i \in 1..Len(line) :
                /\ line'[i].code = line[i].code
                /\ line'[i].by # c
                /\ line'[i].by \in {line[i].by, "nobody"}
      BY <1>5, LineForgotten
    <2>. QED
      BY <1>2, <1>3, <2>1 DEF Waited, Callers
  <1>6. CASE \E k \in 1..Len(line) : line[k].by = c /\ line' = Lost(k)
    <2>1. PICK k \in 1..Len(line) : line[k].by = c /\ line' = Lost(k)
      BY <1>6
    <2>2. /\ Len(line') = Len(line) - 1
          /\ \A i \in 1..Len(line') :
                \/ i < k /\ i \in 1..Len(line) /\ line'[i] = line[i]
                \/ i >= k /\ i + 1 \in 1..Len(line) /\ line'[i] = line[i + 1]
      <3>1. /\ Len(Lost(k)) = Len(line) - 1
            /\ \A i \in 1..Len(Lost(k)) :
                 \/ i < k /\ i \in 1..Len(line) /\ Lost(k)[i] = line[i]
                 \/ i >= k /\ i + 1 \in 1..Len(line) /\ Lost(k)[i] = line[i + 1]
        BY LineLost
      <3>. QED
        BY <2>1, <3>1
    <2>3. Len(line) \in Nat
      BY DEF TypeOK
    <2>4. ASSUME NEW i \in 1..Len(line')
          PROVE  \E m \in 1..Len(line) \ {k} :
                    line'[i] = line[m] /\ m = (IF i < k THEN i ELSE i + 1)
      BY <2>2, <2>3
    <2>5. \A m \in 1..Len(line) \ {k} : line[m].by # c
      BY <2>1 DEF Waited
    <2>6. ASSUME NEW i \in 1..Len(line')
          PROVE  /\ line'[i].by # c
                 /\ line'[i].by = "API" =>
                       cmd'["API"] = "sent" /\ line'[i].code = CommandOf(api)'
                 /\ line'[i].by = "TX" =>
                       cmd'["TX"] = "sent" /\ line'[i].code = CommandOf(tx)'
      BY <1>2, <1>3, <2>4, <2>5 DEF Waited, Callers
    <2>7. ASSUME NEW i \in 1..Len(line'), NEW j \in 1..Len(line'),
                 line'[i].by \in Callers, line'[j].by = line'[i].by
          PROVE  i = j
      BY <2>3, <2>4, <2>7 DEF Waited
    <2>. QED
      BY <2>6, <2>7 DEF Waited
  <1>. QED
    BY <1>4, <1>5, <1>6 DEF Succeeds, Fails, Waited, Callers

LEMMA WaitedStep == TypeOK /\ Control /\ Waited /\ [Next]_vars => Waited'
  <1>. SUFFICES ASSUME TypeOK, Control, Waited, [Next]_vars PROVE Waited'
    OBVIOUS
  <1>. USE DEF flags, txVars, cmdVars, history
  <1>1. CASE \/ UNCHANGED vars \/ Open \/ StartThreads \/ Close \/ CloseFlags
             \/ ClosePosts
    <2>1. /\ UNCHANGED <<line, cmd>>
          /\ cmd["API"] = "none" \/ UNCHANGED <<api, config>>
          /\ cmd["TX"] = "none" \/ UNCHANGED <<tx, config>>
      BY <1>1 DEF vars, Control, Open, StartThreads, Close, CloseFlags,
                  ClosePosts, OpenSteps, SoftOpenSteps
    <2>. QED
      BY <2>1, WaitedStays
  <1>2. CASE \/ Write \/ RxEnds \/ TxLoop \/ TxTransmits \/ TxTimeout
             \/ TxWakes \/ TxIsActive \/ TxIsInactive
    <2>1. /\ UNCHANGED <<line, cmd, api, config>>
          /\ cmd["TX"] = "none" \/ UNCHANGED tx
      BY <1>2 DEF Control, SoftOpenSteps, Write, RxEnds, TxLoop, TxTransmits,
                  TxTimeout, TxWakes, TxIsActive, TxIsInactive
    <2>. QED
      BY <2>1, WaitedStays
  <1>3. CASE OpenSends
    BY <1>3, WaitedSend DEF OpenSends, Callers
  <1>4. CASE CloseSends
    BY <1>4, WaitedSend DEF CloseSends, Callers
  <1>5. CASE SoftOpenSends
    BY <1>5, WaitedSend DEF SoftOpenSends, Callers, SoftOpenSteps, OpenSteps
  <1>6. CASE OpenSucceeds \/ OpenFails \/ CloseCommandEnds
    <2>1. /\ Succeeds("API") \/ Fails("API")
          /\ UNCHANGED <<tx, config>>
      BY <1>6 DEF OpenSucceeds, OpenFails, CloseCommandEnds
    <2>2. "API" \in Callers /\ "API" # "TX"
      BY DEF Callers
    <2>. QED
      BY <2>1, <2>2, WaitedEnd
  <1>7. CASE SoftOpenSucceeds \/ SoftOpenFails
    <2>1. /\ Succeeds("TX") \/ Fails("TX")
          /\ UNCHANGED <<api, config>>
      BY <1>7 DEF SoftOpenSucceeds, SoftOpenFails
    <2>2. "TX" \in Callers /\ "API" # "TX"
      BY DEF Callers
    <2>. QED
      BY <2>1, <2>2, WaitedEnd
  <1>8. CASE CloseJoins \/ AdapterRestarts
    <2>1. CASE line' = <<>>
      BY <2>1 DEF Waited
    <2>2. CASE CloseJoins /\ UNCHANGED line
      BY <2>2, WaitedStays DEF CloseJoins, Control, OpenSteps
    <2>. QED
      BY <1>8, <2>1, <2>2 DEF CloseJoins, AdapterRestarts
  <1>9. CASE AdapterExecutes
    <2>1. /\ Head(line) = line[1] /\ 1 \in 1..Len(line)
          /\ Len(line') = Len(line) - 1 /\ Len(line) \in Nat
          /\ \A i \in 1..Len(line') :
                i + 1 \in 1..Len(line) /\ line'[i] = line[i + 1]
      BY <1>9, LineConsumed DEF AdapterExecutes, TypeOK
    <2>2. \A i \in 1..Len(line') :
             line'[i].by \in Callers => line'[i].by # Head(line).by
      BY <2>1 DEF Waited
    <2>3. \A c \in Callers : c # Head(line).by => cmd'[c] = cmd[c]
      BY <1>9 DEF AdapterExecutes
    <2>4. CommandOf(api)' = CommandOf(api) /\ CommandOf(tx)' = CommandOf(tx)
      BY <1>9 DEF AdapterExecutes, CommandOf, ModeCommand
    <2>5. ASSUME NEW i \in 1..Len(line')
          PROVE  /\ line'[i].by = "API" =>
                       cmd'["API"] = "sent" /\ line'[i].code = CommandOf(api)'
                 /\ line'[i].by = "TX" =>
                       cmd'["TX"] = "sent" /\ line'[i].code = CommandOf(tx)'
      BY <2>1, <2>2, <2>3, <2>4 DEF Waited, Callers
    <2>6. ASSUME NEW i \in 1..Len(line'), NEW j \in 1..Len(line'),
                 line'[i].by \in Callers, line'[j].by = line'[i].by
          PROVE  i = j
      BY <2>1, <2>6 DEF Waited
    <2>. QED
      BY <2>5, <2>6 DEF Waited
  <1>. QED
    BY <1>1, <1>2, <1>3, <1>4, <1>5, <1>6, <1>7, <1>8, <1>9
       DEF Next, Api, TxThread, SoftOpen

-----------------------------------------------------------------------------
(* Nothing follows CLOSE.                                                  *)

LEMMA ConfirmedStep == TypeOK /\ Confirmed /\ [Next]_vars => Confirmed'
  <1>. SUFFICES ASSUME TypeOK, Confirmed, [Next]_vars PROVE Confirmed'
    OBVIOUS
  <1>. USE DEF Confirmed, flags, txVars, cmdVars, history, OpenSteps
  <1>1. CASE UNCHANGED closeConfirmed
    BY <1>1 DEF Next, Api, TxThread, SoftOpen, vars, Open, Close, Write, RxEnds,
        AdapterExecutes, AdapterRestarts, OpenSends, OpenSucceeds, OpenFails,
        CloseSends, CloseCommandEnds, CloseFlags, ClosePosts, CloseJoins,
        StartThreads, TxLoop, TxTransmits, TxTimeout, TxWakes, TxIsActive,
        TxIsInactive, SoftOpenSends, SoftOpenSucceeds, SoftOpenFails
  <1>2. CASE Open \/ CloseCommandEnds
    BY <1>2 DEF Open, CloseCommandEnds
  <1>3. Open \/ CloseCommandEnds \/ UNCHANGED closeConfirmed
    BY DEF Next, Api, TxThread, SoftOpen, vars, Close, Write, RxEnds,
        AdapterExecutes, AdapterRestarts, OpenSends, OpenSucceeds, OpenFails,
        CloseSends, CloseFlags, ClosePosts, CloseJoins,
        StartThreads, TxLoop, TxTransmits, TxTimeout, TxWakes, TxIsActive,
        TxIsInactive, SoftOpenSends, SoftOpenSucceeds, SoftOpenFails
  <1>. QED
    BY <1>1, <1>2, <1>3

\* A command that has ended leaves no frame that somebody waits for.
LEMMA NoneIsLeft ==
    ASSUME TypeOK, Waited', NEW c \in Callers, Succeeds(c) \/ Fails(c)
    PROVE  \A i \in 1..Len(line') : line'[i].by # c
  <1>1. cmd'[c] = "none"
    BY CommandEnds DEF TypeOK
  <1>. QED
    BY <1>1 DEF Waited, Callers

LEMMA CloseStep ==
    TypeOK /\ Control /\ Waited /\ Waited' /\ Confirmed /\ CloseIsLast
        /\ [Next]_vars => CloseIsLast'
  <1>. SUFFICES ASSUME TypeOK, Control, Waited, Waited', Confirmed, CloseIsLast,
                       [Next]_vars, ~config'.reopen
                PROVE  CloseIsLast'
    BY DEF CloseIsLast
  <1>. USE DEF CloseIsLast, flags, txVars, cmdVars, history
  <1>1. CASE Open
    <2>1. cmd'["API"] = "none" /\ ~closeConfirmed' /\ UNCHANGED line
      BY <1>1 DEF Open, Control, OpenSteps
    <2>. QED
      BY <2>1 DEF Waited
  <1>2. CASE OpenSends \/ CloseSends
    <2>1. ~closeConfirmed /\ UNCHANGED <<closeConfirmed, adapter, api, config>>
      BY <1>2 DEF OpenSends, CloseSends, Confirmed, OpenSteps
    <2>2. /\ cmd["API"] = "none" /\ cmd'["API"] = "sent"
          /\ \E f : line' = Append(line, f)
      BY <1>2 DEF OpenSends, CloseSends, SendCommand, TypeOK, Callers
    <2>3. \A i \in 1..Len(line) : line[i].by # "API"
      BY <2>2 DEF Waited
    <2>4. \A i \in 1..Len(line') : line'[i].by = "API" => i = Len(line')
      BY <2>2, <2>3 DEF TypeOK
    <2>. QED
      BY <2>1, <2>2, <2>4
  <1>3. CASE \/ OpenSucceeds \/ OpenFails
             \/ CloseCommandEnds /\ Fails("API") /\ UNCHANGED closeConfirmed
    <2>1. /\ Succeeds("API") \/ Fails("API")
          /\ ~closeConfirmed'
      BY <1>3 DEF OpenSucceeds, OpenFails, CloseCommandEnds, Confirmed,
                  OpenSteps
    <2>2. /\ \A i \in 1..Len(line') : line'[i].by # "API"
          /\ cmd'["API"] = "none"
      BY <2>1, NoneIsLeft, CommandEnds DEF TypeOK, Callers
    <2>. QED
      BY <2>1, <2>2
  <1>4. CASE CloseCommandEnds /\ Succeeds("API")
    <2>1. /\ cmd["API"] = "done" /\ api = "close"
          /\ UNCHANGED <<line, adapter, config>> /\ cmd'["API"] = "none"
      BY <1>4 DEF CloseCommandEnds, Succeeds, TypeOK, Callers
    <2>2. line = <<>> /\ adapter.mode = "closed"
      BY <2>1
    <2>. QED
      BY <2>1, <2>2
  <1>5. CASE SoftOpen \/ TxIsInactive
    <2>1. config.reopen /\ UNCHANGED config
      BY <1>5 DEF SoftOpen, SoftOpenSends, SoftOpenSucceeds, SoftOpenFails,
                  TxIsInactive, ReopenEnabled, Control
    <2>. QED
      BY <2>1
  <1>6. CASE AdapterExecutes
    <2>0. UNCHANGED <<config, api, closeConfirmed>>
      BY <1>6 DEF AdapterExecutes
    <2>1. line # <<>> /\ ~closeConfirmed /\ cmd["API"] # "done"
      BY <1>6, <2>0 DEF AdapterExecutes
    <2>2. /\ Head(line) = line[1] /\ 1 \in 1..Len(line)
          /\ Len(line') = Len(line) - 1 /\ Len(line) \in Nat
          /\ line' \in Seq(Frames)
          /\ \A i \in 1..Len(line') :
                i + 1 \in 1..Len(line) /\ line'[i] = line[i + 1]
      BY <1>6, LineConsumed DEF AdapterExecutes, TypeOK
    <2>3. CASE Head(line).by = "API"
      <3>1. Len(line) = 1
        BY <2>0, <2>2, <2>3
      <3>2. line' = <<>>
        BY <2>2, <3>1
      <3>3. api = "close" => adapter'.mode = "closed"
        BY <1>6, <2>2, <2>3 DEF AdapterExecutes, Executed, Waited, CommandOf
      <3>. QED
        BY <2>0, <2>1, <3>2, <3>3
    <2>4. CASE Head(line).by # "API"
      <3>1. cmd'["API"] = cmd["API"]
        BY <1>6, <2>4 DEF AdapterExecutes, Callers
      <3>2. \A i \in 1..Len(line') : line'[i].by = "API" => i = Len(line')
        BY <2>0, <2>2
      <3>. QED
        BY <2>0, <2>1, <3>1, <3>2
    <2>. QED
      BY <2>3, <2>4
  <1>7. CASE AdapterRestarts
    BY <1>7 DEF AdapterRestarts, Off
  <1>8. CASE CloseJoins
    <2>1. UNCHANGED <<config, adapter, cmd, closeConfirmed>>
          /\ (line' = line \/ line' = <<>>) /\ api = "join" /\ api' = "closed"
      BY <1>8 DEF CloseJoins
    <2>. QED
      BY <2>1
  <1>9. CASE \/ UNCHANGED vars \/ StartThreads \/ Close \/ CloseFlags
             \/ ClosePosts \/ Write \/ RxEnds \/ TxLoop \/ TxTransmits
             \/ TxTimeout \/ TxWakes \/ TxIsActive
    <2>1. /\ UNCHANGED <<config, line, cmd, adapter, closeConfirmed>>
          /\ api' = "close" => api = "close" \/ cmd["API"] = "none"
      BY <1>9 DEF vars, StartThreads, Close, CloseFlags, ClosePosts, Write,
                  RxEnds, TxLoop, TxTransmits, TxTimeout, TxWakes, TxIsActive,
                  Control, OpenSteps
    <2>. QED
      BY <2>1
  <1>10. CASE CloseCommandEnds
    BY <1>3, <1>4, <1>10 DEF CloseCommandEnds
  <1>. QED
    BY <1>1, <1>2, <1>3, <1>5, <1>6, <1>7, <1>8, <1>9, <1>10
       DEF Next, Api, TxThread

-----------------------------------------------------------------------------
(* Strict mode.                                                            *)

\* The adapter that carries out the command of a mode is in this mode.
LEMMA ModeIsSet ==
    ASSUME TypeOK
    PROVE  Executed(ModeCommand[config.mode]).mode = config.mode
  BY DEF TypeOK, Executed, ModeCommand, Configurations, Modes

LEMMA ModeStep ==
    TypeOK /\ Control /\ Waited /\ Waited' /\ ModeIsLast /\ [Next]_vars
        => ModeIsLast'
  <1>. SUFFICES ASSUME TypeOK, Control, Waited, Waited', ModeIsLast,
                       [Next]_vars, StrictSession', api' \in {"mode", "open"}
                PROVE  ModeIsLast'
    BY DEF ModeIsLast
  <1>. USE DEF flags, txVars, cmdVars, history
  <1>. DEFINE M == ModeCommand[config.mode]
  <1>1. CASE Open \/ StartThreads \/ Close \/ CloseSends \/ CloseFlags
             \/ ClosePosts \/ CloseJoins \/ CloseCommandEnds
    BY <1>1 DEF Open, StartThreads, Close, CloseSends, CloseFlags, ClosePosts,
                CloseJoins, CloseCommandEnds
  <1>2. CASE AdapterRestarts
    BY <1>2 DEF AdapterRestarts, StrictSession
  <1>3. CASE ~(Open \/ AdapterRestarts)
    <2>1. UNCHANGED <<config, undisturbed>>
      BY <1>3 DEF Next, Api, TxThread, SoftOpen, vars, Close, Write, RxEnds,
          AdapterExecutes, OpenSends, OpenSucceeds, OpenFails, CloseSends,
          CloseCommandEnds, CloseFlags, ClosePosts, CloseJoins, StartThreads,
          TxLoop, TxTransmits, TxTimeout, TxWakes, TxIsActive, TxIsInactive,
          SoftOpenSends, SoftOpenSucceeds, SoftOpenFails
    <2>2. /\ StrictSession /\ M' = M
          /\ config.reopen => FirstSetting = "mode"
      BY <2>1 DEF StrictSession, FirstSetting, AfterTimestamp, ModeCommand
    <2>3. /\ api = "mode" => \A i \in 1..Len(line) :
                                line[i].by = "API" => ModeOnly(i)
          /\ api = "open" \/ (api = "mode" /\ cmd["API"] = "done") =>
                 adapter.mode = config.mode /\ ModeOnly(1)
      BY <2>2 DEF ModeIsLast
    <2>4. CASE OpenSends
      <3>1. api = "mode" /\ api' = "mode" /\ SendCommand("API", "mode")
        BY <2>4 DEF OpenSends, OpenSteps
      <3>2. /\ cmd["API"] = "none" /\ cmd'["API"] = "sent"
            /\ line' = Append(line, [by |-> "API", code |-> CommandOf("mode")])
        BY <3>1 DEF SendCommand, TypeOK, Callers
      <3>3. CommandOf("mode") = M
        BY DEF CommandOf
      <3>4. \A i \in 1..Len(line) : line[i].by # "API"
        BY <3>2 DEF Waited
      <3>5. \A i \in 1..Len(line') : line'[i].by = "API" =>
               i = Len(line') /\ line'[i].code = M
        BY <3>2, <3>3, <3>4 DEF TypeOK
      <3>6. \A i \in 1..Len(line') : line'[i].by = "API" => ModeOnly(i)'
        BY <2>2, <3>5 DEF ModeOnly
      <3>. QED
        BY <3>1, <3>2, <3>6 DEF ModeIsLast
    <2>5. CASE SoftOpenSends
      <3>1. /\ tx = "mode" /\ SendCommand("TX", "mode")
            /\ UNCHANGED <<api, adapter>>
        BY <2>2, <2>5 DEF SoftOpenSends, Control
      <3>2. /\ cmd'["API"] = cmd["API"]
            /\ line' = Append(line, [by |-> "TX", code |-> M])
        BY <3>1 DEF SendCommand, TypeOK, Callers, CommandOf
      <3>3. /\ Len(line') = Len(line) + 1 /\ Len(line) \in Nat
            /\ \A i \in 1..Len(line') :
                  \/ i \in 1..Len(line) /\ line'[i] = line[i]
                  \/ i = Len(line) + 1 /\ line'[i].by = "TX"
                                      /\ line'[i].code = M
        BY <3>2 DEF TypeOK
      <3>4. \A i \in 1..Len(line) : ModeOnly(i) => ModeOnly(i)'
        BY <2>2, <3>3 DEF ModeOnly
      <3>5. ModeOnly(1) => ModeOnly(1)'
        BY <2>2, <3>3 DEF ModeOnly
      <3>6. \A i \in 1..Len(line') : line'[i].by = "API" =>
               i \in 1..Len(line) /\ line[i].by = "API"
        BY <3>3
      <3>. QED
        BY <2>1, <2>3, <3>1, <3>2, <3>4, <3>5, <3>6 DEF ModeIsLast
    <2>6. CASE OpenSucceeds
      <3>1. /\ \A i \in 1..Len(line') : line'[i].by # "API"
            /\ cmd'["API"] = "none" /\ cmd["API"] = "done"
            /\ UNCHANGED <<line, adapter>>
        BY <2>6, NoneIsLeft, CommandEnds
           DEF OpenSucceeds, Succeeds, TypeOK, Callers
      <3>2. CASE api' = "mode"
        BY <3>1, <3>2 DEF ModeIsLast
      <3>3. CASE api' = "open"
        <4>1. api = "mode"
          BY <2>6, <3>3 DEF OpenSucceeds, OpenGoesOn, OpenSteps, FirstSetting,
                            AfterTimestamp
        <4>2. adapter'.mode = config'.mode /\ ModeOnly(1)'
          BY <2>1, <2>2, <2>3, <3>1, <4>1 DEF ModeOnly
        <4>. QED
          BY <3>1, <3>3, <4>2 DEF ModeIsLast
      <3>. QED
        BY <3>2, <3>3
    <2>7. CASE OpenFails
      <3>1. /\ \A i \in 1..Len(line') : line'[i].by # "API"
            /\ cmd'["API"] = "none"
        BY <2>7, NoneIsLeft, CommandEnds DEF OpenFails, TypeOK, Callers
      <3>2. m_bStrict
        BY <2>2, <2>7 DEF Control, StrictSession, OpenFails, OpenSteps
      <3>3. api' # "open"
        BY <2>7, <3>2 DEF OpenFails, AfterFailure, TriesAgain, GivesUp,
                          OpenGoesOn, OpenSteps, FirstSetting, AfterTimestamp
      <3>. QED
        BY <3>1, <3>3 DEF ModeIsLast
    <2>8. CASE SoftOpenSucceeds
      <3>1. UNCHANGED <<line, api, adapter>> /\ cmd'["API"] = cmd["API"]
        BY <2>8, CommandEnds DEF SoftOpenSucceeds, Succeeds, TypeOK, Callers
      <3>. QED
        BY <2>1, <2>2, <2>3, <3>1 DEF ModeIsLast, ModeOnly
    <2>9. CASE SoftOpenFails
      <3>1. UNCHANGED <<api, adapter>> /\ cmd'["API"] = cmd["API"]
        BY <2>9, CommandEnds DEF SoftOpenFails, TypeOK, Callers
      <3>2. CASE line' = Forgotten("TX")
        <4>1. /\ Len(line') = Len(line)
              /\ \A i \in 1..Len(line) :
                    /\ line'[i].code = line[i].code
                    /\ line'[i].by \in {line[i].by, "nobody"}
          BY <3>2, LineForgotten DEF Callers
        <4>2. \A i \in Nat : ModeOnly(i) => ModeOnly(i)'
          BY <2>2, <4>1 DEF ModeOnly
        <4>3. \A i \in 1..Len(line') : line'[i].by = "API" => line[i].by = "API"
          BY <4>1
        <4>. QED
          BY <2>1, <2>3, <3>1, <4>1, <4>2, <4>3 DEF ModeIsLast
      <3>3. CASE \E k \in 1..Len(line) : line' = Lost(k)
        <4>1. PICK k \in 1..Len(line) : line' = Lost(k)
          BY <3>3
        <4>2. \A i \in 1..Len(line') :
                \/ i < k /\ i \in 1..Len(line) /\ line'[i] = line[i]
                \/ i >= k /\ i + 1 \in 1..Len(line) /\ line'[i] = line[i + 1]
          BY <4>1, LineLost
        <4>3. Len(line') \in Nat /\ Len(line) \in Nat
          BY <4>1, LineLost DEF TypeOK
        <4>4. ModeOnly(1) => ModeOnly(1)'
          BY <2>2, <4>2, <4>3 DEF ModeOnly
        <4>5. ASSUME NEW i \in 1..Len(line'), line'[i].by = "API", api = "mode"
              PROVE  ModeOnly(i)'
          <5>1. ASSUME NEW j \in 1..Len(line'), j >= i
                PROVE  line'[j].code = M
            <6>1. PICK m \in 1..Len(line) :
                         line'[i] = line[m] /\ m = (IF i < k THEN i ELSE i + 1)
              BY <4>2
            <6>2. PICK n \in 1..Len(line) :
                         line'[j] = line[n] /\ n = (IF j < k THEN j ELSE j + 1)
              BY <4>2
            <6>3. n >= m
              BY <4>3, <5>1, <6>1, <6>2
            <6>4. ModeOnly(m)
              BY <2>3, <4>5, <6>1
            <6>. QED
              BY <6>2, <6>3, <6>4 DEF ModeOnly
          <5>. QED
            BY <2>2, <5>1 DEF ModeOnly
        <4>. QED
          BY <2>1, <2>3, <3>1, <4>4, <4>5 DEF ModeIsLast
      <3>. QED
        BY <2>9, <3>2, <3>3 DEF SoftOpenFails, Fails
    <2>10. CASE AdapterExecutes
      <3>1. /\ Head(line) = line[1] /\ 1 \in 1..Len(line)
            /\ Len(line') = Len(line) - 1 /\ Len(line) \in Nat
            /\ \A i \in 1..Len(line') :
                  i + 1 \in 1..Len(line) /\ line'[i] = line[i + 1]
        BY <2>10, LineConsumed DEF AdapterExecutes, TypeOK
      <3>2. /\ UNCHANGED api /\ adapter' = Executed(Head(line).code)
            /\ Head(line).by # "API" => cmd'["API"] = cmd["API"]
        BY <2>10 DEF AdapterExecutes, Callers
      <3>3. ModeOnly(1) => /\ ModeOnly(1)'
                           /\ adapter'.mode = config'.mode
        <4>1. SUFFICES ASSUME ModeOnly(1)
                       PROVE  ModeOnly(1)' /\ adapter'.mode = config'.mode
          OBVIOUS
        <4>2. Head(line).code = M
          BY <3>1, <4>1 DEF ModeOnly
        <4>3. ModeOnly(1)'
          <5>1. ASSUME NEW i \in 1..Len(line')
                PROVE  line'[i].code = M
            <6>1. i + 1 \in 1..Len(line) /\ i + 1 >= 1 /\ line'[i] = line[i + 1]
              BY <3>1
            <6>. QED
              BY <4>1, <6>1 DEF ModeOnly
          <5>. QED
            BY <2>2, <5>1 DEF ModeOnly
        <4>. QED
          BY <2>1, <3>2, <4>2, <4>3, ModeIsSet
      <3>4. ASSUME NEW i \in 1..Len(line'), line'[i].by = "API", api = "mode"
            PROVE  ModeOnly(i)'
        BY <2>2, <2>3, <3>1, <3>4 DEF ModeOnly
      <3>5. CASE api = "mode" /\ Head(line).by = "API"
        BY <2>3, <3>1, <3>2, <3>3, <3>4, <3>5 DEF ModeIsLast
      <3>6. CASE api = "open" \/ Head(line).by # "API"
        BY <2>3, <3>2, <3>3, <3>4, <3>6 DEF ModeIsLast
      <3>. QED
        BY <3>2, <3>5, <3>6
    <2>11. CASE \/ UNCHANGED vars \/ Write \/ RxEnds \/ TxLoop \/ TxTransmits
                \/ TxTimeout \/ TxWakes \/ TxIsActive \/ TxIsInactive
      <3>1. UNCHANGED <<line, cmd, api, adapter>>
        BY <2>11 DEF vars, Write, RxEnds, TxLoop, TxTransmits, TxTimeout,
                     TxWakes, TxIsActive, TxIsInactive
      <3>. QED
        BY <2>1, <2>2, <2>3, <3>1 DEF ModeIsLast, ModeOnly
    <2>. QED
      BY <1>1, <1>3, <2>4, <2>5, <2>6, <2>7, <2>8, <2>9, <2>10, <2>11
         DEF Next, Api, TxThread, SoftOpen
  <1>. QED
    BY <1>1, <1>2, <1>3

-----------------------------------------------------------------------------
(* The theorems.                                                           *)

LEMMA Inductive == Spec => []IInv
  <1>1. Init => IInv
    <2>. SUFFICES ASSUME Init PROVE IInv
      OBVIOUS
    <2>. USE SessionAssumption DEF Init
    <2>1. TypeOK
      <3>1. config \in Configurations /\ line \in Seq(Frames)
            /\ cmd \in [Callers -> {"none", "sent", "done"}]
        BY LineEmpty
      <3>2. adapter \in [mode : Modes \cup {"closed"}, timestamps : BOOLEAN]
        BY DEF Off
      <3>3. /\ queued \in Nat /\ getSem \in Nat /\ opens \in Nat
            /\ restarts \in Nat /\ tries \in 0..2
        OBVIOUS
      <3>4. /\ m_bRun \in BOOLEAN /\ m_bOpen \in BOOLEAN
            /\ m_bStrict \in BOOLEAN /\ bTransmissionInProgress \in BOOLEAN
            /\ closeConfirmed \in BOOLEAN /\ undisturbed \in BOOLEAN
        OBVIOUS
      <3>. QED
        BY <3>1, <3>2, <3>3, <3>4 DEF TypeOK
    <2>2. Control
      BY DEF Control, OpenSteps, SoftOpenSteps, Callers
    <2>3. Waited /\ CloseIsLast
      BY DEF Waited, CloseIsLast, Callers
    <2>4. Confirmed /\ ModeIsLast
      BY DEF Confirmed, ModeIsLast
    <2>. QED
      BY <2>1, <2>2, <2>3, <2>4 DEF IInv
  <1>2. IInv /\ [Next]_vars => IInv'
    <2>. SUFFICES ASSUME IInv, [Next]_vars PROVE IInv'
      OBVIOUS
    <2>1. TypeOK' /\ Control' /\ Waited' /\ Confirmed'
      BY TypeStep, ControlStep, WaitedStep, ConfirmedStep DEF IInv
    <2>2. CloseIsLast' /\ ModeIsLast'
      BY <2>1, CloseStep, ModeStep DEF IInv
    <2>. QED
      BY <2>1, <2>2 DEF IInv
  <1>. QED
    BY <1>1, <1>2, PTL DEF Spec

\* Every state has the stated types, for any number of sessions, restarts,
\* messages and commands on the line.
THEOREM TypeCorrect == Spec => []TypeOK
  <1>1. IInv => TypeOK
    BY DEF IInv
  <1>. QED
    BY <1>1, Inductive, PTL

\* What open() leaves when it has failed, and close() when it has returned:
\* flags down, both threads gone, and no command that is still waited for.
THEOREM NothingIsLeft == Spec => []ClosedIsQuiet
  <1>1. IInv => ClosedIsQuiet
    BY DEF IInv, Control, ClosedIsQuiet, Callers, OpenSteps, SoftOpenSteps
  <1>. QED
    BY <1>1, Inductive, PTL

\* Without reopen, nothing that the driver has sent opens an adapter again
\* that has confirmed CLOSE.
THEOREM ClosedStaysClosed == Spec => []ConfirmedCloseHolds
  <1>1. IInv => ConfirmedCloseHolds
    BY DEF IInv, CloseIsLast, ConfirmedCloseHolds
  <1>. QED
    BY <1>1, Inductive, PTL

\* When open() has succeeded in strict mode the adapter is in the mode asked
\* for, and neither softOpen nor a frame of an earlier session changes it.
THEOREM StrictModeHolds == Spec => []StrictOpenIsInMode
  <1>1. IInv => StrictOpenIsInMode
    BY DEF IInv, ModeIsLast, StrictSession, StrictOpenIsInMode
  <1>. QED
    BY <1>1, Inductive, PTL
=============================================================================
