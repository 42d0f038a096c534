--------------------------- MODULE CommandChannel ---------------------------
(***************************************************************************)
(* Commands to the adapter: sendCommandWait (sendCommand and               *)
(* wait4CommandResponse) and getDeviceCapabilities, called by the thread   *)
(* that opens and closes the channel and, for softOpen, by the TX thread.  *)
(* All callers share m_sequencyno, which is read and incremented without   *)
(* a lock, and m_responseList, which a caller empties before it sends and  *)
(* from which whoever waits takes the oldest response, its own or not.     *)
(* The RX thread appends to the list and drops the oldest when it is full. *)
(*                                                                         *)
(* A response is its kind, its sequence number and the code it answers; a  *)
(* refusal (payload[0] # 0) and the ACK of some CANAL frame are responses  *)
(* that match nobody.                                                      *)
(***************************************************************************)
EXTENDS CommandParameters, Sequences

VARIABLES
    m_sequencyno,
    m_responseList,     \* responses queued, oldest first
    pc,                 \* where each caller is
    call,               \* the command it sends, and its local variables
    ok,                 \* what its last call returned
    toAdapter, toDriver,\* frames on the line
    calls,              \* how many calls have been made
    executed,           \* history: carried out since the call began
    received            \* history: responses queued since the frame was
                        \* sent, and Excuse once the call cannot succeed

lineVars == <<toAdapter, toDriver>>
vars == <<m_sequencyno, m_responseList, pc, call, ok, lineVars, calls,
          executed, received>>

Capabilities == "CAPS"      \* the code of getDeviceCapabilities' frame

\* The history of who has lost his frame or reply on the way.
Excuse == CAN4VSCP_MAX_RESPONSEMSG + 1
Excused(who) == [c \in Callers |-> IF c \in who THEN Excuse ELSE received[c]]
CallersOf(f) ==
    {c \in Callers : pc[c] = "wait" /\ call[c].seq = f.seq /\ call[c].code = f.code}

Seqs == 0..SeqMod - 1
Response(kind, seq, code) == [kind |-> kind, seq |-> seq, code |-> code]

Init ==
    /\ m_sequencyno = 0 /\ m_responseList = <<>>
    /\ pc = [c \in Callers |-> "idle"]
    /\ call = [c \in Callers |-> [code |-> "none", saveseq |-> 0, seq |-> 0]]
    /\ ok = [c \in Callers |-> TRUE]
    /\ toAdapter = <<>> /\ toDriver = <<>> /\ calls = 0
    /\ executed = [c \in Callers |-> FALSE]
    /\ received = [c \in Callers |-> 0]

-----------------------------------------------------------------------------
(* A caller.                                                               *)

CallerAt(c, from, to) == pc[c] = from /\ pc' = [pc EXCEPT ![c] = to]

\* A reply is not under way, and not in the list, for so long that its
\* sequence number comes round again (256 commands). This bounds the delays
\* of line and adapter; the code has no such guard. Of several callers it
\* supposes besides that none sets the counter back by a lost increment, which
\* they can do: command_race is without it.
SeqIsFresh ==
    LateReplies => /\ \A i \in 1..Len(toDriver) :
                         toDriver[i].seq # m_sequencyno
                   /\ \A i \in 1..Len(m_responseList) :
                         m_responseList[i].seq # m_sequencyno

\* uint8_t saveseq = m_sequencyno
SaveSeq(c) ==
    /\ calls < MaxCalls /\ SeqIsFresh
    /\ CallerAt(c, "idle", "load")
    /\ \E code \in CodesAfter[c][call[c].code] :
          call' = [call EXCEPT ![c] =
                      [code |-> code, saveseq |-> m_sequencyno, seq |-> 0]]
    /\ calls' = calls + 1
    /\ executed' = [executed EXCEPT ![c] = FALSE]
    /\ UNCHANGED <<m_sequencyno, m_responseList, ok, lineVars, received>>

\* m_sequencyno++ in sendCommand, a load and a store; the value before the
\* increment goes into the frame.
AfterIncrement == (m_sequencyno + 1) % SeqMod
LoadedSeq      == m_sequencyno

LoadSeq(c) ==
    /\ CallerAt(c, "load", "store")
    /\ call' = [call EXCEPT ![c].seq = LoadedSeq]
    /\ UNCHANGED <<m_sequencyno, m_responseList, ok, lineVars, calls, executed,
                   received>>

NextSeq(c) == (call[c].seq + 1) % SeqMod

StoreSeq(c) ==
    /\ CallerAt(c, "store", "clear")
    /\ m_sequencyno' = NextSeq(c)
    /\ UNCHANGED <<m_responseList, call, ok, lineVars, calls, executed,
                   received>>

\* "Empty reply list"
ClearList(c) ==
    /\ CallerAt(c, "clear", "send")
    /\ m_responseList' = <<>>
    /\ UNCHANGED <<m_sequencyno, call, ok, lineVars, calls, executed, received>>

\* The frame bears call[c].seq.
Send(c) ==
    /\ Len(toAdapter) < MaxLine
    /\ CallerAt(c, "send", "wait")
    /\ toAdapter' = Append(toAdapter,
                           [code |-> call[c].code, seq |-> call[c].seq])
    /\ received' = [received EXCEPT ![c] = 0]
    /\ UNCHANGED <<m_sequencyno, m_responseList, call, ok, toDriver, calls,
                   executed>>

SendFails(c) ==
    /\ Losses
    /\ CallerAt(c, "send", "idle")
    /\ ok' = [ok EXCEPT ![c] = FALSE]
    /\ received' = Excused({c})
    /\ UNCHANGED <<m_sequencyno, m_responseList, call, lineVars, calls,
                   executed>>

\* The test on the response that a caller has taken.
AnySeq(c, r)  == r.kind = "REPLY" /\ r.code = call[c].code
Matches(c, r) == /\ r.kind = "REPLY"
                 /\ r.seq = call[c].saveseq /\ r.code = call[c].code

\* The oldest response is removed whether or not it matches; what does not
\* match is lost, for the other caller too.
TakeOldest(c) ==
    /\ m_responseList # <<>>
    /\ m_responseList' = Tail(m_responseList)
    /\ \/ /\ Matches(c, Head(m_responseList))
          /\ CallerAt(c, "wait", "idle")
          /\ ok' = [ok EXCEPT ![c] = TRUE]
       \/ /\ ~Matches(c, Head(m_responseList))
          /\ CallerAt(c, "wait", "wait")
          /\ UNCHANGED ok
    /\ UNCHANGED <<m_sequencyno, call, lineVars, calls, executed, received>>

\* Nothing that answers this call is still to come.
NothingToCome(c) ==
    /\ m_responseList = <<>>
    /\ \A i \in 1..Len(toAdapter) : toAdapter[i].seq # call[c].seq
    /\ \A i \in 1..Len(toDriver) : toDriver[i].seq # call[c].seq

\* The timeout: FALSE, but getDeviceCapabilities returns TRUE.
GiveUp(c) ==
    /\ LateReplies \/ NothingToCome(c)
    /\ CallerAt(c, "wait", "idle")
    /\ ok' = [ok EXCEPT ![c] = (call[c].code = Capabilities)]
    /\ received' = Excused({c} \ {d \in Callers : NothingToCome(d)})
    /\ UNCHANGED <<m_sequencyno, m_responseList, call, lineVars, calls,
                   executed>>

Caller(c) == SaveSeq(c) \/ LoadSeq(c) \/ StoreSeq(c) \/ ClearList(c)
                \/ Send(c) \/ SendFails(c) \/ TakeOldest(c) \/ GiveUp(c)

-----------------------------------------------------------------------------
(* The line, the adapter (external) and the RX thread.                     *)

Arrives(response) ==
    /\ Len(toDriver) < MaxLine
    /\ toDriver' = Append(toDriver, response)

AdapterExecutes ==
    /\ toAdapter # <<>>
    /\ LET f == Head(toAdapter)
           kind == IF f.code = Capabilities THEN "CAPS_RESPONSE" ELSE "REPLY"
       IN /\ Arrives(Response(kind, f.seq, f.code))
          /\ executed' = [c \in Callers |->
                             executed[c] \/ (pc[c] # "idle" /\ call[c].code = f.code)]
    /\ toAdapter' = Tail(toAdapter)
    /\ UNCHANGED <<m_sequencyno, m_responseList, pc, call, ok, calls, received>>

AdapterRefuses ==
    /\ Losses /\ toAdapter # <<>>
    /\ Arrives(Response("REFUSAL", Head(toAdapter).seq, Head(toAdapter).code))
    /\ toAdapter' = Tail(toAdapter)
    /\ received' = Excused(CallersOf(Head(toAdapter)))
    /\ UNCHANGED <<m_sequencyno, m_responseList, pc, call, ok, calls, executed>>

AdapterAcknowledges ==
    /\ Traffic
    /\ \E seq \in Seqs : Arrives(Response("ACK", seq, "none"))
    /\ UNCHANGED <<m_sequencyno, m_responseList, pc, call, ok, toAdapter,
                   calls, executed, received>>

LoseFrame ==
    /\ Losses /\ toAdapter # <<>>
    /\ toAdapter' = Tail(toAdapter)
    /\ received' = Excused(CallersOf(Head(toAdapter)))
    /\ UNCHANGED <<m_sequencyno, m_responseList, pc, call, ok, toDriver, calls,
                   executed>>

LoseReply ==
    /\ Losses /\ toDriver # <<>>
    /\ toDriver' = Tail(toDriver)
    /\ received' = Excused(CallersOf(Head(toDriver)))
    /\ UNCHANGED <<m_sequencyno, m_responseList, pc, call, ok, toAdapter,
                   calls, executed>>

\* "Bound the queue - drop the oldest response if full"
NeverDropped == m_responseList
Bounded == IF Len(m_responseList) >= CAN4VSCP_MAX_RESPONSEMSG
           THEN Tail(m_responseList)
           ELSE m_responseList

addToResponseQueue ==
    /\ toDriver # <<>>
    /\ toDriver' = Tail(toDriver)
    /\ m_responseList' = Append(Bounded, Head(toDriver))
    /\ received' = [c \in Callers |->
                       IF pc[c] = "wait" /\ received[c] < Excuse
                       THEN received[c] + 1 ELSE received[c]]
    /\ UNCHANGED <<m_sequencyno, pc, call, ok, toAdapter, calls, executed>>

-----------------------------------------------------------------------------

Next ==
    \/ \E c \in Callers : Caller(c)
    \/ AdapterExecutes \/ AdapterRefuses \/ AdapterAcknowledges
    \/ LoseFrame \/ LoseReply \/ addToResponseQueue

Spec == Init /\ [][Next]_vars

-----------------------------------------------------------------------------
(* What makes the command channel correct.                                 *)

Responses == [kind : {"REPLY", "CAPS_RESPONSE", "REFUSAL", "ACK"},
              seq : Seqs, code : Codes \cup {"none"}]

CommandFrames == [code : Codes, seq : Seqs]

TypeOK ==
    /\ m_sequencyno \in Seqs
    /\ m_responseList \in Seq(Responses)
    /\ Len(m_responseList) <= CAN4VSCP_MAX_RESPONSEMSG
    /\ pc \in [Callers -> {"idle", "load", "store", "clear", "send", "wait"}]
    /\ call \in [Callers -> [code : Codes \cup {"none"}, saveseq : Seqs, seq : Seqs]]
    /\ ok \in [Callers -> BOOLEAN]
    /\ toAdapter \in Seq(CommandFrames)
    /\ toDriver \in Seq(Responses)
    /\ calls \in Nat
    /\ executed \in [Callers -> BOOLEAN]
    /\ received \in [Callers -> 0..Excuse]

\* The refinement: TRUE means that the adapter has carried out such a command
\* since the call began, however late replies to earlier calls are. Of several
\* callers this holds only under SeqIsFresh (LateReplies), not of the code.
serviceCall ==
    [c \in Callers |-> IF pc[c] = "idle"
                       THEN [code |-> "none", executed |-> FALSE]
                       ELSE [code |-> call[c].code, executed |-> executed[c]]]
serviceOutstanding ==
    {toAdapter[i].code : i \in 1..Len(toAdapter)} \cup
    {call[c].code : c \in {d \in Callers :
                              pc[d] \in {"load", "store", "clear", "send"}}}

Promise == INSTANCE CommandService WITH
    Unconfirmed <- {Capabilities},
    call        <- serviceCall,
    outstanding <- serviceOutstanding
ImplementsService == Promise!Spec

\* The same of a single return: "@return True on success", can4vscpobj.h:385.
TrueMeansExecuted ==
    \A c \in Callers :
        (pc[c] = "idle" /\ call[c].code \notin {"none", Capabilities} /\ ok[c])
            => executed[c]

\* A thread that is alone in sending commands, whose frame and reply were not
\* lost or refused and are not late, is told FALSE only after more responses
\* than the list holds came in during its wait and pushed its reply out.
SoleCallerIsAnswered ==
    Cardinality(Callers) = 1 =>
        \A c \in Callers : (pc[c] = "idle" /\ ~ok[c]) =>
            received[c] > CAN4VSCP_MAX_RESPONSEMSG
=============================================================================
