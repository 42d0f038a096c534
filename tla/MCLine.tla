------------------------------- MODULE MCLine -------------------------------
(* What goes over the serial line, for TLC, in one run: either its bytes,  *)
(* Framing as MCFraming has it; or its commands, CommandChannel with one   *)
(* caller. In each behaviour one of them is used, the other stays as it    *)
(* was made.                                                               *)
EXTENDS MCFraming, CommandParameters

VARIABLES
    used,
    m_sequencyno, m_responseList, pc, call, ok, toAdapter, toDriver, calls,
    executed, received

commandVars == <<m_sequencyno, m_responseList, pc, call, ok, toAdapter, toDriver, calls,
                 executed, received>>

Command == INSTANCE CommandChannel

\* A thread that sends commands, any after any other.
Alone      == {"API"}
OpenCodes  == {"NOOP", "CAPS", "OPEN"}
AloneSends == [c \in Alone |-> [last \in OpenCodes \cup {"none"} |-> OpenCodes]]

LineInit == Init /\ Command!Init /\ used \in {"bytes", "commands"}

LineNext ==
    \/ used = "bytes" /\ Next /\ UNCHANGED <<used, commandVars>>
    \/ used = "commands" /\ Command!Next /\ UNCHANGED <<used, vars>>

LineSpec == LineInit /\ [][LineNext]_<<used, vars, commandVars>>

\* As TypeOK in CommandChannel: the types of its variables, and the bound of the
\* response list.
CommandTypeOK == Command!TypeOK

\* As in CommandChannel: a caller that is alone is told FALSE only if its frame or
\* its reply was lost, refused, late or pushed out of the list.
SoleCallerIsAnswered == Command!SoleCallerIsAnswered

\* As in CommandChannel, of one caller: TRUE only for a command that the adapter
\* has carried out during the call.
ImplementsService == Command!ImplementsService
=============================================================================
