-------------------------- MODULE CommandParameters --------------------------
(* The parameters of CommandChannel and what is assumed of them.           *)
EXTENDS Integers, FiniteSets

CONSTANTS
    Callers,                    \* threads that send commands
    Codes,                      \* commands
    CodesAfter,                 \* those a caller sends next, by the one before
    CAN4VSCP_MAX_RESPONSEMSG,   \* room in the response list
    LateReplies,                \* TRUE: a call may end before its reply comes
    Losses,                     \* TRUE: the line may lose frames, the adapter refuse
    Traffic,                    \* TRUE: responses to CANAL frames arrive as well
    SeqMod,                     \* sequence numbers wrap here (256 in the code)
    MaxCalls,                   \* bound: calls made
    MaxLine                     \* bound: frames on each direction of the line

ASSUME CommandChannelAssumption ==
    /\ IsFiniteSet(Callers)
    /\ "none" \notin Codes
    /\ CodesAfter \in [Callers -> [Codes \cup {"none"} -> SUBSET Codes]]
    /\ CAN4VSCP_MAX_RESPONSEMSG \in Nat \ {0}
    /\ LateReplies \in BOOLEAN /\ Losses \in BOOLEAN /\ Traffic \in BOOLEAN
    /\ SeqMod \in Nat /\ SeqMod > 1
    /\ MaxCalls \in Nat /\ MaxLine \in Nat
=============================================================================
