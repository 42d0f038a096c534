--------------------------- MODULE CommandService ---------------------------
(***************************************************************************)
(* What sendCommandWait promises its callers: TRUE means that the adapter  *)
(* has carried out a command with this code since the call began. FALSE    *)
(* means nothing: the command may have been carried out, may be carried    *)
(* out later, or never. A code in Unconfirmed promises nothing at all.     *)
(***************************************************************************)
EXTENDS FiniteSets

CONSTANTS Callers, Codes, Unconfirmed

VARIABLES
    call,           \* the call each caller is in
    ok,             \* what each caller's last call returned
    outstanding     \* codes of commands that the adapter may yet carry out

vars == <<call, ok, outstanding>>

NoCall == [code |-> "none", executed |-> FALSE]

Init ==
    /\ call = [c \in Callers |-> NoCall]
    /\ ok = [c \in Callers |-> TRUE]
    /\ outstanding = {}

Begin(c, code) ==
    /\ call[c] = NoCall
    /\ call' = [call EXCEPT ![c] = [code |-> code, executed |-> FALSE]]
    /\ outstanding' = outstanding \cup {code}
    /\ UNCHANGED ok

\* One command of this code may stand for several on the line.
Execute(code) ==
    /\ code \in outstanding
    /\ call' = [c \in Callers |->
                   [call[c] EXCEPT !.executed = @ \/ call[c].code = code]]
    /\ outstanding' \in {outstanding, outstanding \ {code}}
    /\ UNCHANGED ok

Forget ==
    /\ outstanding' \in SUBSET outstanding
    /\ UNCHANGED <<call, ok>>

Return(c, answer) ==
    /\ call[c] # NoCall
    /\ answer => call[c].executed \/ call[c].code \in Unconfirmed
    /\ call' = [call EXCEPT ![c] = NoCall]
    /\ ok' = [ok EXCEPT ![c] = answer]
    /\ outstanding' \in SUBSET outstanding

Next ==
    \/ \E c \in Callers, code \in Codes : Begin(c, code)
    \/ \E code \in Codes : Execute(code)
    \/ Forget
    \/ \E c \in Callers, answer \in BOOLEAN : Return(c, answer)

Spec == Init /\ [][Next]_vars
=============================================================================
