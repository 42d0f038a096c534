------------------------------ MODULE FrameLine ------------------------------
(***************************************************************************)
(* What the framing promises about a serial line that may lose, change or  *)
(* invent bytes: a frame that is sent undisturbed arrives as it was sent,  *)
(* before the next one is begun. After a disturbance the receiver is in    *)
(* doubt, and the first frame that passes undisturbed, whether it arrives  *)
(* or not, ends the doubt.                                                 *)
(***************************************************************************)
EXTENDS Integers

CONSTANT Frames     \* the contents a frame may have

VARIABLES
    sent,       \* how many frames were sent undisturbed
    arrived,    \* how many were received
    newest,     \* the content of the one received last
    doubt       \* the receiver may be out of step

vars == <<sent, arrived, newest, doubt>>

Init == sent = 0 /\ arrived = 0 /\ newest = <<>> /\ doubt = FALSE

Receive(frame) == arrived' = arrived + 1 /\ newest' = frame
ReceiveNothing == UNCHANGED <<arrived, newest>>

\* Out of a disturbed line may come what passes for a frame, of any content.
ReceiveAnything == arrived' = arrived + 1 \/ ReceiveNothing

SendUndisturbed ==
    /\ ~doubt
    /\ \E frame \in Frames : Receive(frame)
    /\ sent' = sent + 1 /\ UNCHANGED doubt

Disturb ==
    /\ doubt' = TRUE
    /\ ReceiveAnything
    /\ UNCHANGED sent

Settle ==
    /\ doubt /\ doubt' = FALSE
    /\ sent' = sent + 1
    /\ ReceiveAnything

Next == SendUndisturbed \/ Disturb \/ Settle

Spec == Init /\ [][Next]_vars
=============================================================================
