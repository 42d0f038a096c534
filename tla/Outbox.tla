------------------------------- MODULE Outbox -------------------------------
(***************************************************************************)
(* What the transmit path promises in "wait for ACK" mode (README flag bit *)
(* 3): accepted messages are handed to the adapter in the order they were  *)
(* accepted, each at least once, a repetition only of the message that is  *)
(* next in line, and none leaves the queue before the adapter has it.      *)
(***************************************************************************)
EXTENDS Integers, Sequences

VARIABLES
    queue,      \* accepted messages not yet done with, oldest first
    accepted,   \* how many messages have been accepted
    atAdapter   \* the newest message the adapter has (0: none)

vars == <<queue, accepted, atAdapter>>

Init == queue = <<>> /\ accepted = 0 /\ atAdapter = 0

\* An application's message is accepted; messages are numbered in that order.
Accept ==
    /\ accepted' = accepted + 1
    /\ queue' = Append(queue, accepted')
    /\ UNCHANGED atAdapter

\* The adapter gets the oldest message, for the first time or once more.
Deliver ==
    /\ queue # <<>>
    /\ atAdapter' = Head(queue)
    /\ UNCHANGED <<queue, accepted>>

\* A message the adapter has is done with.
Remove ==
    /\ queue # <<>>
    /\ Head(queue) = atAdapter
    /\ queue' = Tail(queue)
    /\ UNCHANGED <<accepted, atAdapter>>

Next == Accept \/ Deliver \/ Remove

Spec == Init /\ [][Next]_vars
=============================================================================
