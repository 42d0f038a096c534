--------------------------- MODULE MCFrameDispatch ---------------------------
(* FrameDispatch with one frame of each way to be handled, for TLC.        *)
EXTENDS FrameDispatch

Message(id, timestamp, dlc) == [id |-> id, timestamp |-> timestamp, dlc |-> dlc]
Frame(type, seq, msgs) == [type |-> type, seq |-> seq, crcOk |-> TRUE, msgs |-> msgs]

\* Identifiers with a bit that can be filtered, one that cannot and one that is
\* masked away; lengths of 0, of 8 and beyond; a timestamp over 29 bits.
Plain   == Message({0, 9}, {}, 0)
Other   == Message({1, 31}, {2, 29}, 8)
Corrupt == Message({0}, {1}, 9)

FewFrames ==
    {Frame("CANAL", 1, <<Plain, Other, Corrupt>>),
     Frame("CANAL_TIMESTAMP", 2, <<Corrupt>>),
     Frame("MULTI_FRAME_CANAL", 1, <<Corrupt, Other>>),
     Frame("MULTI_FRAME_CANAL_TIMESTAMP", 2, <<Other, Corrupt, Plain>>),
     Frame("NOOP", 1, <<>>), Frame("POLL", 2, <<>>), Frame("ACK", 1, <<>>),
     Frame("CAPS_REQUEST", 2, <<>>),
     [Frame("NOOP", 2, <<>>) EXCEPT !.crcOk = FALSE]}

\* A mask that the table holds for, one that it does not, one beyond 32 bits.
FewSettings == {{}, {0}, {1, 9, 33}}
=============================================================================
