------------------------------ MODULE MCFraming ------------------------------
(* Framing with two threads, short frames that hold every control byte and *)
(* a checksum that takes the place of crc8, for TLC.                       *)
EXTENDS Framing, Functions
CONSTANTS t1, t2

TwoThreads == {t1, t2}
FewBytes   == {DLE, STX, ETX, 0, 1}

\* With no payload or one byte of it; the CRC of one of them is DLE.
Header(seq, size) == <<1, 0, seq, 0, size>>
FewFrames == {Header(DLE, 0)}
                \cup {Append(Header(STX, 1), c) : c \in {DLE, ETX}}

Sum(s) == SumFunction(s)
Checksum(s) == CASE Sum(s) % 5 = 0 -> DLE
                 [] Sum(s) % 5 = 1 -> STX
                 [] Sum(s) % 5 = 2 -> ETX
                 [] OTHER          -> (Sum(s) % 5) - 3
=============================================================================
