--------------------------- MODULE MCTransmitPath ---------------------------
(* TransmitPath with one or two writing threads, for TLC.                  *)
EXTENDS TransmitPath
CONSTANTS w1, w2

OneWriter  == {w1}
TwoWriters == {w1, w2}
=============================================================================
