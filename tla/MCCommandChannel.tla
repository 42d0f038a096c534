-------------------------- MODULE MCCommandChannel --------------------------
(* CommandChannel with the thread that opens and closes together with the *)
(* TX thread in softOpen, for TLC.                                         *)
EXTENDS CommandChannel

Both      == {"API", "TX"}
OpenCodes == {"NOOP", "CAPS", "OPEN"}

\* The TX thread tries softOpen again and again. The other thread is in
\* open(): up to three NOOPs, the capabilities, the mode.
SoftOpen == [last \in OpenCodes \cup {"none"} |-> {"OPEN"}]
OpenSends ==
    [c \in Both |->
        IF c = "TX" THEN SoftOpen
        ELSE [last \in OpenCodes \cup {"none"} |->
                 CASE last = "none" -> {"NOOP"}
                   [] last = "NOOP" -> {"NOOP", "CAPS"}
                   [] last = "CAPS" -> {"OPEN"}
                   [] last = "OPEN" -> {}]]
=============================================================================
