------------------------------ MODULE MCSession ------------------------------
(* Session with a few configurations, for TLC.                             *)
EXTENDS Session

Plain == [mode |-> "normal", timestamp |-> FALSE, baud |-> FALSE,
          reopen |-> FALSE, strict |-> FALSE, waitAck |-> FALSE]

StrictListen == [Plain EXCEPT !.mode = "listen", !.strict = TRUE, !.baud = TRUE]
Reopening    == [Plain EXCEPT !.reopen = TRUE]
Configured   == [Plain EXCEPT !.timestamp = TRUE, !.mode = "loopback",
                             !.reopen = TRUE]
AllSettings  == [Configured EXCEPT !.baud = TRUE]
StrictReopen == [Plain EXCEPT !.reopen = TRUE, !.strict = TRUE, !.waitAck = TRUE]
StrictStamps == [Plain EXCEPT !.strict = TRUE, !.timestamp = TRUE]

AllConfigs       == {StrictListen, Configured, StrictReopen}
ReopenConfigs    == {Reopening}
TrafficConfigs   == {Reopening, AllSettings}
TimestampConfigs == {StrictStamps}
=============================================================================
