------------------------- MODULE MCTelemetryHistory -------------------------
(***************************************************************************)
(* TelemetryHistory for TLC: the two days at the end of a year, and a few  *)
(* senders.  A unit of time is half a minute.                              *)
(***************************************************************************)
EXTENDS TelemetryHistory, TLC

Date(y, m, d) == [year |-> y, month |-> m, day |-> d]
NewYear == {Date(2025, 12, 31), Date(2026, 1, 1)}

Sender(k, e, s, g) == [kind |-> k, env |-> e, source |-> s, grade |-> g]
Few == {Sender("log", "prod", "app", 2), Sender("log", "prod", "sys", 2),
        Sender("log", "none", "app", 1),
        Sender("span", "none", "app", 1), Sender("span", "prod", "app", 2)}

Two == {2}
AllFaults == FaultKinds
=============================================================================
