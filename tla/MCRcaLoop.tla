------------------------------ MODULE MCRcaLoop ------------------------------
(***************************************************************************)
(* RcaLoop for TLC.  A unit of time is twenty-five seconds, so the limits  *)
(* are the code's (150 s and 200 s); a Collector takes up to 125 s (a      *)
(* comment says 120 s), a Writer and a Reviewer up to 25 s.                *)
(***************************************************************************)
EXTENDS RcaLoop, TLC

CONSTANTS metrics, logs

TwoTools == {metrics, logs}

ToolSymmetry == Permutations(Tools)
=============================================================================
