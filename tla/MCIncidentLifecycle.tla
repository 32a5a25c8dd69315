------------------------ MODULE MCIncidentLifecycle ------------------------
(***************************************************************************)
(* IncidentLifecycle for TLC: which calls fail in which run, and the       *)
(* symmetry of invocations, which is sound for safety only.                *)
(***************************************************************************)
EXTENDS IncidentLifecycle, TLC

CONSTANTS a1, p1, p2

OneAlert == {a1}
OneInvocation == {p1}
TwoInvocations == {p1, p2}

NoFaults == {}
\* Failures under which the table, the record and the summary are still kept.
ToleratedFaults == FaultKinds \ {"get", "stale", "read", "save"}

InvocationSymmetry == Permutations(Procs)
=============================================================================
