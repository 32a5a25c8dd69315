-------------------------- MODULE MCIncidentMemory --------------------------
(***************************************************************************)
(* IncidentMemory for TLC.  A human types, and an analysis finds, texts    *)
(* that hold separators; the texts of an automatic recovery are plain.     *)
(***************************************************************************)
EXTENDS IncidentMemory, TLC

CONSTANTS r1, r2

Two == {r1, r2}
Symmetry == Permutations(Recoverers)

SomeWords == {"", "Unknown", "auto", "0", "12", "restarted", "leak", "500s", "deploy",
              "ongoing", "Resolution", "Resolution Time", "Root Cause"}

With(h, k, v) == [head |-> h, rest |-> <<[key |-> k, value |-> v]>>]

SomeTyped == {[head |-> "restarted",
               rest |-> <<[key |-> "Resolution Time", value |-> "0"],
                          [key |-> "Root Cause", value |-> "deploy"]>>]}
SomeCause == {With("leak", "Resolution", "ongoing")}
SomeEvidence == {With("500s", "Resolution Time", "0")}
SomeTimes == {"12"}
=============================================================================
