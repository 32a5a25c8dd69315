-------------------------- MODULE OngoingRegistry --------------------------
(***************************************************************************)
(* What the table of ongoing incidents promises about one alert name, with *)
(* no handler, message or button in sight.  An entry is "open" when a      *)
(* notice of the alert registered it, "revived" when an analysis wrote it  *)
(* again after the incident was closed, and "bare" when only a root cause  *)
(* was written, which leaves an entry the table never expires.             *)
(*                                                                         *)
(* The promise: only a notice opens an incident.  Whatever an analysis     *)
(* leaves behind in the table, it leaves there after a closing.            *)
(***************************************************************************)
CONSTANT Alerts

VARIABLES reg,      \* reg[a]: the state of the entry of alert a
          closed    \* closed[a]: an entry of alert a was once removed

vars == <<reg, closed>>

States == {"none", "open", "revived", "bare"}

Init == /\ reg = [a \in Alerts |-> "none"]
        /\ closed = [a \in Alerts |-> FALSE]

\* A notice registers the alert, over whatever entry is there.
Open(a) == /\ reg' = [reg EXCEPT ![a] = "open"]
           /\ UNCHANGED closed

\* An analysis writes a whole entry, once the incident was closed.
Revive(a) == /\ closed[a]
             /\ reg' = [reg EXCEPT ![a] = "revived"]
             /\ UNCHANGED closed

\* A root cause is written where no entry is left to hold it.
Scribble(a) == /\ reg[a] = "none"
               /\ closed[a]
               /\ reg' = [reg EXCEPT ![a] = "bare"]
               /\ UNCHANGED closed

\* A resolution, human or automatic, removes any entry.
Close(a) == /\ reg[a] # "none"
            /\ reg' = [reg EXCEPT ![a] = "none"]
            /\ closed' = [closed EXCEPT ![a] = TRUE]

\* Time to live: it reaches every entry but a bare one.
Expire(a) == /\ reg[a] \in {"open", "revived"}
             /\ Close(a)

Next == \E a \in Alerts :
          Open(a) \/ Revive(a) \/ Scribble(a) \/ Close(a) \/ Expire(a)

Spec == Init /\ [][Next]_vars
=============================================================================
