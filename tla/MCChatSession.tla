--------------------------- MODULE MCChatSession ---------------------------
(***************************************************************************)
(* ChatSession for TLC.  The code's 40 messages and 20 turns are four and  *)
(* two, or two and one: the two limits keep the relation they have.        *)
(***************************************************************************)
EXTENDS ChatSession, TLC

CONSTANTS r1, r2

OneRequest == {r1}
TwoRequests == {r1, r2}

NoFaults == {}
\* A summary that is not made or not stored.
SummaryFault == {"summary"}

\* Ids drawn out of order.
RoleNo == [user |-> 1, assistant |-> 2, error |-> 3, summary |-> 4]
InOrder(k) == 4 * (k[1] - 1) + RoleNo[k[2]]
Shuffled == [k \in Turns \X Roles |-> (5 * InOrder(k)) % (4 * MaxChats + 1)]

=============================================================================
