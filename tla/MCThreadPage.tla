----------------------------- MODULE MCThreadPage -----------------------------
(* A parent thread and its subagent, whose card the parent's page draws.    *)
EXTENDS ThreadPage

CONSTANTS parent, child

MCParent == [t \in Thread |-> IF t = child THEN parent ELSE NoThread]

MCNoParent == [t \in Thread |-> NoThread]

\* The last event of the parent names the child.
MCMentions == [t \in Thread |-> IF t = child THEN {MaxSeq} ELSE {}]

\* The subagent runs at its first event and has settled by the next.
MCSettledIn == [t \in Thread |-> 2..MaxSeq]
=============================================================================
