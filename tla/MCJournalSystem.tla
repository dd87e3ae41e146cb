--------------------------- MODULE MCJournalSystem ---------------------------
(* A small instance of the journals for TLC. *)
EXTENDS JournalSystem, TLC

CONSTANTS p1, p2, s1, s2

\* A chain of three tasks, the third of which needs both others, beside a fourth one, which may
\* run with the first, conflicts with the second and would meet the same target as the third.
ChainDeps == <<{}, {1}, {1, 2}, {}>>
\* The second task claims the whole lane at once, the fourth as much in two claims of one unit.
ChainClaims == [t \in Nodes |-> [r \in Resources |-> IF t \in {2, 4} THEN 2 ELSE 1]]
ChainLargest == [t \in Nodes |-> [r \in Resources |-> IF t = 2 THEN 2 ELSE 1]]
ChainConflicts == <<{}, {"page"}, {}, {"page"}>>
FirstRetries == <<1, 0, 0, 0>>
SecondFirst == <<2, 1, 3, 4>>
TwoLanes == [r \in Resources |-> 2]

\* Names that nothing compares by order.  The threads and URLs of a run take the names of
\* processes and scopes.
JournalSymmetry == Permutations(Processes) \cup Permutations(Scopes)

=============================================================================
