--------------------------- MODULE MCRuntimeSystem ---------------------------
(* A small instance of the runtime registries for TLC. *)
EXTENDS RuntimeSystem, TLC

CONSTANTS p1, p2, a1, a2, l1, l2, f1, f2

\* Each shift is enough for one race: of the scorers and the makers of a resume, of a
\* revalidation, of letters and their approval, of a worker.
ShortShifts ==
  {{"score", "exact", "tailor", "project"}, {"score", "tailor", "revalidate"},
   {"score", "tailor", "letters", "approve"}, {"tailor", "prepare", "approve"},
   {"score", "tailor", "runtime"}}

\* Processes, attempts, lease ids, profiles and runtimes are names that nothing compares by order.
RuntimeSymmetry == Permutations(Processes) \cup Permutations(Attempts) \cup Permutations(Leases)
                   \cup Permutations(Profiles) \cup Permutations(Runtimes)

=============================================================================
