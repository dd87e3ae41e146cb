------------------------ MODULE MCApplicationSystem ------------------------
(* Small instances of the application system for TLC. *)
EXTENDS SubmissionInvariant, TLC

CONSTANTS j1, j2, w1, w2, b1, b2

OwnPosting == [j \in Jobs |-> j]          \* every job is its own posting
OnePosting == [j \in Jobs |-> j1]         \* every job is one and the same posting
OwnRun == [w \in Workers |-> w]           \* one process per worker
OneRun == [w \in Workers |-> w1]          \* the threads of one process
OneBatch == [w \in Workers |-> b1]
BatchEach == [w \in Workers |-> IF w = w1 THEN b1 ELSE b2]

\* Attempts are always interchangeable; jobs and receipts are where every job is its
\* own posting, and workers as well where they share one batch.
JobSymmetry == Permutations(Attempts) \cup Permutations(Jobs) \cup Permutations(Receipts)
WorkerSymmetry == JobSymmetry \cup Permutations(Workers)
AttemptSymmetry == Permutations(Attempts)

=============================================================================
