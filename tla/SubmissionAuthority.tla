------------------------ MODULE SubmissionAuthority ------------------------
(***************************************************************************)
(* What the submission gate promises, without leases, statuses, workers or *)
(* clocks: the authority to press Submit for a job is granted to one       *)
(* attempt per (batch, job), never more jobs than the batch may submit,    *)
(* never taken back and never granted again; Submit is latched at most     *)
(* once, by the holder; and a receipt is bound once, to a grant for the    *)
(* receipt's own job.                                                      *)
(***************************************************************************)
EXTENDS Integers, FiniteSets

CONSTANTS Jobs, Attempts, Batches, Receipts, None, MaxSubmissions

VARIABLES
  grants,    \* {<<a, j, b>>}: attempt a may press Submit for job j, on account of batch b
  latched,   \* the attempts whose Submit has been latched
  bound      \* bound[r]: the attempt receipt r is bound to, or None

authority == <<grants, latched, bound>>

Granted(b) == {j \in Jobs : \E a \in Attempts : <<a, j, b>> \in grants}

Holders == {a \in Attempts : \E j \in Jobs, b \in Batches : <<a, j, b>> \in grants}

Init ==
  /\ grants = {}
  /\ latched = {}
  /\ bound = [r \in Receipts |-> None]

Grant(a, j, b) ==
  /\ a \notin Holders
  /\ j \notin Granted(b)
  /\ Cardinality(Granted(b)) < MaxSubmissions
  /\ grants' = grants \cup {<<a, j, b>>}
  /\ UNCHANGED <<latched, bound>>

Latch(a) ==
  /\ a \in Holders
  /\ a \notin latched
  /\ latched' = latched \cup {a}
  /\ UNCHANGED <<grants, bound>>

Bind(r, a) ==
  /\ a \in Holders
  /\ bound[r] = None
  /\ bound' = [bound EXCEPT ![r] = a]
  /\ UNCHANGED <<grants, latched>>

Next ==
  \/ \E a \in Attempts, j \in Jobs, b \in Batches : Grant(a, j, b)
  \/ \E a \in Attempts : Latch(a)
  \/ \E r \in Receipts, a \in Attempts : Bind(r, a)

Spec == Init /\ [][Next]_authority
=============================================================================
