--------------------------- MODULE OperatorCommands ---------------------------
(***************************************************************************)
(* One parked exception and everybody who may close it: operators with     *)
(* commands of their own, and the worker that waits for the answer of a    *)
(* person while it keeps the page (apply/operator_commands.py,             *)
(* apply/operator_runtime.py, apply/operator_dispatch.py).  Every command  *)
(* reads first and writes later, in a transaction of its own.  The checks  *)
(* that only compare identities, digests and bindings refuse and change    *)
(* nothing; they are left out.                                             *)
(***************************************************************************)
EXTENDS RuntimeBase, FiniteSets

CONSTANTS
  Orders,         \* ids of operator commands
  Owner,          \* the worker that parked the exception
  RecoveryBudget  \* recovery_budget of every command that starts an executor

ASSUME OperatorAssumption ==
  /\ Owner \notin Processes
  /\ None \notin Orders
  /\ RecoveryBudget \in Nat \ {0}

VARIABLES
  lane,       \* queue_kind of the exception
  item,       \* status of the exception
  request,    \* status of the human request that belongs to it, if one does
  answered,   \* whether the response of the person is stored
  envelope,   \* envelope[c]: the action of a stored command, "none" before
  stages,     \* stages[c]: the stages of its stored results
  child,      \* what became of the turn that resumes with the answer
  receipt,    \* whether the ledger has the receipt applied
  caller      \* caller[a]: where operator or owner stands, and with which command

operatorVars == <<lane, item, request, answered, envelope, stages, child, receipt, caller>>
evidence == <<answered, child, receipt>>

Callers == Processes \cup {Owner}

OperatorTypeOK ==
  /\ lane \in {"human_only", "receipt_reconciliation"}
  /\ item \in {"open", "resolved", "expired"}
  /\ request \in {"none", "open", "consumed", "expired"}
  /\ answered \in BOOLEAN /\ receipt \in BOOLEAN
  /\ envelope \in [Orders -> {"none", "resolve", "resume", "reconcile"}]
  /\ stages \in [Orders -> SUBSET {"requested", "started", "failed", "verified"}]
  /\ child \in {"none", "failed", "completed"}
  /\ caller \in [Callers ->
       [pc : {"idle", "resolving", "requesting", "starting", "started", "executed", "rejected",
              "trusted", "waiting", "loaded", "consuming", "resumed", "expiring", "expire",
              "ended", "dead"},
        order : Orders \cup {None}, retried : BOOLEAN]]

At(pc) == [pc |-> pc, order |-> None, retried |-> FALSE]

OperatorInit ==
  /\ lane \in {"human_only", "receipt_reconciliation"}
  /\ item = "open"
  /\ request = IF lane = "human_only" THEN "open" ELSE "none"
  /\ answered = FALSE /\ child = "none" /\ receipt = FALSE
  /\ envelope = [c \in Orders |-> "none"]
  /\ stages = [c \in Orders |-> {}]
  /\ caller = [a \in Callers |->
       At(IF a # Owner THEN "idle" ELSE IF lane = "human_only" THEN "waiting" ELSE "ended")]

Is(a, pc) == caller[a].pc = pc
Enters(a, pc) == caller' = [caller EXCEPT ![a].pc = pc]
With(a, pc, c) == caller' = [caller EXCEPT ![a].pc = pc, ![a].order = c]
Stores(c, action, result) ==
  /\ envelope' = [envelope EXCEPT ![c] = action]
  /\ stages' = [stages EXCEPT ![c] = @ \cup {result}]

\* A command that raises ends an operator; the owner tries once more to expire.
Raises(a) ==
  caller' = [caller EXCEPT ![a] =
    IF a = Owner THEN [At("expiring") EXCEPT !.retried = TRUE] ELSE At("idle")]

-----------------------------------------------------------------------------
(* What is stored *)

HasStarted(c) == "started" \in stages[c]
HasEnded(c) == stages[c] \cap {"verified", "failed"} # {}

\* An executor was called and nobody knows what it did.
Unknown(c) == HasStarted(c) /\ ~HasEnded(c)

Requested == {c \in Orders : envelope[c] = "resume" /\ "requested" \in stages[c]}

BreakerClosed ==
  /\ \A c \in Orders : ~Unknown(c)
  /\ Cardinality({c \in Orders : HasStarted(c)}) < RecoveryBudget
  /\ Cardinality({c \in Orders : "failed" \in stages[c]}) < 2

-----------------------------------------------------------------------------
(* Operators *)

\* The response arrives: nothing under src/ but the tests stores one.
Answer ==
  /\ request # "none" /\ ~answered
  /\ answered' = TRUE
  /\ UNCHANGED <<lane, item, request, envelope, stages, child, receipt, caller>>

CheckResolve(p, c) ==
  /\ Is(p, "idle")
  /\ envelope[c] = "none" /\ item = "open"
  /\ With(p, "resolving", c)
  /\ UNCHANGED <<lane, item, request, evidence, envelope, stages>>

\* One transaction: it commits only if the exception is still open.
WriteResolve(p) ==
  LET c == caller[p].order IN
  /\ Is(p, "resolving")
  /\ IF envelope[c] = "none" /\ item = "open"
     THEN item' = "resolved" /\ Stores(c, "resolve", "verified")
     ELSE UNCHANGED <<item, envelope, stages>>
  /\ caller' = [caller EXCEPT ![p] = At("idle")]
  /\ UNCHANGED <<lane, request, evidence>>

\* resume from a process that owns no page only asks for it.
CheckRequest(p, c) ==
  /\ Is(p, "idle")
  /\ envelope[c] = "none"
  /\ lane = "human_only" /\ item = "open" /\ request = "open" /\ answered
  /\ With(p, "requesting", c)
  /\ UNCHANGED <<lane, item, request, evidence, envelope, stages>>

\* An index allows one resume command for each response.
WriteRequest(p) ==
  LET c == caller[p].order IN
  /\ Is(p, "requesting")
  /\ IF envelope[c] = "none" /\ \A d \in Orders : envelope[d] # "resume"
     THEN Stores(c, "resume", "requested")
     ELSE UNCHANGED <<envelope, stages>>
  /\ caller' = [caller EXCEPT ![p] = At("idle")]
  /\ UNCHANGED <<lane, item, request, evidence>>

\* A verified resume that is repeated consumes the request that its owner left.
RepeatResume(p) ==
  /\ Is(p, "idle")
  /\ \E c \in Orders : envelope[c] = "resume" /\ "verified" \in stages[c]
  /\ request = "open"
  /\ request' = "consumed"
  /\ UNCHANGED <<lane, item, evidence, envelope, stages, caller>>

\* The breaker is looked at before the transaction that counts on it.
CheckReconcile(p, c) ==
  /\ Is(p, "idle")
  /\ envelope[c] = "none"
  /\ lane = "receipt_reconciliation" /\ item = "open" /\ ~receipt
  /\ BreakerClosed
  /\ With(p, "starting", c)
  /\ UNCHANGED <<lane, item, request, evidence, envelope, stages>>

-----------------------------------------------------------------------------
(* The executor of a command, by an operator or by the owner *)

StartOrder(a) ==
  LET c == caller[a].order IN
  /\ Is(a, "starting")
  /\ IF a = Owner \/ envelope[c] = "none"
     THEN /\ Stores(c, IF a = Owner THEN "resume" ELSE "reconcile", "started")
          /\ Enters(a, "started")
     ELSE Raises(a) /\ UNCHANGED <<envelope, stages>>
  /\ UNCHANGED <<lane, item, request, evidence>>

\* reconcile_submission_receipt applies the receipt, or refuses it, or raises.
ReconcileReceipt(p) ==
  /\ p # Owner /\ Is(p, "started")
  /\ \/ receipt' = TRUE /\ Enters(p, "executed")
     \/ ~receipt /\ UNCHANGED receipt /\ Enters(p, "rejected")
     \/ receipt' \in {receipt, TRUE} /\ Raises(p)
  /\ UNCHANGED <<lane, item, request, answered, child, envelope, stages>>

\* The child turn runs in the owner's process; without exact evidence of it, it raises.
RunChild ==
  /\ Is(Owner, "started")
  /\ \/ child' = "completed" /\ Enters(Owner, "executed")
     \/ child' \in {"none", "failed", "completed"} /\ Raises(Owner)
  /\ UNCHANGED <<lane, item, request, answered, receipt, envelope, stages>>

\* The verifier reads the evidence once more; what it reads may have changed.
Verify(a) ==
  /\ Is(a, "executed")
  /\ \/ (IF a = Owner THEN child = "completed" ELSE receipt) /\ Enters(a, "trusted")
     \/ Enters(a, "rejected")
     \/ Raises(a)
  /\ UNCHANGED <<lane, item, request, evidence, envelope, stages>>

FailOrder(a) ==
  LET c == caller[a].order IN
  /\ Is(a, "rejected")
  /\ stages' = [stages EXCEPT ![c] = @ \cup {"failed"}]
  /\ caller' = [caller EXCEPT ![a] = At(IF a = Owner THEN "expiring" ELSE "idle")]
  /\ UNCHANGED <<lane, item, request, evidence, envelope>>

\* Mutant of FinishOrder: the verdict is stored whatever became of the exception.
FinishAnyhow(a) ==
  LET c == caller[a].order IN
  /\ Is(a, "trusted")
  /\ item' = "resolved"
  /\ stages' = [stages EXCEPT ![c] = @ \cup {"verified"}]
  /\ IF a = Owner THEN Enters(a, "consuming") ELSE caller' = [caller EXCEPT ![a] = At("idle")]
  /\ UNCHANGED <<lane, request, evidence, envelope>>

\* One transaction: the exception must still be open, or the command stays started.
FinishOrder(a) ==
  LET c == caller[a].order IN
  /\ Is(a, "trusted")
  /\ IF item = "open"
     THEN /\ item' = "resolved"
          /\ stages' = [stages EXCEPT ![c] = @ \cup {"verified"}]
          /\ IF a = Owner THEN Enters(a, "consuming")
                          ELSE caller' = [caller EXCEPT ![a] = At("idle")]
     ELSE Raises(a) /\ UNCHANGED <<item, stages>>
  /\ UNCHANGED <<lane, request, evidence, envelope>>

-----------------------------------------------------------------------------
(* The owner *)

\* The lease is lost, the time is over, the run stops, or the page was relayed by hand.
StopWaiting ==
  /\ Is(Owner, "waiting")
  /\ Enters(Owner, "expiring")
  /\ UNCHANGED <<lane, item, request, evidence, envelope, stages>>

LoadRequest ==
  /\ Is(Owner, "waiting")
  /\ \E c \in Requested :
       /\ stages[c] = {"requested"}
       /\ IF item = "open" THEN With(Owner, "loaded", c) ELSE Raises(Owner)
  /\ UNCHANGED <<lane, item, request, evidence, envelope, stages>>

\* What drifted since, such as the lease of the page, refuses the resume.
PrepareResume ==
  LET c == caller[Owner].order IN
  /\ Is(Owner, "loaded")
  /\ \/ /\ stages[c] = {"requested"}
        /\ item = "open" /\ request = "open" /\ answered
        /\ child = "none" /\ BreakerClosed
        /\ Enters(Owner, "starting")
     \/ Raises(Owner)
  /\ UNCHANGED <<lane, item, request, evidence, envelope, stages>>

ConsumeRequest ==
  /\ Is(Owner, "consuming")
  /\ request' = IF request = "open" THEN "consumed" ELSE request
  /\ IF request \in {"open", "consumed"} THEN Enters(Owner, "resumed") ELSE Raises(Owner)
  /\ UNCHANGED <<lane, item, evidence, envelope, stages>>

\* An expiry that raises is tried once more by the error handler, which swallows it.
ExpiryRaises ==
  caller' = [caller EXCEPT ![Owner] =
    IF caller[Owner].retried THEN At("ended") ELSE [At("expiring") EXCEPT !.retried = TRUE]]

ReadExpiry ==
  /\ Is(Owner, "expiring")
  /\ IF item = "open" /\ request = "open"
     THEN \E c \in IF Requested = {} THEN {None} ELSE Requested : With(Owner, "expire", c)
     ELSE IF item = "expired" /\ request = "expired"
     THEN caller' = [caller EXCEPT ![Owner] = At("ended")]
     ELSE ExpiryRaises
  /\ UNCHANGED <<lane, item, request, evidence, envelope, stages>>

\* One transaction: the command is blocked unless it was, exception and request expire.
WriteExpiry ==
  LET c == caller[Owner].order IN
  /\ Is(Owner, "expire")
  /\ IF item = "open" /\ request = "open" /\ (c = None \/ ~Unknown(c))
     THEN /\ item' = "expired" /\ request' = "expired"
          /\ stages' = IF c = None THEN stages ELSE [stages EXCEPT ![c] = @ \cup {"failed"}]
          /\ caller' = [caller EXCEPT ![Owner] = At("ended")]
     ELSE ExpiryRaises /\ UNCHANGED <<item, request, stages>>
  /\ UNCHANGED <<lane, evidence, envelope>>

CallerDies(a) ==
  /\ ~Is(a, "idle")
  /\ caller[a].pc \notin {"ended", "resumed", "dead"}
  /\ caller' = [caller EXCEPT ![a] = At(IF a = Owner THEN "dead" ELSE "idle")]
  /\ UNCHANGED <<lane, item, request, evidence, envelope, stages>>

OperatorStep(p) ==
  \/ \E c \in Orders : CheckResolve(p, c) \/ CheckRequest(p, c) \/ CheckReconcile(p, c)
  \/ WriteResolve(p) \/ WriteRequest(p) \/ RepeatResume(p)
  \/ ReconcileReceipt(p)

ExecutorStep(a) ==
  StartOrder(a) \/ Verify(a) \/ FailOrder(a) \/ FinishOrder(a) \/ CallerDies(a)

OwnerStep ==
  \/ StopWaiting \/ LoadRequest \/ PrepareResume \/ RunChild
  \/ ConsumeRequest \/ ReadExpiry \/ WriteExpiry

OperatorNext ==
  /\ \/ Answer
     \/ \E p \in Processes : OperatorStep(p)
     \/ \E a \in Callers : ExecutorStep(a)
     \/ OwnerStep
  /\ UNCHANGED now

OperatorSpec == now = 0 /\ OperatorInit /\ [][OperatorNext]_<<now, operatorVars>>

-----------------------------------------------------------------------------
(* Properties *)

\* An exception gets one verdict, and the rows that tell of it agree, whoever crashes, is
\* late or raises: it is resolved by exactly one verified command, with the evidence of
\* that command in place; it expires together with its request, never under an executor
\* whose outcome is unknown; only a verified resume consumes the answer.  And an owner
\* that stops waiting leaves it open only over such an unknown outcome.
VerdictsAgree ==
  LET verified == {c \in Orders : "verified" \in stages[c]}
  IN /\ item = "resolved" <=> verified # {}
     /\ \A c, d \in verified : c = d
     /\ \A c \in verified : /\ envelope[c] = "resume" => child = "completed"
                            /\ envelope[c] = "reconcile" => receipt
     /\ item = "expired" <=> request = "expired"
     /\ item = "expired" => \A c \in Orders : HasStarted(c) => "failed" \in stages[c]
     /\ request = "consumed" => \E c \in verified : envelope[c] = "resume"
     /\ Is(Owner, "ended") /\ item = "open" /\ request = "open"
          => \E c \in Orders : Unknown(c)

=============================================================================
