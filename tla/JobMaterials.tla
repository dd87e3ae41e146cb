----------------------------- MODULE JobMaterials -----------------------------
(***************************************************************************)
(* The score and the documents of one job.  Every operation reads the row, *)
(* works for minutes with a language model or a person, and then writes    *)
(* its result under the URL; meanwhile the posting may be scraped again    *)
(* and a trigger takes back what was made for the old description.  Only   *)
(* the scorers look whether the row is still the one that they read.       *)
(* A document is known by the description that it was checked against.     *)
(***************************************************************************)
EXTENDS RuntimeBase, FiniteSets

CONSTANTS
  Postings,        \* versions of what the fingerprint of a job covers
  Shifts,          \* sets of operations, one of which is at work: a bound of the instance
  Together,        \* at most so many operations are under way: a bound of the instance
  MaxChanges,      \* changes of the posting: a bound of the instance
  MaxScores,       \* assessments: a bound of the instance
  TailorTries,     \* the limit of tailor_attempts; a revalidation keeps it too, in the instance
  LetterTries      \* MAX_ATTEMPTS; an exact preparation keeps it too, in the instance

ASSUME MaterialAssumption ==
  /\ None \notin Postings
  /\ \A s \in Shifts : s \subseteq
       {"score", "exact", "tailor", "project", "revalidate", "letters", "prepare", "runtime", "approve"}
  /\ {Together, MaxChanges, MaxScores, TailorTries, LetterTries} \subseteq Nat

MaterialOps == UNION Shifts

VARIABLES
  shift,     \* the operations at work; of each, one at a time
  jobRow,    \* the row of the job
  letter,    \* the text file of its letter: a revision, and the posting it was written for
  exact,     \* the library's validations: the posting they name, and the one that was checked
  op,        \* per operation, what it has read and made
  carried,   \* the copy of the row that the worker applies with
  changes,   \* how often the posting changed
  slips      \* history: what an operation wrote that the posting had overtaken

materialVars == <<shift, jobRow, letter, exact, op, carried, changes, slips>>

Scorers == {"score", "exact"}
Unread == [rev |-> 0, for |-> None]
NoScore == [fit |-> FALSE, status |-> "none", of |-> None, count |-> 0]

Covers ==
  {"none", "machine_validated", "human_approved", "agent_validated", "not_required", "failed", "stale"}

ScoreRow ==
  [fit : BOOLEAN, status : {"none", "scored", "failed", "stale"}, of : Postings \cup {None}, count : Nat]

Row ==
  [posting : Postings,
   score : ScoreRow,
   resume : Postings \cup {None},
   tailor : {"none", "machine_validated", "failed", "stale", "revalidating"}, tries : Nat,
   filed : BOOLEAN,
   cover : Covers,
   approved : Nat, covers : Nat,
   apply : {"open", "claimed", "submitting", "uncertain", "applied"},
   begun : BOOLEAN,    \* an attempt has submit_started and a status that counts
   kept : BOOLEAN]     \* history: the posting changed while the trigger held back

Carried == [posting : Postings, resume : Postings \cup {None}, valid : BOOLEAN, cover : Covers, excused : BOOLEAN]

MaterialTypeOK ==
  /\ shift \in Shifts
  /\ jobRow \in Row
  /\ letter \in [rev : Nat, for : Postings \cup {None}]
  /\ exact \subseteq [named : Postings, checked : Postings]
  /\ \A o \in MaterialOps : op[o] = None \/ op[o].at \in {"scoring", "work", "made", "filed", "register"}
  /\ carried = None \/ carried \in Carried
  /\ changes \in Nat
  /\ slips \subseteq {"resume", "letter", "approval", "library"}

MaterialInit ==
  /\ shift \in Shifts
  /\ \E p \in Postings :
       jobRow = [posting |-> p, score |-> NoScore, resume |-> None, tailor |-> "none", tries |-> 0,
              filed |-> FALSE, cover |-> "none", approved |-> 0, covers |-> 0,
              apply |-> "open", begun |-> FALSE, kept |-> FALSE]
  /\ letter = Unread /\ exact = {}
  /\ op = [o \in MaterialOps |-> None]
  /\ carried = None /\ changes = 0 /\ slips = {}

-----------------------------------------------------------------------------
(* The posting *)

\* The trigger leaves a job alone that was submitted, or may have been.
Frozen(r) == r.apply \in {"applied", "uncertain"} \/ r.begun

\* Mutant of Invalidated: the trigger forgets the letter.
InvalidatedButLetter(r) ==
  [r EXCEPT !.score = [@ EXCEPT !.fit = FALSE, !.status = "stale", !.of = None], !.resume = None, !.tailor = "stale"]

\* jobs_invalidate_changed_score_inputs
Invalidated(r) ==
  [r EXCEPT !.score = [@ EXCEPT !.fit = FALSE, !.status = "stale", !.of = None],
            !.resume = None, !.tailor = "stale",
            !.filed = FALSE, !.cover = "stale", !.approved = 0,
            !.kept = FALSE]

Becomes(r, p) ==
  IF p = r.posting THEN r
  ELSE [(IF Frozen(r) THEN [r EXCEPT !.kept = TRUE] ELSE Invalidated(r)) EXCEPT !.posting = p]

\* What the slips describe is gone when the trigger has fired.
SlipsAfter(p) == IF p = jobRow.posting \/ Frozen(jobRow) THEN slips ELSE slips \cap {"library"}

\* Whoever changes the posting: a scraper, an import, a hand.
Posted(p) ==
  /\ p # jobRow.posting => changes < MaxChanges
  /\ changes' = IF p = jobRow.posting THEN changes ELSE changes + 1

PostingChanges ==
  /\ \E p \in Postings \ {jobRow.posting} : Posted(p) /\ jobRow' = Becomes(jobRow, p) /\ slips' = SlipsAfter(p)
  /\ UNCHANGED <<letter, exact, op, carried>>

-----------------------------------------------------------------------------
(* What all operations have in common *)

Busy == {o \in MaterialOps : op[o] # None}

MayBegin(o) == o \in shift /\ op[o] = None /\ Cardinality(Busy) < Together

Takes(o, state) == op' = [op EXCEPT ![o] = state]
Finishes(o) == op' = [op EXCEPT ![o] = None]
InPhase(o, phase) == o \in MaterialOps /\ op[o] # None /\ op[o].at = phase
MovesTo(o, phase) == op' = [op EXCEPT ![o].at = phase]

Overtaken(o) == op[o].posting # jobRow.posting

\* The slips after a write of document d: it is one if the posting has overtaken the writer.
Slipped(d, overtaken) == IF overtaken THEN slips \cup {d} ELSE slips \ {d}

\* A process dies or an operation raises.
OperationFails(o) ==
  /\ o \in MaterialOps /\ op[o] # None
  /\ Finishes(o)
  /\ UNCHANGED <<jobRow, letter, exact, carried, changes, slips>>

-----------------------------------------------------------------------------
(* Scores: run_scoring, score_exact_job_for_url *)

ScoreBegins(o) ==
  /\ o \in Scorers /\ MayBegin(o)
  /\ jobRow.score.count < MaxScores
  /\ Takes(o, [at |-> "scoring", posting |-> jobRow.posting, score |-> jobRow.score])
  /\ UNCHANGED <<jobRow, letter, exact, carried, changes, slips>>

\* _guard_score_write and its twin in the batch; the other inputs of a score, profile and
\* source, may have changed too.
StillTheRow(o) == jobRow.posting = op[o].posting /\ jobRow.score = op[o].score

\* A score below the minimum is as good as none.
Assessed(o, good) ==
  [jobRow.score EXCEPT !.fit = good, !.status = IF good THEN "scored" ELSE "failed",
                    !.of = op[o].posting, !.count = @ + 1]

ScoreEnds(o) ==
  /\ o \in Scorers /\ InPhase(o, "scoring")
  /\ StillTheRow(o)
  /\ \E good \in BOOLEAN : jobRow' = [jobRow EXCEPT !.score = Assessed(o, good)]
  /\ Finishes(o)
  /\ UNCHANGED <<letter, exact, carried, changes, slips>>

-----------------------------------------------------------------------------
(* Resumes: run_tailoring, route_resume_for_job, project_reuse_to_job, revalidation *)

\* _score_binding_error and the status of a score, seen from the copy of the row.
ScoreBinds(score, posting) == score.status \in {"none", "scored"} /\ score.of \in {None, posting}

TailorBegins ==
  /\ MayBegin("tailor")
  /\ jobRow.score.fit /\ jobRow.tries < TailorTries
  /\ Takes("tailor", [at |-> "work", posting |-> jobRow.posting, score |-> jobRow.score])
  /\ UNCHANGED <<jobRow, letter, exact, carried, changes, slips>>

ProjectBegins ==
  /\ MayBegin("project")
  /\ Takes("project", [at |-> "work", posting |-> jobRow.posting, score |-> jobRow.score])
  /\ UNCHANGED <<jobRow, letter, exact, carried, changes, slips>>

\* An artifact that the library holds as validated for this very posting, or that the router
\* has compared with it.
Reusable(posting) == {e.checked : e \in {x \in exact : x.named = posting}} \cup {posting : x \in exact}

\* The route is decided and the resume made, from the copy of the row.
Routes(o) ==
  /\ o \in {"tailor", "project"} /\ InPhase(o, "work")
  /\ \/ /\ ScoreBinds(op[o].score, op[o].posting)
        /\ \E d \in Reusable(op[o].posting) :
             Takes(o, [at |-> "made", posting |-> op[o].posting, doc |-> d, new |-> FALSE])
     \/ /\ o = "tailor"
        /\ \/ ScoreBinds(op[o].score, op[o].posting) /\ \E good \in BOOLEAN :
                Takes(o, [at |-> "made", posting |-> op[o].posting,
                          doc |-> IF good THEN op[o].posting ELSE None, new |-> good])
           \/ Takes(o, [at |-> "made", posting |-> op[o].posting, doc |-> None, new |-> FALSE])
  /\ UNCHANGED <<jobRow, letter, exact, carried, changes, slips>>

\* The row is found by its URL and nothing else.
ResumeWrites(o) ==
  /\ o \in {"tailor", "project"} /\ InPhase(o, "made")
  /\ jobRow' = [jobRow EXCEPT !.resume = op[o].doc,
                        !.tailor = IF op[o].doc = None THEN "failed" ELSE "machine_validated",
                        !.tries = IF o = "tailor" /\ (op[o].new \/ op[o].doc = None) THEN @ + 1 ELSE @]
  /\ slips' = Slipped("resume", Overtaken(o) \/ op[o].doc \notin {None, op[o].posting})
  /\ IF op[o].new THEN MovesTo(o, "register") ELSE Finishes(o)
  /\ UNCHANGED <<letter, exact, carried, changes>>

\* register_tailored_artifact takes the fingerprint of the row as it is by now.
Registers ==
  /\ InPhase("tailor", "register")
  /\ exact' = exact \cup {[named |-> jobRow.posting, checked |-> op["tailor"].doc]}
  /\ slips' = IF Overtaken("tailor") THEN slips \cup {"library"} ELSE slips
  /\ Finishes("tailor")
  /\ UNCHANGED <<jobRow, letter, carried, changes>>

RevalidateBegins ==
  /\ MayBegin("revalidate")
  /\ jobRow.apply \notin {"applied", "uncertain"}
  /\ jobRow.resume # None \/ jobRow.tailor = "failed"
  /\ jobRow.tries < TailorTries
  /\ jobRow' = [jobRow EXCEPT !.tailor = "revalidating", !.tries = @ + 1]
  /\ Takes("revalidate", [at |-> "work", posting |-> jobRow.posting, doc |-> jobRow.resume])
  /\ UNCHANGED <<letter, exact, carried, changes, slips>>

\* The text passes every check against the copy of the row, fails one, or the check breaks.
RevalidateEnds ==
  /\ InPhase("revalidate", "work")
  /\ \/ /\ jobRow' = [jobRow EXCEPT !.resume = op["revalidate"].posting, !.tailor = "machine_validated"]
        /\ exact' = exact \cup {[named |-> op["revalidate"].posting, checked |-> op["revalidate"].posting]}
        /\ slips' = Slipped("resume", Overtaken("revalidate"))
     \/ /\ jobRow' = [jobRow EXCEPT !.resume = op["revalidate"].doc, !.tailor = "failed"]
        /\ UNCHANGED <<exact, slips>>
     \/ /\ jobRow' = [jobRow EXCEPT !.tailor = "failed"]
        /\ UNCHANGED <<exact, slips>>
  /\ Finishes("revalidate")
  /\ UNCHANGED <<letter, carried, changes>>

-----------------------------------------------------------------------------
(* Letters: the batch, prepare_cover_letter_for_url, and the same for a waiting worker *)

\* The batch takes rows without a letter.
LettersBegin ==
  /\ MayBegin("letters")
  /\ jobRow.score.fit /\ jobRow.tailor = "machine_validated" /\ jobRow.resume # None
  /\ ~jobRow.filed /\ jobRow.cover # "not_required" /\ jobRow.covers < LetterTries
  /\ Takes("letters", [at |-> "work", posting |-> jobRow.posting])
  /\ UNCHANGED <<jobRow, letter, exact, carried, changes, slips>>

\* The employer's name is written first, which may itself change the posting.
PrepareBegins(o) ==
  /\ MayBegin(o)
  /\ jobRow.covers < LetterTries /\ jobRow.score.count < MaxScores
  /\ \/ o = "prepare"
     \/ o = "runtime" /\ jobRow.apply = "claimed" /\ carried.cover # "machine_validated"
  /\ \E p \in Postings :
       /\ o = "runtime" /\ carried.posting = jobRow.posting => p = jobRow.posting
       /\ Posted(p)
       /\ jobRow' = Becomes(jobRow, p)
       /\ slips' = SlipsAfter(p)
       /\ Takes(o, [at |-> "scoring", posting |-> p, score |-> jobRow'.score])
  /\ UNCHANGED <<letter, exact, carried>>

PrepareScores(o) ==
  /\ o \in {"prepare", "runtime"} /\ InPhase(o, "scoring")
  /\ StillTheRow(o)
  /\ \E good \in BOOLEAN :
       /\ jobRow' = [jobRow EXCEPT !.score = Assessed(o, good)]
       /\ IF good THEN Takes(o, [at |-> "work", posting |-> op[o].posting]) ELSE Finishes(o)
  /\ UNCHANGED <<letter, exact, carried, changes, slips>>

LetterWriters == {"letters", "prepare", "runtime"}

\* The text goes to a file that is named for employer and title, over what is there.
LetterFiled(o) ==
  /\ o \in LetterWriters /\ InPhase(o, "work")
  /\ letter.rev < LetterTries
  /\ letter' = [rev |-> letter.rev + 1, for |-> op[o].posting]
  /\ slips' = slips \cup (IF jobRow.filed /\ Overtaken(o) THEN {"letter"} ELSE {})
                    \cup (IF jobRow.cover = "human_approved" THEN {"approval"} ELSE {})
  /\ MovesTo(o, "filed")
  /\ UNCHANGED <<jobRow, exact, carried, changes>>

LetterRejected(o) ==
  /\ o \in LetterWriters /\ InPhase(o, "work")
  /\ jobRow' = IF o = "letters" THEN [jobRow EXCEPT !.filed = FALSE, !.cover = "failed", !.covers = @ + 1]
            ELSE [jobRow EXCEPT !.cover = IF jobRow.filed THEN @ ELSE "failed", !.covers = @ + 1]
  /\ Finishes(o)
  /\ UNCHANGED <<letter, exact, carried, changes, slips>>

LetterRecorded(o) ==
  /\ o \in LetterWriters /\ InPhase(o, "filed")
  /\ jobRow' = [jobRow EXCEPT !.filed = TRUE, !.cover = "machine_validated", !.approved = 0, !.covers = @ + 1]
  /\ slips' = Slipped("letter", letter.for # jobRow.posting) \ {"approval"}
  /\ IF o = "runtime" THEN MovesTo(o, "made") ELSE Finishes(o)
  /\ UNCHANGED <<letter, exact, carried, changes>>

\* The worker goes on with the row as it is now.
Reloaded(r) ==
  [posting |-> r.posting, resume |-> r.resume, valid |-> r.tailor = "machine_validated", cover |-> r.cover,
   excused |-> "resume" \in slips' \/ r.kept]

\* A letter that the machine has validated is approved under the standing policy.
RuntimeApproves ==
  /\ jobRow.apply = "claimed" /\ letter.rev > 0
  /\ \/ InPhase("runtime", "made") /\ Finishes("runtime")
     \/ "runtime" \in shift /\ op["runtime"] = None /\ carried.cover = "machine_validated" /\ UNCHANGED op
  /\ jobRow' = [jobRow EXCEPT !.filed = TRUE, !.cover = "agent_validated", !.approved = 0]
  /\ slips' = Slipped("letter", letter.for # jobRow.posting) \ {"approval"}
  /\ carried' = Reloaded(jobRow')
  /\ UNCHANGED <<letter, exact, changes>>

\* The form turned out to want no letter.
RuntimeNeedsNone ==
  /\ jobRow.apply = "claimed" /\ "runtime" \in shift /\ op["runtime"] = None
  /\ jobRow' = [jobRow EXCEPT !.cover = "not_required"]
  /\ slips' = slips \ {"approval"}
  /\ carried' = Reloaded(jobRow')
  /\ UNCHANGED <<letter, exact, op, changes>>

\* A person approves; what is approved is the file that was read and validated.
ApproveBegins ==
  /\ MayBegin("approve")
  /\ jobRow.cover = "machine_validated" /\ letter.rev > 0
  /\ Takes("approve", [at |-> "work", posting |-> jobRow.posting, rev |-> letter.rev])
  /\ UNCHANGED <<jobRow, letter, exact, carried, changes, slips>>

ApproveEnds ==
  /\ InPhase("approve", "work")
  /\ jobRow' = [jobRow EXCEPT !.cover = "human_approved", !.approved = op["approve"].rev]
  /\ slips' = Slipped("approval", Overtaken("approve") \/ ~jobRow.filed \/ letter.rev # op["approve"].rev)
  /\ Finishes("approve")
  /\ UNCHANGED <<letter, exact, carried, changes>>

-----------------------------------------------------------------------------
(* The application *)

Lettered(r) == r.cover = "not_required" \/ (r.filed /\ r.cover \in {"human_approved", "agent_validated"})

\* select_candidates; a policy may let a worker find out about the letter in the form.
Candidate(r) ==
  /\ r.resume # None /\ r.tailor = "machine_validated"
  /\ r.apply = "open" /\ r.score.fit
  /\ Lettered(r) \/ "runtime" \in shift

\* acquire_job claims a row only if every column is still what it read.
ClaimJob ==
  /\ Candidate(jobRow) /\ carried = None
  /\ jobRow' = [jobRow EXCEPT !.apply = "claimed"]
  /\ slips' = slips
  /\ carried' = Reloaded(jobRow')
  /\ UNCHANGED <<letter, exact, op, changes>>

\* _record_candidate_block: a fact of the profile has changed since the resume was made.
RetireResume ==
  /\ Candidate(jobRow)
  /\ jobRow' = [jobRow EXCEPT !.resume = None, !.tailor = "stale"]
  /\ UNCHANGED <<letter, exact, op, carried, changes, slips>>

\* The prompt of the turn that submits is built from the worker's copy.
SubmitBegins ==
  /\ jobRow.apply = "claimed"
  /\ "runtime" \in shift => op["runtime"] = None
  /\ carried.valid /\ carried.resume # None
  /\ carried.cover \in {"not_required", "human_approved", "agent_validated"}
  /\ jobRow' = [jobRow EXCEPT !.apply = "submitting", !.begun = TRUE]
  /\ UNCHANGED <<letter, exact, op, carried, changes, slips>>

\* Before Submit, and if it was cancelled in time, the job is open again.
AttemptEnds ==
  /\ jobRow.apply \in {"claimed", "submitting"}
  /\ "runtime" \in shift => op["runtime"] = None
  /\ \/ jobRow' = [jobRow EXCEPT !.apply = "open", !.begun = IF jobRow.apply = "submitting" THEN FALSE ELSE @]
     \/ jobRow.apply = "submitting" /\ jobRow' = [jobRow EXCEPT !.apply = "uncertain"]
     \/ jobRow.apply = "submitting" /\ jobRow' = [jobRow EXCEPT !.apply = "applied"]
  /\ carried' = None
  /\ UNCHANGED <<letter, exact, op, changes, slips>>

\* An operator marks the job failed and resets it; the attempt keeps its status.
Reopened ==
  /\ jobRow.apply = "uncertain"
  /\ jobRow' = [jobRow EXCEPT !.apply = "open"]
  /\ UNCHANGED <<letter, exact, op, carried, changes, slips>>

MaterialNext ==
  /\ \/ PostingChanges
     \/ \E o \in shift :
          \/ OperationFails(o) \/ ScoreBegins(o) \/ ScoreEnds(o)
          \/ Routes(o) \/ ResumeWrites(o)
          \/ LetterFiled(o) \/ LetterRejected(o) \/ LetterRecorded(o)
     \/ TailorBegins \/ ProjectBegins \/ Registers \/ RevalidateBegins \/ RevalidateEnds
     \/ LettersBegin \/ \E o \in {"prepare", "runtime"} : PrepareBegins(o) \/ PrepareScores(o)
     \/ RuntimeApproves \/ RuntimeNeedsNone \/ ApproveBegins \/ ApproveEnds
     \/ ClaimJob \/ RetireResume \/ SubmitBegins \/ AttemptEnds \/ Reopened
  /\ UNCHANGED shift

-----------------------------------------------------------------------------
(* Properties *)

\* A score that lets a job go on is about the description that the row has.
ScoreAgrees == jobRow.score.fit /\ ~jobRow.kept => jobRow.score.of = jobRow.posting

\* A resume that counts as validated was checked against the description that the row has,
\* unless it was written after the trigger had taken its predecessor back, or reused from what
\* such a write left in the library.
ResumeAgrees ==
  jobRow.tailor = "machine_validated" =>
    /\ jobRow.resume # None
    /\ jobRow.resume = jobRow.posting \/ "resume" \in slips \/ jobRow.kept

\* Likewise a letter that a worker may send, and the library.
LetterAgrees ==
  /\ jobRow.filed /\ jobRow.cover \in {"machine_validated", "human_approved", "agent_validated"} =>
       letter.for = jobRow.posting \/ "letter" \in slips \/ jobRow.kept
  /\ \A x \in exact : x.named = x.checked \/ "library" \in slips

\* What a person approved is the text that the file has, unless it was written over while they read.
ApprovalStands ==
  jobRow.cover = "human_approved" => "approval" \in slips \/ (jobRow.filed /\ letter.rev = jobRow.approved)

\* A worker submits what was checked for the description that it claimed the job with, whatever
\* the trigger did to the row in the meantime.
SubmissionMatches ==
  jobRow.apply = "submitting" =>
    carried \in Carried /\ (carried.resume = carried.posting \/ carried.excused)

\* The score and the documents that a job goes on with belong to its description, but for
\* writes that the description had overtaken (database.py:297, scorer.py:452, tailor.py:1880).
MaterialsAgree ==
  /\ ScoreAgrees /\ ResumeAgrees /\ LetterAgrees
  /\ ApprovalStands /\ SubmissionMatches

MaterialSpec == MaterialInit /\ [][MaterialNext]_materialVars

=============================================================================
