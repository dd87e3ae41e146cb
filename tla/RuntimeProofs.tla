---------------------------- MODULE RuntimeProofs ----------------------------
(***************************************************************************)
(* Documents: the score and the documents of a job belong to its           *)
(* description, but for the writes that the posting had overtaken.  Agent  *)
(* turns: two agents never work for one actor, an agent that works can be  *)
(* recognised by its row, and nothing follows a turn that may have         *)
(* submitted and whose outcome is not known.  The composition: what is     *)
(* proved of each part of the runtime holds where they share processes     *)
(* and the clock.                                                          *)
(***************************************************************************)
EXTENDS RuntimeSystem, ExclusionProofs

-----------------------------------------------------------------------------
(* The documents of a job *)

ResumeMakers == {"tailor", "project"}

Documents == Postings \cup {None}

MadeResume == [at : {"made", "register"}, posting : Postings, doc : Documents, new : BOOLEAN]
LetterDraft == [at : {"work", "filed", "made"}, posting : Postings]

Phases == {"scoring", "work", "made", "filed", "register"}

\* What operation o may hold in each phase; a resume that was made anew fits the posting
\* that it was made for.
OpFits(o, r) ==
  r # None =>
    /\ r.at \in Phases
    /\ r.posting \in Postings
    /\ o \in ResumeMakers /\ r.at \in {"made", "register"} =>
         r \in MadeResume /\ (r.new \/ r.at = "register" => r.doc = r.posting)
    /\ o \in LetterWriters /\ r.at # "scoring" => r \in LetterDraft
    /\ o = "revalidate" => r.doc \in Documents
    /\ o = "approve" => r.rev \in Nat

OpsFit ==
  /\ op = [o \in MaterialOps |-> op[o]]
  /\ \A o \in MaterialOps : OpFits(o, op[o])

\* The letter of a row fits, whatever its status says.
LetterFits == jobRow.filed => letter.for = jobRow.posting \/ "letter" \in slips \/ jobRow.kept

LibraryFits == \A x \in exact : x.named = x.checked \/ "library" \in slips

\* A worker that claimed the job holds a copy, and submits only one that was valid.
CarriedFits ==
  /\ jobRow.apply \in {"claimed", "submitting"} =>
       carried \in Carried /\ (carried.valid => carried.resume = carried.posting \/ carried.excused)
  /\ jobRow.apply = "submitting" => carried.valid

MaterialInvariant ==
  /\ MaterialTypeOK /\ OpsFit
  /\ ScoreAgrees /\ ResumeAgrees
  /\ LetterFits /\ LibraryFits
  /\ ApprovalStands
  /\ CarriedFits

\* The invariant says what the rows should agree on.
LEMMA InvariantAgrees == MaterialInvariant => MaterialsAgree
  BY DEF MaterialInvariant, MaterialsAgree, LetterAgrees, LetterFits, LibraryFits, SubmissionMatches,
         CarriedFits

\* Nothing is written and nobody is at work in the beginning.
LEMMA MaterialStart == MaterialInit => MaterialInvariant
  BY DEF MaterialInit, MaterialInvariant, MaterialTypeOK, OpsFit, OpFits, ScoreAgrees, ResumeAgrees,
         LetterFits, LibraryFits, ApprovalStands, CarriedFits, Row, ScoreRow, NoScore, Unread, Covers

-----------------------------------------------------------------------------
(* The posting *)

\* A row stays one when a column takes another of its values.
LEMMA RowColumns ==
  ASSUME NEW r \in Row
  PROVE  /\ \A v \in Postings : [r EXCEPT !.posting = v] \in Row
         /\ \A v \in ScoreRow : [r EXCEPT !.score = v] \in Row
         /\ \A v \in Documents : [r EXCEPT !.resume = v] \in Row
         /\ \A v \in {"none", "machine_validated", "failed", "stale", "revalidating"} :
              [r EXCEPT !.tailor = v] \in Row
         /\ \A v \in Covers : [r EXCEPT !.cover = v] \in Row
         /\ \A v \in Nat :
              [r EXCEPT !.tries = v] \in Row /\ [r EXCEPT !.approved = v] \in Row /\ [r EXCEPT !.covers = v] \in Row
         /\ \A v \in BOOLEAN :
              [r EXCEPT !.filed = v] \in Row /\ [r EXCEPT !.begun = v] \in Row /\ [r EXCEPT !.kept = v] \in Row
         /\ \A v \in {"open", "claimed", "submitting", "uncertain", "applied"} : [r EXCEPT !.apply = v] \in Row
<1>1. \A v \in Postings : [r EXCEPT !.posting = v] \in Row
  BY DEF Row
<1>2. \A v \in ScoreRow : [r EXCEPT !.score = v] \in Row
  BY DEF Row
<1>3. \A v \in Documents : [r EXCEPT !.resume = v] \in Row
  BY DEF Row, Documents
<1>4. \A v \in {"none", "machine_validated", "failed", "stale", "revalidating"} :
        [r EXCEPT !.tailor = v] \in Row
  BY DEF Row
<1>5. \A v \in Covers : [r EXCEPT !.cover = v] \in Row
  BY DEF Row
<1>6. \A v \in Nat : [r EXCEPT !.tries = v] \in Row
  BY DEF Row
<1>7. \A v \in Nat : [r EXCEPT !.approved = v] \in Row
  BY DEF Row
<1>8. \A v \in Nat : [r EXCEPT !.covers = v] \in Row
  BY DEF Row
<1>9. \A v \in BOOLEAN : [r EXCEPT !.filed = v] \in Row
  BY DEF Row
<1>10. \A v \in BOOLEAN : [r EXCEPT !.begun = v] \in Row
  BY DEF Row
<1>11. \A v \in BOOLEAN : [r EXCEPT !.kept = v] \in Row
  BY DEF Row
<1>12. \A v \in {"open", "claimed", "submitting", "uncertain", "applied"} : [r EXCEPT !.apply = v] \in Row
  BY DEF Row
<1> QED BY <1>1, <1>2, <1>3, <1>4, <1>5, <1>6, <1>7, <1>8, <1>9, <1>10, <1>11, <1>12

\* The row when the trigger has fired and the new posting is stored.
Taken(r, p) == [Invalidated(r) EXCEPT !.posting = p]

\* What the trigger leaves: a row without documents.
LEMMA TriggerClears ==
  ASSUME NEW r \in Row, NEW p \in Postings
  PROVE  /\ Taken(r, p) \in Row /\ Taken(r, p).posting = p /\ Taken(r, p).apply = r.apply
         /\ ~Taken(r, p).score.fit /\ ~Taken(r, p).filed
         /\ Taken(r, p).tailor = "stale" /\ Taken(r, p).cover = "stale"
<1> DEFINE z == [r.score EXCEPT !.fit = FALSE, !.status = "stale", !.of = None]
<1>1. r.score \in ScoreRow
  BY DEF Row
<1>2. z.fit = FALSE /\ z \in ScoreRow
  BY <1>1 DEF ScoreRow
<1>3. Taken(r, p) =
        [r EXCEPT !.score = z, !.resume = None, !.tailor = "stale", !.filed = FALSE, !.cover = "stale",
                  !.approved = 0, !.kept = FALSE, !.posting = p]
  BY DEF Taken, Invalidated, Row
<1> HIDE DEF z
<1>4. Taken(r, p) =
        [posting |-> p, score |-> z, resume |-> None, tailor |-> "stale", tries |-> r.tries, filed |-> FALSE,
         cover |-> "stale", approved |-> 0, covers |-> r.covers, apply |-> r.apply, begun |-> r.begun,
         kept |-> FALSE]
  BY <1>3 DEF Row
<1> QED BY <1>2, <1>4 DEF Row, Covers

\* A change of the posting leaves a row of the same type.
LEMMA PostingRow ==
  ASSUME jobRow \in Row, NEW p \in Postings
  PROVE  Becomes(jobRow, p) \in Row /\ Becomes(jobRow, p).apply = jobRow.apply
<1>1. CASE p = jobRow.posting
  BY <1>1 DEF Becomes
<1>2. CASE p # jobRow.posting /\ Frozen(jobRow)
  BY <1>2 DEF Becomes, Row
<1>3. CASE p # jobRow.posting /\ ~Frozen(jobRow)
  BY <1>3, TriggerClears DEF Becomes, Taken
<1> QED BY <1>1, <1>2, <1>3

\* The trigger has either held back from the row or taken its documents.
LEMMA PostingMoves ==
  ASSUME jobRow \in Row, NEW p \in Postings
  PROVE  /\ "library" \in slips => "library" \in SlipsAfter(p)
         /\ \/ Becomes(jobRow, p) = jobRow /\ SlipsAfter(p) = slips
            \/ /\ SlipsAfter(p) = slips
               /\ Becomes(jobRow, p) = [jobRow EXCEPT !.kept = TRUE, !.posting = p]
            \/ /\ Becomes(jobRow, p) = Taken(jobRow, p)
  BY DEF Becomes, SlipsAfter, Taken

\* Whatever the posting becomes, score, resume, letter and approval still agree with the row.
LEMMA PostingAgrees ==
  ASSUME MaterialInvariant, NEW p \in Postings,
         jobRow' = Becomes(jobRow, p), slips' = SlipsAfter(p), UNCHANGED <<letter, exact, carried>>
  PROVE  /\ ScoreAgrees' /\ ResumeAgrees' /\ LetterFits' /\ LibraryFits' /\ ApprovalStands'
         /\ CarriedFits'
<1>0. jobRow \in Row
  BY DEF MaterialInvariant, MaterialTypeOK
<1>1. jobRow'.apply = jobRow.apply /\ ("library" \in slips => "library" \in slips')
  BY <1>0, PostingMoves, PostingRow
<1>2. LibraryFits' /\ CarriedFits'
  BY <1>1 DEF MaterialInvariant, LibraryFits, CarriedFits
<1> SUFFICES ScoreAgrees' /\ ResumeAgrees' /\ LetterFits' /\ ApprovalStands'
  BY <1>2
<1> USE DEF ScoreAgrees, ResumeAgrees, LetterFits, ApprovalStands
<1>3. CASE jobRow' = jobRow /\ slips' = slips
  BY <1>3 DEF MaterialInvariant
<1>4. CASE slips' = slips /\ jobRow' = [jobRow EXCEPT !.kept = TRUE, !.posting = p]
  BY <1>0, <1>4 DEF MaterialInvariant, Row
<1>5. CASE jobRow' = Taken(jobRow, p)
  <2>1. ~jobRow'.score.fit /\ ~jobRow'.filed /\ jobRow'.tailor = "stale" /\ jobRow'.cover = "stale"
    BY <1>0, <1>5, TriggerClears
  <2> QED BY <2>1
<1> QED BY <1>0, <1>3, <1>4, <1>5, PostingMoves

-----------------------------------------------------------------------------
(* What the steps preserve *)

\* The row keeps its type, whoever writes it.
LEMMA RowKept ==
  ASSUME MaterialTypeOK, OpsFit, MaterialNext
  PROVE  jobRow' \in Row
<1> USE DEF InPhase
<1>0. jobRow \in Row /\ shift \subseteq MaterialOps
  BY DEF MaterialTypeOK, MaterialOps
<1>d. jobRow.tries + 1 \in Nat /\ jobRow.covers + 1 \in Nat
  BY <1>0 DEF Row
<1>a. \A o \in MaterialOps : op[o] # None => op[o].posting \in Postings
  BY DEF OpsFit, OpFits
<1>b. \A o \in shift : InPhase(o, "made") /\ o \in ResumeMakers => op[o].doc \in Documents
  BY <1>0 DEF OpsFit, OpFits, MadeResume
<1>c. ASSUME NEW o \in MaterialOps, op[o] # None, NEW good \in BOOLEAN,
             jobRow' = [jobRow EXCEPT !.score = Assessed(o, good)]
      PROVE  jobRow' \in Row
  <2>1. jobRow.score \in ScoreRow
    BY <1>0 DEF Row
  <2>2. op[o].posting \in Postings /\ (IF good THEN "scored" ELSE "failed") \in {"scored", "failed"}
    BY <1>a, <1>c
  <2>3. jobRow.score.count + 1 \in Nat
    BY <2>1 DEF ScoreRow
  <2>4. Assessed(o, good) \in ScoreRow
    BY <2>1, <2>2, <2>3 DEF Assessed, ScoreRow
  <2> QED BY <1>0, <1>c, <2>4, RowColumns
<1>1. CASE PostingChanges
  BY <1>0, <1>1, PostingRow DEF PostingChanges
<1>2. CASE UNCHANGED jobRow
  BY <1>0, <1>2
<1>3. ASSUME NEW o \in shift, ScoreEnds(o) PROVE jobRow' \in Row
  BY <1>0, <1>3, <1>c DEF ScoreEnds
<1>4. ASSUME NEW o \in {"prepare", "runtime"}, PrepareScores(o) PROVE jobRow' \in Row
  BY <1>0, <1>4, <1>c DEF PrepareScores
<1>5. ASSUME NEW o \in {"prepare", "runtime"}, PrepareBegins(o) PROVE jobRow' \in Row
  BY <1>0, <1>5, PostingRow DEF PrepareBegins
<1> USE DEF Row, Covers
<1>6. ASSUME NEW o \in shift, ResumeWrites(o) PROVE jobRow' \in Row
  <2>1. op[o].doc \in Documents
    BY <1>6, <1>b DEF ResumeWrites, ResumeMakers
  <2>2. (IF op[o].doc = None THEN "failed" ELSE "machine_validated") \in {"failed", "machine_validated"}
    OBVIOUS
  <2>3. (IF o = "tailor" /\ (op[o].new \/ op[o].doc = None) THEN jobRow.tries + 1 ELSE jobRow.tries) \in Nat
    BY <1>0, <1>d
  <2> QED BY <1>0, <1>6, <2>1, <2>2, <2>3 DEF ResumeWrites, Documents
<1>7. CASE RevalidateEnds
  <2>1. op["revalidate"].posting \in Postings /\ op["revalidate"].doc \in Documents
    BY <1>7 DEF RevalidateEnds, OpsFit, OpFits
  <2> QED BY ZenonT(60), <1>0, <1>7, <2>1 DEF RevalidateEnds, Documents
<1>8. CASE ApproveEnds
  BY <1>0, <1>8 DEF ApproveEnds, OpsFit, OpFits
<1>9. ASSUME NEW o \in shift, LetterRejected(o) PROVE jobRow' \in Row
  <2>1. (IF jobRow.filed THEN jobRow.cover ELSE "failed") \in Covers
    BY <1>0
  <2> QED BY <1>0, <1>9, <1>d, <2>1 DEF LetterRejected
<1>10. ASSUME NEW o \in shift, LetterRecorded(o) PROVE jobRow' \in Row
  BY <1>10, <1>0, <1>d DEF LetterRecorded
<1>11. CASE RevalidateBegins
  BY <1>11, <1>0, <1>d DEF RevalidateBegins
<1>12. CASE RuntimeApproves
  BY <1>12, <1>0 DEF RuntimeApproves
<1>13. CASE RuntimeNeedsNone
  BY <1>13, <1>0 DEF RuntimeNeedsNone
<1>14. CASE ClaimJob
  BY <1>14, <1>0 DEF ClaimJob
<1>15. CASE RetireResume
  BY <1>15, <1>0 DEF RetireResume
<1>16. CASE SubmitBegins
  BY <1>16, <1>0 DEF SubmitBegins
<1>17. CASE AttemptEnds
  <2>1. (IF jobRow.apply = "submitting" THEN FALSE ELSE jobRow.begun) \in BOOLEAN
    BY <1>0
  <2> QED BY ZenonT(60), <1>0, <1>17, <2>1 DEF AttemptEnds
<1>18. CASE Reopened
  BY <1>18, <1>0 DEF Reopened
<1> QED BY <1>1, <1>2, <1>3, <1>4, <1>5, <1>6, <1>7, <1>8, <1>9, <1>10, <1>11, <1>12, <1>13, <1>14, <1>15, <1>16, <1>17, <1>18 DEF MaterialNext, OperationFails, ScoreBegins, Routes, LetterFiled, TailorBegins, ProjectBegins, Registers, LettersBegin, ApproveBegins


\* What the operations hold keeps its shape in every phase.
LEMMA OpsKept ==
  ASSUME MaterialTypeOK, OpsFit, MaterialNext
  PROVE  OpsFit'
<1>0. /\ jobRow.posting \in Postings /\ jobRow.resume \in Documents
      /\ shift \subseteq MaterialOps /\ letter.rev \in Nat
  BY DEF MaterialTypeOK, MaterialOps, Row, Documents
<1>a. OpsFit' <=> op' = [o \in MaterialOps |-> op'[o]] /\ \A o \in MaterialOps : OpFits(o, op'[o])
  BY DEF OpsFit, MaterialOps, OpFits, Phases, MadeResume, LetterDraft, Documents, ResumeMakers, LetterWriters
<1>b. ASSUME NEW x \in MaterialOps, NEW v, op' = [op EXCEPT ![x] = v], OpFits(x, v) PROVE OpsFit'
  BY <1>a, <1>b DEF OpsFit
<1>c. ASSUME NEW x \in MaterialOps, Finishes(x) PROVE OpsFit'
  <2>1. OpFits(x, None)
    BY DEF OpFits
  <2> QED BY <1>b, <1>c, <2>1 DEF Finishes
<1>d. CASE UNCHANGED op
  BY <1>a, <1>d DEF OpsFit
<1>1. ASSUME NEW o \in shift, OperationFails(o) PROVE OpsFit'
  BY <1>1, <1>c DEF OperationFails
<1>2. ASSUME NEW o \in shift, ScoreBegins(o) PROVE OpsFit'
  <2>1. OpFits(o, [at |-> "scoring", posting |-> jobRow.posting, score |-> jobRow.score])
    BY <1>0, <1>2 DEF ScoreBegins, OpFits, Phases, Scorers, ResumeMakers
  <2> QED BY <1>0, <1>2, <1>b, <2>1 DEF ScoreBegins, Takes
<1>3. ASSUME NEW o \in shift, ScoreEnds(o) PROVE OpsFit'
  BY <1>0, <1>3, <1>c DEF ScoreEnds
<1>4. ASSUME NEW o \in ResumeMakers \cap MaterialOps,
             Takes(o, [at |-> "work", posting |-> jobRow.posting, score |-> jobRow.score])
      PROVE  OpsFit'
  <2>1. OpFits(o, [at |-> "work", posting |-> jobRow.posting, score |-> jobRow.score])
    BY <1>0 DEF OpFits, Phases, ResumeMakers, LetterWriters
  <2> QED BY <1>4, <1>b, <2>1 DEF Takes
<1>5. ASSUME NEW o \in shift, Routes(o) PROVE OpsFit'
  <2>1. o \in MaterialOps \cap ResumeMakers /\ op[o].posting \in Postings
    BY <1>0, <1>5 DEF Routes, InPhase, OpsFit, OpFits, ResumeMakers
  <2>2. ASSUME NEW d \in Documents, NEW new \in BOOLEAN, new => d = op[o].posting,
               Takes(o, [at |-> "made", posting |-> op[o].posting, doc |-> d, new |-> new])
        PROVE  OpsFit'
    <3>1. OpFits(o, [at |-> "made", posting |-> op[o].posting, doc |-> d, new |-> new])
      BY <2>1, <2>2 DEF OpFits, Phases, ResumeMakers, LetterWriters, MadeResume
    <3> QED BY <1>b, <2>1, <2>2, <3>1 DEF Takes
  <2>3. Reusable(op[o].posting) \subseteq Documents
    BY <2>1 DEF Reusable, MaterialTypeOK, Documents
  <2>4. None \in Documents
    BY DEF Documents
  <2>5. CASE \E d \in Reusable(op[o].posting) :
               Takes(o, [at |-> "made", posting |-> op[o].posting, doc |-> d, new |-> FALSE])
    BY <2>2, <2>3, <2>5
  <2>6. CASE \E good \in BOOLEAN :
               Takes(o, [at |-> "made", posting |-> op[o].posting,
                         doc |-> IF good THEN op[o].posting ELSE None, new |-> good])
    <3>1. PICK good \in BOOLEAN :
            Takes(o, [at |-> "made", posting |-> op[o].posting,
                      doc |-> IF good THEN op[o].posting ELSE None, new |-> good])
      BY <2>6
    <3>2. (IF good THEN op[o].posting ELSE None) \in Documents
      BY <2>1 DEF Documents
    <3> QED BY <2>2, <3>1, <3>2
  <2>7. CASE Takes(o, [at |-> "made", posting |-> op[o].posting, doc |-> None, new |-> FALSE])
    BY <2>2, <2>4, <2>7
  <2> QED BY <1>5, <2>5, <2>6, <2>7 DEF Routes
<1>6. ASSUME NEW o \in shift, ResumeWrites(o) PROVE OpsFit'
  <2>1. o \in MaterialOps \cap ResumeMakers /\ op[o] \in MadeResume
        /\ (op[o].new => op[o].doc = op[o].posting)
    BY <1>0, <1>6 DEF ResumeWrites, InPhase, OpsFit, OpFits, ResumeMakers
  <2>2. CASE op[o].new /\ MovesTo(o, "register")
    <3>1. OpFits(o, [op[o] EXCEPT !.at = "register"])
      BY <2>1, <2>2 DEF OpFits, Phases, ResumeMakers, LetterWriters, MadeResume
    <3> QED BY <1>b, <2>1, <2>2, <3>1 DEF MovesTo
  <2> QED BY <1>0, <1>6, <1>c, <2>2 DEF ResumeWrites
<1>7. ASSUME NEW o \in LetterWriters \cap MaterialOps, op[o] # None, op[o].at # "scoring",
             NEW at \in {"filed", "made"}, MovesTo(o, at)
      PROVE  OpsFit'
  <2>1. op[o] \in LetterDraft
    BY <1>7 DEF OpsFit, OpFits
  <2>2. OpFits(o, [op[o] EXCEPT !.at = at])
    BY <1>7, <2>1 DEF OpFits, Phases, ResumeMakers, LetterWriters, LetterDraft
  <2> QED BY <1>b, <1>7, <2>2 DEF MovesTo
<1>8. ASSUME NEW o \in shift, LetterFiled(o) PROVE OpsFit'
  BY <1>7, <1>8 DEF LetterFiled, InPhase
<1>9. ASSUME NEW o \in shift, LetterRejected(o) PROVE OpsFit'
  BY <1>0, <1>9, <1>c DEF LetterRejected
<1>10. ASSUME NEW o \in shift, LetterRecorded(o) PROVE OpsFit'
  BY <1>0, <1>7, <1>10, <1>c DEF LetterRecorded, InPhase
<1>11. CASE TailorBegins
  BY <1>0, <1>4, <1>11 DEF TailorBegins, MayBegin, ResumeMakers
<1>12. CASE ProjectBegins
  BY <1>0, <1>4, <1>12 DEF ProjectBegins, MayBegin, ResumeMakers
<1>13. CASE Registers
  BY <1>13, <1>c DEF Registers, InPhase
<1>14. CASE RevalidateBegins
  <2>1. OpFits("revalidate", [at |-> "work", posting |-> jobRow.posting, doc |-> jobRow.resume])
    BY <1>0 DEF OpFits, Phases, ResumeMakers, LetterWriters
  <2> QED BY <1>0, <1>14, <1>b, <2>1 DEF RevalidateBegins, MayBegin, Takes
<1>15. CASE RevalidateEnds
  BY <1>15, <1>c DEF RevalidateEnds, InPhase
<1>16. ASSUME NEW o \in LetterWriters \cap MaterialOps, NEW q \in Postings,
              Takes(o, [at |-> "work", posting |-> q])
       PROVE  OpsFit'
  <2>1. OpFits(o, [at |-> "work", posting |-> q])
    BY DEF OpFits, Phases, ResumeMakers, LetterWriters, LetterDraft
  <2> QED BY <1>16, <1>b, <2>1 DEF Takes
<1>17. CASE LettersBegin
  BY <1>0, <1>16, <1>17 DEF LettersBegin, MayBegin, LetterWriters
<1>18. ASSUME NEW o \in {"prepare", "runtime"}, PrepareBegins(o) PROVE OpsFit'
  <2>1. PICK p \in Postings : Takes(o, [at |-> "scoring", posting |-> p, score |-> jobRow'.score])
    BY <1>18 DEF PrepareBegins
  <2>2. OpFits(o, [at |-> "scoring", posting |-> p, score |-> jobRow'.score])
    BY DEF OpFits, Phases, ResumeMakers
  <2> QED BY <1>0, <1>18, <1>b, <2>1, <2>2 DEF PrepareBegins, MayBegin, Takes
<1>19. ASSUME NEW o \in {"prepare", "runtime"}, PrepareScores(o) PROVE OpsFit'
  <2>1. o \in LetterWriters \cap MaterialOps /\ op[o].posting \in Postings
    BY <1>19 DEF PrepareScores, InPhase, OpsFit, OpFits, LetterWriters
  <2> QED BY <1>16, <1>19, <1>c, <2>1 DEF PrepareScores
<1>20. CASE RuntimeApproves
  BY <1>20, <1>c, <1>d DEF RuntimeApproves, InPhase
<1>21. CASE ApproveBegins
  <2>1. OpFits("approve", [at |-> "work", posting |-> jobRow.posting, rev |-> letter.rev])
    BY <1>0 DEF OpFits, Phases, ResumeMakers, LetterWriters
  <2> QED BY <1>0, <1>21, <1>b, <2>1 DEF ApproveBegins, MayBegin, Takes
<1>22. CASE ApproveEnds
  BY <1>22, <1>c DEF ApproveEnds, InPhase
<1> QED BY <1>d, <1>1, <1>2, <1>3, <1>5, <1>6, <1>8, <1>9, <1>10, <1>11, <1>12, <1>13, <1>14, <1>15, <1>17,
           <1>18, <1>19, <1>20, <1>21, <1>22
        DEF MaterialNext, PostingChanges, RuntimeNeedsNone, ClaimJob, RetireResume, SubmitBegins, AttemptEnds,
            Reopened

\* All types are kept.
LEMMA MaterialTypesKept ==
  ASSUME MaterialTypeOK, OpsFit, MaterialNext
  PROVE  MaterialTypeOK'
<1>1. jobRow' \in Row
  BY RowKept
<1>2. \A o \in MaterialOps : op'[o] = None \/ op'[o].at \in Phases
  BY OpsKept DEF OpsFit, OpFits, MaterialOps
<1>3. shift' \in Shifts /\ shift \subseteq MaterialOps /\ jobRow \in Row
  BY DEF MaterialTypeOK, MaterialNext, MaterialOps
<1>a. \A o \in MaterialOps : op[o] # None => op[o].posting \in Postings
  BY DEF OpsFit, OpFits
<1>4. letter' \in [rev : Nat, for : Postings \cup {None}]
  <2>1. ASSUME NEW o \in shift, LetterFiled(o) PROVE letter' \in [rev : Nat, for : Postings \cup {None}]
    <3>1. op[o].posting \in Postings /\ letter.rev + 1 \in Nat
      BY <1>3, <1>a, <2>1 DEF LetterFiled, InPhase, MaterialTypeOK
    <3> QED BY <2>1, <3>1 DEF LetterFiled
  <2>2. UNCHANGED letter => letter' \in [rev : Nat, for : Postings \cup {None}]
    BY DEF MaterialTypeOK
  <2> QED BY <2>1, <2>2 DEF MaterialNext, PostingChanges, OperationFails, ScoreBegins, ScoreEnds, Routes,
        ResumeWrites, LetterRejected, LetterRecorded, TailorBegins, ProjectBegins, Registers,
        RevalidateBegins, RevalidateEnds, LettersBegin, PrepareBegins, PrepareScores, RuntimeApproves,
        RuntimeNeedsNone, ApproveBegins, ApproveEnds, ClaimJob, RetireResume, SubmitBegins, AttemptEnds, Reopened
<1>5. exact' \subseteq [named : Postings, checked : Postings]
  <2>1. CASE Registers
    <3>1. op["tailor"].doc = op["tailor"].posting /\ op["tailor"].posting \in Postings
      BY <2>1 DEF Registers, InPhase, OpsFit, OpFits, ResumeMakers
    <3>2. jobRow.posting \in Postings
      BY <1>3 DEF Row
    <3> QED BY <2>1, <3>1, <3>2 DEF Registers, MaterialTypeOK
  <2>2. CASE RevalidateEnds
    BY <1>a, <2>2 DEF RevalidateEnds, InPhase, MaterialTypeOK
  <2>3. UNCHANGED exact => exact' \subseteq [named : Postings, checked : Postings]
    BY DEF MaterialTypeOK
  <2> QED BY <2>1, <2>2, <2>3 DEF MaterialNext, PostingChanges, OperationFails, ScoreBegins, ScoreEnds,
        Routes, ResumeWrites, LetterFiled, LetterRejected, LetterRecorded, TailorBegins, ProjectBegins,
        RevalidateBegins, LettersBegin, PrepareBegins, PrepareScores, RuntimeApproves, RuntimeNeedsNone,
        ApproveBegins, ApproveEnds, ClaimJob, RetireResume, SubmitBegins, AttemptEnds, Reopened
<1>6. carried' = None \/ carried' \in Carried
  <2>1. ASSUME carried' = Reloaded(jobRow') PROVE carried' \in Carried
    BY <1>1, <2>1 DEF Reloaded, Carried, Row
  <2>2. UNCHANGED carried => carried' = None \/ carried' \in Carried
    BY DEF MaterialTypeOK
  <2> QED BY <2>1, <2>2 DEF MaterialNext, PostingChanges, OperationFails, ScoreBegins, ScoreEnds,
        Routes, ResumeWrites, LetterFiled, LetterRejected, LetterRecorded, TailorBegins, ProjectBegins,
        Registers, RevalidateBegins, RevalidateEnds, LettersBegin, PrepareBegins, PrepareScores,
        RuntimeApproves, RuntimeNeedsNone,
        ApproveBegins, ApproveEnds, ClaimJob, RetireResume, SubmitBegins, AttemptEnds, Reopened
<1>7. changes' \in Nat
  <2>1. changes \in Nat /\ changes + 1 \in Nat
    BY DEF MaterialTypeOK
  <2>2. CASE PostingChanges \/ \E o \in {"prepare", "runtime"} : PrepareBegins(o)
    BY <2>1, <2>2 DEF PostingChanges, PrepareBegins, Posted
  <2>3. CASE UNCHANGED changes
    BY <2>1, <2>3
  <2> QED BY <2>2, <2>3 DEF MaterialNext, OperationFails, ScoreBegins, ScoreEnds,
        Routes, ResumeWrites, LetterFiled, LetterRejected, LetterRecorded, TailorBegins, ProjectBegins,
        Registers, RevalidateBegins, RevalidateEnds, LettersBegin, PrepareScores, RuntimeApproves,
        RuntimeNeedsNone, ApproveBegins, ApproveEnds, ClaimJob, RetireResume, SubmitBegins, AttemptEnds, Reopened
<1>8. slips' \subseteq {"resume", "letter", "approval", "library"}
  <2>1. slips \subseteq {"resume", "letter", "approval", "library"}
    BY DEF MaterialTypeOK
  <2>2. \A p : SlipsAfter(p) \subseteq slips
    BY DEF SlipsAfter
  <2>3. \A d, b : Slipped(d, b) \subseteq slips \cup {d}
    BY DEF Slipped
  <2>4. CASE PostingChanges \/ \E o \in {"prepare", "runtime"} : PrepareBegins(o)
    BY <2>1, <2>2, <2>4 DEF PostingChanges, PrepareBegins
  <2>5. CASE RevalidateEnds \/ ApproveEnds \/ RuntimeApproves \/ RuntimeNeedsNone \/ ClaimJob
    BY <2>1, <2>3, <2>5 DEF RevalidateEnds, ApproveEnds, RuntimeApproves, RuntimeNeedsNone, ClaimJob
  <2>6. CASE Registers \/ \E o \in shift : ResumeWrites(o) \/ LetterRecorded(o)
    BY <2>1, <2>6 DEF Registers, ResumeWrites, LetterRecorded, Slipped
  <2>7. ASSUME NEW o \in shift, LetterFiled(o) PROVE slips' \subseteq {"resume", "letter", "approval", "library"}
    BY <2>1, <2>7 DEF LetterFiled
  <2>8. CASE UNCHANGED slips
    BY <2>1, <2>8
  <2> QED BY <2>4, <2>5, <2>6, <2>7, <2>8 DEF MaterialNext, OperationFails, ScoreBegins, ScoreEnds,
        Routes, LetterRejected, TailorBegins, ProjectBegins, RevalidateBegins, LettersBegin, PrepareScores,
        ApproveBegins, RetireResume, SubmitBegins, AttemptEnds, Reopened
<1> QED BY <1>1, <1>2, <1>3, <1>4, <1>5, <1>6, <1>7, <1>8 DEF MaterialTypeOK, MaterialOps, Phases

-----------------------------------------------------------------------------
(* What a step does to each of the documents, if it is no change of the posting *)

ScoreMoves == jobRow'.score = jobRow.score \/ jobRow'.score.of = jobRow.posting

ResumeMoves ==
  \/ /\ jobRow'.tailor = jobRow.tailor /\ jobRow'.resume = jobRow.resume
     /\ "resume" \in slips => "resume" \in slips'
  \/ jobRow'.tailor # "machine_validated"
  \/ jobRow'.resume # None /\ (jobRow'.resume = jobRow.posting \/ "resume" \in slips')

LetterMoves ==
  \/ jobRow'.filed = jobRow.filed /\ letter' = letter /\ ("letter" \in slips => "letter" \in slips')
  \/ ~jobRow'.filed
  \/ letter'.for = jobRow.posting \/ "letter" \in slips'

LibraryMoves ==
  /\ "library" \in slips => "library" \in slips'
  /\ \A x \in exact' : x \in exact \/ x.named = x.checked \/ "library" \in slips'

ApprovalMoves ==
  \/ /\ jobRow'.cover = jobRow.cover /\ jobRow'.filed = jobRow.filed /\ jobRow'.approved = jobRow.approved
     /\ letter'.rev = letter.rev /\ ("approval" \in slips => "approval" \in slips')
  \/ jobRow'.cover # "human_approved"
  \/ "approval" \in slips' \/ (jobRow'.filed /\ letter'.rev = jobRow'.approved)

CopyMoves ==
  \/ carried' = carried /\ jobRow'.apply = jobRow.apply
  \/ carried' = Reloaded(jobRow') /\ jobRow'.apply = "claimed"
  \/ carried' = carried /\ jobRow.apply = "claimed" /\ carried.valid /\ jobRow'.apply = "submitting"
  \/ jobRow'.apply \notin {"claimed", "submitting"} /\ carried' \in {None, carried}

Moves ==
  /\ jobRow'.posting = jobRow.posting /\ jobRow'.kept = jobRow.kept
  /\ ScoreMoves /\ ResumeMoves /\ LetterMoves /\ LibraryMoves /\ ApprovalMoves /\ CopyMoves

\* Whoever changes the posting, the trigger goes with it.
PostingStep ==
  \E p \in Postings :
    jobRow' = Becomes(jobRow, p) /\ slips' = SlipsAfter(p) /\ UNCHANGED <<letter, exact, carried>>

\* Every step changes the posting or moves each of the documents as it may.
LEMMA MaterialStepShape ==
  ASSUME MaterialTypeOK, OpsFit, MaterialNext
  PROVE  PostingStep \/ Moves
<1>0. jobRow \in Row /\ shift \subseteq MaterialOps /\ letter \in [rev : Nat, for : Postings \cup {None}]
  BY DEF MaterialTypeOK, MaterialOps
<1>1. CASE PostingChanges \/ \E o \in {"prepare", "runtime"} : PrepareBegins(o)
  BY <1>1 DEF PostingChanges, PrepareBegins, PostingStep
<1> USE DEF Moves, ScoreMoves, ResumeMoves, LetterMoves, LibraryMoves, ApprovalMoves, CopyMoves
<1>2. CASE UNCHANGED <<jobRow, letter, exact, carried, slips>>
  BY <1>2
<1>3. ASSUME NEW o, StillTheRow(o), NEW good, jobRow' = [jobRow EXCEPT !.score = Assessed(o, good)],
             UNCHANGED <<letter, exact, carried, slips>>
      PROVE  Moves
  <2>1. Assessed(o, good).of = jobRow.posting
    BY <1>0, <1>3 DEF StillTheRow, Assessed, Row, ScoreRow
  <2> QED BY <1>0, <1>3, <2>1 DEF Row
<1>4. ASSUME NEW o \in shift, ScoreEnds(o) PROVE Moves
  BY <1>3, <1>4 DEF ScoreEnds
<1>5. ASSUME NEW o \in {"prepare", "runtime"}, PrepareScores(o) PROVE Moves
  BY <1>3, <1>5 DEF PrepareScores
<1>6. ASSUME NEW o \in shift, ResumeWrites(o) PROVE Moves
  BY <1>0, <1>6 DEF ResumeWrites, Slipped, Overtaken, Row
<1>7. CASE Registers
  <2>1. op["tailor"].doc = op["tailor"].posting
    BY <1>7 DEF Registers, InPhase, OpsFit, OpFits, ResumeMakers
  <2> QED BY <1>7, <2>1 DEF Registers, Overtaken
<1>8. CASE RevalidateBegins
  BY <1>0, <1>8 DEF RevalidateBegins, Row
<1>9. CASE RevalidateEnds
  <2>1. /\ jobRow'.posting = jobRow.posting /\ jobRow'.kept = jobRow.kept /\ jobRow'.score = jobRow.score
        /\ jobRow'.filed = jobRow.filed /\ jobRow'.cover = jobRow.cover /\ jobRow'.approved = jobRow.approved
        /\ jobRow'.apply = jobRow.apply
    BY ZenonT(60), <1>0, <1>9 DEF RevalidateEnds, Row
  <2>2. /\ \A d \in {"letter", "approval", "library"} : d \in slips => d \in slips'
        /\ \A x \in exact' : x \in exact \/ x.named = x.checked
    BY <1>9 DEF RevalidateEnds, Slipped
  <2>3. op["revalidate"].posting # None
    BY <1>9, MaterialAssumption DEF RevalidateEnds, InPhase, OpsFit, OpFits
  <2>4. \/ jobRow'.tailor = "failed"
        \/ jobRow'.resume = op["revalidate"].posting /\ (Overtaken("revalidate") => "resume" \in slips')
    BY <1>0, <1>9 DEF RevalidateEnds, Slipped, Row
  <2>5. ResumeMoves
    BY <2>3, <2>4 DEF Overtaken
  <2> QED BY <1>9, <2>1, <2>2, <2>5 DEF RevalidateEnds
<1>10. ASSUME NEW o \in shift, LetterFiled(o) PROVE Moves
  BY <1>0, <1>10 DEF LetterFiled, Overtaken
<1>11. ASSUME NEW o \in shift, LetterRejected(o) PROVE Moves
  BY <1>0, <1>11 DEF LetterRejected, Row
<1>12. ASSUME NEW o \in shift, LetterRecorded(o) PROVE Moves
  BY <1>0, <1>12 DEF LetterRecorded, Slipped, Row
<1>13. CASE RuntimeApproves
  BY <1>0, <1>13 DEF RuntimeApproves, Slipped, Row
<1>14. CASE RuntimeNeedsNone
  BY <1>0, <1>14 DEF RuntimeNeedsNone, Row
<1>15. CASE ApproveEnds
  BY <1>0, <1>15 DEF ApproveEnds, Slipped, Row
<1>16. CASE ClaimJob
  BY <1>0, <1>16 DEF ClaimJob, Row
<1>17. CASE RetireResume
  BY <1>0, <1>17 DEF RetireResume, Row
<1>18. CASE SubmitBegins
  BY <1>0, <1>18 DEF SubmitBegins, Row
<1>19. CASE AttemptEnds
  BY ZenonT(60), <1>0, <1>19 DEF AttemptEnds, Row
<1>20. CASE Reopened
  BY <1>0, <1>20 DEF Reopened, Row
<1> QED BY <1>1, <1>2, <1>4, <1>5, <1>6, <1>7, <1>8, <1>9, <1>10, <1>11, <1>12, <1>13, <1>14, <1>15, <1>16, <1>17,
           <1>18, <1>19, <1>20
        DEF MaterialNext, OperationFails, ScoreBegins, Routes, TailorBegins, ProjectBegins, LettersBegin,
            ApproveBegins

\* The invariant survives every step.
LEMMA MaterialStep ==
  ASSUME MaterialInvariant, [MaterialNext]_materialVars
  PROVE  MaterialInvariant'
<1>1. CASE UNCHANGED materialVars
  <2> USE <1>1 DEF materialVars, MaterialInvariant
  <2>1. MaterialTypeOK'
    BY DEF MaterialTypeOK, MaterialOps, Row, ScoreRow, Covers, Carried
  <2>2. OpsFit'
    BY DEF OpsFit, OpFits, MaterialOps, Phases, MadeResume, LetterDraft, Documents, ResumeMakers, LetterWriters
  <2>3. ScoreAgrees' /\ ResumeAgrees' /\ LetterFits' /\ LibraryFits' /\ ApprovalStands' /\ CarriedFits'
    BY DEF ScoreAgrees, ResumeAgrees, LetterFits, LibraryFits, ApprovalStands, CarriedFits, Carried, Covers
  <2> QED BY <2>1, <2>2, <2>3
<1>2. CASE MaterialNext
  <2>1. MaterialTypeOK' /\ OpsFit' /\ (PostingStep \/ Moves)
    BY <1>2, MaterialTypesKept, OpsKept, MaterialStepShape DEF MaterialInvariant
  <2>2. CASE PostingStep
    BY <2>1, <2>2, PostingAgrees DEF PostingStep, MaterialInvariant
  <2>3. CASE Moves
    <3>1. ScoreAgrees'
      BY <2>3 DEF Moves, ScoreMoves, ScoreAgrees, MaterialInvariant
    <3>2. ResumeAgrees'
      BY <2>3 DEF Moves, ResumeMoves, ResumeAgrees, MaterialInvariant
    <3>3. LetterFits'
      BY <2>3 DEF Moves, LetterMoves, LetterFits, MaterialInvariant
    <3>4. LibraryFits'
      BY <2>3 DEF Moves, LibraryMoves, LibraryFits, MaterialInvariant
    <3>5. ApprovalStands'
      BY <2>3 DEF Moves, ApprovalMoves, ApprovalStands, MaterialInvariant
    <3>6. CarriedFits'
      <4>0. CarriedFits /\ CopyMoves
        BY <2>3 DEF MaterialInvariant, Moves
      <4>1. CASE carried' = Reloaded(jobRow') /\ jobRow'.apply = "claimed"
        <5>1. jobRow' \in Row
          BY <2>1 DEF MaterialTypeOK, Row, ScoreRow, Covers
        <5>2. carried' \in Carried /\ Carried' = Carried
          BY <4>1, <5>1 DEF Reloaded, Carried, Row, Covers
        <5> QED BY <4>1, <5>2, <3>2 DEF CarriedFits, Reloaded, ResumeAgrees
      <4>2. Carried' = Carried
        BY DEF Carried, Covers
      <4> QED BY <4>0, <4>1, <4>2 DEF CopyMoves, CarriedFits
    <3> QED BY <2>1, <3>1, <3>2, <3>3, <3>4, <3>5, <3>6 DEF MaterialInvariant
  <2> QED BY <2>1, <2>2, <2>3
<1> QED BY <1>1, <1>2

-----------------------------------------------------------------------------
(* The theorems *)

\* What operations hold, the row, the letter, the library and the copy of a worker fit together.
THEOREM MaterialsFit == MaterialSpec => []MaterialInvariant
<1>1. MaterialSpec => MaterialInvariant
  BY MaterialStart DEF MaterialSpec
<1>2. MaterialInvariant /\ [MaterialNext]_materialVars => MaterialInvariant'
  BY MaterialStep
<1> QED BY <1>1, <1>2, PTL DEF MaterialSpec

\* Score and documents of a job belong to its description, but for writes that the description
\* had overtaken, for any number of versions, tries and operations at a time.
THEOREM MaterialsBelong == MaterialSpec => []MaterialsAgree
  BY MaterialsFit, InvariantAgrees, PTL

-----------------------------------------------------------------------------
(* Agent turns *)

USE TurnAssumption DEF Done, Kinds

TurnRow == [status : {"free", "running", "unknown"} \cup Done, submit : BOOLEAN, bound : BOOLEAN]

AgentRow == [alive : BOOLEAN, prompted : BOOLEAN]

LauncherRow ==
  [pc : {"off", "idle", "admitted", "reserved", "spawned", "bound", "working", "dead"},
   turn : Turns \cup {None}, kind : Kinds, submit : BOOLEAN, stored : Turns \cup {None}]

\* One launcher at a time works for the actor.
OneLauncher ==
  \A p, q \in Processes : p # q =>
    launcher[p].pc \in {"off", "dead"} \/ launcher[q].pc \in {"off", "dead"}

HasTurn(p) == launcher[p].pc \in {"reserved", "spawned", "bound", "working"}

\* The turn of a launcher is the newest, runs, and is bound and prompted in this order.
LauncherKnows(p) ==
  /\ HasTurn(p) =>
       /\ MyTurn(p) \in Turns /\ turn[MyTurn(p)].status = "running" /\ IsLatest(MyTurn(p))
       /\ launcher[p].pc \in {"bound", "working"} <=> turn[MyTurn(p)].bound
       /\ launcher[p].pc # "working" => ~agent[MyTurn(p)].prompted
  /\ launcher[p].pc = "admitted" =>
       \A t \in Turns : ~(turn[t].status = "unknown" /\ turn[t].submit)

OneRunning == \A t, u \in RunningTurns : t = u

FreeHasNoAgent == \A t \in Turns : turn[t].status = "free" => ~agent[t].alive /\ ~agent[t].prompted

\* Rows are inserted in the order of their numbers.
UsedFirst == \A t \in Used, u \in Turns \ Used : t < u

TurnInvariant ==
  /\ TurnTypeOK
  /\ OneLauncher
  /\ \A p \in Processes : LauncherKnows(p)
  /\ OneRunning
  /\ FreeHasNoAgent
  /\ UsedFirst
  /\ WorkingIsRecorded
  /\ UnknownSubmitIsLast

LEMMA TurnTypes ==
  TurnTypeOK <=> /\ turn \in [Turns -> TurnRow] /\ agent \in [Turns -> AgentRow]
                 /\ checkpoint \in Turns \cup {None}
                 /\ launcher \in [Processes -> LauncherRow]
BY DEF TurnTypeOK, TurnRow, AgentRow, LauncherRow

LEMMA TurnStart == TurnInit => TurnInvariant
<1> SUFFICES ASSUME TurnInit PROVE TurnInvariant
  OBVIOUS
<1>1. TurnTypeOK
  BY DEF TurnInit, TurnTypeOK
<1>2. OneLauncher /\ OneRunning /\ FreeHasNoAgent /\ UsedFirst
  BY DEF TurnInit, OneLauncher, OneRunning, RunningTurns, FreeHasNoAgent, UsedFirst, Used
<1>3. \A p \in Processes : LauncherKnows(p)
  BY DEF TurnInit, LauncherKnows, HasTurn
<1>4. WorkingIsRecorded /\ UnknownSubmitIsLast
  BY DEF TurnInit, WorkingIsRecorded, Working, UnknownSubmitIsLast
<1> QED BY <1>1, <1>2, <1>3, <1>4 DEF TurnInvariant

-----------------------------------------------------------------------------
(* Steps that leave the rows alone *)

\* The launcher goes on, or leaves; the agents may die, and its own may be prompted.
GoesOn(p) ==
  /\ UNCHANGED turn
  /\ checkpoint' \in Turns \cup {None}
  /\ launcher' = [launcher EXCEPT ![p] = launcher'[p]] /\ launcher'[p] \in LauncherRow
  /\ launcher[p].pc \notin {"off", "dead"}
  /\ LauncherKnows(p)'
  /\ agent' \in [Turns -> AgentRow]
  /\ \A t \in Turns : agent'[t] # agent[t] => turn[t].status = "running"
  /\ \A t \in Turns :
       Working(t)' /\ ~Working(t) => turn[t].status = "running" /\ turn[t].bound

LEMMA GoesOnInvariant ==
  ASSUME TurnInvariant, NEW p \in Processes, GoesOn(p)
  PROVE  TurnInvariant'
<1>0. /\ turn \in [Turns -> TurnRow] /\ agent \in [Turns -> AgentRow]
      /\ launcher \in [Processes -> LauncherRow]
  BY TurnTypes DEF TurnInvariant
<1>1. /\ launcher' \in [Processes -> LauncherRow]
      /\ \A q \in Processes \ {p} : launcher'[q] = launcher[q] /\ launcher[q].pc \in {"off", "dead"}
  BY <1>0 DEF GoesOn, TurnInvariant, OneLauncher
<1>2. TurnTypeOK'
  BY <1>0, <1>1 DEF GoesOn, TurnTypeOK, TurnRow, AgentRow, LauncherRow
<1>3. OneLauncher'
  BY <1>1 DEF OneLauncher
<1>4. ASSUME NEW q \in Processes PROVE LauncherKnows(q)'
  BY <1>1 DEF LauncherKnows, HasTurn, GoesOn
<1>5. OneRunning' /\ UsedFirst' /\ UnknownSubmitIsLast'
  BY DEF TurnInvariant, GoesOn, OneRunning, RunningTurns, UsedFirst, Used, UnknownSubmitIsLast,
         IsLatest
<1>6. FreeHasNoAgent' /\ WorkingIsRecorded'
  BY DEF TurnInvariant, GoesOn, FreeHasNoAgent, WorkingIsRecorded
<1> QED BY <1>2, <1>3, <1>4, <1>5, <1>6 DEF TurnInvariant

-----------------------------------------------------------------------------
(* Steps that write a row *)

\* The launcher's turn is over and its agent dead, or the turn is bound to its agent.
WritesRow(p, t) ==
  /\ HasTurn(p) /\ t = MyTurn(p)
  /\ turn' = [turn EXCEPT ![t] = turn'[t]] /\ turn'[t] \in TurnRow
  /\ turn'[t].status # "free" /\ turn'[t].submit = turn[t].submit
  /\ agent' \in [Turns -> AgentRow] /\ \A u \in Turns \ {t} : agent'[u] = agent[u]
  /\ Working(t)' => turn'[t].status = "running" /\ turn'[t].bound
  /\ checkpoint' \in Turns \cup {None}
  /\ launcher' = [launcher EXCEPT ![p] = launcher'[p]] /\ launcher'[p] \in LauncherRow
  /\ \/ launcher'[p].pc = "idle"
     \/ /\ launcher'[p].pc = "bound" /\ launcher'[p].turn = t
        /\ turn'[t].status = "running" /\ turn'[t].bound
        /\ ~agent'[t].prompted

LEMMA OthersAreOut ==
  ASSUME TurnInvariant, NEW p \in Processes, launcher[p].pc \notin {"off", "dead"},
         launcher' = [launcher EXCEPT ![p] = launcher'[p]], launcher'[p] \in LauncherRow
  PROVE  /\ launcher' \in [Processes -> LauncherRow]
         /\ \A q \in Processes \ {p} : launcher'[q] = launcher[q] /\ launcher[q].pc \in {"off", "dead"}
         /\ OneLauncher'
<1>1. launcher \in [Processes -> LauncherRow]
  BY TurnTypes DEF TurnInvariant
<1>2. /\ launcher' \in [Processes -> LauncherRow]
      /\ \A q \in Processes \ {p} : launcher'[q] = launcher[q] /\ launcher[q].pc \in {"off", "dead"}
  BY <1>1 DEF TurnInvariant, OneLauncher
<1> QED BY <1>2 DEF OneLauncher

LEMMA WritesRowInvariant ==
  ASSUME TurnInvariant, NEW p \in Processes, NEW t \in Turns, WritesRow(p, t)
  PROVE  TurnInvariant'
<1>0. /\ turn \in [Turns -> TurnRow] /\ agent \in [Turns -> AgentRow]
      /\ launcher \in [Processes -> LauncherRow]
  BY TurnTypes DEF TurnInvariant
<1>1. /\ launcher' \in [Processes -> LauncherRow]
      /\ \A q \in Processes \ {p} : launcher'[q] = launcher[q] /\ launcher[q].pc \in {"off", "dead"}
      /\ OneLauncher'
  BY OthersAreOut DEF WritesRow, HasTurn
<1>2. t \in Turns /\ turn[t].status = "running" /\ IsLatest(t)
  BY DEF TurnInvariant, LauncherKnows, WritesRow
<1>3. /\ turn' \in [Turns -> TurnRow]
      /\ \A u \in Turns \ {t} : turn'[u] = turn[u]
      /\ turn'[t].status # "free"
  BY <1>0, <1>2 DEF WritesRow
<1>4. Used' = Used /\ IsLatest(t)'
  BY <1>2, <1>3 DEF Used, IsLatest
<1>5. TurnTypeOK'
  BY <1>1, <1>3 DEF WritesRow, TurnTypeOK, TurnRow, AgentRow, LauncherRow
<1>6. ASSUME NEW q \in Processes PROVE LauncherKnows(q)'
  <2>1. CASE q = p /\ launcher'[p].pc = "idle"
    BY <2>1 DEF LauncherKnows, HasTurn
  <2>2. CASE q = p /\ launcher'[p].pc = "bound"
    BY <2>2, <1>2, <1>4 DEF LauncherKnows, HasTurn, WritesRow, MyTurn
  <2>3. CASE q # p
    BY <2>3, <1>1 DEF LauncherKnows, HasTurn
  <2> QED BY <2>1, <2>2, <2>3 DEF WritesRow
<1>7. OneRunning'
  BY <1>2, <1>3 DEF TurnInvariant, OneRunning, RunningTurns
<1>8. UsedFirst' /\ FreeHasNoAgent'
  BY <1>3, <1>4 DEF TurnInvariant, UsedFirst, FreeHasNoAgent, WritesRow
<1>9. WorkingIsRecorded'
  BY <1>3 DEF TurnInvariant, WorkingIsRecorded, WritesRow, Working
<1>10. UnknownSubmitIsLast'
  BY <1>3, <1>4 DEF TurnInvariant, UnknownSubmitIsLast, IsLatest
<1> QED BY <1>1, <1>5, <1>6, <1>7, <1>8, <1>9, <1>10 DEF TurnInvariant

-----------------------------------------------------------------------------
(* The steps of a launcher *)

LEMMA AdmitInvariant ==
  ASSUME TurnInvariant, NEW p \in Processes, Admit(p)
  PROVE  TurnInvariant'
<1>0. /\ turn \in [Turns -> TurnRow] /\ agent \in [Turns -> AgentRow]
      /\ launcher \in [Processes -> LauncherRow] /\ agent' = agent /\ checkpoint' = checkpoint
      /\ checkpoint \in Turns \cup {None}
  BY TurnTypes DEF TurnInvariant, Admit
<1>1. PICK kind \in Kinds, submit \in BOOLEAN :
        launcher' = [launcher EXCEPT ![p] = [launcher[p] EXCEPT
          !.pc = IF \A t \in Turns : IsLatest(t) => Admits(t, kind, launcher[p].stored)
                 THEN "admitted" ELSE "idle",
          !.kind = kind, !.submit = submit]]
  BY Zenon DEF Admit
<1>2. /\ launcher' \in [Processes -> LauncherRow]
      /\ \A q \in Processes \ {p} : launcher'[q] = launcher[q] /\ launcher[q].pc \in {"off", "dead"}
      /\ launcher'[p].pc \in {"admitted", "idle"}
      /\ launcher'[p].pc = "admitted" =>
           \A t \in Turns : IsLatest(t) => Admits(t, kind, launcher[p].stored)
  <2> DEFINE free == \A t \in Turns : IsLatest(t) => Admits(t, kind, launcher[p].stored)
  <2>1. launcher' = [launcher EXCEPT ![p] = [launcher[p] EXCEPT
          !.pc = IF free THEN "admitted" ELSE "idle", !.kind = kind, !.submit = submit]]
    BY <1>1
  <2> HIDE DEF free
  <2>2. /\ launcher'[p] \in LauncherRow
        /\ launcher' = [launcher EXCEPT ![p] = launcher'[p]]
        /\ launcher'[p].pc = IF free THEN "admitted" ELSE "idle"
    BY ZenonT(60), <1>0, <2>1 DEF LauncherRow
  <2>3. \A q \in Processes \ {p} : launcher'[q] = launcher[q] /\ launcher[q].pc \in {"off", "dead"}
    BY <1>0, <2>2 DEF Admit
  <2> QED BY <1>0, <2>2, <2>3 DEF free
<1>3. /\ turn' \in [Turns -> TurnRow]
      /\ \A t \in Turns :
           \/ turn'[t] = turn[t]
           \/ /\ IsLatest(t) /\ Vanished(t) /\ turn'[t].status = "unknown"
              /\ turn'[t].submit = turn[t].submit
  BY <1>0 DEF Admit, Reconciled, TurnRow
<1>4. \A t \in Turns : turn'[t].status = "running" => turn[t].status = "running"
  BY <1>3
<1>5. Used' = Used /\ \A t \in Turns : IsLatest(t)' <=> IsLatest(t)
  BY <1>3 DEF Used, IsLatest, Vanished
<1>6. UnknownSubmitIsLast'
  BY <1>3, <1>5 DEF TurnInvariant, UnknownSubmitIsLast
<1>7. ASSUME NEW t \in Turns, launcher'[p].pc = "admitted"
      PROVE  ~(turn'[t].status = "unknown" /\ turn'[t].submit)
  <2>1. SUFFICES ASSUME turn'[t].status = "unknown", turn'[t].submit PROVE FALSE
    OBVIOUS
  <2>2. IsLatest(t) /\ turn[t].submit
    BY <2>1, <1>3, <1>5, <1>6 DEF UnknownSubmitIsLast
  <2>3. turn[t].status \in Done
    BY <2>2, <1>2, <1>7 DEF Admits
  <2> QED BY <2>1, <2>3, <1>3 DEF Vanished
<1>8. ASSUME NEW q \in Processes PROVE LauncherKnows(q)'
  BY <1>2, <1>7 DEF LauncherKnows, HasTurn
<1>9. TurnTypeOK' /\ OneLauncher'
  BY <1>0, <1>2, <1>3 DEF TurnTypeOK, TurnRow, AgentRow, LauncherRow, OneLauncher
<1>10. OneRunning' /\ UsedFirst'
  BY <1>4, <1>5 DEF TurnInvariant, OneRunning, RunningTurns, UsedFirst
<1>11. FreeHasNoAgent' /\ WorkingIsRecorded'
  BY <1>0, <1>3 DEF TurnInvariant, FreeHasNoAgent, WorkingIsRecorded, Working, Vanished
<1> QED BY <1>6, <1>8, <1>9, <1>10, <1>11 DEF TurnInvariant

LEMMA ReserveInvariant ==
  ASSUME TurnInvariant, NEW p \in Processes, Reserve(p)
  PROVE  TurnInvariant'
<1>0. /\ turn \in [Turns -> TurnRow] /\ agent \in [Turns -> AgentRow]
      /\ launcher \in [Processes -> LauncherRow] /\ agent' = agent /\ checkpoint' = checkpoint
      /\ launcher[p].pc = "admitted" /\ checkpoint \in Turns \cup {None}
  BY TurnTypes DEF TurnInvariant, Reserve
<1>1. CASE launcher' = [launcher EXCEPT ![p].pc = "idle"] /\ turn' = turn
  <2>0. /\ launcher'[p] \in LauncherRow /\ launcher'[p].pc = "idle"
        /\ launcher' = [launcher EXCEPT ![p] = launcher'[p]]
    BY <1>0, <1>1 DEF LauncherRow
  <2>1. GoesOn(p)
    BY <1>0, <1>1, <2>0 DEF GoesOn, LauncherKnows, HasTurn, Working
  <2> QED BY <2>1, GoesOnInvariant
<1>2. CASE /\ RunningTurns = {}
           /\ \E t \in Turns \ Used :
                /\ \A u \in Turns \ Used : t <= u
                /\ turn' = [turn EXCEPT ![t] = [status |-> "running",
                                                submit |-> launcher[p].submit, bound |-> FALSE]]
                /\ launcher' = [launcher EXCEPT ![p] =
                                  [launcher[p] EXCEPT !.pc = "reserved", !.turn = t]]
  <2>1. PICK t \in Turns \ Used :
          /\ \A u \in Turns \ Used : t <= u
          /\ turn' = [turn EXCEPT ![t] = [status |-> "running",
                                          submit |-> launcher[p].submit, bound |-> FALSE]]
          /\ launcher' = [launcher EXCEPT ![p] =
                            [launcher[p] EXCEPT !.pc = "reserved", !.turn = t]]
    BY <1>2
  <2>2. /\ launcher'[p] \in LauncherRow /\ launcher'[p].pc = "reserved" /\ launcher'[p].turn = t
        /\ launcher' = [launcher EXCEPT ![p] = launcher'[p]]
    BY ZenonT(60), <1>0, <2>1 DEF LauncherRow
  <2>3. /\ launcher' \in [Processes -> LauncherRow]
        /\ \A q \in Processes \ {p} : launcher'[q] = launcher[q] /\ launcher[q].pc \in {"off", "dead"}
        /\ OneLauncher'
    BY <1>0, <2>2, OthersAreOut
  <2>4. /\ turn' \in [Turns -> TurnRow]
        /\ \A u \in Turns \ {t} : turn'[u] = turn[u]
        /\ turn'[t].status = "running" /\ ~turn'[t].bound
    BY <1>0, <2>1 DEF TurnRow, LauncherRow
  <2>5. Used' = Used \cup {t}
    BY <2>4 DEF Used
  <2>6. IsLatest(t)' /\ UsedFirst'
    <3>1. /\ Used \subseteq Nat /\ Turns \subseteq Nat
          /\ \A u \in Used : u < t
          /\ \A u \in Used, v \in Turns \ Used : u < v
      BY DEF TurnInvariant, UsedFirst, Used
    <3>2. IsLatest(t)'
      BY <2>5, <3>1 DEF IsLatest
    <3>3. ASSUME NEW u \in Used \cup {t}, NEW v \in Turns \ (Used \cup {t}) PROVE u < v
      BY <2>1, <3>1
    <3> QED BY <2>5, <3>2, <3>3 DEF UsedFirst
  <2>7. turn[t].status = "free" /\ ~agent[t].alive /\ ~agent[t].prompted
    BY DEF Used, TurnInvariant, FreeHasNoAgent
  <2>8. ASSUME NEW q \in Processes PROVE LauncherKnows(q)'
    BY <1>0, <2>2, <2>3, <2>4, <2>6, <2>7 DEF LauncherKnows, HasTurn, MyTurn
  <2>9. OneRunning'
    BY <1>2, <2>4 DEF OneRunning, RunningTurns
  <2>10. FreeHasNoAgent' /\ WorkingIsRecorded'
    BY <1>0, <2>4, <2>7 DEF TurnInvariant, FreeHasNoAgent, WorkingIsRecorded, Working
  <2>11. UnknownSubmitIsLast'
    BY <1>0, <2>4 DEF TurnInvariant, UnknownSubmitIsLast, LauncherKnows
  <2>12. TurnTypeOK'
    BY <1>0, <2>3, <2>4 DEF TurnTypeOK, TurnRow, AgentRow, LauncherRow
  <2> QED BY <2>3, <2>6, <2>8, <2>9, <2>10, <2>11, <2>12 DEF TurnInvariant
<1> QED BY <1>1, <1>2 DEF Reserve

LEMMA GoesOnStep ==
  ASSUME TurnInvariant, NEW p \in Processes,
         Spawn(p) \/ Prompt(p) \/ FinishLater(p) \/ LauncherCrash(p)
  PROVE  GoesOn(p)
<1>0. /\ turn \in [Turns -> TurnRow] /\ agent \in [Turns -> AgentRow]
      /\ launcher \in [Processes -> LauncherRow] /\ checkpoint \in Turns \cup {None}
  BY TurnTypes DEF TurnInvariant
<1> DEFINE t == MyTurn(p)
<1>1. HasTurn(p) => /\ t \in Turns /\ turn[t].status = "running" /\ IsLatest(t)
                    /\ launcher[p].pc \in {"bound", "working"} <=> turn[t].bound
                    /\ launcher[p].pc # "working" => ~agent[t].prompted
  BY DEF TurnInvariant, LauncherKnows
<1>2. CASE Spawn(p)
  <2>1. /\ launcher'[p] \in LauncherRow /\ launcher'[p].pc = "spawned"
        /\ launcher' = [launcher EXCEPT ![p] = launcher'[p]]
        /\ MyTurn(p)' = MyTurn(p) /\ launcher[p].pc = "reserved"
    BY <1>0, <1>2 DEF Spawn, LauncherRow, MyTurn
  <2>2. PICK u \in Turns : u = MyTurn(p)
    BY <1>1, <2>1 DEF HasTurn
  <2>3. /\ agent' \in [Turns -> AgentRow]
        /\ \A v \in Turns \ {u} : agent'[v] = agent[v]
        /\ agent'[u].prompted = agent[u].prompted
    BY <1>0, <1>2, <2>2 DEF Spawn, AgentRow
  <2>4. turn[u].status = "running" /\ ~agent[u].prompted /\ ~turn[u].bound /\ IsLatest(u)
    BY <1>1, <2>1, <2>2 DEF HasTurn
  <2>5. turn' = turn /\ checkpoint' = checkpoint
    BY <1>2 DEF Spawn
  <2>6. LauncherKnows(p)'
    BY <2>1, <2>2, <2>3, <2>4, <2>5 DEF LauncherKnows, HasTurn, IsLatest, Used
  <2> QED BY <1>0, <2>1, <2>3, <2>4, <2>5, <2>6 DEF GoesOn, Working
<1>3. CASE Prompt(p)
  <2>1. /\ launcher'[p] \in LauncherRow /\ launcher'[p].pc = "working"
        /\ launcher' = [launcher EXCEPT ![p] = launcher'[p]]
        /\ MyTurn(p)' = MyTurn(p) /\ launcher[p].pc = "bound"
    BY <1>0, <1>3 DEF Prompt, LauncherRow, MyTurn
  <2>2. PICK u \in Turns : u = MyTurn(p)
    BY <1>1, <2>1 DEF HasTurn
  <2>3. /\ agent' \in [Turns -> AgentRow]
        /\ \A v \in Turns \ {u} : agent'[v] = agent[v]
    BY <1>0, <1>3, <2>2 DEF Prompt, AgentRow
  <2>4. turn[u].status = "running" /\ turn[u].bound /\ IsLatest(u)
    BY <1>1, <2>1, <2>2 DEF HasTurn
  <2>5. turn' = turn /\ checkpoint' = checkpoint
    BY <1>3 DEF Prompt
  <2>6. LauncherKnows(p)'
    BY <2>1, <2>2, <2>3, <2>4, <2>5 DEF LauncherKnows, HasTurn, IsLatest, Used
  <2> QED BY <1>0, <2>1, <2>3, <2>4, <2>5, <2>6 DEF GoesOn, Working
<1>4. CASE FinishLater(p) \/ LauncherCrash(p)
  <2>1. /\ launcher'[p] \in LauncherRow /\ launcher'[p].pc \in {"idle", "dead"}
        /\ launcher' = [launcher EXCEPT ![p] = launcher'[p]]
        /\ launcher[p].pc \notin {"off", "dead"}
    <3>1. CASE FinishLater(p)
      BY ZenonT(60), <1>0, <3>1 DEF FinishLater, LauncherRow
    <3>2. CASE LauncherCrash(p)
      BY ZenonT(60), <1>0, <3>2 DEF LauncherCrash, LauncherRow
    <3> QED BY <1>4, <3>1, <3>2
  <2>2. turn' = turn /\ agent' = agent /\ checkpoint' = checkpoint
    BY <1>4 DEF FinishLater, LauncherCrash
  <2> QED BY <1>0, <2>1, <2>2 DEF GoesOn, LauncherKnows, HasTurn, Working
<1> QED BY <1>2, <1>3, <1>4

LEMMA KilledStep ==
  ASSUME TurnInvariant, NEW p \in Processes, NEW a \in AgentRow,
         launcher[p].pc \in {"spawned", "bound"},
         a.prompted => launcher[p].pc = "bound", a.alive = agent[MyTurn(p)].alive,
         Killed(p, a), EndTurn(p), UNCHANGED checkpoint
  PROVE  TurnInvariant'
<1>0. /\ turn \in [Turns -> TurnRow] /\ agent \in [Turns -> AgentRow]
      /\ launcher \in [Processes -> LauncherRow] /\ checkpoint \in Turns \cup {None}
  BY TurnTypes DEF TurnInvariant
<1>1. PICK t \in Turns : /\ t = MyTurn(p) /\ turn[t].status = "running"
                         /\ launcher[p].pc = "bound" => turn[t].bound
  BY DEF TurnInvariant, LauncherKnows, HasTurn
<1>2. /\ launcher'[p] \in LauncherRow /\ launcher'[p].pc = "idle"
      /\ launcher' = [launcher EXCEPT ![p] = launcher'[p]]
  BY ZenonT(60), <1>0 DEF EndTurn, LauncherRow
<1>3. CASE agent' = [agent EXCEPT ![t] = [a EXCEPT !.alive = FALSE]] /\ Ends(t, "unknown")
  <2>1. turn' = [turn EXCEPT ![t].status = "unknown"]
    BY <1>3 DEF Ends
  <2>2. /\ turn' = [turn EXCEPT ![t] = turn'[t]] /\ turn'[t] \in TurnRow
        /\ turn'[t].status = "unknown" /\ turn'[t].submit = turn[t].submit
    BY <1>0, <2>1 DEF TurnRow
  <2>3. [a EXCEPT !.alive = FALSE] \in AgentRow /\ ~[a EXCEPT !.alive = FALSE].alive
    BY DEF AgentRow
  <2>4. /\ agent' \in [Turns -> AgentRow] /\ \A u \in Turns \ {t} : agent'[u] = agent[u]
        /\ ~agent'[t].alive
    BY <1>0, <1>3, <2>3
  <2>5. WritesRow(p, t)
    BY <1>0, <1>1, <1>2, <2>2, <2>4 DEF WritesRow, HasTurn, Working
  <2> QED BY <2>5, WritesRowInvariant
<1>4. CASE a.alive /\ agent' = [agent EXCEPT ![t] = a] /\ turn' = turn
  <2>1. /\ agent' \in [Turns -> AgentRow] /\ agent'[t] = a
        /\ \A u \in Turns \ {t} : agent'[u] = agent[u]
    BY <1>0, <1>4
  <2>2. GoesOn(p)
    BY <1>0, <1>1, <1>2, <1>4, <2>1 DEF GoesOn, LauncherKnows, HasTurn, Working
  <2> QED BY <2>2, GoesOnInvariant
<1> QED BY <1>1, <1>3, <1>4 DEF Killed

LEMMA WritesRowStep ==
  ASSUME TurnInvariant, NEW p \in Processes,
         SpawnFails(p) \/ Attach(p) \/ Finish(p)
  PROVE  \E t \in Turns : WritesRow(p, t)
<1>0. /\ turn \in [Turns -> TurnRow] /\ agent \in [Turns -> AgentRow]
      /\ launcher \in [Processes -> LauncherRow] /\ checkpoint \in Turns \cup {None}
      /\ HasTurn(p)
  BY TurnTypes DEF TurnInvariant, SpawnFails, Attach, Finish, HasTurn
<1>1. PICK t \in Turns : /\ t = MyTurn(p) /\ turn[t].status = "running"
                         /\ launcher[p].pc \in {"bound", "working"} <=> turn[t].bound
                         /\ launcher[p].pc # "working" => ~agent[t].prompted
  BY <1>0 DEF TurnInvariant, LauncherKnows
<1>2. CASE SpawnFails(p)
  <2>1. /\ launcher'[p] \in LauncherRow /\ launcher'[p].pc = "idle"
        /\ launcher' = [launcher EXCEPT ![p] = launcher'[p]]
    BY ZenonT(60), <1>0, <1>2 DEF SpawnFails, EndTurn, LauncherRow
  <2>2. /\ turn' = [turn EXCEPT ![t] = turn'[t]] /\ turn'[t] \in TurnRow
        /\ turn'[t].status = "failed" /\ turn'[t].submit = turn[t].submit
    BY <1>0, <1>1, <1>2 DEF SpawnFails, Ends, TurnRow
  <2>3. agent' = agent /\ checkpoint' = checkpoint /\ ~agent[t].prompted
    BY <1>1, <1>2 DEF SpawnFails
  <2> QED BY <1>0, <1>1, <2>1, <2>2, <2>3 DEF WritesRow, Working
<1>3. CASE Attach(p)
  <2>1. /\ launcher'[p] \in LauncherRow /\ launcher'[p].pc = "bound" /\ launcher'[p].turn = t
        /\ launcher' = [launcher EXCEPT ![p] = launcher'[p]]
    BY <1>0, <1>1, <1>3 DEF Attach, MyTurn, LauncherRow
  <2>2. /\ turn' = [turn EXCEPT ![t] = turn'[t]] /\ turn'[t] \in TurnRow
        /\ turn'[t].status = "running" /\ turn'[t].bound /\ turn'[t].submit = turn[t].submit
    BY <1>0, <1>1, <1>3 DEF Attach, TurnRow
  <2>3. agent' = agent /\ checkpoint' = checkpoint /\ ~agent[t].prompted
    BY <1>1, <1>3 DEF Attach
  <2> QED BY <1>0, <1>1, <2>1, <2>2, <2>3 DEF WritesRow, Working
<1>4. CASE Finish(p)
  <2>1. PICK confirmed \in BOOLEAN, status \in Done \cup {"unknown"} :
          /\ turn' = [turn EXCEPT ![t].status = status]
          /\ checkpoint' = IF confirmed THEN t ELSE checkpoint
          /\ launcher' = [launcher EXCEPT ![p] =
               [launcher[p] EXCEPT !.pc = "idle", !.turn = None,
                         !.stored = IF status # "unknown" THEN t ELSE None]]
    BY <1>1, <1>4, Zenon DEF Finish, Ends
  <2>2. /\ launcher'[p] \in LauncherRow /\ launcher'[p].pc = "idle"
        /\ launcher' = [launcher EXCEPT ![p] = launcher'[p]]
    BY ZenonT(60), <1>0, <2>1 DEF LauncherRow
  <2>3. /\ turn' = [turn EXCEPT ![t] = turn'[t]] /\ turn'[t] \in TurnRow
        /\ turn'[t].status = status /\ turn'[t].submit = turn[t].submit
    BY <1>0, <1>1, <2>1 DEF TurnRow
  <2>4. agent' = agent /\ ~agent[t].alive /\ checkpoint' \in Turns \cup {None}
    BY <1>0, <1>1, <1>4, <2>1 DEF Finish
  <2> QED BY <1>0, <1>1, <2>2, <2>3, <2>4 DEF WritesRow, Working
<1> QED BY <1>2, <1>3, <1>4

LEMMA LauncherStepInvariant ==
  ASSUME TurnInvariant, NEW p \in Processes, LauncherStep(p)
  PROVE  TurnInvariant'
<1>0. agent \in [Turns -> AgentRow]
  BY TurnTypes DEF TurnInvariant
<1>1. CASE Admit(p)
  BY <1>1, AdmitInvariant
<1>2. CASE Reserve(p)
  BY <1>2, ReserveInvariant
<1>3. CASE Spawn(p) \/ Prompt(p) \/ FinishLater(p) \/ LauncherCrash(p)
  BY <1>3, GoesOnStep, GoesOnInvariant
<1>4. CASE SpawnFails(p) \/ Attach(p) \/ Finish(p)
  BY <1>4, WritesRowStep, WritesRowInvariant
<1>5. CASE AttachFails(p)
  <2>1. MyTurn(p) \in Turns /\ ~agent[MyTurn(p)].prompted
    BY <1>5 DEF AttachFails, TurnInvariant, LauncherKnows, HasTurn
  <2>2. agent[MyTurn(p)] \in AgentRow
    BY <1>0, <2>1
  <2> QED BY <1>5, <2>1, <2>2, KilledStep DEF AttachFails
<1>6. CASE PromptFails(p)
  <2>1. MyTurn(p) \in Turns /\ launcher[p].pc = "bound"
    BY <1>6 DEF PromptFails, TurnInvariant, LauncherKnows, HasTurn
  <2>2. PICK read \in BOOLEAN : Killed(p, [agent[MyTurn(p)] EXCEPT !.prompted = read])
    BY <1>6 DEF PromptFails
  <2>3. agent[MyTurn(p)] \in AgentRow
    BY <1>0, <2>1
  <2> DEFINE a == [agent[MyTurn(p)] EXCEPT !.prompted = read]
  <2>4. a \in AgentRow /\ a.alive = agent[MyTurn(p)].alive
    BY <2>3 DEF AgentRow
  <2>5. Killed(p, a) /\ EndTurn(p) /\ UNCHANGED checkpoint
    BY <1>6, <2>2 DEF PromptFails
  <2> HIDE DEF a
  <2> QED BY <2>1, <2>4, <2>5, KilledStep
<1> QED BY <1>1, <1>2, <1>3, <1>4, <1>5, <1>6 DEF LauncherStep

LEMMA AgentExitsInvariant ==
  ASSUME TurnInvariant, NEW t \in Turns, AgentExits(t)
  PROVE  TurnInvariant'
<1>1. /\ agent \in [Turns -> AgentRow] /\ agent[t].alive
      /\ agent' = [agent EXCEPT ![t].alive = FALSE]
      /\ turn' = turn /\ checkpoint' = checkpoint /\ launcher' = launcher
  BY TurnTypes DEF TurnInvariant, AgentExits
<1>2. /\ agent' \in [Turns -> AgentRow]
      /\ \A u \in Turns : agent'[u].prompted = agent[u].prompted
      /\ \A u \in Turns : agent'[u].alive => agent[u].alive
  BY <1>1 DEF AgentRow
<1>3. TurnTypeOK' /\ OneLauncher' /\ OneRunning' /\ UsedFirst' /\ UnknownSubmitIsLast'
  BY <1>1, <1>2 DEF TurnInvariant, TurnTypeOK, AgentRow, OneLauncher, OneRunning, RunningTurns,
                    UsedFirst, Used, UnknownSubmitIsLast, IsLatest
<1>4. ASSUME NEW p \in Processes PROVE LauncherKnows(p)'
  BY <1>1, <1>2 DEF TurnInvariant, LauncherKnows, HasTurn, MyTurn, IsLatest, Used
<1>5. FreeHasNoAgent' /\ WorkingIsRecorded'
  BY <1>1, <1>2 DEF TurnInvariant, FreeHasNoAgent, WorkingIsRecorded, Working
<1> QED BY <1>3, <1>4, <1>5 DEF TurnInvariant

-----------------------------------------------------------------------------
(* Theorems *)

\* The rows and their agents agree in the way the launchers rely on, after every sequence
\* of launches, failures, crashes and recoveries of one actor.
THEOREM TurnsAgree == TurnSpec => []TurnInvariant
<1>1. TurnInit => TurnInvariant
  BY TurnStart
<1>2. TurnInvariant /\ [TurnNext]_turnVars => TurnInvariant'
  <2> SUFFICES ASSUME TurnInvariant, [TurnNext]_turnVars PROVE TurnInvariant'
    OBVIOUS
  <2>1. ASSUME NEW p \in Processes, LauncherStep(p) PROVE TurnInvariant'
    BY <2>1, LauncherStepInvariant
  <2>2. ASSUME NEW t \in Turns, AgentExits(t) PROVE TurnInvariant'
    BY <2>2, AgentExitsInvariant
  <2>3. CASE UNCHANGED turnVars
    BY <2>3 DEF turnVars, TurnInvariant, TurnTypeOK, OneLauncher, OneRunning, RunningTurns,
                FreeHasNoAgent, UsedFirst, Used, UnknownSubmitIsLast, IsLatest, LauncherKnows,
                HasTurn, MyTurn, WorkingIsRecorded, Working
  <2> QED BY <2>1, <2>2, <2>3 DEF TurnNext
<1> QED BY <1>1, <1>2, PTL DEF TurnSpec

\* For any number of launchers and turns: two agents never work for one actor.
THEOREM OneAgentWorks == TurnSpec => []OneWorkingAgent
<1>1. TurnInvariant => OneWorkingAgent
  BY DEF TurnInvariant, OneWorkingAgent, WorkingIsRecorded, OneRunning, RunningTurns
<1> QED BY <1>1, TurnsAgree, PTL

\* For any number of launchers and turns: an agent that works can be recognised by its row.
THEOREM WorkIsRecorded == TurnSpec => []WorkingIsRecorded
<1>1. TurnInvariant => WorkingIsRecorded
  BY DEF TurnInvariant
<1> QED BY <1>1, TurnsAgree, PTL

\* For any number of launchers and turns: nothing follows a turn with an unknown submission.
THEOREM NothingAfterUnknownSubmit == TurnSpec => []UnknownSubmitIsLast
<1>1. TurnInvariant => UnknownSubmitIsLast
  BY DEF TurnInvariant
<1> QED BY <1>1, TurnsAgree, PTL

-----------------------------------------------------------------------------
(* The composition *)

\* A step of the runtime is a step of one part, or the clock goes on for all of them.
LEMMA OneRegistryMoves ==
  ASSUME [RuntimeNext]_runtimeVars
  PROVE  /\ [CellNext]_<<now, cellVars>> /\ [LeaseNext]_<<now, leaseVars>>
         /\ [TurnNext]_turnVars /\ [ProfileNext]_profileVars /\ [MaterialNext]_materialVars
         /\ Tick \/ UNCHANGED now
<1>1. CASE UNCHANGED runtimeVars
  BY <1>1 DEF runtimeVars
<1>2. CASE CellNext /\ UNCHANGED <<materialVars, leaseVars, turnVars, profileVars>>
  <2>1. UNCHANGED now \/ (Tick /\ UNCHANGED cellVars)
    BY <1>2 DEF CellNext
  <2> QED BY <1>2, <2>1 DEF LeaseNext
<1>3. CASE LeaseNext /\ UNCHANGED <<materialVars, cellVars, turnVars, profileVars>>
  <2>1. UNCHANGED now \/ (Tick /\ UNCHANGED leaseVars)
    BY <1>3 DEF LeaseNext
  <2> QED BY <1>3, <2>1 DEF CellNext
<1>4. CASE (TurnNext \/ UNCHANGED turnVars) /\ (ProfileNext \/ UNCHANGED profileVars)
           /\ (MaterialNext \/ UNCHANGED materialVars) /\ UNCHANGED <<now, cellVars, leaseVars>>
  BY <1>4
<1>5. RuntimeNext =>
        \/ CellNext /\ UNCHANGED <<materialVars, leaseVars, turnVars, profileVars>>
        \/ LeaseNext /\ UNCHANGED <<materialVars, cellVars, turnVars, profileVars>>
        \/ TurnNext /\ UNCHANGED <<now, materialVars, cellVars, leaseVars, profileVars>>
        \/ ProfileNext /\ UNCHANGED <<now, materialVars, cellVars, leaseVars, turnVars>>
        \/ MaterialNext /\ UNCHANGED <<now, cellVars, leaseVars, turnVars, profileVars>>
  BY DEF RuntimeNext, TurnNext, ProfileNext
<1> QED BY <1>1, <1>2, <1>3, <1>4, <1>5

\* The runtime implements each part, for any constants: the theorems about the parts hold of
\* the runtime as the runs check it.
THEOREM RuntimeComposes ==
  RuntimeSpec => CellSpec /\ LeaseSpec /\ TurnSpec /\ ProfileSpec /\ MaterialSpec
<1>1. RuntimeInit => now = 0 /\ CellInit /\ LeaseInit /\ TurnInit /\ ProfileInit /\ MaterialInit
  BY DEF RuntimeInit
<1>2. RuntimeSpec => CellSpec
  BY <1>1, OneRegistryMoves, PTL DEF RuntimeSpec, CellSpec
<1>3. RuntimeSpec => LeaseSpec
  BY <1>1, OneRegistryMoves, PTL DEF RuntimeSpec, LeaseSpec
<1>4. RuntimeSpec => TurnSpec
  BY <1>1, OneRegistryMoves, PTL DEF RuntimeSpec, TurnSpec
<1>5. RuntimeSpec => ProfileSpec
  BY <1>1, OneRegistryMoves, PTL DEF RuntimeSpec, ProfileSpec
<1>6. RuntimeSpec => MaterialSpec
  BY <1>1, OneRegistryMoves, PTL DEF RuntimeSpec, MaterialSpec
<1> QED BY <1>2, <1>3, <1>4, <1>5, <1>6

\* The clock stays in its bounds.
LEMMA ClockStays == RuntimeSpec => [](now \in Time)
<1>1. RuntimeInit => now \in Time
  BY BaseAssumption DEF RuntimeInit, Time
<1>2. now \in Time /\ [RuntimeNext]_runtimeVars => (now \in Time)'
  <2> SUFFICES ASSUME now \in Time, [RuntimeNext]_runtimeVars PROVE now' \in Time
    BY DEF Time
  <2>1. Tick \/ UNCHANGED now
    BY OneRegistryMoves
  <2> QED BY <2>1, BaseAssumption DEF Tick, Time
<1> QED BY <1>1, <1>2, PTL DEF RuntimeSpec

\* Rows and sessions keep the shapes their modules declare.
THEOREM RuntimeTyped == RuntimeSpec => []RuntimeTypeOK
<1>1. /\ now \in Time /\ CellInvariant /\ LeaseInvariant /\ TurnInvariant /\ ProfileInvariant
      /\ MaterialInvariant
      => RuntimeTypeOK
  BY DEF CellInvariant, LeaseInvariant, TurnInvariant, ProfileInvariant, MaterialInvariant, RuntimeTypeOK
<1> QED BY <1>1, ClockStays, RuntimeComposes, CellsHold, LeaseInvariantHolds, TurnsAgree, ProfilesGuarded,
           MaterialsFit, PTL

\* What the parts promise holds of the runtime: cells, leases, actors and profiles are held by
\* one at a time, and documents belong to their posting.
THEOREM RuntimeHolds ==
  RuntimeSpec => /\ [](TablesAgree /\ OneBrowser /\ MaterialsAgree)
                 /\ [](OneWorkingAgent /\ WorkingIsRecorded /\ UnknownSubmitIsLast)
                 /\ ImplementsExclusion /\ OnlyHolderEnds
                 /\ (AdvanceIsLongest => []LeasesAgree)
<1>1. RuntimeSpec => [](TablesAgree /\ OneBrowser /\ MaterialsAgree)
  BY RuntimeComposes, CellTablesAgree, OneBrowserRuns, MaterialsBelong, PTL
<1>2. RuntimeSpec => [](OneWorkingAgent /\ WorkingIsRecorded /\ UnknownSubmitIsLast)
  BY RuntimeComposes, OneAgentWorks, WorkIsRecorded, NothingAfterUnknownSubmit, PTL
<1>3. RuntimeSpec => ImplementsExclusion /\ OnlyHolderEnds
  BY RuntimeComposes, CellsExclude, LeasesEndFairly
<1>4. RuntimeSpec => (AdvanceIsLongest => []LeasesAgree)
  BY RuntimeComposes, LeasesHold
<1> QED BY <1>1, <1>2, <1>3, <1>4

=============================================================================
