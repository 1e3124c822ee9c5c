---------------------------- MODULE SafetyReviewer ----------------------------
(***************************************************************************)
(* The Safety Reviewer: it cross-checks every Assessment and submits a     *)
(* Verdict, CONFIRM or CHALLENGE; after MaxChallenges challenges, which it *)
(* counts in memory, the verdict is NEEDS_HUMAN without an LLM.            *)
(***************************************************************************)
EXTENDS RoomAgent

\* assessment_already_reviewed: a later verdict is published.
AssessmentAlreadyReviewed(ledger, i) ==
  \E j \in ledger : cards[j].type = "Verdict" /\ j > i

\* What makes an Assessment news to a context: a higher revision, before the verdict.
IsRevision(ctx, i) == ~ctx.submitted /\ origin[i].rev > ctx.revision

IgnoresAssessment(page, ledger) ==
  LET i == NextCard(REVIEWER) IN
  \/ StaleCard(page, i) \/ TerminalIncident(page)
  \/ AssessmentAlreadyReviewed(ledger, i)
  \/ Context(REVIEWER).known /\ ~IsRevision(Context(REVIEWER), i)

\* Fault: a process that has just started has not challenged yet.
ForgottenChallenges(ledger) == Context(REVIEWER).challenges

\* The challenges issued: counted in memory, and in the ledger after a restart.
ChallengesIssued(ledger) ==
  IF Context(REVIEWER).known THEN Context(REVIEWER).challenges ELSE ChallengesIn(ledger)

\* SafetyReviewerPreprocessor.process.
TakeAssessment(page, ledger) ==
  /\ Receives(REVIEWER)
  /\ LooksUp(page, ledger, TRUE)
  /\ IF IgnoresAssessment(page, ledger)
     THEN Skip(REVIEWER, Context(REVIEWER))
     ELSE Accept(REVIEWER, [NoContext EXCEPT !.known = TRUE,
                                             !.revision = origin[NextCard(REVIEWER)].rev,
                                             !.challenges = ChallengesIssued(ledger)])

\* run_local_safety_review: the decision that is given to the LLM to explain.
LocalDecision(weak, n) == IF weak /\ n < 1 THEN "CHALLENGE" ELSE "CONFIRM"

\* Fault: the cross-check does not overrule a CONFIRM.
NotOverruled(weak, n) ==
  IF n >= MaxChallenges THEN "NEEDS_HUMAN" ELSE LocalDecision(weak, n)

\* Fault: escalated one challenge early.
EscalatedEarly(weak, n) ==
  CASE n + 1 >= MaxChallenges            -> "NEEDS_HUMAN"
    [] n + 1 < MaxChallenges /\ weak     -> "CHALLENGE"
    [] OTHER                             -> LocalDecision(weak, n)

\* handle_submit_verdict: escalated when the challenges are used up; a CONFIRM is
\* overruled when the cross-check has issues.
FinalDecision(weak, n) ==
  CASE n >= MaxChallenges           -> "NEEDS_HUMAN"
    [] n < MaxChallenges /\ weak    -> "CHALLENGE"
    [] OTHER                        -> LocalDecision(weak, n)

VerdictCard ==
  [type |-> "Verdict", body |-> NoBody, risk |-> "low",
   decision |-> FinalDecision(origin[Question(REVIEWER)].report.weak,
                              Context(REVIEWER).challenges)]

\* Fault: the key is made from the offset, before it moves.
KeyFromOffset == [NoOrigin EXCEPT !.msg = agent[REVIEWER].offset]

ReviewerOrigin == [NoOrigin EXCEPT !.msg = agent[REVIEWER].msg]

SubmitVerdict ==
  /\ agent[REVIEWER].pc = "reason"
  /\ Submit(REVIEWER, VerdictCard, ReviewerOrigin)

\* The LLM words the reasoning anew, but for the escalation, which has none.
VerdictConflict ==
  /\ agent[REVIEWER].pc = "reason"
  /\ KeyConflict(REVIEWER, VerdictCard, ReviewerOrigin, VerdictCard.decision # "NEEDS_HUMAN")

\* A CHALLENGE is counted and leaves the context open for the revised Assessment.
AfterVerdict(c) ==
  IF IsChallenge(c) THEN [Context(REVIEWER) EXCEPT !.challenges = @ + 1]
                    ELSE [Context(REVIEWER) EXCEPT !.submitted = TRUE]

VerdictConfirmed ==
  /\ Confirms(REVIEWER)
  /\ Finished(REVIEWER, AfterVerdict(cards[agent[REVIEWER].card]))
  /\ UNCHANGED faults

ReviewerStep ==
  \/ \E page, ledger \in {published, {}} : TakeAssessment(page, ledger)
  \/ SubmitVerdict \/ VerdictConflict \/ VerdictConfirmed
  \/ Submission(REVIEWER)
================================================================================
