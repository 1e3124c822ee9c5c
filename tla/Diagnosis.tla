------------------------------- MODULE Diagnosis -------------------------------
(***************************************************************************)
(* The Diagnosis agent: it investigates when Triage has routed an alert    *)
(* (a TriageDecision) and again when the Safety Reviewer challenges what   *)
(* it found (a CHALLENGE), and submits an Assessment, revision 1, 2, ...   *)
(***************************************************************************)
EXTENDS RoomAgent

\* A TriageDecision is passed over if it is stale or if there is a context at all: its
\* investigation is under way, or done, or was broken off.
IgnoresRouting(page) ==
  StaleCard(page, NextCard(DIAGNOSIS)) \/ TerminalIncident(page) \/ Context(DIAGNOSIS).known

\* challenge_already_answered: a later Assessment of the revision the CHALLENGE called
\* for is published.
ChallengeAlreadyAnswered(ledger, i) ==
  LET round == Cardinality({j \in ledger : IsChallenge(cards[j]) /\ j <= i})
      expected == IF round + 1 > 2 THEN round + 1 ELSE 2
  IN \E j \in ledger : /\ cards[j].type = "Assessment"
                       /\ j > i
                       /\ origin[j].rev >= expected

\* _restore_context_from_gateway: the revision is the number of challenges.
Restorable(ledger) ==
  \A type \in {"TriageDecision", "Assessment"} : \E j \in ledger : cards[j].type = type

RestoredDiagnosis(ledger) ==
  LET n == ChallengesIn(ledger)
  IN [NoContext EXCEPT !.known = TRUE, !.submitted = TRUE,
                       !.revision = IF n > 1 THEN n ELSE 1]

\* The context a CHALLENGE finds; none if there is nothing to restore it from.
ChallengedContext(ledger) ==
  IF Context(DIAGNOSIS).known \/ ~Restorable(ledger) THEN Context(DIAGNOSIS)
                                                    ELSE RestoredDiagnosis(ledger)

\* A CHALLENGE is passed over if it is answered, or if no investigation is finished.
IgnoresChallenge(page, ledger) ==
  \/ TerminalIncident(page)
  \/ ChallengeAlreadyAnswered(ledger, NextCard(DIAGNOSIS))
  \/ ~ChallengedContext(ledger).submitted

\* DiagnosisPreprocessor.process, for a TriageDecision.
TakeRouting(page) ==
  /\ Receives(DIAGNOSIS) /\ cards[NextCard(DIAGNOSIS)].type = "TriageDecision"
  /\ LooksUp(page, published, TRUE)
  /\ IF IgnoresRouting(page)
     THEN Skip(DIAGNOSIS, Context(DIAGNOSIS))
     ELSE Accept(DIAGNOSIS, [NoContext EXCEPT !.known = TRUE, !.revision = 1])

\* _handle_challenge.  No stale-card guard here.
TakeChallenge(page, ledger) ==
  /\ Receives(DIAGNOSIS) /\ IsChallenge(cards[NextCard(DIAGNOSIS)])
  /\ LooksUp(page, ledger, TRUE)
  /\ IF IgnoresChallenge(page, ledger)
     THEN Skip(DIAGNOSIS, Context(DIAGNOSIS))
     ELSE LET ctx == ChallengedContext(ledger)
          IN Accept(DIAGNOSIS, [ctx EXCEPT !.submitted = FALSE, !.revision = @ + 1])

\* derive_severity and the Qwen answer: the investigation may come to any report, also
\* to another one when the message is delivered again.
AssessmentCard(report) ==
  [type |-> "Assessment", decision |-> "none", body |-> NoBody,
   risk |-> IF report.severity = "P1" THEN "high" ELSE "low"]

DiagnosisOrigin(report) ==
  [NoOrigin EXCEPT !.msg = agent[DIAGNOSIS].msg, !.rev = Context(DIAGNOSIS).revision,
                   !.report = report]

SubmitAssessment ==
  /\ agent[DIAGNOSIS].pc = "reason"
  /\ \E report \in Reports : Submit(DIAGNOSIS, AssessmentCard(report), DiagnosisOrigin(report))

\* The evidence has its age in it: the payload is hardly ever the same again.
AssessmentConflict ==
  /\ agent[DIAGNOSIS].pc = "reason"
  /\ \E report \in Reports :
       KeyConflict(DIAGNOSIS, AssessmentCard(report), DiagnosisOrigin(report), TRUE)

AssessmentConfirmed ==
  /\ Confirms(DIAGNOSIS)
  /\ Finished(DIAGNOSIS, [Context(DIAGNOSIS) EXCEPT !.submitted = TRUE])
  /\ UNCHANGED faults

DiagnosisStep ==
  \/ \E page, ledger \in {published, {}} : TakeChallenge(page, ledger)
  \/ \E page \in {published, {}} : TakeRouting(page)
  \/ SubmitAssessment \/ AssessmentConflict \/ AssessmentConfirmed
  \/ Submission(DIAGNOSIS)
================================================================================
