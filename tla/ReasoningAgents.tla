---------------------------- MODULE ReasoningAgents ----------------------------
(***************************************************************************)
(* One incident from the moment Triage routes it to the authorization of a *)
(* plan: Diagnosis, the Safety Reviewer and the Commander, the human at    *)
(* the approval page, and the Gateway between them.                        *)
(***************************************************************************)
EXTENDS Diagnosis, SafetyReviewer, Commander

vars == <<roomVars, agent, faults, challenged>>

\* Triage has sealed its decision and posted it, and is about to confirm it.
Init ==
  /\ state = "DETECTED"
  /\ cards = <<[type |-> "TriageDecision", decision |-> "route", body |-> NoBody,
                risk |-> "low"]>>
  /\ room = {1} /\ published = {}
  /\ messages = <<1>> /\ origin = <<NoOrigin>>
  /\ agent = [r \in Agents |-> Fresh]
  /\ faults = 0 /\ challenged = {}

TriageConfirms ==
  /\ ConfirmPublication(1)
  /\ UNCHANGED <<messages, origin, agent, faults, challenged>>

\* Triage, started again before it has confirmed, posts its decision once more.
TriageRepeats ==
  /\ 1 \notin published
  /\ Fault
  /\ Len(messages) < MaxMessages
  /\ messages' = Append(messages, 1)
  /\ UNCHANGED <<ledgerVars, origin, agent, challenged>>

AgentStep(r) ==
  CASE r = DIAGNOSIS -> DiagnosisStep /\ UNCHANGED challenged
    [] r = REVIEWER  -> ReviewerStep /\ UNCHANGED challenged
    [] r = COMMANDER -> CommanderStep

Next ==
  \/ TriageConfirms \/ TriageRepeats
  \/ \E r \in Agents : \/ AgentStep(r)
                       \/ (Crash(r) \/ Restart(r)) /\ UNCHANGED challenged
  \/ HumanDecides
  \/ \E i \in DOMAIN cards : GatewayPosts(i) \/ GatewayPublishes(i)

Spec == Init /\ [][Next]_vars

\* Triage gets on with its confirmation, and an agent with its messages as long as its
\* process lives.
FairSpec == Spec /\ WF_vars(TriageConfirms) /\ \A r \in Agents : WF_vars(AgentStep(r))

-------------------------------------------------------------------------------
(* Properties.                                                                 *)

\* What each agent answers with.
Answer(r) == CASE r = DIAGNOSIS -> "Assessment"
               [] r = REVIEWER  -> "Verdict"
               [] r = COMMANDER -> "ResponsePlan"

\* The card an agent seals is an answer to an earlier card that concerns it.
AnswersConcern ==
  \A i \in DOMAIN cards, r \in Agents : cards[i].type = Answer(r) =>
    /\ origin[i].msg \in DOMAIN messages
    /\ messages[origin[i].msg] < i
    /\ Concerns(r, cards[messages[origin[i].msg]])

\* Types, the room, and what the agents' cards answer.
AgentsTypeOK ==
  /\ TypeOK
  /\ messages \in Seq(1..Len(cards)) /\ Len(messages) <= MaxMessages
  /\ room = {messages[m] : m \in DOMAIN messages}
  /\ origin \in Seq(Origin) /\ Len(origin) = Len(cards)
  /\ AnswersConcern
  /\ agent \in [Agents -> Memory]
  /\ \A r \in Agents :
       /\ agent[r].offset \in 0..Len(messages)
       /\ agent[r].msg \in 0..Len(messages) /\ (agent[r].pc # "poll" => agent[r].msg > 0)
       /\ agent[r].card \in 0..Len(cards)
       /\ agent[r].pc \in {"post", "confirm", "authorize"} => agent[r].card > 0
  /\ faults \in 0..MaxFaults
  /\ challenged \subseteq 1..Len(cards)

\* A question is answered with one card, however often its agent is started again and
\* whatever single thing fails: the question may be in the room twice, and the key of a
\* card is the message and not the card it answers.
OneAnswerPerQuestion ==
  faults <= 1 =>
    \A i, j \in DOMAIN cards :
      /\ origin[i].msg # 0 /\ origin[j].msg # 0
      /\ cards[i].type = cards[j].type
      /\ messages[origin[i].msg] = messages[origin[j].msg]
      => i = j

\* The Assessment in force when card i is published: the one published last before it.
AssessmentBefore(i) ==
  LET found == {j \in published : cards[j].type = "Assessment" /\ j < i}
  IN IF found = {} THEN 0 ELSE CHOOSE j \in found : \A k \in found : k <= j

\* Weak evidence never passes: a sealed CONFIRM answers an Assessment that the cross-check
\* has nothing against, whatever the LLM says, and whichever of the Reviewer's lookups fail.
ConfirmsSoundEvidence ==
  \A i \in DOMAIN cards :
    IsConfirm(cards[i]) => ~origin[messages[origin[i].msg]].report.weak

\* The card that card i answers, and the cards of the review.
Asked(i) == messages[origin[i].msg]
Reviews == {i \in DOMAIN cards : cards[i].type \in {"Assessment", "Verdict"}}

\* No Assessment and no challenge has two answers.
ReviewedOnce ==
  \A i, j \in Reviews : cards[i].type = cards[j].type /\ Asked(i) = Asked(j) => i = j

\* And no other Assessment slips past the review: the one a published CONFIRM answers is
\* the one in force.  /confirm does not look which one that is.  It takes a question that
\* is answered twice to break this, and three faults: then a second Assessment may
\* overtake the one under review.
ConfirmsEvidenceInForce ==
  faults <= 2 \/ ReviewedOnce =>
    \A i \in published : IsConfirm(cards[i]) => Asked(i) = AssessmentBefore(i)

\* diagnosis/__init__.py:1130: "the pre-reset revision equals the challenge count", so
\* that a restart goes on with the next one: the revisions published are different ones.
RevisionsGrow ==
  \A i, j \in published :
    cards[i].type = "Assessment" /\ cards[j].type = "Assessment" /\ i < j
      => origin[i].rev < origin[j].rev

\* A human is called in only when the challenges are used up.
EscalatedWhenSpent ==
  \A i \in published : cards[i].type = "Verdict" /\ cards[i].decision = "NEEDS_HUMAN" =>
    Cardinality({j \in PublishedChallenges : j < i}) = MaxChallenges

\* The Commander reads the Assessment that was sealed last, whether it was confirmed or
\* not; it is the one that was reviewed all the same.  To have another one after it takes
\* a question that is answered twice, and three faults.  If the lookup fails, what the
\* Commander finds in the room is a published Assessment, but may be an older one than
\* the one reviewed; a plan against a P1 needs a human even then.
PlansFollowReview ==
  faults <= 2 \/ ReviewedOnce =>
    \A i \in DOMAIN cards : cards[i].type = "ResponsePlan" =>
      LET reviewed == origin[AssessmentBefore(i)].report
      IN /\ ~origin[i].older => origin[i].report = reviewed
         /\ \E j \in published : /\ cards[j].type = "Assessment" /\ j < i
                               /\ origin[j].report = origin[i].report
         /\ reviewed.severity = "P1" => cards[i].risk = "high"
         /\ origin[i].report.severity \in {"P1", "P2"} => cards[i].risk = "high"

\* A refused plan does not come back: the next revision has another runbook, whatever
\* words the human chose and however often the Commander was started again in between.
\* It looks the refused plan up; if it cannot, the runbook may be the same.
ChangesRunbook ==
  faults = 0 =>
    \A i, j \in DOMAIN cards :
      /\ cards[i].type = "ResponsePlan" /\ cards[j].type = "ResponsePlan"
      /\ origin[j].rev = origin[i].rev + 1
      => cards[i].body # cards[j].body

\* No plan that the Commander has made for a P1 or a P2 is authorized without a human: the
\* body that the policy authorizes is that of a published plan for a report of P3 or P4.
\* The Gateway's risk floor is medium for a P2, which the policy authorizes too (here "low"
\* is both); so this rests on the risk the Commander asks for, and that on the report that
\* it has found: PlansFollowReview says which one that is.
PolicyIsForMinor ==
  \A i \in DOMAIN cards : cards[i].type = "PolicyAuthorization" =>
    \E j \in published :
      /\ cards[j].type = "ResponsePlan" /\ j < i
      /\ cards[j].body = cards[i].body /\ cards[j].risk = "low"
      /\ LowSeverity(origin[j].report)

Reviewed == state \in {"PLANNED", "ESCALATED_HUMAN"}

\* An agent is a new process again and again, and has read the room to its end again and
\* again: so it reads the whole room again and again.
StartedAgain(r) == []<>(agent[r] = Fresh) /\ []<>(Inbox(r) = {})

SomeConflict == AssessmentConflict \/ VerdictConflict \/ PlanConflict

\* An incident that Triage routes gets a plan or a human, whatever failed: a message that
\* was lost, a challenge nobody heard of, an answer sealed and never published, a revision
\* that was repeated.  For that every agent must be started again now and then, and read
\* the room to its end; and /prepare must not refuse its answers for being reworded.
ReviewCompletes ==
  (\A r \in Agents : StartedAgain(r)) /\ <>[][~SomeConflict]_vars => <>Reviewed

-------------------------------------------------------------------------------
(* Why the safety properties hold: the inductive invariant of the proofs.      *)

\* An agent at work has a message that concerns it, and the Commander a context.
QuestionsConcern ==
  \A r \in Agents : agent[r].pc # "poll" =>
    Concerns(r, cards[Question(r)]) /\ (r = COMMANDER => Context(r).known)

\* An Assessment has a report of Diagnosis, and the Commander plans for one.
ReportsAreFound ==
  \A i \in DOMAIN cards : cards[i].type = "Assessment" => origin[i].report \in Reports
PlansForReport == Context(COMMANDER).known => Context(COMMANDER).report \in Reports

\* Nothing but the routing is sealed before the first Assessment, ...
AssessedFirst ==
  \A i \in DOMAIN cards : cards[i].type # "TriageDecision" =>
    \E j \in DOMAIN cards : cards[j].type = "Assessment"

\* ... and a plan is one of the runbooks.
PlansAreRunbooks ==
  \A i \in DOMAIN cards : cards[i].type = "ResponsePlan" => cards[i].body \in Bodies

\* The Reviewer never counts a challenge that is not published.
ChallengesCounted == Context(REVIEWER).challenges <= ChallengesSpent

\* A verdict that calls for a human has all the challenges before it.
EscalationsAreLast ==
  \A i \in DOMAIN cards : cards[i].type = "Verdict" /\ cards[i].decision = "NEEDS_HUMAN" =>
    Cardinality({j \in PublishedChallenges : j < i}) = MaxChallenges

\* The routing is in the room.
RoutingIsPosted == 1 \in room

AgentsInv ==
  /\ AgentsTypeOK /\ BudgetInv /\ RoutingIsPosted /\ QuestionsConcern /\ ReportsAreFound
  /\ PlansForReport /\ AssessedFirst /\ PlansAreRunbooks /\ ChallengesCounted
  /\ EscalationsAreLast /\ ConfirmsSoundEvidence

(* What a chain of their answers is like.                                      *)

Plans == {i \in DOMAIN cards : cards[i].type = "ResponsePlan"}

\* An agent posts and confirms its own answers.
OwnCards ==
  \A r \in Agents :
    agent[r].pc \in {"post", "confirm"} => cards[agent[r].card].type = Answer(r)

\* A key is used once.
KeysAreUnique ==
  \A i, j \in DOMAIN cards :
    /\ cards[i].type = cards[j].type
    /\ origin[i].msg = origin[j].msg /\ origin[i].msg # 0
    => i = j

\* A plan for a P1 or a P2 is of high risk, and so is an Assessment of a P1.
SevereIsHighRisk ==
  /\ \A i \in Plans : ~LowSeverity(origin[i].report) => cards[i].risk = "high"
  /\ \A i \in DOMAIN cards :
       cards[i].type = "Assessment" /\ origin[i].report.severity = "P1" => cards[i].risk = "high"

\* Once there is a plan, there is no way back to the review, and a human has something
\* to refuse.
AfterReview == PlanStates \union Authorized \union {"PLANNED", "CLOSED_FALSE_ALARM"}
PlannedAfterReview ==
  /\ Plans # {} => state \in AfterReview
  /\ \A i \in Plans, j \in DOMAIN cards : cards[j].type = "Verdict" => j < i
  /\ Refusals # {} => Plans # {}

PlanningInv == OwnCards /\ KeysAreUnique /\ SevereIsHighRisk /\ PolicyIsForMinor /\ PlannedAfterReview

(* And why what is confirmed and planned is what was reviewed.                 *)

\* There is one routing, the first card.
RoutedOnce ==
  \A i \in DOMAIN cards : cards[i].type = "TriageDecision" <=> i = 1

\* The review is a line: the routing is answered before anything else, and a card of the
\* review is published and answered before the next but one is sealed.
ReviewIsLinear ==
  /\ Reviews # {} => \E k \in Reviews : Asked(k) = 1
  /\ \A i, j \in Reviews : i < j =>
       /\ i \in published /\ i <= Asked(j)
       /\ \E k \in Reviews : Asked(k) = i

\* Card i of the review was published last.
LastReview(i) ==
  i \in Reviews \cap published /\ \A j \in Reviews \cap published : j <= i

\* The incident is where the last one left it.
ReviewInState ==
  /\ state \in {"NONE", "DETECTED"} => Reviews = {}
  /\ state \in {"TRIAGED", "SUPPRESSED"} => Reviews \cap published = {}
  /\ state = "ASSESSED" => \E i \in Reviews : LastReview(i) /\ cards[i].type = "Assessment"
  /\ state = "CHALLENGED" => \E i \in Reviews : LastReview(i) /\ IsChallenge(cards[i])
  /\ state \notin BeforeReview \union {"CHALLENGED"} => Reviews \subseteq published

\* The Commander has a context, and the incident plans, once an Assessment is confirmed;
\* they are for the report of the last Assessment, or of an older one, and against a P1
\* they are of high risk.
Confirmed == \E i \in DOMAIN cards : IsConfirm(cards[i])
PlansFor(report, older) ==
  /\ Confirmed
  /\ \E i \in DOMAIN cards : cards[i].type = "Assessment" /\ report = origin[i].report
  /\ ~older => report = origin[LastSealed("Assessment")].report
RiskFollows(i) ==
  origin[LastSealed("Assessment")].report.severity = "P1" => cards[i].risk = "high"
PlansAsReviewed ==
  LET ctx == Context(COMMANDER)
  IN /\ ctx.known => PlansFor(ctx.report, ctx.older)
     /\ \A i \in Plans : PlansFor(origin[i].report, origin[i].older) /\ RiskFollows(i)

\* As long as no question is answered twice.
ReviewInv ==
  RoutedOnce /\ (ReviewedOnce => ReviewIsLinear /\ ReviewInState /\ PlansAsReviewed)

(* And why a question is answered once.                                        *)

Answers == Reviews \union Plans
AnsweredOnce ==
  \A i, j \in Answers : cards[i].type = cards[j].type /\ Asked(i) = Asked(j) => i = j

\* The agents' answers are the cards with a key; and without a plan there is nothing but
\* the routing and the review.
KeyedAnswers == \A i \in DOMAIN cards : origin[i].msg # 0 => i \in Answers
PlansComeFirst ==
  Plans = {} => \A i \in DOMAIN cards : i \in Reviews \/ cards[i].type = "TriageDecision"

\* What the Commander plans for.  The plans are a line, too: each is for the last such
\* card, none is behind, and the incident waits for the one that is not yet published.
PlanQuestions == {i \in DOMAIN cards : AsksCommander(cards[i])}
Planned(q) == \E i \in Plans : Asked(i) = q
PlansAreLinear ==
  /\ \A i \in Plans, q \in PlanQuestions : q < i => q <= Asked(i)
  /\ \A q, k \in PlanQuestions : q < k => Planned(q)
  /\ \A i, j \in Plans : i < j => i \in published
  /\ \A i \in Plans \ published : i = Len(cards) /\ state \in PlanStates
  /\ state = "PLANNED" => \A q \in PlanQuestions : Planned(q)

\* The incident that Triage has routed is not suppressed.
NotSuppressed == cards[1].decision = "route" /\ state # "SUPPRESSED"

\* An answer to a challenge is of revision 2 or higher.
AnswersChallenge(i) == cards[i].type = "Assessment" /\ IsChallenge(cards[Asked(i)])
ChallengesRevise ==
  LET m == agent[DIAGNOSIS]
  IN /\ m.ctx.submitted \/ m.pc # "poll" => m.ctx.known
     /\ m.ctx.known => m.ctx.revision >= 1
     /\ m.pc = "reason" /\ IsChallenge(cards[Question(DIAGNOSIS)]) => m.ctx.revision >= 2
     /\ \A i \in DOMAIN cards : AnswersChallenge(i) => origin[i].rev >= 2

AnswersInv ==
  /\ KeyedAnswers /\ PlansComeFirst /\ NotSuppressed /\ ChallengesRevise
  /\ AnsweredOnce => PlansAreLinear

\* There are two ways to trouble.  An answer is sealed, not published, and in nobody's
\* hands ...
InHand(i) == \E r \in Agents : agent[r].pc \in {"post", "confirm"} /\ agent[r].card = i
Abandoned == \E i \in Answers \ published : ~InHand(i)

\* ... or a card is in two messages, or about to be: it is posted again, its question is
\* about to be answered again in the same way, or Diagnosis has lost count.
AnswersFor(r, i) == i \in Answers /\ cards[i].type = Answer(r) /\ Asked(i) = Question(r)
Redoes(r) ==
  /\ agent[r].pc = "reason"
  /\ \E i \in published : /\ AnswersFor(r, i)
                          /\ r = DIAGNOSIS => origin[i].rev = Context(r).revision
Misled ==
  /\ Context(DIAGNOSIS).known /\ Context(DIAGNOSIS).revision <= 1
  /\ \E i \in DOMAIN cards : AnswersChallenge(i)
PostedTwice == \E m, k \in DOMAIN messages : m # k /\ messages[m] = messages[k]
Reposts(r) == agent[r].pc = "post" /\ agent[r].card \in room
Repeated == PostedTwice \/ Misled \/ \E r \in Agents : Reposts(r) \/ Redoes(r)

\* A single fault leads to one of them, never to both.
OneTrouble ==
  /\ faults = 0 => ~Abandoned /\ ~Repeated
  /\ faults = 1 => ~Abandoned \/ ~Repeated

\* An agent at work has answered its question under the very same key if at all, or
\* cannot answer it: it is a second challenge, and answered.
KnownByKey(r, i) ==
  \/ origin[i].msg = agent[r].msg
  \/ /\ r = DIAGNOSIS /\ i \in published /\ Question(r) \in PublishedChallenges
     /\ \E j \in PublishedChallenges : j < Question(r)
AnswersAreKnown ==
  \A r \in Agents : agent[r].pc = "reason" =>
    \A i \in DOMAIN cards : AnswersFor(r, i) => KnownByKey(r, i)

OnceInv == faults <= 1 => AnsweredOnce /\ OneTrouble /\ AnswersAreKnown

(* And why a revision changes the runbook.                                     *)

\* The revisions of the plans go up.
PlansInOrder == \A i, j \in Plans : i < j => origin[i].rev < origin[j].rev

\* The Commander has published every plan, but for the one it is about to publish; that
\* is the newest card, and the incident waits for it.
PlansArePublished ==
  LET m == agent[COMMANDER]
  IN IF m.pc \in {"post", "confirm"}
     THEN /\ m.card = Len(cards) /\ m.card \in Plans \ published
          /\ Plans \ published = {m.card} /\ state \in PlanStates
     ELSE Plans \subseteq published

\* Its context is that of the last plan ...
ContextIsCurrent ==
  LET ctx == Context(COMMANDER)
      last == LastSealed("ResponsePlan")
  IN agent[COMMANDER].pc # "reason" /\ ctx.known /\ last # 0 => ctx.revision = origin[last].rev

\* ... or that of the next one, which nobody but the Commander may delay.
RevisesLastPlan ==
  LET ctx == Context(COMMANDER)
      last == LastSealed("ResponsePlan")
  IN agent[COMMANDER].pc = "reason" =>
       \/ last = 0 /\ ctx.source = 0
       \/ /\ last # 0 /\ last < Question(COMMANDER) /\ state = "REJECTED"
          /\ ctx.source # 0 /\ ctx.revision = origin[last].rev + 1
          /\ ctx.rejected = cards[last].body

\* A refusal that no plan has followed holds the incident up.
RefusalsHold ==
  \A i \in Refusals : (\A j \in Plans : j < i) => state = "REJECTED"

InStep == /\ PlansInOrder /\ PlansArePublished /\ ContextIsCurrent /\ RevisesLastPlan
          /\ RefusalsHold /\ ChangesRunbook

\* As long as nothing fails.
RevisionInv == faults = 0 => InStep
================================================================================
