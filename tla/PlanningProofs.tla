----------------------------- MODULE PlanningProofs -----------------------------
(***************************************************************************)
(* More about ReasoningAgents: what its steps do to the chain of cards.    *)
(*                                                                         *)
(* Every step seals an agent's answer, seals a decision, publishes a card, *)
(* or leaves the chain as it is, and each of these is a step of the card   *)
(* ledger: so the agents inherit what is proved of the ledger.  For any    *)
(* faults no plan made for a P1 or a P2 is authorized without a human.  As *)
(* long as nothing fails the Commander keeps in step with its own plans,   *)
(* whatever restarts: so no refused plan comes back.  As long as no        *)
(* question is answered twice, the review is a line of answers, and the    *)
(* plans follow it; and with the Gateway's two challenges an incident, no  *)
(* question is answered twice as long as no more than one thing fails.     *)
(***************************************************************************)
EXTENDS ReasoningAgentsProofs

-------------------------------------------------------------------------------
(* What a step does to the chain.                                              *)

\* Agent r seals the card c with the origin o.
Seals(r, c, o) ==
  /\ agent[r].pc = "reason" /\ c \in AgentCards /\ c.type = Answer(r) /\ o.msg = agent[r].msg
  /\ r = COMMANDER => c = PlanCard /\ o = PlanOrigin
  /\ c.type = "Assessment" /\ o.report.severity = "P1" => c.risk = "high"
  /\ Prepare(r, c, o)

\* A human or the policy decides on the published plan j.
Decides(c, o, j) ==
  /\ c \in GatewayCards /\ SealDecision(c)
  /\ origin' = Append(origin, o) /\ o.msg = 0
  /\ j \in published /\ cards[j].type = "ResponsePlan"
  /\ c.type = "PolicyAuthorization" => cards[j].risk = "low" /\ cards[j].body = c.body

\* Card i is published.
Publishes(i) ==
  /\ ConfirmPublication(i) \/ PublishAuthorization(i) \/ PublishRefusal(i)
  /\ i \in DOMAIN cards /\ UNCHANGED origin

\* The chain stays as it is, though a card may be posted.
Rests == [LedgerNext]_ledgerVars /\ UNCHANGED <<state, cards, published, origin>>

ChainStep ==
  \/ \E r \in Agents : \E c, o : Seals(r, c, o)
  \/ \E c, o, j : Decides(c, o, j)
  \/ \E i : Publishes(i)
  \/ Rests

LEMMA QuietStep ==
  ASSUME UNCHANGED roomVars \/ UNCHANGED <<ledgerVars, origin>>
  PROVE  Rests
BY DEF Rests, roomVars, ledgerVars

\* The verdict of a Reviewer at work.
LEMMA VerdictIsCard ==
  ASSUME AgentsInv, agent[REVIEWER].pc # "poll"
  PROVE  VerdictCard \in AgentCards /\ VerdictCard.type = "Verdict"
<1> DEFINE r == REVIEWER
<1>1. r \in Agents /\ RoomSound /\ SoundMemory(r, agent[r])
  BY InvParts, Roles
<1>2. PICK weak, n : weak = origin[Question(r)].report.weak /\ n = Context(r).challenges
  OBVIOUS
<1>3. n \in Nat
  BY <1>1, <1>2 DEF SoundMemory, SoundContext, Context, Contexts
<1>4. weak \in BOOLEAN
  <2>1. origin[Question(r)] \in Origin
    BY <1>1, AtWork, InRange
  <2>2. PICK report \in Reports \union {NoReport} : report = origin[Question(r)].report
    BY <2>1 DEF Origin
  <2>3. CASE report \in Reports
    BY <1>2, <2>2, <2>3, AgentAssumption DEF Report
  <2>4. CASE report = NoReport
    BY <1>2, <2>2, <2>4 DEF NoReport
  <2> QED
    BY <2>2, <2>3, <2>4
<1>5. PICK d \in Verdicts : d = FinalDecision(weak, n)
  BY <1>3, <1>4, DecisionSound
<1>6. VerdictCard = [type |-> "Verdict", body |-> NoBody, risk |-> "low", decision |-> d]
  BY <1>2, <1>5 DEF VerdictCard
<1> QED
  BY <1>6 DEF AgentCards

\* An agent that submits seals its answer, or leaves the chain alone.
LEMMA SubmitShape ==
  ASSUME AgentsInv, NEW r \in Agents, NEW c \in AgentCards, NEW o,
         agent[r].pc = "reason", c.type = Answer(r), o.msg = agent[r].msg,
         r = COMMANDER => c = PlanCard /\ o = PlanOrigin,
         c.type = "Assessment" /\ o.report.severity = "P1" => c.risk = "high",
         Submit(r, c, o) \/ \E b \in BOOLEAN : KeyConflict(r, c, o, b)
  PROVE  Seals(r, c, o) \/ Rests
<1>1. CASE Prepare(r, c, o)
  BY <1>1 DEF Seals
<1>2. CASE PrepareAgain(r, c, o) \/ PrepareRefused(r, c, o) \/ \E b \in BOOLEAN : KeyConflict(r, c, o, b)
  <2>1. UNCHANGED roomVars
    BY <1>2 DEF PrepareAgain, PrepareRefused, KeyConflict
  <2> QED
    BY <2>1, QuietStep
<1> QED
  BY <1>1, <1>2 DEF Submit

\* A card in hand is one of the chain.
LEMMA CardInHand ==
  ASSUME AgentsInv, NEW r \in Agents, agent[r].pc \in {"post", "confirm"}
  PROVE  agent[r].card \in DOMAIN cards
<1>1. RoomSound /\ SoundMemory(r, agent[r])
  BY InvParts
<1>2. agent[r].card \in Nat /\ agent[r].card > 0 /\ agent[r].card <= Len(cards) /\ Len(cards) \in Nat
  BY <1>1, InRange DEF SoundMemory, Memory
<1> QED
  BY <1>1, <1>2, InRange

LEMMA ConfirmShape ==
  ASSUME AgentsInv, NEW r \in Agents, Confirms(r)
  PROVE  Publishes(agent[r].card)
BY CardInHand DEF Confirms, Publishes

LEMMA SubmissionShape ==
  ASSUME AgentsInv, NEW r \in Agents, Submission(r) \/ Crash(r) \/ Restart(r)
  PROVE  ChainStep
<1>1. CASE Post(r)
  <2>1. agent[r].card \in DOMAIN cards
    BY <1>1, CardInHand DEF Post
  <2>2. UNCHANGED ledgerVars \/ PostCard(agent[r].card)
    BY <1>1 DEF Post
  <2>3. [LedgerNext]_ledgerVars /\ UNCHANGED <<state, cards, published>>
    BY <2>1, <2>2 DEF LedgerNext, PostCard, ledgerVars
  <2> QED
    BY <1>1, <2>3 DEF Post, Rests, ChainStep
<1>2. CASE ConfirmedUnheard(r)
  BY <1>2, ConfirmShape DEF ConfirmedUnheard, ChainStep
<1>3. CASE Lost(r) \/ ConfirmRefused(r) \/ BrokenOff(r) \/ Crash(r) \/ Restart(r)
  <2>1. UNCHANGED roomVars
    BY <1>3 DEF Lost, Skip, ConfirmRefused, BrokenOff, Crash, Restart
  <2> QED
    BY <2>1, QuietStep DEF ChainStep
<1> QED
  BY <1>1, <1>2, <1>3 DEF Submission

\* A message is passed over or taken.
LEMMA DiagnosisTakes ==
  ASSUME NEW page, NEW ledger, TakeRouting(page) \/ TakeChallenge(page, ledger)
  PROVE  Receives(DIAGNOSIS) /\ \E ctx : Skip(DIAGNOSIS, ctx) \/ Accept(DIAGNOSIS, ctx)
BY DEF TakeRouting, TakeChallenge

LEMMA ReviewerTakes ==
  ASSUME NEW page, NEW ledger, TakeAssessment(page, ledger)
  PROVE  Receives(REVIEWER) /\ \E ctx : Skip(REVIEWER, ctx) \/ Accept(REVIEWER, ctx)
BY DEF TakeAssessment

LEMMA CommanderReceives ==
  ASSUME NEW page, NEW ledger,
         Takes(page, ledger)
  PROVE  Receives(COMMANDER) /\ \E ctx : Skip(COMMANDER, ctx) \/ Accept(COMMANDER, ctx)
<1>1. ASSUME NEW found, TakeConfirm(page, ledger, found)
      PROVE  Receives(COMMANDER) /\ \E ctx : Skip(COMMANDER, ctx) \/ Accept(COMMANDER, ctx)
  BY <1>1 DEF TakeConfirm
<1>2. ASSUME NEW anchor, NEW plan, NEW found, TakeRefusal(page, ledger, anchor, plan, found)
      PROVE  Receives(COMMANDER) /\ \E ctx : Skip(COMMANDER, ctx) \/ Accept(COMMANDER, ctx)
  BY <1>2, RefusalCases DEF TakeRefusal
<1> QED
  BY <1>1, <1>2 DEF Takes

\* Either leaves the room as it is.
LEMMA TakesShape ==
  ASSUME NEW page, NEW ledger,
         \/ TakeRouting(page) \/ TakeChallenge(page, ledger) \/ TakeAssessment(page, ledger)
         \/ Takes(page, ledger)
  PROVE  UNCHANGED roomVars
BY DiagnosisTakes, ReviewerTakes, CommanderReceives DEF Skip, Accept

LEMMA DiagnosisShape ==
  ASSUME AgentsInv, DiagnosisStep
  PROVE  ChainStep
<1> DEFINE r == DIAGNOSIS
<1>1. r \in Agents /\ Answer(r) = "Assessment" /\ r # COMMANDER
  BY Roles
<1>2. CASE \/ \E page, ledger \in {published, {}} : TakeChallenge(page, ledger)
           \/ \E page \in {published, {}} : TakeRouting(page)
  BY <1>2, TakesShape, QuietStep DEF ChainStep
<1>3. CASE SubmitAssessment \/ AssessmentConflict
  <2>1. PICK report, c, o :
          /\ report \in Reports /\ c = AssessmentCard(report) /\ o = DiagnosisOrigin(report)
          /\ Submit(r, c, o) \/ KeyConflict(r, c, o, TRUE)
    BY <1>3 DEF SubmitAssessment, AssessmentConflict
  <2>2. c \in AgentCards /\ c.type = "Assessment"
    BY <2>1 DEF AssessmentCard, AgentCards
  <2>3. o.msg = agent[r].msg /\ (o.report.severity = "P1" => c.risk = "high")
    BY <2>1 DEF AssessmentCard, DiagnosisOrigin, NoOrigin
  <2>4. agent[r].pc = "reason"
    BY <1>3 DEF SubmitAssessment, AssessmentConflict
  <2>5. Seals(r, c, o) \/ Rests
    <3> HIDE DEF r
    <3> QED
      BY <1>1, <2>1, <2>2, <2>3, <2>4, SubmitShape
  <2> QED
    BY <1>1, <2>5 DEF ChainStep
<1>4. CASE AssessmentConfirmed
  BY <1>1, <1>4, ConfirmShape DEF AssessmentConfirmed, ChainStep
<1>5. CASE Submission(r)
  BY <1>1, <1>5, SubmissionShape
<1> QED
  BY <1>2, <1>3, <1>4, <1>5 DEF DiagnosisStep

LEMMA ReviewerShape ==
  ASSUME AgentsInv, ReviewerStep
  PROVE  ChainStep
<1> DEFINE r == REVIEWER
<1>1. r \in Agents /\ Answer(r) = "Verdict" /\ r # COMMANDER
  BY Roles
<1>2. CASE \E page, ledger \in {published, {}} : TakeAssessment(page, ledger)
  BY <1>2, TakesShape, QuietStep DEF ChainStep
<1>3. CASE SubmitVerdict \/ VerdictConflict
  <2>1. PICK c, o : c = VerdictCard /\ o = ReviewerOrigin
    OBVIOUS
  <2>2. agent[r].pc = "reason"
    BY <1>3 DEF SubmitVerdict, VerdictConflict
  <2>3. c \in AgentCards /\ c.type = "Verdict" /\ o.msg = agent[r].msg
    BY <2>1, <2>2, VerdictIsCard DEF ReviewerOrigin, NoOrigin
  <2>4. Submit(r, c, o) \/ \E b \in BOOLEAN : KeyConflict(r, c, o, b)
    <3>1. CASE SubmitVerdict
      BY <2>1, <3>1 DEF SubmitVerdict
    <3>2. CASE VerdictConflict
      <4>1. PICK b \in BOOLEAN : b = (VerdictCard.decision # "NEEDS_HUMAN")
        OBVIOUS
      <4>2. KeyConflict(r, c, o, b)
        BY <2>1, <3>2, <4>1 DEF VerdictConflict, KeyConflict
      <4> QED
        BY <4>2
    <3> QED
      BY <1>3, <3>1, <3>2
  <2>5. Seals(r, c, o) \/ Rests
    <3> HIDE DEF r
    <3> QED
      BY <1>1, <2>2, <2>3, <2>4, SubmitShape
  <2> QED
    BY <1>1, <2>5 DEF ChainStep
<1>4. CASE VerdictConfirmed
  BY <1>1, <1>4, ConfirmShape DEF VerdictConfirmed, ChainStep
<1>5. CASE Submission(r)
  BY <1>1, <1>5, SubmissionShape
<1> QED
  BY <1>2, <1>3, <1>4, <1>5 DEF ReviewerStep

\* The policy decides on the plan in force.
LEMMA AuthorizationDecides ==
  ASSUME AgentsInv, RequestAuthorization
  PROVE  \E c, o, j : Decides(c, o, j)
<1>1. PICK c : c = [PlanCard EXCEPT !.type = "PolicyAuthorization", !.risk = "low"]
  OBVIOUS
<1>2. PICK j \in published : PolicyAllows(j)
  BY DEF RequestAuthorization
<1>3. agent[COMMANDER].pc = "authorize" /\ SealDecision(c) /\ origin' = Append(origin, NoOrigin)
  BY <1>1 DEF RequestAuthorization
<1>4. /\ PlanCard.body \in Bodies
      /\ PlanCard = [type |-> "ResponsePlan", decision |-> "none", body |-> ChosenRunbook,
                     risk |-> AskedRisk(Context(COMMANDER).report, ChosenRunbook)]
  BY <1>3, PlanIsSound
<1>5. PICK body \in Bodies : body = PlanCard.body
  BY <1>4
<1>6. c = [type |-> "PolicyAuthorization", decision |-> "none", body |-> body, risk |-> "low"]
  BY <1>1, <1>4, <1>5
<1>7. c \in GatewayCards /\ c.body = cards[j].body /\ NoOrigin.msg = 0
  BY <1>2, <1>5, <1>6 DEF GatewayCards, PolicyAllows, NoOrigin
<1>8. cards[j].type = "ResponsePlan" /\ cards[j].risk = "low"
  BY <1>2 DEF PolicyAllows, PlanInForce
<1>9. Decides(c, NoOrigin, j)
  BY <1>2, <1>3, <1>7, <1>8 DEF Decides
<1> QED
  BY <1>9

LEMMA CommanderShape ==
  ASSUME AgentsInv, CommanderStep
  PROVE  ChainStep
<1> DEFINE r == COMMANDER
<1>1. r \in Agents /\ Answer(r) = "ResponsePlan"
  BY Roles
<1>2. CASE \E page, ledger \in {published, {}} :
             Takes(page, ledger) /\ UNCHANGED challenged
  BY <1>2, TakesShape, QuietStep DEF ChainStep
<1>3. CASE SubmitPlan \/ PlanConflict
  <2>1. PICK c, o : c = PlanCard /\ o = PlanOrigin
    OBVIOUS
  <2>2. agent[r].pc = "reason" /\ (Submit(r, c, o) \/ \E b \in BOOLEAN : KeyConflict(r, c, o, b))
    BY <1>3, <2>1 DEF SubmitPlan, PlanConflict
  <2>3. c \in AgentCards /\ c.type = "ResponsePlan" /\ o.msg = agent[r].msg
    BY <2>1, <2>2, PlanIsSound DEF PlanOrigin, NoOrigin
  <2>4. Seals(r, c, o) \/ Rests
    <3> HIDE DEF r
    <3>1. r = COMMANDER => c = PlanCard /\ o = PlanOrigin
      BY <2>1
    <3> QED
      BY <1>1, <2>2, <2>3, <3>1, SubmitShape
  <2> QED
    BY <1>1, <2>4 DEF ChainStep
<1>4. CASE PlanConfirmed
  BY <1>1, <1>4, ConfirmShape DEF PlanConfirmed, ChainStep
<1>5. CASE OpenChallenge \/ AuthorizationRefused
  BY <1>5, QuietStep DEF OpenChallenge, AuthorizationRefused, ChainStep
<1>6. CASE RequestAuthorization
  BY <1>6, AuthorizationDecides DEF ChainStep
<1>7. CASE Submission(r)
  BY <1>1, <1>7, SubmissionShape
<1> QED
  BY <1>2, <1>3, <1>4, <1>5, <1>6, <1>7 DEF CommanderStep

LEMMA HumanSeals ==
  ASSUME AgentsInv, HumanDecides
  PROVE  \E c, o, j : Decides(c, o, j)
<1>1. PICK j, d, w, c, o :
        /\ j \in challenged /\ d \in {"APPROVED", "REJECTED", "FALSE_ALARM"} /\ w \in Wishes
        /\ PlanInForce(j) /\ SealDecision(c) /\ origin' = Append(origin, o)
        /\ c = [type |-> "StructuredApproval", decision |-> d,
                body |-> cards[j].body, risk |-> cards[j].risk]
        /\ o = [NoOrigin EXCEPT !.rev = origin[j].rev, !.wish = w]
  BY DEF HumanDecides
<1>2. RoomSound /\ j \in published /\ cards[j].type = "ResponsePlan" /\ j \in DOMAIN cards
  <2>1. RoomSound
    BY InvParts
  <2> QED
    BY <1>1, <2>1, InRange DEF PlanInForce
<1>3. cards[j] \in Card /\ cards[j].body \in Bodies
  BY <1>2, InRange DEF RoomSound, PlansAreRunbooks
<1>4. PICK body \in Bodies, risk \in {"low", "high"} : body = cards[j].body /\ risk = cards[j].risk
  BY <1>3 DEF Card
<1>5. c \in GatewayCards /\ c.type = "StructuredApproval" /\ o.msg = 0
  BY <1>1, <1>4 DEF GatewayCards, NoOrigin
<1>6. Decides(c, o, j)
  BY <1>1, <1>2, <1>5 DEF Decides
<1> QED
  BY <1>6

LEMMA GatewayShape ==
  ASSUME AgentsInv,
         \/ TriageConfirms \/ TriageRepeats
         \/ \E i \in DOMAIN cards : GatewayPosts(i) \/ GatewayPublishes(i)
  PROVE  ChainStep
<1>1. CASE TriageConfirms
  <2>1. RoomSound
    BY InvParts
  <2>2. 1 \in DOMAIN cards
    BY <2>1, InRange DEF RoomSound, RoutingIsPosted
  <2>3. Publishes(1)
    BY <1>1, <2>2 DEF TriageConfirms, Publishes
  <2> QED
    BY <2>3 DEF ChainStep
<1>2. CASE TriageRepeats
  BY <1>2, QuietStep DEF TriageRepeats, ChainStep
<1>3. ASSUME NEW i \in DOMAIN cards, GatewayPosts(i) PROVE ChainStep
  <2>1. UNCHANGED ledgerVars \/ PostCard(i)
    BY <1>3 DEF GatewayPosts
  <2>2. [LedgerNext]_ledgerVars /\ UNCHANGED <<state, cards, published>>
    BY <2>1 DEF LedgerNext, PostCard, ledgerVars
  <2> QED
    BY <1>3, <2>2 DEF GatewayPosts, Rests, ChainStep
<1>4. ASSUME NEW i \in DOMAIN cards, GatewayPublishes(i) PROVE ChainStep
  BY <1>4 DEF GatewayPublishes, Publishes, ChainStep
<1> QED
  BY <1>1, <1>2, <1>3, <1>4

\* Whose step it is.
LEMMA StepKinds ==
  ASSUME [Next]_vars
  PROVE  \/ DiagnosisStep \/ ReviewerStep \/ CommanderStep
         \/ \E r \in Agents : Crash(r) \/ Restart(r)
         \/ TriageConfirms \/ TriageRepeats \/ HumanDecides \/ UNCHANGED vars
         \/ \E i \in DOMAIN cards : GatewayPosts(i) \/ GatewayPublishes(i)
<1>1. ASSUME NEW r \in Agents, AgentStep(r) PROVE DiagnosisStep \/ ReviewerStep \/ CommanderStep
  <2>1. CASE r = DIAGNOSIS
    BY <1>1, <2>1, Roles, Zenon DEF AgentStep
  <2>2. CASE r = REVIEWER
    BY <1>1, <2>2, Roles, Zenon DEF AgentStep
  <2>3. CASE r = COMMANDER
    BY <1>1, <2>3, Roles, Zenon DEF AgentStep
  <2> QED
    BY <2>1, <2>2, <2>3 DEF Agents
<1> QED
  BY <1>1 DEF Next

\* Every step is one of these.
LEMMA EveryStep ==
  ASSUME AgentsInv, [Next]_vars
  PROVE  ChainStep
<1>1. CASE UNCHANGED vars
  BY <1>1, QuietStep DEF vars, ChainStep
<1>2. CASE HumanDecides
  BY <1>2, HumanSeals DEF ChainStep
<1> QED
  BY <1>1, <1>2, StepKinds, DiagnosisShape, ReviewerShape, CommanderShape, SubmissionShape,
     GatewayShape

\* And a step of the ledger.
LEMMA LedgerStep ==
  ASSUME ChainStep
  PROVE  [LedgerNext]_ledgerVars
BY DEF ChainStep, Seals, Prepare, Decides, Publishes, Rests, LedgerNext

\* What CardLedgerProofs proves of the ledger holds of the agents: they do nothing else to
\* the chain, whatever fails.
THEOREM AgentsKeepLedger == Spec => [][LedgerNext]_ledgerVars
<1>1. AgentsInv /\ [Next]_vars => [LedgerNext]_ledgerVars
  BY EveryStep, LedgerStep
<1> QED
  BY <1>1, AgentsInvariance, PTL DEF Spec

\* The challenge budget, under the agents that spend it.
THEOREM AgentsKeepBudget == Spec => []ChallengeBudget
<1>1. AgentsInv => ChallengeBudget
  BY DEF AgentsInv, BudgetInv
<1> QED
  BY <1>1, AgentsInvariance, PTL

\* One authorization of an incident, though the policy may be asked again and again and a
\* human decide beside it; and the incident is in the state of an authorized one exactly
\* while there is one.
THEOREM AgentsAuthorizeOnce == Spec => [](SingleAuthorization /\ AuthorizedByCard)
<1>1. Init => SingleAuthorization /\ AuthorizedByCard
  BY DEF Init, SingleAuthorization, AuthorizedByCard, Authorized
<1>2. AgentsInv => TypeOK
  BY DEF AgentsInv, BudgetInv
<1> QED
  BY <1>1, <1>2, AuthorizedStep, AgentsInvariance, AgentsKeepLedger, PTL DEF Spec

\* What is planned and authorized was reviewed, and nothing newer waits for its review.
THEOREM AgentsReviewFirst == Spec => []ReviewCoversAssessment
<1>1. Init => ReviewCoversAssessment
  BY DEF Init, ReviewCoversAssessment
<1>2. AgentsInv => TypeOK
  BY DEF AgentsInv, BudgetInv
<1> QED
  BY <1>1, <1>2, ReviewStep, AgentsInvariance, AgentsKeepLedger, PTL DEF Spec

\* Every step of the agents is one of the incident's lifecycle, or none: the lifecycle, from
\* the routing on.
THEOREM AgentsKeepLifecycle == Spec => [][Lifecycle!LifecycleNext]_(Lifecycle!lifecycleVars)
<1>1. AgentsInv => BudgetInv
  BY DEF AgentsInv
<1> QED
  BY <1>1, LifecycleStep, AgentsInvariance, AgentsKeepLedger, PTL

-------------------------------------------------------------------------------
(* Keys, risks and the policy.                                                 *)

\* What a step does to the chain, card by card.
Extends(d, o) ==
  /\ DOMAIN cards' = DOMAIN cards \union {Len(cards) + 1}
  /\ Len(cards') = Len(cards) + 1 /\ Len(cards) + 1 \notin DOMAIN cards
  /\ \A i \in DOMAIN cards : i < Len(cards) + 1
  /\ cards'[Len(cards) + 1] = d /\ origin'[Len(cards) + 1] = o
  /\ published' = published

Keeps ==
  /\ DOMAIN cards \subseteq DOMAIN cards' /\ DOMAIN cards \subseteq Nat
  /\ \A i \in DOMAIN cards : cards'[i] = cards[i] /\ origin'[i] = origin[i]
  /\ published \subseteq published' /\ published \subseteq DOMAIN cards

LEMMA Extended ==
  ASSUME RoomSound, NEW d \in Card, NEW o,
         cards' = Append(cards, d), origin' = Append(origin, o), published' = published
  PROVE  Keeps /\ Extends(d, o)
<1>1. /\ Len(cards) \in Nat /\ DOMAIN cards = 1..Len(cards) /\ published \subseteq DOMAIN cards
      /\ Len(origin) = Len(cards) /\ DOMAIN origin = 1..Len(cards)
      /\ cards \in Seq(Card) /\ origin \in Seq(Origin)
  BY InRange DEF RoomSound
<1>2. /\ DOMAIN cards' = 1..(Len(cards) + 1) /\ cards'[Len(cards) + 1] = d
      /\ Len(cards') = Len(cards) + 1
      /\ \A i \in 1..Len(cards) : cards'[i] = cards[i]
  BY <1>1, SealKeepsCards
<1>3. origin'[Len(cards) + 1] = o /\ \A i \in 1..Len(cards) : origin'[i] = origin[i]
  BY <1>1
<1>4. 1..(Len(cards) + 1) = 1..Len(cards) \union {Len(cards) + 1}
  BY <1>1
<1>5. Keeps
  BY <1>1, <1>2, <1>3, <1>4 DEF Keeps
<1>6. Extends(d, o)
  BY <1>1, <1>2, <1>3, <1>4 DEF Extends
<1> QED
  BY <1>5, <1>6

\* A card that is sealed is the one submitted, of its risk or a higher one.
LEMMA SealExtends ==
  ASSUME RoomSound, NEW r \in Agents, NEW c, NEW o, Seals(r, c, o)
  PROVE  /\ Keeps /\ state' = state /\ state \in StatePrerequisites(c.type)
         /\ \E d \in Card : /\ Extends(d, o)
                            /\ d.type = c.type /\ d.decision = c.decision /\ d.body = c.body
                            /\ c.risk = "high" => d.risk = "high"
                            /\ c.type = "ResponsePlan" /\ FloorIsHigh => d.risk = "high"
<1>1. c \in Card /\ PrepareCard(c) /\ origin' = Append(origin, o)
  BY SubmittedAreCards DEF Seals, Prepare
<1>2. PICK d \in Card : d = ApplyRiskFloor(c)
  BY <1>1, RiskFloorKeepsCard
<1>3. /\ d.type = c.type /\ d.decision = c.decision /\ d.body = c.body
      /\ c.risk = "high" => d.risk = "high"
      /\ c.type = "ResponsePlan" /\ FloorIsHigh => d.risk = "high"
  BY <1>1, <1>2 DEF ApplyRiskFloor, Card
<1>4. Keeps /\ Extends(d, o)
  BY <1>1, <1>2, Extended DEF PrepareCard
<1>5. c.type \in {"Assessment", "Verdict", "ResponsePlan"}
  BY Roles DEF Seals, Agents
<1>6. state # "NONE" /\ state \in StatePrerequisites(c.type)
  BY <1>1, <1>5 DEF PrepareCard, StatePrerequisites, PlanStates
<1>7. state' = state
  BY <1>1, <1>6 DEF PrepareCard
<1> QED
  BY <1>3, <1>4, <1>6, <1>7

LEMMA DecisionExtends ==
  ASSUME RoomSound, NEW c, NEW o, NEW j, Decides(c, o, j)
  PROVE  /\ Keeps /\ Extends(c, o)
         /\ c.type \in {"StructuredApproval", "PolicyAuthorization"}
         /\ j \in Plans /\ j \in published
         /\ state = "PLANNED"
         /\ state' \in {"PLANNED", "REJECTED", "CLOSED_FALSE_ALARM"}
         /\ IsRejection(c) => state' = "REJECTED"
<1>1. c \in Card /\ c \in GatewayCards /\ SealDecision(c) /\ origin' = Append(origin, o)
  BY SubmittedAreCards DEF Decides
<1>2. Keeps /\ Extends(c, o)
  BY <1>1, Extended DEF SealDecision
<1>3. c.type \in {"StructuredApproval", "PolicyAuthorization"}
  BY <1>1 DEF GatewayCards
<1>4. j \in Plans /\ j \in published
  BY InRange DEF Decides, Plans
<1>5. /\ state = "PLANNED" /\ state' \in {"PLANNED", "REJECTED", "CLOSED_FALSE_ALARM"}
      /\ IsRejection(c) => state' = "REJECTED"
  BY <1>1, <1>3 DEF SealDecision, IsRefusal, IsRejection, ResolveState
<1> QED
  BY <1>2, <1>3, <1>4, <1>5

LEMMA PublicationKeeps ==
  ASSUME RoomSound, NEW i, Publishes(i)
  PROVE  /\ Keeps /\ UNCHANGED <<cards, origin>>
         /\ i \in DOMAIN cards /\ published' = published \union {i}
<1>1. /\ cards' = cards /\ origin' = origin /\ published' = published \union {i}
      /\ i \in DOMAIN cards
  BY DEF Publishes, ConfirmPublication, PublishAuthorization, PublishRefusal
<1>2. DOMAIN cards \subseteq Nat /\ published \subseteq DOMAIN cards
  BY InRange
<1> QED
  BY <1>1, <1>2 DEF Keeps

LEMMA RestKeeps ==
  ASSUME RoomSound, Rests
  PROVE  Keeps /\ UNCHANGED <<state, cards, published, origin>>
<1>1. DOMAIN cards \subseteq Nat /\ published \subseteq DOMAIN cards
  BY InRange
<1> QED
  BY <1>1 DEF Rests, Keeps

\* So nothing is taken back.
LEMMA ChainKept ==
  ASSUME RoomSound, ChainStep
  PROVE  Keeps
BY SealExtends, DecisionExtends, PublicationKeeps, RestKeeps DEF ChainStep

\* /prepare seals no second card under a key.
LEMMA KeysStep ==
  ASSUME RoomSound, KeysAreUnique, ChainStep
  PROVE  KeysAreUnique'
<1> DEFINE n == Len(cards) + 1
<1>1. ASSUME NEW d, NEW o, Keeps, Extends(d, o),
             o.msg # 0 => \A i \in DOMAIN cards : ~(cards[i].type = d.type /\ origin[i].msg = o.msg)
      PROVE  KeysAreUnique'
  <2> SUFFICES ASSUME NEW i \in DOMAIN cards', NEW j \in DOMAIN cards',
                      cards'[i].type = cards'[j].type,
                      origin'[i].msg = origin'[j].msg, origin'[i].msg # 0
               PROVE  i = j
    BY DEF KeysAreUnique
  <2>1. (i \in DOMAIN cards \/ i = n) /\ (j \in DOMAIN cards \/ j = n)
    BY <1>1 DEF Extends
  <2>2. cards'[n] = d /\ origin'[n] = o
    BY <1>1 DEF Extends
  <2>3. \A k \in DOMAIN cards : cards'[k] = cards[k] /\ origin'[k] = origin[k]
    BY <1>1 DEF Keeps
  <2> HIDE DEF n
  <2>4. CASE i \in DOMAIN cards /\ j \in DOMAIN cards
    BY <2>3, <2>4 DEF KeysAreUnique
  <2>5. CASE i \in DOMAIN cards /\ j = n
    BY <1>1, <2>2, <2>3, <2>5
  <2>6. CASE i = n /\ j \in DOMAIN cards
    BY <1>1, <2>2, <2>3, <2>6
  <2> QED
    BY <2>1, <2>4, <2>5, <2>6
<1>2. ASSUME NEW r \in Agents, NEW c, NEW o, Seals(r, c, o) PROVE KeysAreUnique'
  <2>1. PICK d : Keeps /\ Extends(d, o) /\ d.type = c.type
    BY <1>2, SealExtends
  <2>2. \A i \in DOMAIN cards : ~(cards[i].type = c.type /\ origin[i].msg = o.msg)
    BY <1>2 DEF Seals, Prepare, SealedFor
  <2> QED
    BY <1>1, <2>1, <2>2
<1>3. ASSUME NEW c, NEW o, NEW j, Decides(c, o, j) PROVE KeysAreUnique'
  <2>1. Keeps /\ Extends(c, o) /\ o.msg = 0
    BY <1>3, DecisionExtends DEF Decides
  <2> QED
    BY <1>1, <2>1
<1>4. CASE UNCHANGED <<cards, origin>>
  BY <1>4 DEF KeysAreUnique
<1> QED
  BY <1>2, <1>3, <1>4, PublicationKeeps, RestKeeps DEF ChainStep

\* The Commander asks a high risk for a severe report, and /prepare never lowers it.
LEMMA RiskStep ==
  ASSUME AgentsInv, SevereIsHighRisk, ChainStep
  PROVE  SevereIsHighRisk'
<1>1. RoomSound
  BY InvParts
<1>2. ASSUME NEW d, NEW o, Keeps, Extends(d, o),
             d.type = "ResponsePlan" => LowSeverity(o.report) \/ d.risk = "high",
             d.type = "Assessment" /\ o.report.severity = "P1" => d.risk = "high"
      PROVE  SevereIsHighRisk'
  BY <1>2 DEF SevereIsHighRisk, Plans, Keeps, Extends, LowSeverity
<1>3. ASSUME NEW r \in Agents, NEW c, NEW o, Seals(r, c, o) PROVE SevereIsHighRisk'
  <2>1. PICK d : /\ Keeps /\ Extends(d, o) /\ d.type = c.type
                 /\ c.risk = "high" => d.risk = "high"
    BY <1>1, <1>3, SealExtends
  <2>2. ASSUME c.type = "ResponsePlan" PROVE LowSeverity(o.report) \/ c.risk = "high"
    <3>1. r = COMMANDER /\ agent[COMMANDER].pc = "reason"
      BY <1>3, <2>2, Roles DEF Seals, Agents
    <3>2. c = PlanCard /\ o = PlanOrigin
      BY <1>3, <3>1 DEF Seals
    <3>3. c.risk = AskedRisk(Context(COMMANDER).report, ChosenRunbook)
      BY <3>1, <3>2, PlanIsSound
    <3>4. o.report = Context(COMMANDER).report
      BY <3>2 DEF PlanOrigin, NoOrigin
    <3> QED
      BY <3>3, <3>4 DEF AskedRisk
  <2>3. c.type = "Assessment" /\ o.report.severity = "P1" => c.risk = "high"
    BY <1>3 DEF Seals
  <2> QED
    BY <1>2, <2>1, <2>2, <2>3
<1>4. ASSUME NEW c, NEW o, NEW j, Decides(c, o, j) PROVE SevereIsHighRisk'
  BY <1>1, <1>2, <1>4, DecisionExtends
<1>5. CASE UNCHANGED <<cards, origin>>
  BY <1>5 DEF SevereIsHighRisk, Plans, LowSeverity
<1> QED
  BY <1>1, <1>3, <1>4, <1>5, PublicationKeeps, RestKeeps DEF ChainStep

\* So the policy, which takes plans of low risk only, gets none for a severe one.
LEMMA PolicyStep ==
  ASSUME RoomSound, SevereIsHighRisk, PolicyIsForMinor, ChainStep
  PROVE  PolicyIsForMinor'
<1>1. Keeps
  BY ChainKept
<1>2. ASSUME NEW i \in DOMAIN cards, cards[i].type = "PolicyAuthorization"
      PROVE  \E j \in published' :
               /\ cards'[j].type = "ResponsePlan" /\ j < i
               /\ cards'[j].body = cards'[i].body /\ cards'[j].risk = "low"
               /\ LowSeverity(origin'[j].report)
  <2>1. PICK j \in published :
          /\ cards[j].type = "ResponsePlan" /\ j < i
          /\ cards[j].body = cards[i].body /\ cards[j].risk = "low"
          /\ LowSeverity(origin[j].report)
    BY <1>2 DEF PolicyIsForMinor
  <2>2. j \in DOMAIN cards /\ j \in published'
    BY <1>1, <2>1 DEF Keeps
  <2>3. cards'[j] = cards[j] /\ origin'[j] = origin[j] /\ cards'[i] = cards[i]
    BY <1>1, <2>2 DEF Keeps
  <2> QED
    BY <2>1, <2>2, <2>3 DEF LowSeverity
<1>3. ASSUME NEW d, NEW o, Extends(d, o), d.type # "PolicyAuthorization"
      PROVE  PolicyIsForMinor'
  <2> SUFFICES ASSUME NEW i \in DOMAIN cards', cards'[i].type = "PolicyAuthorization"
               PROVE  i \in DOMAIN cards /\ cards[i].type = "PolicyAuthorization"
    BY <1>2 DEF PolicyIsForMinor, LowSeverity
  <2> QED
    BY <1>1, <1>3 DEF Extends, Keeps
<1>4. ASSUME NEW r \in Agents, NEW c, NEW o, Seals(r, c, o) PROVE PolicyIsForMinor'
  <2>1. c.type # "PolicyAuthorization"
    BY <1>4, Roles DEF Seals, Agents
  <2> QED
    BY <1>3, <1>4, <2>1, SealExtends
<1>5. ASSUME NEW c, NEW o, NEW j, Decides(c, o, j) PROVE PolicyIsForMinor'
  <2>1. Extends(c, o) /\ j \in Plans /\ j \in published
    BY <1>5, DecisionExtends
  <2>2. CASE c.type # "PolicyAuthorization"
    BY <1>3, <2>1, <2>2
  <2>3. CASE c.type = "PolicyAuthorization"
    <3> SUFFICES ASSUME NEW i \in DOMAIN cards', cards'[i].type = "PolicyAuthorization"
                 PROVE  \E k \in published' :
                          /\ cards'[k].type = "ResponsePlan" /\ k < i
                          /\ cards'[k].body = cards'[i].body /\ cards'[k].risk = "low"
                          /\ LowSeverity(origin'[k].report)
      BY DEF PolicyIsForMinor
    <3>1. CASE i \in DOMAIN cards
      BY <1>1, <1>2, <3>1 DEF Keeps
    <3>2. CASE i = Len(cards) + 1
      <4>1. /\ j \in DOMAIN cards /\ cards[j].type = "ResponsePlan"
            /\ cards[j].body = c.body /\ cards[j].risk = "low"
        BY <1>5, <2>1, <2>3 DEF Decides, Plans
      <4>2. LowSeverity(origin[j].report)
        BY <2>1, <4>1 DEF SevereIsHighRisk
      <4>3. j < i /\ cards'[i] = c /\ j \in published'
        BY <2>1, <3>2, <4>1 DEF Extends
      <4>4. cards'[j] = cards[j] /\ origin'[j] = origin[j]
        BY <1>1, <4>1 DEF Keeps
      <4> QED
        BY <4>1, <4>2, <4>3, <4>4 DEF LowSeverity
    <3> QED
      BY <2>1, <3>1, <3>2 DEF Extends
  <2> QED
    BY <2>2, <2>3
<1>6. CASE UNCHANGED <<cards, origin>>
  <2> SUFFICES ASSUME NEW i \in DOMAIN cards, cards[i].type = "PolicyAuthorization"
               PROVE  \E k \in published' :
                        /\ cards'[k].type = "ResponsePlan" /\ k < i
                        /\ cards'[k].body = cards'[i].body /\ cards'[k].risk = "low"
                        /\ LowSeverity(origin'[k].report)
    BY <1>6 DEF PolicyIsForMinor, LowSeverity
  <2> QED
    BY <1>2
<1> QED
  BY <1>4, <1>5, <1>6, PublicationKeeps, RestKeeps DEF ChainStep

\* The states after the review lead to no other.
LEMMA StaysAfterReview ==
  ASSUME RoomSound, ChainStep, state \in AfterReview
  PROVE  state' \in AfterReview
<1>1. ASSUME NEW r \in Agents, NEW c, NEW o, Seals(r, c, o) PROVE state' \in AfterReview
  BY <1>1, SealExtends
<1>2. ASSUME NEW c, NEW o, NEW j, Decides(c, o, j) PROVE state' \in AfterReview
  BY <1>2, DecisionExtends DEF AfterReview, PlanStates
<1>3. ASSUME NEW i, Publishes(i) PROVE state' \in AfterReview
  <2>1. CASE ConfirmPublication(i)
    <3>1. i \in DOMAIN cards /\ cards[i] \in Card
      BY <1>3, PublicationKeeps, InRange
    <3>2. cards[i].type \in CardTypes
      BY <3>1 DEF Card
    <3>3. /\ state \in StatePrerequisites(cards[i].type)
          /\ cards[i].type \notin {"StructuredApproval", "PolicyAuthorization"}
          /\ state' = IF AdvancesIncident(i) THEN ResolveState(cards[i]) ELSE state
      BY <2>1 DEF ConfirmPublication, StateAllows
    <3>4. \/ cards[i].type = "AlertCard" /\ ~AdvancesIncident(i)
          \/ cards[i].type \in {"ResponsePlan", "ActionReceipt", "Postmortem"}
      BY <3>2, <3>3 DEF StatePrerequisites, AfterReview, PlanStates, Authorized, CardTypes,
                        Plain, AdvancesIncident
    <3> QED
      BY <3>3, <3>4 DEF AfterReview, Authorized, ResolveState
  <2>2. CASE PublishAuthorization(i)
    BY <2>2 DEF PublishAuthorization, IsAuthorization, ResolveState, AfterReview, Authorized
  <2>3. CASE PublishRefusal(i)
    BY <2>3 DEF PublishRefusal
  <2> QED
    BY <1>3, <2>1, <2>2, <2>3 DEF Publishes
<1>4. CASE Rests
  BY <1>4, RestKeeps
<1> QED
  BY <1>1, <1>2, <1>3, <1>4 DEF ChainStep

LEMMA PlannedStep ==
  ASSUME RoomSound, PlannedAfterReview, ChainStep
  PROVE  PlannedAfterReview'
<1>1. Keeps
  BY ChainKept
<1>2. CASE Plans' = Plans
  <2>1. Plans' # {} => state' \in AfterReview
    BY <1>2, StaysAfterReview DEF PlannedAfterReview
  <2>2. ASSUME NEW d, NEW o, Extends(d, o), d.type = "Verdict" => Plans = {}
        PROVE  \A i \in Plans', j \in DOMAIN cards' : cards'[j].type = "Verdict" => j < i
    BY <1>1, <1>2, <2>2 DEF PlannedAfterReview, Extends, Keeps
  <2>3. ASSUME NEW d, NEW o, Extends(d, o), IsRejection(d) => Plans # {}
        PROVE  Refusals' # {} => Plans' # {}
    BY <1>1, <1>2, <2>3 DEF PlannedAfterReview, Extends, Keeps, Refusals, IsRejection
  <2>4. ASSUME NEW r \in Agents, NEW c, NEW o, Seals(r, c, o) PROVE PlannedAfterReview'
    <3>1. PICK d \in Card : Extends(d, o) /\ d.type = c.type
      BY <2>4, SealExtends
    <3>2. ~IsRejection(d)
      BY <2>4, <3>1, Roles DEF Seals, Agents, IsRejection
    <3>3. ASSUME c.type = "Verdict" PROVE Plans = {}
      <4>1. state = "ASSESSED"
        BY <2>4, <3>3, SealExtends DEF StatePrerequisites
      <4> QED
        BY <4>1 DEF PlannedAfterReview, AfterReview, PlanStates, Authorized
    <3> QED
      BY <2>1, <2>2, <2>3, <3>1, <3>2, <3>3 DEF PlannedAfterReview
  <2>5. ASSUME NEW c, NEW o, NEW j, Decides(c, o, j) PROVE PlannedAfterReview'
    BY <2>1, <2>2, <2>3, <2>5, DecisionExtends DEF PlannedAfterReview
  <2>6. CASE UNCHANGED <<cards, origin>>
    BY <1>2, <2>1, <2>6 DEF PlannedAfterReview, Refusals, IsRejection
  <2> QED
    BY <2>4, <2>5, <2>6, PublicationKeeps, RestKeeps DEF ChainStep
<1>3. ASSUME NEW r \in Agents, NEW c, NEW o, Seals(r, c, o), c.type = "ResponsePlan"
      PROVE  PlannedAfterReview'
  <2>1. PICK d \in Card : Extends(d, o) /\ d.type = c.type
    BY <1>3, SealExtends
  <2>2. state' \in AfterReview
    BY <1>3, SealExtends DEF StatePrerequisites, AfterReview
  <2>3. Len(cards) + 1 \in Plans'
    BY <1>3, <2>1 DEF Extends, Plans
  <2>4. ASSUME NEW i \in Plans', NEW j \in DOMAIN cards', cards'[j].type = "Verdict"
        PROVE  j < i
    <3>1. j \in DOMAIN cards /\ cards[j].type = "Verdict"
      BY <1>1, <1>3, <2>1, <2>4 DEF Extends, Keeps
    <3>2. i \in Plans \/ i = Len(cards) + 1
      BY <1>1, <2>1 DEF Extends, Keeps, Plans
    <3> QED
      BY <2>1, <3>1, <3>2 DEF PlannedAfterReview, Extends
  <2> QED
    BY <2>2, <2>3, <2>4 DEF PlannedAfterReview
<1>4. ASSUME NEW d, NEW o, Extends(d, o), d.type # "ResponsePlan" PROVE Plans' = Plans
  BY <1>1, <1>4 DEF Extends, Keeps, Plans
<1>5. CASE UNCHANGED cards
  BY <1>2, <1>5 DEF Plans
<1>6. ASSUME NEW r \in Agents, NEW c, NEW o, Seals(r, c, o) PROVE PlannedAfterReview'
  BY <1>2, <1>3, <1>4, <1>6, SealExtends
<1>7. ASSUME NEW c, NEW o, NEW j, Decides(c, o, j) PROVE PlannedAfterReview'
  BY <1>2, <1>4, <1>7, DecisionExtends
<1> QED
  BY <1>5, <1>6, <1>7, PublicationKeeps, RestKeeps DEF ChainStep

-------------------------------------------------------------------------------
(* What an agent does to its memory.                                           *)

MovesTo(r, m) == agent' = [agent EXCEPT ![r] = m]

LEMMA SkipMoves ==
  ASSUME AgentsInv, NEW r \in Agents, NEW ctx, Receives(r), Skip(r, ctx)
  PROVE  \E m : MovesTo(r, m) /\ m.pc = "poll" /\ m.ctx = ctx
<1>1. agent \in [Agents -> Memory] /\ agent[r] \in Memory
  BY InvParts
<1>2. PICK x \in Memory : x = agent[r]
  BY <1>1
<1>3. PICK m : m = [x EXCEPT !.offset = NextMessage(r), !.ctx = ctx]
  OBVIOUS
<1>4. MovesTo(r, m)
  BY <1>1, <1>2, <1>3 DEF Skip, MovesTo
<1>5. m.pc = "poll" /\ m.ctx = ctx
  BY <1>2, <1>3 DEF Memory, Receives
<1> QED
  BY <1>4, <1>5

LEMMA AcceptMoves ==
  ASSUME AgentsInv, NEW r \in Agents, NEW ctx, Accept(r, ctx)
  PROVE  \E m : MovesTo(r, m) /\ m.pc = "reason" /\ m.ctx = ctx /\ m.msg = NextMessage(r)
<1>1. agent \in [Agents -> Memory] /\ agent[r] \in Memory
  BY InvParts
<1>2. PICK x \in Memory : x = agent[r]
  BY <1>1
<1>3. PICK m : m = [x EXCEPT !.pc = "reason", !.msg = NextMessage(r), !.ctx = ctx]
  OBVIOUS
<1>4. MovesTo(r, m)
  BY <1>1, <1>2, <1>3 DEF Accept, MovesTo
<1>5. m.pc = "reason" /\ m.ctx = ctx /\ m.msg = NextMessage(r)
  BY <1>2, <1>3 DEF Memory
<1> QED
  BY <1>4, <1>5

LEMMA FinishedMoves ==
  ASSUME NEW r, NEW ctx, Finished(r, ctx)
  PROVE  \E m : MovesTo(r, m) /\ m.pc = "poll" /\ m.ctx = ctx
<1>1. PICK m : m = [Fresh EXCEPT !.offset = agent[r].msg, !.ctx = ctx]
  OBVIOUS
<1>2. MovesTo(r, m)
  BY <1>1 DEF Finished, MovesTo
<1>3. m.pc = "poll" /\ m.ctx = ctx
  BY <1>1 DEF Fresh
<1> QED
  BY <1>2, <1>3

\* Agent r goes on with card i, sealed now or before.
TakesUp(r, i) == agent' = [agent EXCEPT ![r].pc = "post", ![r].card = i]

LEMMA InHandMoves ==
  ASSUME AgentsInv, NEW r \in Agents, NEW i, TakesUp(r, i)
  PROVE  \E m : MovesTo(r, m) /\ m.pc = "post" /\ m.card = i /\ m.ctx = agent[r].ctx
<1>1. agent \in [Agents -> Memory] /\ agent[r] \in Memory
  BY InvParts
<1>2. PICK x \in Memory : x = agent[r]
  BY <1>1
<1>3. PICK m : m = [x EXCEPT !.pc = "post", !.card = i]
  OBVIOUS
<1>4. MovesTo(r, m)
  BY <1>1, <1>2, <1>3 DEF TakesUp, MovesTo
<1>5. m.pc = "post" /\ m.card = i /\ m.ctx = x.ctx
  BY <1>2, <1>3 DEF Memory
<1> QED
  BY <1>2, <1>4, <1>5

\* It turns to the next phase of the work in hand.
TurnsTo(r, p) == agent' = [agent EXCEPT ![r].pc = p]

LEMMA PhaseMoves ==
  ASSUME AgentsInv, NEW r \in Agents, NEW p, TurnsTo(r, p)
  PROVE  \E m : MovesTo(r, m) /\ m.pc = p /\ m.card = agent[r].card /\ m.ctx = agent[r].ctx
<1>1. agent \in [Agents -> Memory] /\ agent[r] \in Memory
  BY InvParts
<1>2. PICK x \in Memory : x = agent[r]
  BY <1>1
<1>3. PICK m : m = [x EXCEPT !.pc = p]
  OBVIOUS
<1>4. MovesTo(r, m)
  BY <1>1, <1>2, <1>3 DEF TurnsTo, MovesTo
<1>5. m.pc = p /\ m.card = x.card /\ m.ctx = x.ctx
  BY <1>2, <1>3 DEF Memory
<1> QED
  BY <1>2, <1>4, <1>5

LEMMA FreshMoves ==
  ASSUME NEW r, agent' = [agent EXCEPT ![r] = Fresh]
  PROVE  \E m : MovesTo(r, m) /\ m.pc = "poll" /\ m.ctx = NoContext
<1>1. PICK m : m = Fresh
  OBVIOUS
<1>2. m.pc = "poll" /\ m.ctx = NoContext
  BY <1>1 DEF Fresh
<1> QED
  BY <1>1, <1>2 DEF MovesTo

\* What r has in hand after its step is an answer of its own.
Owns(r) ==
  \E m : /\ MovesTo(r, m)
         /\ m.pc \in {"post", "confirm"} => cards'[m.card].type = Answer(r)

LEMMA SubmitOwn ==
  ASSUME AgentsInv, NEW r \in Agents, NEW c \in AgentCards, NEW o, c.type = Answer(r),
         Submit(r, c, o) \/ \E b \in BOOLEAN : KeyConflict(r, c, o, b)
  PROVE  Owns(r)
<1>1. RoomSound /\ c \in Card
  BY InvParts, SubmittedAreCards
<1>2. CASE Prepare(r, c, o)
  <2>0. PICK n : n = Len(cards) + 1 /\ TakesUp(r, n)
    BY <1>2 DEF Prepare, TakesUp
  <2>1. PICK m : MovesTo(r, m) /\ m.card = n
    BY <2>0, InHandMoves
  <2>2. PICK d \in Card : d = ApplyRiskFloor(c) /\ d.type = c.type
    BY <1>1, RiskFloorKeepsCard
  <2>3. cards' = Append(cards, d)
    BY <1>2, <2>2 DEF Prepare, PrepareCard
  <2>4. cards'[Len(cards) + 1] = d
    BY <1>1, <2>3, SealKeepsCards, InRange
  <2> QED
    BY <2>0, <2>1, <2>2, <2>4 DEF Owns
<1>3. CASE PrepareAgain(r, c, o)
  <2>1. PICK i \in SealedFor(c, o) : TakesUp(r, i)
    BY <1>3 DEF PrepareAgain, TakesUp
  <2>2. PICK m : MovesTo(r, m) /\ m.card = i
    BY <2>1, InHandMoves
  <2>3. cards'[i].type = Answer(r)
    BY <1>3, <2>1 DEF PrepareAgain, SealedFor, roomVars, ledgerVars
  <2> QED
    BY <2>2, <2>3 DEF Owns
<1>4. CASE PrepareRefused(r, c, o) \/ \E b \in BOOLEAN : KeyConflict(r, c, o, b)
  <2>1. Finished(r, Context(r))
    BY <1>4 DEF PrepareRefused, KeyConflict
  <2>2. PICK m : MovesTo(r, m) /\ m.pc = "poll"
    BY <2>1, FinishedMoves
  <2> QED
    BY <2>2 DEF Owns
<1> QED
  BY <1>2, <1>3, <1>4 DEF Submit

LEMMA SubmissionOwn ==
  ASSUME AgentsInv, OwnCards, NEW r \in Agents, Submission(r) \/ Crash(r) \/ Restart(r)
  PROVE  Owns(r)
<1>1. CASE Lost(r)
  <2>1. Receives(r) /\ Skip(r, Context(r))
    BY <1>1 DEF Lost
  <2>2. PICK m : MovesTo(r, m) /\ m.pc = "poll"
    BY <2>1, SkipMoves
  <2> QED
    BY <2>2 DEF Owns
<1>2. CASE Post(r)
  <2>1. PICK m : MovesTo(r, m) /\ m.card = agent[r].card
    BY <1>2, PhaseMoves DEF Post, TurnsTo
  <2>2. cards' = cards
    BY <1>2 DEF Post, PostCard, ledgerVars
  <2>3. cards[agent[r].card].type = Answer(r)
    BY <1>2 DEF Post, OwnCards
  <2> QED
    BY <2>1, <2>2, <2>3 DEF Owns
<1>3. CASE ConfirmedUnheard(r) \/ ConfirmRefused(r) \/ BrokenOff(r)
  <2>1. Finished(r, Context(r))
    BY <1>3 DEF ConfirmedUnheard, ConfirmRefused, BrokenOff
  <2>2. PICK m : MovesTo(r, m) /\ m.pc = "poll"
    BY <2>1, FinishedMoves
  <2> QED
    BY <2>2 DEF Owns
<1>4. CASE Crash(r) \/ Restart(r)
  <2>1. PICK m : MovesTo(r, m) /\ m.pc = "poll"
    BY <1>4, FreshMoves DEF Crash, Restart
  <2> QED
    BY <2>1 DEF Owns
<1> QED
  BY <1>1, <1>2, <1>3, <1>4 DEF Submission

LEMMA TakesOwn ==
  ASSUME AgentsInv, NEW r \in Agents, NEW ctx, Receives(r), Skip(r, ctx) \/ Accept(r, ctx)
  PROVE  Owns(r)
<1>1. CASE Skip(r, ctx)
  <2>1. PICK m : MovesTo(r, m) /\ m.pc = "poll"
    BY <1>1, SkipMoves
  <2> QED
    BY <2>1 DEF Owns
<1>2. CASE Accept(r, ctx)
  <2>1. PICK m : MovesTo(r, m) /\ m.pc = "reason"
    BY <1>2, AcceptMoves
  <2> QED
    BY <2>1 DEF Owns
<1> QED
  BY <1>1, <1>2

LEMMA FinishedOwn ==
  ASSUME NEW r, NEW ctx, Finished(r, ctx)
  PROVE  Owns(r)
BY FinishedMoves DEF Owns

LEMMA DiagnosisOwn ==
  ASSUME AgentsInv, OwnCards, DiagnosisStep
  PROVE  Owns(DIAGNOSIS)
<1> DEFINE r == DIAGNOSIS
<1>1. r \in Agents /\ Answer(r) = "Assessment"
  BY Roles
<1>2. CASE \/ \E page, ledger \in {published, {}} : TakeChallenge(page, ledger)
           \/ \E page \in {published, {}} : TakeRouting(page)
  <2>1. PICK ctx : Receives(r) /\ (Skip(r, ctx) \/ Accept(r, ctx))
    BY <1>2, DiagnosisTakes
  <2> QED
    BY <1>1, <2>1, TakesOwn
<1>3. CASE SubmitAssessment \/ AssessmentConflict
  <2>1. PICK report, c, o :
          /\ report \in Reports /\ c = AssessmentCard(report)
          /\ Submit(r, c, o) \/ KeyConflict(r, c, o, TRUE)
    BY <1>3 DEF SubmitAssessment, AssessmentConflict
  <2>2. c \in AgentCards /\ c.type = "Assessment"
    BY <2>1 DEF AssessmentCard, AgentCards
  <2>3. Owns(r)
    <3> HIDE DEF r
    <3> QED
      BY <1>1, <2>1, <2>2, SubmitOwn
  <2> QED
    BY <2>3
<1>4. CASE AssessmentConfirmed
  BY <1>4, FinishedOwn DEF AssessmentConfirmed
<1>5. CASE Submission(r)
  BY <1>1, <1>5, SubmissionOwn
<1> QED
  BY <1>2, <1>3, <1>4, <1>5 DEF DiagnosisStep

LEMMA ReviewerOwn ==
  ASSUME AgentsInv, OwnCards, ReviewerStep
  PROVE  Owns(REVIEWER)
<1> DEFINE r == REVIEWER
<1>1. r \in Agents /\ Answer(r) = "Verdict"
  BY Roles
<1>2. CASE \E page, ledger \in {published, {}} : TakeAssessment(page, ledger)
  <2>1. PICK ctx : Receives(r) /\ (Skip(r, ctx) \/ Accept(r, ctx))
    BY <1>2, ReviewerTakes
  <2> QED
    BY <1>1, <2>1, TakesOwn
<1>3. CASE SubmitVerdict
  <2>1. PICK c, o : c = VerdictCard /\ Submit(r, c, o)
    BY <1>3 DEF SubmitVerdict
  <2>2. c \in AgentCards /\ c.type = "Verdict"
    BY <1>3, <2>1, VerdictIsCard DEF SubmitVerdict
  <2>3. Owns(r)
    <3> HIDE DEF r
    <3> QED
      BY <1>1, <2>1, <2>2, SubmitOwn
  <2> QED
    BY <2>3
<1>4. CASE VerdictConflict \/ VerdictConfirmed
  BY <1>4, FinishedOwn DEF VerdictConflict, KeyConflict, VerdictConfirmed
<1>5. CASE Submission(r)
  BY <1>1, <1>5, SubmissionOwn
<1> QED
  BY <1>2, <1>3, <1>4, <1>5 DEF ReviewerStep

LEMMA CommanderOwn ==
  ASSUME AgentsInv, OwnCards, CommanderStep
  PROVE  Owns(COMMANDER)
<1> DEFINE r == COMMANDER
<1>1. r \in Agents /\ Answer(r) = "ResponsePlan"
  BY Roles
<1>2. CASE \E page, ledger \in {published, {}} :
             Takes(page, ledger) /\ UNCHANGED challenged
  <2>1. PICK ctx : Receives(r) /\ (Skip(r, ctx) \/ Accept(r, ctx))
    BY <1>2, CommanderReceives
  <2> QED
    BY <1>1, <2>1, TakesOwn
<1>3. CASE SubmitPlan
  <2>1. PICK c, o : c = PlanCard /\ Submit(r, c, o)
    BY <1>3 DEF SubmitPlan
  <2>2. c \in AgentCards /\ c.type = "ResponsePlan"
    BY <1>3, <2>1, PlanIsSound DEF SubmitPlan
  <2>3. Owns(r)
    <3> HIDE DEF r
    <3> QED
      BY <1>1, <2>1, <2>2, SubmitOwn
  <2> QED
    BY <2>3
<1>4. CASE PlanConfirmed
  <2>1. TurnsTo(r, "authorize")
    BY <1>4 DEF PlanConfirmed, TurnsTo
  <2>2. PICK m : MovesTo(r, m) /\ m.pc = "authorize"
    BY <1>1, <2>1, PhaseMoves
  <2> QED
    BY <2>2 DEF Owns
<1>5. CASE PlanConflict \/ OpenChallenge \/ RequestAuthorization \/ AuthorizationRefused
  BY <1>5, FinishedOwn
  DEF PlanConflict, KeyConflict, OpenChallenge, RequestAuthorization, AuthorizationRefused,
      PlanSubmitted
<1>6. CASE Submission(r)
  BY <1>1, <1>6, SubmissionOwn
<1> QED
  BY <1>2, <1>3, <1>4, <1>5, <1>6 DEF CommanderStep

\* An agent's step is its own alone.
LEMMA WhoMoves ==
  ASSUME AgentsInv, OwnCards, [Next]_vars
  PROVE  \/ \E r \in Agents : /\ Owns(r)
                              /\ r = COMMANDER => CommanderStep \/ Crash(r) \/ Restart(r)
         \/ UNCHANGED agent
<1>1. CASE \/ TriageConfirms \/ TriageRepeats \/ HumanDecides \/ UNCHANGED vars
           \/ \E i \in DOMAIN cards : GatewayPosts(i) \/ GatewayPublishes(i)
  BY <1>1 DEF TriageConfirms, TriageRepeats, HumanDecides, GatewayPosts, GatewayPublishes, vars
<1>2. ASSUME NEW r \in Agents, Crash(r) \/ Restart(r) PROVE Owns(r)
  BY <1>2, SubmissionOwn
<1> QED
  BY <1>1, <1>2, StepKinds, Roles, DiagnosisOwn, ReviewerOwn, CommanderOwn

\* An agent posts and confirms what it sealed itself.
LEMMA OwnStep ==
  ASSUME AgentsInv, OwnCards, [Next]_vars
  PROVE  OwnCards'
<1>1. agent \in [Agents -> Memory] /\ Keeps
  BY InvParts, EveryStep, ChainKept
<1>2. ASSUME NEW q \in Agents, agent'[q] = agent[q], agent'[q].pc \in {"post", "confirm"}
      PROVE  cards'[agent'[q].card].type = Answer(q)
  <2>1. agent[q].card \in DOMAIN cards
    BY <1>2, CardInHand
  <2> QED
    BY <1>1, <1>2, <2>1 DEF OwnCards, Keeps
<1>3. ASSUME NEW r \in Agents, Owns(r) PROVE OwnCards'
  <2>1. PICK m : /\ MovesTo(r, m)
                 /\ m.pc \in {"post", "confirm"} => cards'[m.card].type = Answer(r)
    BY <1>3 DEF Owns
  <2>2. ASSUME NEW q \in Agents, agent'[q].pc \in {"post", "confirm"}
        PROVE  cards'[agent'[q].card].type = Answer(q)
    <3>1. CASE q = r
      BY <1>1, <2>1, <2>2, <3>1 DEF MovesTo
    <3>2. CASE q # r
      BY <1>1, <1>2, <2>1, <2>2, <3>2 DEF MovesTo
    <3> QED
      BY <3>1, <3>2
  <2> QED
    BY <2>2 DEF OwnCards, Answer, DIAGNOSIS, REVIEWER, COMMANDER
<1>4. CASE UNCHANGED agent
  BY <1>2, <1>4 DEF OwnCards, Answer, DIAGNOSIS, REVIEWER, COMMANDER
<1> QED
  BY <1>3, <1>4, WhoMoves

LEMMA PlanningInit == Init => PlanningInv
<1> SUFFICES ASSUME Init PROVE PlanningInv
  OBVIOUS
<1>1. DOMAIN cards = {1} /\ cards[1].type = "TriageDecision"
  BY DEF Init
<1>2. \A r \in Agents : agent[r].pc = "poll"
  BY DEF Init, Fresh
<1>3. Plans = {} /\ Refusals = {}
  BY <1>1 DEF Plans, Refusals, IsRejection
<1>4. OwnCards
  BY <1>2 DEF OwnCards, Answer, DIAGNOSIS, REVIEWER, COMMANDER
<1>5. KeysAreUnique
  BY <1>1 DEF KeysAreUnique
<1>6. SevereIsHighRisk /\ PolicyIsForMinor /\ PlannedAfterReview
  BY <1>1, <1>3 DEF SevereIsHighRisk, PolicyIsForMinor, PlannedAfterReview, LowSeverity
<1> QED
  BY <1>4, <1>5, <1>6 DEF PlanningInv

LEMMA PlanningStep == AgentsInv /\ PlanningInv /\ [Next]_vars => PlanningInv'
<1> SUFFICES ASSUME AgentsInv, PlanningInv, [Next]_vars PROVE PlanningInv'
  OBVIOUS
<1>1. RoomSound /\ ChainStep
  BY InvParts, EveryStep
<1>2. OwnCards /\ KeysAreUnique /\ SevereIsHighRisk /\ PolicyIsForMinor /\ PlannedAfterReview
  BY DEF PlanningInv
<1>3. OwnCards'
  BY <1>2, OwnStep
<1>4. KeysAreUnique' /\ PolicyIsForMinor' /\ PlannedAfterReview'
  BY <1>1, <1>2, KeysStep, PolicyStep, PlannedStep
<1>5. SevereIsHighRisk'
  BY <1>1, <1>2, RiskStep
<1> QED
  BY <1>3, <1>4, <1>5 DEF PlanningInv

\* submission.py, commander/__init__.py: what a chain of the agents' answers is like: one card
\* of a type for a message, no verdict after a plan, and each plan of the risk the Commander
\* derives from the Assessments it may have seen.  It holds for any faults.
THEOREM PlanningInvariance == Spec => []PlanningInv
BY PlanningInit, PlanningStep, AgentsInvariance, PTL DEF Spec

\* commander/__init__.py determine_risk_level: the policy authorizes no plan that was made for
\* a P1 or a P2, whatever fails, and although the Gateway's own risk floor lets a P2 pass.
THEOREM PolicyStaysMinor == Spec => []PolicyIsForMinor
<1>1. PlanningInv => PolicyIsForMinor
  BY DEF PlanningInv
<1> QED
  BY <1>1, PlanningInvariance, PTL

\* submission.py: a message of the room is answered with one card of a type, however often
\* its agent is started again and whatever fails.  That a card is answered once would need
\* more: it may be in two messages.
THEOREM KeysStayUnique == Spec => []KeysAreUnique
<1>1. PlanningInv => KeysAreUnique
  BY DEF PlanningInv
<1> QED
  BY <1>1, PlanningInvariance, PTL

\* There is no way back from a plan to the review: every verdict is older than every plan.
THEOREM PlansComeLast == Spec => []PlannedAfterReview
<1>1. PlanningInv => PlannedAfterReview
  BY DEF PlanningInv
<1> QED
  BY <1>1, PlanningInvariance, PTL

-------------------------------------------------------------------------------
(* Revisions: as long as nothing fails, the Commander is in step with its plans. *)

\* A fault is never taken back.
FaultsAdd == faults' = faults \/ faults' = faults + 1

LEMMA SubmitFaults ==
  ASSUME NEW r, NEW c, NEW o,
         \/ Submit(r, c, o) \/ \E b \in BOOLEAN : KeyConflict(r, c, o, b)
         \/ Submission(r) \/ Crash(r) \/ Restart(r)
  PROVE  FaultsAdd
<1>1. CASE Submit(r, c, o) \/ \E b \in BOOLEAN : KeyConflict(r, c, o, b)
  BY <1>1 DEF Submit, Prepare, PrepareAgain, PrepareRefused, KeyConflict, Fault, FaultsAdd
<1>2. CASE Submission(r) \/ Crash(r) \/ Restart(r)
  BY <1>2 DEF Submission, Lost, Post, ConfirmedUnheard, ConfirmRefused, BrokenOff, Crash,
              Restart, Fault, FaultsAdd
<1> QED
  BY <1>1, <1>2

LEMMA LookupAdds ==
  ASSUME NEW page, NEW ledger,
         \/ TakeRouting(page) \/ TakeChallenge(page, ledger) \/ TakeAssessment(page, ledger)
         \/ Takes(page, ledger)
  PROVE  FaultsAdd
<1>1. \E p, l, rest : LooksUp(p, l, rest)
  BY DEF TakeRouting, TakeChallenge, TakeAssessment, Takes, TakeConfirm, TakeRefusal
<1> QED
  BY <1>1 DEF LooksUp, Fault, FaultsAdd

LEMMA FaultsStay ==
  ASSUME AgentsInv, [Next]_vars
  PROVE  FaultsAdd
<1>1. CASE DiagnosisStep
  BY <1>1, LookupAdds, SubmitFaults
  DEF DiagnosisStep, SubmitAssessment, AssessmentConflict, AssessmentConfirmed, FaultsAdd
<1>2. CASE ReviewerStep
  <2>1. VerdictConflict => \E b \in BOOLEAN : KeyConflict(REVIEWER, VerdictCard, ReviewerOrigin, b)
    BY DEF VerdictConflict
  <2> QED
    BY <1>2, <2>1, LookupAdds, SubmitFaults DEF ReviewerStep, SubmitVerdict, VerdictConfirmed, FaultsAdd
<1>3. CASE CommanderStep
  BY <1>3, LookupAdds, SubmitFaults
  DEF CommanderStep, SubmitPlan, PlanConflict, PlanConfirmed, OpenChallenge,
      RequestAuthorization, AuthorizationRefused, FaultsAdd
<1>4. ASSUME NEW r \in Agents, Crash(r) \/ Restart(r) PROVE FaultsAdd
  BY <1>4, SubmitFaults
<1>5. CASE \/ TriageConfirms \/ TriageRepeats \/ HumanDecides \/ UNCHANGED vars
           \/ \E i \in DOMAIN cards : GatewayPosts(i) \/ GatewayPublishes(i)
  BY <1>5 DEF TriageConfirms, TriageRepeats, HumanDecides, GatewayPosts, GatewayPublishes, vars,
              Fault, FaultsAdd
<1> QED
  BY <1>1, <1>2, <1>3, <1>4, <1>5, StepKinds

LEMMA GreatestIsUnique ==
  ASSUME NEW S \in SUBSET Nat, NEW n \in S, \A j \in S : j <= n
  PROVE  (CHOOSE i \in S : \A j \in S : j <= i) = n
<1>1. PICK m : m = CHOOSE i \in S : \A j \in S : j <= i
  OBVIOUS
<1>2. m \in S /\ \A j \in S : j <= m
  BY <1>1
<1>3. m \in Nat /\ n \in Nat /\ n <= m /\ m <= n
  BY <1>2
<1> QED
  BY <1>1, <1>3

\* The plan that the Commander's lookup finds is the last one.
LEMMA LastPlan ==
  ASSUME RoomSound
  PROVE  /\ LastSealed("ResponsePlan") = 0 <=> Plans = {}
         /\ Plans # {} => /\ LastSealed("ResponsePlan") \in Plans
                          /\ \A j \in Plans : j <= LastSealed("ResponsePlan")
         /\ \A p \in Plans : (\A j \in Plans : j <= p) => LastSealed("ResponsePlan") = p
         /\ Plans \subseteq DOMAIN cards /\ DOMAIN cards \subseteq Nat \ {0}
<1> DEFINE last == CHOOSE i \in Plans : \A j \in Plans : j <= i
<1>1. Len(cards) \in Nat /\ Plans \in SUBSET (1..Len(cards)) /\ DOMAIN cards = 1..Len(cards)
  BY InRange DEF Plans
<1>2. LastSealed("ResponsePlan") = IF Plans = {} THEN 0 ELSE last
  BY DEF LastSealed, Plans
<1>3. ASSUME Plans # {} PROVE last \in Plans /\ \A j \in Plans : j <= last
  <2>1. \E i \in Plans : \A j \in Plans : j <= i
    BY <1>1, <1>3, Greatest
  <2> QED
    BY <2>1
<1> HIDE DEF last
<1>4. \A i \in Plans : i \in Nat /\ i # 0
  BY <1>1
<1>5. \A p \in Plans : (\A j \in Plans : j <= p) => last = p
  <2> SUFFICES ASSUME NEW p \in Plans, \A j \in Plans : j <= p PROVE last = p
    OBVIOUS
  <2>1. last \in Plans /\ p <= last /\ last <= p
    BY <1>3
  <2>2. last \in Nat /\ p \in Nat
    BY <1>4, <2>1
  <2> QED
    BY <2>1, <2>2
<1>6. LastSealed("ResponsePlan") = 0 <=> Plans = {}
  BY <1>2, <1>3, <1>4
<1>7. Plans # {} => LastSealed("ResponsePlan") = last
  BY <1>2
<1>8. \A p \in Plans : (\A j \in Plans : j <= p) => LastSealed("ResponsePlan") = p
  BY <1>5, <1>7
<1>9. Plans \subseteq DOMAIN cards /\ DOMAIN cards \subseteq Nat \ {0}
  BY <1>1
<1> QED
  BY <1>3, <1>6, <1>7, <1>8, <1>9

\* Messages stay where they are.
LEMMA MessagesStay ==
  ASSUME AgentsInv, [Next]_vars
  PROVE  \A m \in DOMAIN messages : messages'[m] = messages[m]
<1>1. messages' = messages \/ \E i : messages' = Append(messages, i)
  <2>1. CASE UNCHANGED roomVars
    BY <2>1 DEF roomVars
  <2>2. ASSUME NEW r, NEW c, NEW o,
               \/ Submit(r, c, o) \/ \E b \in BOOLEAN : KeyConflict(r, c, o, b)
               \/ Submission(r) \/ Crash(r) \/ Restart(r)
        PROVE  messages' = messages \/ \E i : messages' = Append(messages, i)
    <3>1. CASE Submit(r, c, o) \/ \E b \in BOOLEAN : KeyConflict(r, c, o, b)
      BY <3>1 DEF Submit, Prepare, PrepareAgain, PrepareRefused, KeyConflict, roomVars
    <3>2. CASE Submission(r) \/ Crash(r) \/ Restart(r)
      BY <3>2 DEF Submission, Lost, Skip, Post, ConfirmedUnheard, Confirms, ConfirmRefused,
                  BrokenOff, Crash, Restart, roomVars
    <3> QED
      BY <2>2, <3>1, <3>2
  <2>3. CASE DiagnosisStep
    BY <2>1, <2>2, <2>3, TakesShape
    DEF DiagnosisStep, SubmitAssessment, AssessmentConflict, AssessmentConfirmed, Confirms
  <2>4. CASE ReviewerStep
    <3>1. VerdictConflict => \E b \in BOOLEAN : KeyConflict(REVIEWER, VerdictCard, ReviewerOrigin, b)
      BY DEF VerdictConflict
    <3> QED
      BY <2>1, <2>2, <2>4, <3>1, TakesShape
      DEF ReviewerStep, SubmitVerdict, VerdictConfirmed, Confirms
  <2>5. CASE CommanderStep
    BY <2>1, <2>2, <2>5, TakesShape
    DEF CommanderStep, SubmitPlan, PlanConflict, PlanConfirmed, Confirms, OpenChallenge,
        RequestAuthorization, AuthorizationRefused
  <2>6. CASE \/ TriageConfirms \/ TriageRepeats \/ HumanDecides \/ UNCHANGED vars
             \/ \E i \in DOMAIN cards : GatewayPosts(i) \/ GatewayPublishes(i)
    BY <2>6 DEF TriageConfirms, TriageRepeats, HumanDecides, GatewayPosts, GatewayPublishes,
                vars, roomVars
  <2>7. \/ DiagnosisStep \/ ReviewerStep \/ CommanderStep
        \/ \E r \in Agents : Crash(r) \/ Restart(r)
        \/ TriageConfirms \/ TriageRepeats \/ HumanDecides \/ UNCHANGED vars
        \/ \E i \in DOMAIN cards : GatewayPosts(i) \/ GatewayPublishes(i)
    BY StepKinds
  <2> QED
    BY <2>2, <2>3, <2>4, <2>5, <2>6, <2>7
<1>2. messages \in Seq(1..Len(cards)) /\ DOMAIN messages = 1..Len(messages)
  BY InvParts, InRange
<1>3. ASSUME NEW i, messages' = Append(messages, i), NEW m \in DOMAIN messages
      PROVE  messages'[m] = messages[m]
  BY <1>2, <1>3
<1> QED
  BY <1>1, <1>3

\* Nobody but the Commander publishes a plan.
LEMMA WhoPublishes ==
  ASSUME AgentsInv, OwnCards, [Next]_vars, NEW i \in Plans, i \in published' \ published
  PROVE  agent'[COMMANDER] # agent[COMMANDER]
<1>1. RoomSound /\ agent \in [Agents -> Memory]
  BY InvParts
<1>2. ASSUME NEW r \in Agents, Confirms(r), NEW m, MovesTo(r, m), m.pc # "confirm"
      PROVE  agent'[COMMANDER] # agent[COMMANDER]
  <2>1. /\ agent[r].pc = "confirm" /\ published' = published \union {agent[r].card}
        /\ agent' = [agent EXCEPT ![r] = m]
    BY <1>2 DEF Confirms, ConfirmPublication, MovesTo
  <2>2. i = agent[r].card
    BY <2>1
  <2>3. Answer(r) = "ResponsePlan"
    BY <2>1, <2>2 DEF OwnCards, Plans
  <2>4. r = COMMANDER
    BY <2>3, Roles DEF Agents
  <2> QED
    BY <1>1, <1>2, <2>1, <2>4
<1>3. ASSUME NEW r \in Agents, Confirms(r), NEW ctx, Finished(r, ctx)
      PROVE  agent'[COMMANDER] # agent[COMMANDER]
  <2>1. PICK m : MovesTo(r, m) /\ m.pc = "poll"
    BY <1>3, FinishedMoves
  <2> QED
    BY <1>2, <1>3, <2>1
<1>4. ASSUME NEW r \in Agents, Submission(r) \/ Crash(r) \/ Restart(r)
      PROVE  agent'[COMMANDER] # agent[COMMANDER]
  <2>1. CASE ConfirmedUnheard(r)
    BY <1>3, <2>1 DEF ConfirmedUnheard
  <2>2. published' = published \/ ConfirmedUnheard(r)
    BY <1>4 DEF Submission, Lost, Skip, Post, PostCard, ConfirmRefused, BrokenOff, Crash, Restart,
                roomVars, ledgerVars
  <2> QED
    BY <2>1, <2>2
<1>5. ASSUME NEW r, NEW c, NEW o, Submit(r, c, o) \/ \E b \in BOOLEAN : KeyConflict(r, c, o, b)
      PROVE  published' = published
  BY <1>5 DEF Submit, Prepare, PrepareCard, PrepareAgain, PrepareRefused, KeyConflict, roomVars,
              ledgerVars
<1>6. ASSUME UNCHANGED roomVars PROVE published' = published
  BY <1>6 DEF roomVars, ledgerVars
<1>7. CASE DiagnosisStep
  <2>1. CASE AssessmentConfirmed
    BY <1>3, <2>1, Roles DEF AssessmentConfirmed
  <2> QED
    BY <1>4, <1>5, <1>6, <1>7, <2>1, TakesShape, Roles
    DEF DiagnosisStep, SubmitAssessment, AssessmentConflict
<1>8. CASE ReviewerStep
  <2>1. CASE VerdictConfirmed
    BY <1>3, <2>1, Roles DEF VerdictConfirmed
  <2>2. VerdictConflict => \E b \in BOOLEAN : KeyConflict(REVIEWER, VerdictCard, ReviewerOrigin, b)
    BY DEF VerdictConflict
  <2> QED
    BY <1>4, <1>5, <1>6, <1>8, <2>1, <2>2, TakesShape, Roles DEF ReviewerStep, SubmitVerdict
<1>9. CASE CommanderStep
  <2>1. CASE PlanConfirmed
    <3>1. COMMANDER \in Agents /\ TurnsTo(COMMANDER, "authorize")
      BY <2>1, Roles DEF PlanConfirmed, TurnsTo
    <3>2. PICK m : MovesTo(COMMANDER, m) /\ m.pc = "authorize"
      BY <3>1, PhaseMoves
    <3> QED
      BY <1>2, <2>1, <3>1, <3>2 DEF PlanConfirmed
  <2>2. RequestAuthorization => published' = published
    BY DEF RequestAuthorization, SealDecision
  <2> QED
    BY <1>4, <1>5, <1>6, <1>9, <2>1, <2>2, TakesShape, Roles
    DEF CommanderStep, SubmitPlan, PlanConflict, OpenChallenge, AuthorizationRefused
<1>10. CASE TriageConfirms
  <2>1. i = 1
    BY <1>10 DEF TriageConfirms, ConfirmPublication
  <2>2. messages[origin[i].msg] < i /\ origin[i].msg \in DOMAIN messages
    BY <1>1, Roles DEF RoomSound, AnswersConcern, Plans
  <2>3. messages[origin[i].msg] \in 1..Len(cards)
    BY <1>1, <2>2, InRange
  <2> QED
    BY <2>1, <2>2, <2>3
<1>11. CASE TriageRepeats \/ HumanDecides \/ UNCHANGED vars
  BY <1>11 DEF TriageRepeats, HumanDecides, SealDecision, vars, roomVars, ledgerVars
<1>12. ASSUME NEW j \in DOMAIN cards, GatewayPosts(j) \/ GatewayPublishes(j) PROVE FALSE
  BY <1>12 DEF GatewayPosts, PostCard, GatewayPublishes, PublishAuthorization, PublishRefusal,
               IsAuthorization, IsRefusal, ledgerVars, Plans
<1> QED
  BY <1>4, <1>7, <1>8, <1>9, <1>10, <1>11, <1>12, StepKinds

\* What a step in which the Commander does not move means to it.
Bystands ==
  /\ Plans' = Plans /\ Plans \ published' = Plans \ published
  /\ state \in PlanStates => state' = state /\ Len(cards') = Len(cards)
  /\ \A i \in Refusals' : i \in Refusals \/ state' = "REJECTED"

LEMMA SealBystands ==
  ASSUME NEW d, NEW o, Keeps, Extends(d, o), d.type # "ResponsePlan"
  PROVE  Plans' = Plans /\ \A i \in Refusals' : i \in Refusals \/ IsRejection(d)
BY DEF Extends, Keeps, Plans, Refusals, IsRejection

LEMMA DecisionBystands ==
  ASSUME RoomSound, NEW c, NEW o, NEW j, Decides(c, o, j)
  PROVE  Bystands
<1>1. /\ Keeps /\ Extends(c, o) /\ c.type # "ResponsePlan" /\ state \notin PlanStates
      /\ IsRejection(c) => state' = "REJECTED"
  BY DecisionExtends DEF PlanStates
<1>2. published' = published
  BY <1>1 DEF Extends
<1> QED
  BY <1>1, <1>2, SealBystands DEF Bystands

LEMMA QuietBystands ==
  ASSUME UNCHANGED <<state, cards, published>>
  PROVE  Bystands
<1>1. Plans' = Plans /\ Refusals' = Refusals
  BY DEF Plans, Refusals, IsRejection
<1> QED
  BY <1>1 DEF Bystands

LEMMA BystandStep ==
  ASSUME AgentsInv, OwnCards, [Next]_vars, agent'[COMMANDER] = agent[COMMANDER]
  PROVE  Bystands
<1>1. RoomSound /\ ChainStep
  BY InvParts, EveryStep
<1>3. ASSUME NEW r \in Agents, NEW c, NEW o, Seals(r, c, o) PROVE Bystands
  <2>1. r # COMMANDER
    <3>1. TakesUp(r, Len(cards) + 1) /\ agent[r].pc = "reason"
      BY <1>3 DEF Seals, Prepare, TakesUp
    <3>2. PICK m : MovesTo(r, m) /\ m.pc = "post"
      BY <3>1, InHandMoves
    <3>3. agent'[r].pc = "post"
      BY <3>2, InvParts DEF MovesTo
    <3> QED
      BY <3>1, <3>3
  <2>2. c.type \in {"Assessment", "Verdict"}
    BY <1>3, <2>1, Roles DEF Seals, Agents
  <2>3. PICK d \in Card : Extends(d, o) /\ d.type = c.type
    BY <1>1, <1>3, SealExtends
  <2>4. Keeps /\ state' = state /\ state \in StatePrerequisites(c.type) /\ published' = published
    BY <1>1, <1>3, <2>3, SealExtends DEF Extends
  <2>5. state \notin PlanStates
    BY <2>2, <2>4 DEF StatePrerequisites, PlanStates
  <2>6. ~IsRejection(d)
    BY <2>2, <2>3 DEF IsRejection
  <2> QED
    BY <2>2, <2>3, <2>4, <2>5, <2>6, SealBystands DEF Bystands
<1>5. ASSUME NEW i, Publishes(i) PROVE Bystands
  <2>1. /\ cards' = cards /\ i \in DOMAIN cards /\ i \notin published
        /\ published' = published \union {i}
    BY <1>1, <1>5, PublicationKeeps
    DEF Publishes, ConfirmPublication, PublishAuthorization, PublishRefusal, LifecycleSource
  <2>2. Plans' = Plans /\ Refusals' = Refusals
    BY <2>1 DEF Plans, Refusals, IsRejection
  <2>3. i \notin Plans
    BY <2>1, WhoPublishes
  <2>4. ASSUME state \in PlanStates PROVE state' = state
    <3>1. cards[i].type \in CardTypes
      BY <1>1, <2>1, InRange DEF Card
    <3>2. CASE ConfirmPublication(i)
      <4>1. cards[i].type = "AlertCard"
        BY <2>1, <2>3, <2>4, <3>1, <3>2
        DEF ConfirmPublication, StateAllows, StatePrerequisites, PlanStates, Plans, CardTypes, Plain
      <4> QED
        BY <2>4, <3>2, <4>1 DEF ConfirmPublication, AdvancesIncident, PlanStates
    <3>3. CASE PublishAuthorization(i) \/ PublishRefusal(i)
      BY <2>4, <3>3 DEF PublishAuthorization, PublishRefusal, LifecycleSource, PlanStates
    <3> QED
      BY <1>5, <3>2, <3>3 DEF Publishes
  <2> QED
    BY <2>1, <2>2, <2>3, <2>4 DEF Bystands
<1> QED
  BY <1>1, <1>3, <1>5, DecisionBystands, QuietBystands DEF ChainStep, Rests

\* It keeps what is said of the plans and the refusals, ...
LEMMA ChainInStep ==
  ASSUME RoomSound, Keeps, Bystands, InStep, faults = 0
  PROVE  /\ PlansInOrder' /\ ChangesRunbook' /\ RefusalsHold'
         /\ LastSealed("ResponsePlan")' = LastSealed("ResponsePlan")
         /\ Plans' = Plans
         /\ \A i \in Plans : cards'[i] = cards[i] /\ origin'[i] = origin[i]
<1>1. Plans' = Plans
  BY DEF Bystands
<1>2. \A i \in Plans : cards'[i] = cards[i] /\ origin'[i] = origin[i]
  BY DEF Keeps, Plans
<1>3. PlansInOrder'
  BY <1>1, <1>2 DEF InStep, PlansInOrder
<1>4. ChangesRunbook'
  <2>1. \A i, j \in Plans : origin[j].rev = origin[i].rev + 1 => cards[i].body # cards[j].body
    BY DEF InStep, ChangesRunbook, Plans
  <2>2. \A i, j \in Plans' : origin'[j].rev = origin'[i].rev + 1 => cards'[i].body # cards'[j].body
    BY <1>1, <1>2, <2>1
  <2> QED
    BY <2>2 DEF ChangesRunbook, Plans
<1>5. RefusalsHold'
  BY <1>1 DEF InStep, RefusalsHold, Bystands, PlanStates
<1>6. LastSealed("ResponsePlan")' = LastSealed("ResponsePlan")
  <2> DEFINE Last(S) == IF S = {} THEN 0 ELSE CHOOSE i \in S : \A j \in S : j <= i
  <2>1. LastSealed("ResponsePlan") = Last(Plans)
    BY DEF LastSealed, Plans
  <2>2. LastSealed("ResponsePlan")' = Last(Plans')
    BY DEF LastSealed, Plans
  <2> HIDE DEF Last
  <2> QED
    BY <1>1, <2>1, <2>2
<1> QED
  BY <1>1, <1>2, <1>3, <1>4, <1>5, <1>6

\* ... and the Commander, if it does not move, is in step as it was.
LEMMA BystandKeeps ==
  ASSUME AgentsInv, OwnCards, [Next]_vars, InStep, faults = 0,
         agent'[COMMANDER] = agent[COMMANDER]
  PROVE  InStep'
<1> DEFINE last == LastSealed("ResponsePlan")
<1>1. RoomSound /\ Keeps /\ Bystands
  BY InvParts, EveryStep, ChainKept, BystandStep
<1>2. PICK m : m = agent[COMMANDER] /\ m = agent'[COMMANDER]
  OBVIOUS
<1>3. /\ PlansInOrder' /\ ChangesRunbook' /\ RefusalsHold'
      /\ last' = last /\ Plans' = Plans
      /\ \A i \in Plans : cards'[i] = cards[i] /\ origin'[i] = origin[i]
  BY <1>1, ChainInStep
<1>4. Plans \ published' = Plans \ published
  BY <1>1 DEF Bystands
<1>5. PlansArePublished'
  <2>1. CASE m.pc \in {"post", "confirm"}
    <3>1. /\ m.card = Len(cards) /\ m.card \in Plans \ published
          /\ Plans \ published = {m.card} /\ state \in PlanStates
      BY <1>2, <2>1 DEF InStep, PlansArePublished
    <3>2. state' = state /\ Len(cards') = Len(cards)
      BY <1>1, <3>1 DEF Bystands
    <3> QED
      BY <1>2, <1>3, <1>4, <2>1, <3>1, <3>2 DEF PlansArePublished
  <2>2. CASE m.pc \notin {"post", "confirm"}
    <3>1. Plans \subseteq published
      BY <1>2, <2>2 DEF InStep, PlansArePublished
    <3> QED
      BY <1>2, <1>3, <1>4, <2>2, <3>1 DEF PlansArePublished
  <2> QED
    BY <2>1, <2>2
<1>6. last # 0 => last \in Plans
  BY <1>1, LastPlan
<1>7. ContextIsCurrent'
  <2> HIDE DEF last
  <2>1. m.pc # "reason" /\ m.ctx.known /\ last # 0 => m.ctx.revision = origin[last].rev
    BY <1>2 DEF InStep, ContextIsCurrent, Context, last
  <2>2. m.pc # "reason" /\ m.ctx.known /\ last' # 0 => m.ctx.revision = origin'[last'].rev
    BY <1>3, <1>6, <2>1
  <2> QED
    BY <1>2, <2>2 DEF ContextIsCurrent, Context, last
<1>8. RevisesLastPlan'
  <2> SUFFICES ASSUME m.pc = "reason" PROVE RevisesLastPlan'
    BY <1>2 DEF RevisesLastPlan
  <2>1. Question(COMMANDER)' = Question(COMMANDER)
    <3>1. agent[COMMANDER].msg \in DOMAIN messages
      BY <1>2, Roles, AtWork
    <3> QED
      BY <1>2, <3>1, MessagesStay DEF Question
  <2> HIDE DEF last
  <2>2. \/ last = 0 /\ m.ctx.source = 0
        \/ /\ last # 0 /\ last < Question(COMMANDER) /\ state = "REJECTED"
           /\ m.ctx.source # 0 /\ m.ctx.revision = origin[last].rev + 1
           /\ m.ctx.rejected = cards[last].body
    BY <1>2 DEF InStep, RevisesLastPlan, Context, last
  <2>3. state = "REJECTED" => state' = "REJECTED"
    BY <1>1 DEF Bystands, PlanStates
  <2>4. \/ last' = 0 /\ m.ctx.source = 0
        \/ /\ last' # 0 /\ last' < Question(COMMANDER)' /\ state' = "REJECTED"
           /\ m.ctx.source # 0 /\ m.ctx.revision = origin'[last'].rev + 1
           /\ m.ctx.rejected = cards'[last'].body
    BY <1>3, <1>6, <2>1, <2>2, <2>3
  <2> QED
    BY <1>2, <2>4 DEF RevisesLastPlan, Context, last
<1> QED
  BY <1>3, <1>5, <1>7, <1>8 DEF InStep

\* And if it is done with a message, or goes on to the authorization.
LEMMA IdleInStep ==
  ASSUME AgentsInv, Keeps, Bystands, InStep, faults = 0, NEW m, MovesTo(COMMANDER, m),
         agent[COMMANDER].pc \notin {"post", "confirm"}, m.pc \in {"poll", "authorize"},
         m.ctx.known /\ LastSealed("ResponsePlan") # 0
           => m.ctx.revision = origin[LastSealed("ResponsePlan")].rev
  PROVE  InStep'
<1> DEFINE last == LastSealed("ResponsePlan")
<1>1. RoomSound /\ agent' = [agent EXCEPT ![COMMANDER] = m] /\ agent \in [Agents -> Memory]
  BY InvParts DEF MovesTo
<1>2. agent'[COMMANDER] = m
  BY <1>1, Roles
<1>3. /\ PlansInOrder' /\ ChangesRunbook' /\ RefusalsHold'
      /\ last' = last /\ Plans' = Plans
      /\ \A i \in Plans : cards'[i] = cards[i] /\ origin'[i] = origin[i]
  BY <1>1, ChainInStep
<1>4. PlansArePublished'
  <2>1. Plans \subseteq published
    BY DEF InStep, PlansArePublished
  <2> QED
    BY <1>2, <1>3, <2>1 DEF PlansArePublished, Keeps
<1>5. last # 0 => last \in Plans
  BY <1>1, LastPlan
<1>6. ContextIsCurrent' /\ RevisesLastPlan'
  <2>1. m.ctx.known /\ last # 0 => m.ctx.revision = origin[last].rev
    OBVIOUS
  <2> HIDE DEF last
  <2>2. m.ctx.known /\ last' # 0 => m.ctx.revision = origin'[last'].rev
    BY <1>3, <1>5, <2>1
  <2> QED
    BY <1>2, <2>2 DEF ContextIsCurrent, RevisesLastPlan, Context, last
<1> QED
  BY <1>3, <1>4, <1>6 DEF InStep

\* And if it takes a message that calls for the next plan.
LEMMA TakenInStep ==
  ASSUME AgentsInv, InStep, faults = 0, UNCHANGED roomVars, NEW m, MovesTo(COMMANDER, m),
         agent[COMMANDER].pc = "poll", m.pc = "reason",
         LET last == LastSealed("ResponsePlan")
         IN \/ last = 0 /\ m.ctx.source = 0
            \/ /\ last # 0 /\ last < messages[m.msg] /\ state = "REJECTED"
               /\ m.ctx.source # 0 /\ m.ctx.revision = origin[last].rev + 1
               /\ m.ctx.rejected = cards[last].body
  PROVE  InStep'
<1> DEFINE last == LastSealed("ResponsePlan")
<1>1. RoomSound /\ agent' = [agent EXCEPT ![COMMANDER] = m] /\ agent \in [Agents -> Memory]
  BY InvParts DEF MovesTo
<1>2. agent'[COMMANDER] = m
  BY <1>1, Roles
<1>3. /\ Keeps /\ Bystands
      /\ state' = state /\ cards' = cards /\ published' = published /\ origin' = origin
      /\ messages' = messages
  <2>1. Rests
    BY QuietStep
  <2> QED
    BY <1>1, <2>1, RestKeeps, QuietBystands DEF roomVars
<1>4. PlansInOrder' /\ ChangesRunbook' /\ RefusalsHold' /\ last' = last /\ Plans' = Plans
  BY <1>1, <1>3, ChainInStep
<1>5. PlansArePublished' /\ ContextIsCurrent'
  BY <1>2, <1>3, <1>4 DEF InStep, PlansArePublished, ContextIsCurrent
<1>6. RevisesLastPlan'
  <2>1. \/ last = 0 /\ m.ctx.source = 0
        \/ /\ last # 0 /\ last < messages[m.msg] /\ state = "REJECTED"
           /\ m.ctx.source # 0 /\ m.ctx.revision = origin[last].rev + 1
           /\ m.ctx.rejected = cards[last].body
    OBVIOUS
  <2> HIDE DEF last
  <2>2. \/ last' = 0 /\ m.ctx.source = 0
        \/ /\ last' # 0 /\ last' < messages'[m.msg] /\ state' = "REJECTED"
           /\ m.ctx.source # 0 /\ m.ctx.revision = origin'[last'].rev + 1
           /\ m.ctx.rejected = cards'[last'].body
    BY <1>3, <1>4, <2>1
  <2> QED
    BY <1>2, <2>2 DEF RevisesLastPlan, Context, Question, last
<1> QED
  BY <1>4, <1>5, <1>6 DEF InStep

\* A message is passed over.
LEMMA SkippedInStep ==
  ASSUME AgentsInv, InStep, faults = 0, NEW ctx, Receives(COMMANDER), Skip(COMMANDER, ctx),
         ctx.known /\ LastSealed("ResponsePlan") # 0
           => ctx.revision = origin[LastSealed("ResponsePlan")].rev
  PROVE  InStep'
<1>1. COMMANDER \in Agents /\ RoomSound /\ agent[COMMANDER].pc = "poll"
  BY Roles, InvParts DEF Receives
<1>2. PICK m : MovesTo(COMMANDER, m) /\ m.pc = "poll" /\ m.ctx = ctx
  BY <1>1, SkipMoves
<1>3. Keeps /\ Bystands
  <2>1. Rests
    BY QuietStep DEF Skip
  <2> QED
    BY <1>1, <2>1, RestKeeps, QuietBystands
<1> QED
  BY <1>1, <1>2, <1>3, IdleInStep

\* A confirmation is taken only if there is no plan yet.
LEMMA ConfirmInStep ==
  ASSUME AgentsInv, PlanningInv, InStep, faults = 0, faults' = 0, NEW page, NEW ledger, NEW found,
         TakeConfirm(page, ledger, found)
  PROVE  InStep'
<1> DEFINE r == COMMANDER
           i == NextCard(r)
<1>1. r \in Agents /\ RoomSound /\ Receives(r) /\ agent[r].pc = "poll" /\ IsConfirm(cards[i])
  BY Roles, InvParts DEF TakeConfirm, Receives
<1>2. i \in DOMAIN cards /\ Plans \subseteq published
  BY <1>1, NextConcerns, InRange DEF InStep, PlansArePublished
<1>3. page = published
  BY DEF TakeConfirm, LooksUp, Fault
<1>4. CASE Skip(r, Context(r))
  <2>1. Skip(r, Context(r))
    BY <1>4
  <2>2. Context(r).known /\ LastSealed("ResponsePlan") # 0
           => Context(r).revision = origin[LastSealed("ResponsePlan")].rev
    BY <1>1 DEF InStep, ContextIsCurrent
  <2> QED
    BY <1>1, <2>1, <2>2, SkippedInStep
<1>5. CASE ~Skip(r, Context(r))
  <2> ~IgnoresConfirm(page, ledger)
    BY <1>5 DEF TakeConfirm
  <2>1. Plans = {}
    <3> SUFFICES ASSUME NEW p \in Plans PROVE FALSE
      OBVIOUS
    <3>1. i < p
      BY <1>1, <1>2 DEF PlanningInv, PlannedAfterReview, IsConfirm
    <3>2. StaleCard(page, i)
      BY <1>2, <1>3, <3>1 DEF StaleCard
    <3> QED
      BY <3>2 DEF IgnoresConfirm
  <2>2. LastSealed("ResponsePlan") = 0
    BY <1>1, <2>1, LastPlan
  <2>3. PICK ctx : /\ Accept(r, ctx)
                   /\ ctx = [NoContext EXCEPT !.known = TRUE, !.revision = 1,
                               !.report = origin[found].report, !.older = IsOlder(found)]
    BY <1>5 DEF TakeConfirm
  <2>4. PICK m : MovesTo(r, m) /\ m.pc = "reason" /\ m.ctx = ctx
    BY <1>1, <2>3, AcceptMoves
  <2>5. m.ctx.source = 0
    BY <2>3, <2>4 DEF NoContext
  <2>6. UNCHANGED roomVars
    BY <2>3 DEF Accept
  <2> QED
    BY <1>1, <2>2, <2>4, <2>5, <2>6, TakenInStep
<1> QED
  BY <1>4, <1>5

\* A refusal is taken only if it refuses the last plan.
LEMMA RefusalInStep ==
  ASSUME AgentsInv, PlanningInv, InStep, faults = 0, faults' = 0, NEW page, NEW ledger,
         NEW anchor \in PlansFound, NEW plan \in PlansFound, NEW found,
         TakeRefusal(page, ledger, anchor, plan, found)
  PROVE  InStep'
<1> DEFINE r == COMMANDER
           i == NextCard(r)
           last == LastSealed("ResponsePlan")
<1>1. r \in Agents /\ RoomSound /\ Receives(r) /\ agent[r].pc = "poll" /\ IsRejection(cards[i])
  BY Roles, InvParts DEF TakeRefusal, Receives
<1>2. i \in DOMAIN cards /\ Plans \subseteq published
  BY <1>1, NextConcerns, InRange DEF InStep, PlansArePublished
<1>3. page = published /\ anchor = last /\ plan = last /\ last # 0
  BY DEF TakeRefusal, LooksUp, Fault, PlansFound
<1>4. last \in Plans /\ \A j \in Plans : j <= last
  BY <1>1, <1>3, LastPlan
<1>5. Context(r).known => Context(r).revision = origin[last].rev
  BY <1>1, <1>3 DEF InStep, ContextIsCurrent
<1>6. PICK base : base = RefusalContext(anchor, found)
  OBVIOUS
<1>7. base.revision = origin[last].rev /\ base.known
  BY <1>3, <1>5, <1>6 DEF RefusalContext, RestoredCommander, NoContext
<1>8. CASE Skip(r, Context(r))
  BY <1>1, <1>5, <1>8, SkippedInStep
<1>9. CASE Skip(r, base)
  BY <1>1, <1>7, <1>9, SkippedInStep
<1>10. CASE ~IgnoresRefusal(page, ledger) /\ Accept(r, Revised(base, plan, i))
  <2>1. ASSUME NEW j \in Plans PROVE j < i
    <3>1. ~(j > i)
      BY <1>2, <1>3, <1>10 DEF IgnoresRefusal, StaleCard
    <3>2. j # i
      BY <1>1 DEF Plans, IsRejection
    <3>3. j \in Nat /\ i \in Nat
      BY <1>1, <1>2, LastPlan
    <3> QED
      BY <3>1, <3>2, <3>3
  <2>2. state = "REJECTED"
    BY <1>1, <1>2, <2>1 DEF InStep, RefusalsHold, Refusals
  <2>3. PICK ctx : /\ Accept(r, ctx)
                   /\ ctx = Revised(base, plan, i)
    BY <1>10
  <2>4. PICK m : MovesTo(r, m) /\ m.pc = "reason" /\ m.ctx = ctx /\ m.msg = NextMessage(r)
    BY <1>1, <2>3, AcceptMoves
  <2>5. {"submitted", "revision", "source", "rejected", "wish"} \subseteq DOMAIN base
    <3>1. CASE Context(r).known
      <4>1. base \in Contexts
        BY <1>1, <1>6, <3>1, InvParts DEF RefusalContext, Context, Memory
      <4> QED
        BY <4>1 DEF Contexts
    <3>2. CASE ~Context(r).known
      BY <1>6, <3>2 DEF RefusalContext, RestoredCommander, NoContext
    <3> QED
      BY <3>1, <3>2
  <2>6. ctx.source = i /\ ctx.revision = origin[last].rev + 1 /\ ctx.rejected = cards[last].body
    BY <1>3, <1>7, <2>3, <2>5 DEF Revised
  <2>7. messages[m.msg] = i /\ last < i /\ i # 0
    BY <1>1, <1>2, <1>4, <2>1, <2>4, LastPlan DEF NextCard
  <2>8. UNCHANGED roomVars
    BY <2>3 DEF Accept
  <2> QED
    BY <1>1, <1>3, <2>2, <2>4, <2>6, <2>7, <2>8, TakenInStep
<1> QED
  BY <1>6, <1>8, <1>9, <1>10, RefusalCases

\* Its answer to the message in hand is not sealed yet.
LEMMA PlanIsNew ==
  ASSUME AgentsInv, InStep, agent[COMMANDER].pc = "reason"
  PROVE  SealedFor(PlanCard, PlanOrigin) = {}
<1> DEFINE last == LastSealed("ResponsePlan")
<1>1. RoomSound /\ COMMANDER \in Agents /\ Question(COMMANDER) \in Nat
  BY Roles, InvParts, AtWork
<1>2. PlanCard.type = "ResponsePlan" /\ PlanOrigin.msg = agent[COMMANDER].msg
  BY PlanIsSound DEF PlanOrigin, NoOrigin
<1>3. SUFFICES ASSUME NEW i \in SealedFor(PlanCard, PlanOrigin) PROVE FALSE
  OBVIOUS
<1>4. i \in Plans /\ origin[i].msg = agent[COMMANDER].msg /\ i \in DOMAIN cards
  BY <1>2 DEF SealedFor, Plans
<1>5. Question(COMMANDER) < i
  BY <1>1, <1>4, Roles DEF RoomSound, AnswersConcern, Plans, Question
<1>6. i <= last /\ last # 0 /\ i \in Nat /\ last \in Nat
  BY <1>1, <1>4, LastPlan
<1>7. last < Question(COMMANDER)
  BY <1>6 DEF InStep, RevisesLastPlan
<1> QED
  BY <1>1, <1>5, <1>6, <1>7

\* A new plan has the next revision, and another runbook than the last one.
LEMMA NextPlan ==
  ASSUME AgentsInv, InStep, faults = 0, agent[COMMANDER].pc = "reason", NEW i \in Plans
  PROVE  /\ origin[i].rev < Context(COMMANDER).revision
         /\ Context(COMMANDER).revision = origin[i].rev + 1 => cards[i].body # ChosenRunbook
<1> DEFINE last == LastSealed("ResponsePlan")
           ctx == Context(COMMANDER)
<1>1. RoomSound /\ COMMANDER \in Agents /\ last \in Plans /\ i <= last /\ last # 0
      /\ Plans \subseteq DOMAIN cards /\ DOMAIN cards \subseteq Nat
  BY Roles, InvParts, LastPlan
<1>2. ctx.source # 0 /\ ctx.revision = origin[last].rev + 1 /\ ctx.rejected = cards[last].body
  BY <1>1 DEF InStep, RevisesLastPlan
<1>3. origin[last].rev \in Nat /\ origin[i].rev \in Nat
  BY <1>1, InRange DEF Origin
<1>4. i = last \/ origin[i].rev < origin[last].rev
  BY <1>1 DEF InStep, PlansInOrder
<1>5. ctx.report \in Report
  BY <1>1, AtWork, AgentAssumption DEF SoundContext
<1>6. ChosenRunbook # cards[last].body
  BY <1>2, <1>5, RevisedRunbook DEF ChosenRunbook
<1> HIDE DEF last, ctx
<1>7. origin[i].rev < ctx.revision
  BY <1>2, <1>3, <1>4
<1>8. ctx.revision = origin[i].rev + 1 => i = last
  BY <1>2, <1>3, <1>4
<1> QED
  BY <1>6, <1>7, <1>8 DEF ctx

\* The next plan is sealed.
LEMMA SealedInStep ==
  ASSUME AgentsInv, InStep, faults = 0, agent[COMMANDER].pc = "reason",
         Prepare(COMMANDER, PlanCard, PlanOrigin)
  PROVE  InStep'
<1> DEFINE r == COMMANDER
           n == Len(cards) + 1
<1>1. RoomSound /\ r \in Agents /\ agent \in [Agents -> Memory]
  BY Roles, InvParts
<1>2. /\ PlanCard \in AgentCards /\ PlanCard.type = "ResponsePlan"
      /\ PlanCard.body = ChosenRunbook /\ PlanOrigin.msg = agent[r].msg
      /\ PlanOrigin.rev = Context(r).revision
  BY PlanIsSound DEF PlanOrigin, NoOrigin
<1>3. Seals(r, PlanCard, PlanOrigin)
  BY <1>2, Roles DEF Seals
<1>4. PICK d \in Card : Extends(d, PlanOrigin) /\ d.type = "ResponsePlan" /\ d.body = ChosenRunbook
  BY <1>1, <1>2, <1>3, SealExtends
<1>5. Keeps /\ state' = state /\ state \in PlanStates
  BY <1>1, <1>2, <1>3, SealExtends DEF StatePrerequisites
<1>6. /\ \A i \in Plans : cards'[i] = cards[i] /\ origin'[i] = origin[i] /\ i < n
      /\ cards'[n] = d /\ origin'[n] = PlanOrigin /\ published' = published
      /\ Len(cards') = n /\ n \notin published /\ n \notin Plans
  BY <1>4, <1>5 DEF Extends, Keeps, Plans
<1>7. Plans' = Plans \union {n}
  BY <1>4, <1>5 DEF Extends, Keeps, Plans
<1>8. PICK m : MovesTo(r, m) /\ m.pc = "post" /\ m.card = n /\ m.ctx = Context(r)
  <2>1. TakesUp(r, n)
    BY DEF Prepare, TakesUp
  <2>2. PICK k : k = n
    OBVIOUS
  <2>3. \E m : MovesTo(r, m) /\ m.pc = "post" /\ m.card = k /\ m.ctx = agent[r].ctx
    <3> HIDE DEF n
    <3> QED
      BY <1>1, <2>1, <2>2, InHandMoves
  <2> QED
    BY <2>2, <2>3 DEF Context
<1>9. agent'[r] = m
  BY <1>1, <1>8 DEF MovesTo
<1>10. n \in Nat /\ Plans \subseteq Nat
  BY <1>1, InRange DEF Plans
<1>11. origin'[n].rev = Context(r).revision /\ cards'[n].body = ChosenRunbook
  BY <1>2, <1>4, <1>6
<1>12. \A i \in Plans : origin'[i].rev \in Nat /\ origin'[n].rev \in Nat
  BY <1>1, <1>6, <1>11, NextPlan, AtWork, InRange DEF Origin, SoundContext, Contexts, Plans
<1>13. \A i \in Plans : /\ origin'[i].rev < origin'[n].rev
                        /\ origin'[n].rev = origin'[i].rev + 1 => cards'[i].body # cards'[n].body
  BY <1>6, <1>11, NextPlan
<1> HIDE DEF n
<1>14. PlansInOrder'
  <2> SUFFICES ASSUME NEW i \in Plans', NEW j \in Plans', i < j
               PROVE  origin'[i].rev < origin'[j].rev
    BY DEF PlansInOrder
  <2>1. CASE i \in Plans /\ j \in Plans
    BY <1>6, <2>1 DEF InStep, PlansInOrder
  <2>2. CASE i \in Plans /\ j = n
    BY <1>13, <2>2
  <2>3. CASE i = n
    BY <1>6, <1>7, <1>10, <2>3
  <2> QED
    BY <1>7, <2>1, <2>2, <2>3
<1>15. ChangesRunbook'
  <2>1. ASSUME NEW i \in Plans', NEW j \in Plans', origin'[j].rev = origin'[i].rev + 1
        PROVE  cards'[i].body # cards'[j].body
    <3>1. CASE i \in Plans /\ j \in Plans
      BY <1>6, <2>1, <3>1 DEF InStep, ChangesRunbook, Plans
    <3>2. CASE i \in Plans /\ j = n
      BY <1>13, <2>1, <3>2
    <3>3. CASE i = n /\ j \in Plans
      BY <1>12, <1>13, <2>1, <3>3
    <3>4. CASE i = n /\ j = n
      <4>1. origin'[n].rev \in Nat
        BY <1>1, <1>11, AtWork DEF SoundContext, Contexts
      <4> QED
        BY <2>1, <3>4, <4>1
    <3> QED
      BY <1>7, <3>1, <3>2, <3>3, <3>4
  <2> QED
    BY <2>1 DEF ChangesRunbook, Plans
<1>16. RefusalsHold'
  <2> SUFFICES ASSUME NEW i \in Refusals', \A j \in Plans' : j < i PROVE FALSE
    BY DEF RefusalsHold
  <2>1. n < i
    BY <1>7
  <2>2. i <= n /\ i \in Nat
    BY <1>4, <1>10 DEF Refusals, Extends, Keeps, n
  <2> QED
    BY <1>10, <2>1, <2>2
<1>17. PlansArePublished'
  <2>1. Plans \subseteq published
    BY DEF InStep, PlansArePublished
  <2>2. Plans' \ published' = {n}
    BY <1>6, <1>7, <2>1
  <2> QED
    BY <1>5, <1>6, <1>8, <1>9, <2>2 DEF PlansArePublished
<1>18. ContextIsCurrent' /\ RevisesLastPlan'
  <2>1. LastSealed("ResponsePlan")' = n
    <3> DEFINE found == {i \in DOMAIN cards' : cards'[i].type = "ResponsePlan"}
    <3>1. found = Plans'
      BY DEF Plans
    <3>2. found \in SUBSET Nat /\ n \in found /\ \A j \in found : j <= n
      BY <1>6, <1>7, <1>10, <3>1
    <3>3. LastSealed("ResponsePlan")' = IF found = {} THEN 0
                                        ELSE CHOOSE i \in found : \A j \in found : j <= i
      BY DEF LastSealed
    <3> HIDE DEF found
    <3>4. (CHOOSE i \in found : \A j \in found : j <= i) = n
      BY <3>2, GreatestIsUnique
    <3> QED
      BY <3>2, <3>3, <3>4
  <2> QED
    BY <1>8, <1>9, <1>11, <2>1 DEF ContextIsCurrent, RevisesLastPlan, Context
<1> QED
  BY <1>14, <1>15, <1>16, <1>17, <1>18 DEF InStep

\* Or it is not, because there is a plan no longer called for.
LEMMA SubmittedInStep ==
  ASSUME AgentsInv, InStep, faults = 0, SubmitPlan \/ PlanConflict
  PROVE  InStep'
<1> DEFINE r == COMMANDER
<1>1. RoomSound /\ r \in Agents /\ agent[r].pc = "reason"
  BY Roles, InvParts DEF SubmitPlan, PlanConflict
<1>2. SealedFor(PlanCard, PlanOrigin) = {}
  BY <1>1, PlanIsNew
<1>3. Prepare(r, PlanCard, PlanOrigin) \/ PrepareRefused(r, PlanCard, PlanOrigin)
  BY <1>2 DEF SubmitPlan, PlanConflict, Submit, PrepareAgain, KeyConflict
<1>4. CASE PrepareRefused(r, PlanCard, PlanOrigin)
  <2>1. PlanCard.type = "ResponsePlan"
    BY <1>1, PlanIsSound
  <2>2. state \notin PlanStates
    BY <1>4, <2>1 DEF PrepareRefused, StatePrerequisites, BudgetLeft, IsChallenge
  <2>3. LastSealed("ResponsePlan") = 0
    BY <1>1, <2>2 DEF InStep, RevisesLastPlan, PlanStates
  <2>4. PICK m : MovesTo(r, m) /\ m.pc = "poll"
    BY <1>4, FinishedMoves DEF PrepareRefused
  <2>5. Keeps /\ Bystands
    <3>1. Rests
      BY <1>4, QuietStep DEF PrepareRefused
    <3> QED
      BY <1>1, <3>1, RestKeeps, QuietBystands
  <2> QED
    BY <1>1, <2>3, <2>4, <2>5, IdleInStep
<1> QED
  BY <1>1, <1>3, <1>4, SealedInStep

\* The plan is posted, ...
LEMMA PostedInStep ==
  ASSUME AgentsInv, InStep, faults = 0, Post(COMMANDER)
  PROVE  InStep'
<1> DEFINE r == COMMANDER
           last == LastSealed("ResponsePlan")
<1>1. RoomSound /\ r \in Agents /\ agent \in [Agents -> Memory] /\ agent[r].pc = "post"
  BY Roles, InvParts DEF Post
<1>2. UNCHANGED <<state, cards, published, origin>>
  BY DEF Post, PostCard, ledgerVars
<1>3. PICK m : MovesTo(r, m) /\ m.pc = "confirm" /\ m.card = agent[r].card /\ m.ctx = agent[r].ctx
  <2>1. TurnsTo(r, "confirm")
    BY DEF Post, TurnsTo
  <2> QED
    BY <1>1, <2>1, PhaseMoves
<1>4. agent'[r] = m
  BY <1>1, <1>3 DEF MovesTo
<1>5. DOMAIN cards \subseteq Nat /\ published \subseteq DOMAIN cards
  BY <1>1, InRange
<1>6. Keeps /\ Bystands
  BY <1>2, <1>5, QuietBystands DEF Keeps
<1>7. PlansInOrder' /\ ChangesRunbook' /\ RefusalsHold' /\ last' = last /\ Plans' = Plans
  BY <1>1, <1>6, ChainInStep
<1>8. PlansArePublished'
  BY <1>1, <1>2, <1>3, <1>4, <1>7 DEF InStep, PlansArePublished
<1>9. ContextIsCurrent' /\ RevisesLastPlan'
  <2>1. m.ctx.known /\ last # 0 => m.ctx.revision = origin[last].rev
    BY <1>1, <1>3 DEF InStep, ContextIsCurrent, Context
  <2> HIDE DEF last
  <2>2. m.ctx.known /\ last' # 0 => m.ctx.revision = origin'[last'].rev
    BY <1>2, <1>7, <2>1
  <2> QED
    BY <1>3, <1>4, <2>2 DEF ContextIsCurrent, RevisesLastPlan, Context, last
<1> QED
  BY <1>7, <1>8, <1>9 DEF InStep

\* ... and confirmed, which nothing stands in the way of.
LEMMA NothingInTheWay ==
  ASSUME AgentsInv, InStep
  PROVE  ~ConfirmRefused(COMMANDER)
<1> DEFINE i == agent[COMMANDER].card
<1>1. SUFFICES ASSUME ConfirmRefused(COMMANDER) PROVE FALSE
  OBVIOUS
<1>2. i \in Plans /\ i \notin published /\ i = Len(cards) /\ state \in PlanStates
  BY <1>1 DEF ConfirmRefused, InStep, PlansArePublished
<1>3. StateAllows(i)
  BY <1>2 DEF StateAllows, StatePrerequisites, Plans
<1>4. NotStale(i)
  BY <1>2, InvParts, InRange DEF NotStale
<1> QED
  BY <1>1, <1>2, <1>3, <1>4 DEF ConfirmRefused

LEMMA ConfirmedInStep ==
  ASSUME AgentsInv, InStep, faults = 0, PlanConfirmed
  PROVE  InStep'
<1> DEFINE r == COMMANDER
           i == agent[r].card
           last == LastSealed("ResponsePlan")
<1>1. RoomSound /\ r \in Agents /\ agent \in [Agents -> Memory] /\ agent[r].pc = "confirm"
  BY Roles, InvParts DEF PlanConfirmed, Confirms
<1>2. UNCHANGED <<cards, origin>> /\ published' = published \union {i}
  BY DEF PlanConfirmed, Confirms, ConfirmPublication
<1>3. i = Len(cards) /\ i \in Plans /\ Plans \ published = {i}
  BY <1>1 DEF InStep, PlansArePublished
<1>4. PICK m : MovesTo(r, m) /\ m.pc = "authorize" /\ m.ctx = agent[r].ctx
  <2>1. TurnsTo(r, "authorize")
    BY DEF PlanConfirmed, TurnsTo
  <2> QED
    BY <1>1, <2>1, PhaseMoves
<1>5. agent'[r] = m
  BY <1>1, <1>4 DEF MovesTo
<1>6. Plans' = Plans /\ Refusals' = Refusals
  BY <1>2 DEF Plans, Refusals, IsRejection
<1>7. PlansInOrder' /\ ChangesRunbook'
  BY <1>2, <1>6 DEF InStep, PlansInOrder, ChangesRunbook
<1>8. RefusalsHold'
  <2> SUFFICES ASSUME NEW k \in Refusals, \A j \in Plans : j < k PROVE FALSE
    BY <1>6 DEF RefusalsHold
  <2>1. k \in 1..Len(cards) /\ Len(cards) \in Nat /\ i < k
    BY <1>1, <1>3, InRange DEF Refusals
  <2> QED
    BY <1>3, <2>1
<1>9. PlansArePublished'
  BY <1>2, <1>3, <1>4, <1>5, <1>6 DEF PlansArePublished
<1>10. ContextIsCurrent' /\ RevisesLastPlan'
  <2>1. m.ctx.known /\ last # 0 => m.ctx.revision = origin[last].rev
    BY <1>1, <1>4 DEF InStep, ContextIsCurrent, Context
  <2>2. last' = last
    BY <1>2 DEF LastSealed
  <2> HIDE DEF last
  <2>3. m.ctx.known /\ last' # 0 => m.ctx.revision = origin'[last'].rev
    BY <1>2, <2>1, <2>2
  <2> QED
    BY <1>4, <1>5, <2>3 DEF ContextIsCurrent, RevisesLastPlan, Context, last
<1> QED
  BY <1>7, <1>8, <1>9, <1>10 DEF InStep

\* Then it opens the way to the authorization.
LEMMA AuthorizedInStep ==
  ASSUME AgentsInv, InStep, faults = 0,
         OpenChallenge \/ RequestAuthorization \/ AuthorizationRefused
  PROVE  InStep'
<1> DEFINE r == COMMANDER
           last == LastSealed("ResponsePlan")
<1>1. RoomSound /\ r \in Agents /\ agent[r].pc = "authorize" /\ Context(r) \in Contexts
  BY Roles, InvParts
  DEF OpenChallenge, RequestAuthorization, AuthorizationRefused, SoundMemory, SoundContext, Context
<1>2. PICK ctx : /\ Finished(r, ctx)
                 /\ ctx = Context(r) \/ ctx = [Context(r) EXCEPT !.submitted = TRUE]
  BY DEF OpenChallenge, RequestAuthorization, AuthorizationRefused, PlanSubmitted
<1>3. ctx.known = Context(r).known /\ ctx.revision = Context(r).revision
  BY <1>1, <1>2 DEF Contexts
<1>4. PICK m : MovesTo(r, m) /\ m.pc = "poll" /\ m.ctx = ctx
  BY <1>2, FinishedMoves
<1>5. Keeps /\ Bystands
  <2>1. CASE RequestAuthorization
    <3>1. PICK c, o, j : Decides(c, o, j)
      BY <2>1, AuthorizationDecides
    <3> QED
      BY <1>1, <3>1, DecisionBystands, DecisionExtends
  <2>2. CASE OpenChallenge \/ AuthorizationRefused
    <3>1. Rests
      BY <2>2, QuietStep DEF OpenChallenge, AuthorizationRefused
    <3> QED
      BY <1>1, <3>1, RestKeeps, QuietBystands
  <2> QED
    BY <2>1, <2>2
<1>6. ctx.known /\ last # 0 => ctx.revision = origin[last].rev
  BY <1>1, <1>3 DEF InStep, ContextIsCurrent
<1> QED
  BY <1>1, <1>4, <1>5, <1>6, IdleInStep

\* A new process has no context to be out of step.
LEMMA RestartInStep ==
  ASSUME AgentsInv, InStep, faults = 0, Restart(COMMANDER)
  PROVE  InStep'
<1>1. RoomSound /\ COMMANDER \in Agents /\ agent[COMMANDER].pc = "poll"
  BY Roles, InvParts DEF Restart
<1>2. PICK m : MovesTo(COMMANDER, m) /\ m.pc = "poll" /\ m.ctx = NoContext
  BY FreshMoves DEF Restart
<1>3. ~m.ctx.known
  BY <1>2 DEF NoContext
<1>4. Keeps /\ Bystands
  <2>1. Rests
    BY QuietStep DEF Restart
  <2> QED
    BY <1>1, <2>1, RestKeeps, QuietBystands
<1> QED
  BY <1>1, <1>2, <1>3, <1>4, IdleInStep

LEMMA CommanderInStep ==
  ASSUME AgentsInv, PlanningInv, InStep, faults = 0, faults' = 0,
         CommanderStep \/ Crash(COMMANDER) \/ Restart(COMMANDER)
  PROVE  InStep'
<1>1. ~Fault
  BY DEF Fault
<1>2. ~Lost(COMMANDER) /\ ~ConfirmedUnheard(COMMANDER) /\ ~BrokenOff(COMMANDER) /\ ~Crash(COMMANDER)
  BY <1>1 DEF Lost, ConfirmedUnheard, BrokenOff, Crash
<1>3. CASE Submission(COMMANDER)
  BY <1>2, <1>3, NothingInTheWay, PostedInStep DEF Submission
<1>4. CASE \E page, ledger \in {published, {}} :
             Takes(page, ledger) /\ UNCHANGED challenged
  BY <1>4, ConfirmInStep, RefusalInStep DEF Takes
<1> QED
  BY <1>2, <1>3, <1>4, SubmittedInStep, ConfirmedInStep, AuthorizedInStep, RestartInStep
  DEF CommanderStep

LEMMA RevisionInit == Init => RevisionInv
<1> SUFFICES ASSUME Init PROVE InStep
  BY DEF RevisionInv
<1>1. cards = <<[type |-> "TriageDecision", decision |-> "route", body |-> NoBody, risk |-> "low"]>>
  BY DEF Init
<1>2. DOMAIN cards = {1} /\ cards[1].type = "TriageDecision"
  BY <1>1
<1>3. Plans = {} /\ Refusals = {}
  BY <1>2 DEF Plans, Refusals, IsRejection
<1>4. agent[COMMANDER].pc = "poll" /\ ~Context(COMMANDER).known
  BY Roles DEF Init, Fresh, NoContext, Context
<1>5. ChangesRunbook
  BY <1>3 DEF ChangesRunbook, Plans
<1> QED
  BY <1>3, <1>4, <1>5
  DEF InStep, PlansInOrder, PlansArePublished, ContextIsCurrent, RevisesLastPlan, RefusalsHold

LEMMA RevisionStep == AgentsInv /\ PlanningInv /\ RevisionInv /\ [Next]_vars => RevisionInv'
<1> SUFFICES ASSUME AgentsInv, PlanningInv, RevisionInv, [Next]_vars, faults' = 0 PROVE InStep'
  BY DEF RevisionInv
<1>1. faults = 0 /\ InStep
  <2>1. faults \in Nat
    BY InvParts, AgentAssumption
  <2> QED
    BY <2>1, FaultsStay DEF FaultsAdd, RevisionInv
<1>2. OwnCards /\ COMMANDER \in Agents
  BY Roles DEF PlanningInv
<1>3. CASE agent'[COMMANDER] = agent[COMMANDER]
  BY <1>1, <1>2, <1>3, BystandKeeps
<1>4. CASE agent'[COMMANDER] # agent[COMMANDER]
  <2>1. PICK r \in Agents : Owns(r) /\ (r = COMMANDER => CommanderStep \/ Crash(r) \/ Restart(r))
    BY <1>2, <1>4, WhoMoves
  <2>2. r = COMMANDER
    BY <1>2, <1>4, <2>1, InvParts DEF Owns, MovesTo
  <2> QED
    BY <1>1, <2>1, <2>2, CommanderInStep
<1> QED
  BY <1>3, <1>4

\* commander/__init__.py: as long as nothing fails the Commander knows the last published plan,
\* also after a restart, its answer to a refusal revises that plan, and a refusal says what
\* the plan it is for was refused for.
THEOREM RevisionInvariance == Spec => []RevisionInv
BY RevisionInit, RevisionStep, AgentsInvariance, PlanningInvariance, PTL DEF Spec

\* commander/__init__.py: as long as nothing fails, however often the Commander is started
\* again, a revision of the plan has another runbook than the plan that was refused.
THEOREM RunbookChanges == Spec => []ChangesRunbook
<1>1. RevisionInv => ChangesRunbook
  BY DEF RevisionInv, InStep, ChangesRunbook
<1> QED
  BY <1>1, RevisionInvariance, PTL

-------------------------------------------------------------------------------
(* The review: it is a line as long as no question is answered twice.          *)

\* What asks for an answer of a type.
AsksFor(t, c) ==
  \/ t = "Assessment" /\ AsksDiagnosis(c)
  \/ t = "Verdict" /\ c.type = "Assessment"

\* What a card of the review answers.
LEMMA ReviewAsks ==
  ASSUME RoomSound, NEW i \in Reviews
  PROVE  /\ i \in DOMAIN cards /\ i \in Nat
         /\ origin[i].msg \in DOMAIN messages
         /\ Asked(i) \in DOMAIN cards /\ Asked(i) \in Nat /\ Asked(i) < i
         /\ AsksFor(cards[i].type, cards[Asked(i)])
<1>1. i \in DOMAIN cards /\ cards[i].type \in {"Assessment", "Verdict"}
  BY DEF Reviews
<1>2. PICK r \in {DIAGNOSIS, REVIEWER} : cards[i].type = Answer(r)
  BY <1>1, Roles
<1>3. r \in Agents
  BY Roles
<1>4. /\ origin[i].msg \in DOMAIN messages /\ Asked(i) < i
      /\ Concerns(r, cards[Asked(i)])
  BY <1>1, <1>2, <1>3 DEF RoomSound, AnswersConcern, Asked
<1>5. Asked(i) \in DOMAIN cards /\ DOMAIN cards \subseteq Nat
  BY <1>4, InRange DEF Asked
<1>6. AsksFor(cards[i].type, cards[Asked(i)])
  BY <1>2, <1>4, Roles DEF AsksFor
<1> QED
  BY <1>1, <1>4, <1>5, <1>6

\* An answer to the routing is an Assessment; one to a card of the review is of the type
\* that card asks for.
LEMMA AnswerFits ==
  ASSUME RoomSound, NEW k \in Reviews, NEW t \in {"Assessment", "Verdict"},
         AsksFor(t, cards[Asked(k)])
  PROVE  cards[k].type = t
<1>1. cards[k].type \in {"Assessment", "Verdict"} /\ AsksFor(cards[k].type, cards[Asked(k)])
  BY ReviewAsks DEF Reviews
<1> QED
  BY <1>1 DEF AsksFor, AsksDiagnosis, IsChallenge

\* In a line, an unanswered card of the review that asks for what the last published one
\* asks for is that one, and it is the last.
LEMMA LastInLine ==
  ASSUME RoomSound, ReviewIsLinear,
         NEW p \in Reviews, LastReview(p), NEW q \in Reviews,
         NEW t \in {"Assessment", "Verdict"}, AsksFor(t, cards[p]), AsksFor(t, cards[q]),
         ~\E k \in Reviews : cards[k].type = t /\ Asked(k) = q
  PROVE  q = p /\ \A i \in Reviews : i <= q
<1>1. Reviews \subseteq Nat
  BY ReviewAsks
<1>2. ASSUME NEW i \in Reviews PROVE i <= q
  <2>1. SUFFICES ASSUME q < i PROVE FALSE
    BY <1>1
  <2>2. PICK k \in Reviews : Asked(k) = q
    BY <2>1 DEF ReviewIsLinear
  <2> QED
    BY <2>2, AnswerFits
<1>3. ~(p < q)
  <2> SUFFICES ASSUME p < q PROVE FALSE
    OBVIOUS
  <2>1. PICK k \in Reviews : Asked(k) = p
    BY DEF ReviewIsLinear
  <2>2. p < k /\ k \in Nat /\ cards[k].type = t
    BY <2>1, ReviewAsks, AnswerFits
  <2>3. k <= q /\ k # q
    BY <1>2, <2>2 DEF AsksFor, AsksDiagnosis, IsChallenge, Reviews
  <2>4. k \in published
    BY <1>1, <2>2, <2>3 DEF ReviewIsLinear
  <2> QED
    BY <1>1, <2>2, <2>4 DEF LastReview
<1>4. p <= q
  BY <1>2
<1> QED
  BY <1>1, <1>2, <1>3, <1>4

\* So the next card of the review answers the last one, or the routing.
LEMMA NextInLine ==
  ASSUME AgentsInv, RoutedOnce, ReviewIsLinear, ReviewInState,
         NEW r \in {DIAGNOSIS, REVIEWER}, agent[r].pc = "reason",
         state \in StatePrerequisites(Answer(r)),
         ~\E k \in Reviews : cards[k].type = Answer(r) /\ Asked(k) = Question(r)
  PROVE  \/ Reviews = {} /\ Question(r) = 1
         \/ /\ Question(r) \in Reviews \cap published
            /\ \A i \in Reviews : i <= Question(r)
<1> DEFINE q == Question(r)
<1>1. r \in Agents /\ RoomSound /\ Concerns(r, cards[q]) /\ q \in DOMAIN cards
  BY InvParts, Roles, AtWork
<1>2. CASE r = REVIEWER
  <2>1. q \in Reviews /\ AsksFor("Verdict", cards[q]) /\ state = "ASSESSED"
    BY <1>1, <1>2, Roles DEF Reviews, AsksFor, StatePrerequisites
  <2>2. PICK p \in Reviews : LastReview(p) /\ cards[p].type = "Assessment"
    BY <2>1 DEF ReviewInState
  <2> HIDE DEF q
  <2>3. q = p /\ \A i \in Reviews : i <= q
    BY <1>1, <1>2, <2>1, <2>2, LastInLine, Roles DEF AsksFor, q
  <2> QED
    BY <2>2, <2>3 DEF LastReview, q
<1>3. CASE r = DIAGNOSIS
  <2>1. state \in {"TRIAGED", "CHALLENGED"} /\ AsksDiagnosis(cards[q])
    BY <1>1, <1>3, Roles DEF StatePrerequisites
  <2>2. cards[1].type = "TriageDecision"
    BY <1>1, InRange DEF RoutedOnce
  <2>3. Reviews # {} => \E k \in Reviews : Asked(k) = 1 /\ cards[k].type = "Assessment"
    BY <1>1, <2>2, AnswerFits DEF ReviewIsLinear, AsksFor, AsksDiagnosis
  <2>4. q = 1 => Reviews = {}
    BY <1>3, <2>3, Roles
  <2>5. q # 1 => q \in Reviews /\ IsChallenge(cards[q])
    BY <1>1, <2>1 DEF RoutedOnce, AsksDiagnosis, Reviews, IsChallenge
  <2>6. ASSUME q # 1, state = "TRIAGED" PROVE FALSE
    <3>1. q \in Reviews /\ cards[q].type = "Verdict"
      BY <2>5, <2>6 DEF IsChallenge
    <3>2. Asked(q) \in Reviews /\ Asked(q) < q
      BY <1>1, <3>1, ReviewAsks DEF AsksFor, Reviews
    <3>3. Asked(q) \in published
      BY <3>1, <3>2 DEF ReviewIsLinear
    <3> QED
      BY <2>6, <3>2, <3>3 DEF ReviewInState
  <2>7. ASSUME q # 1, state = "CHALLENGED"
        PROVE  q \in Reviews \cap published /\ \A i \in Reviews : i <= q
    <3>1. PICK p \in Reviews : LastReview(p) /\ IsChallenge(cards[p])
      BY <2>7 DEF ReviewInState
    <3>2. q \in Reviews /\ AsksFor("Assessment", cards[p]) /\ AsksFor("Assessment", cards[q])
      BY <2>5, <2>7, <3>1 DEF AsksFor, AsksDiagnosis
    <3> HIDE DEF q
    <3>3. q = p /\ \A i \in Reviews : i <= q
      BY <1>1, <1>3, <3>1, <3>2, LastInLine, Roles DEF q
    <3> QED
      BY <3>1, <3>3 DEF LastReview
  <2> QED
    BY <2>1, <2>4, <2>6, <2>7
<1> QED
  BY <1>2, <1>3

\* What was asked stays asked, and what was answered twice stays so.
LEMMA AskedStays ==
  ASSUME AgentsInv, [Next]_vars
  PROVE  /\ Reviews \subseteq Reviews'
         /\ \A i \in Reviews : Asked(i)' = Asked(i) /\ cards'[i] = cards[i]
         /\ ReviewedOnce' => ReviewedOnce
<1>1. RoomSound /\ Keeps
  BY InvParts, EveryStep, ChainKept
<1>2. Reviews \subseteq Reviews' /\ \A i \in Reviews : cards'[i] = cards[i]
  BY <1>1 DEF Keeps, Reviews
<1>3. ASSUME NEW i \in Reviews PROVE Asked(i)' = Asked(i)
  <2>1. i \in DOMAIN cards /\ origin[i].msg \in DOMAIN messages
    BY <1>1, ReviewAsks
  <2>2. origin'[i] = origin[i] /\ messages'[origin[i].msg] = messages[origin[i].msg]
    BY <1>1, <2>1, MessagesStay DEF Keeps
  <2> QED
    BY <2>2 DEF Asked
<1>4. ASSUME ReviewedOnce' PROVE ReviewedOnce
  <2>1. SUFFICES ASSUME NEW i \in Reviews, NEW j \in Reviews,
                        cards[i].type = cards[j].type, Asked(i) = Asked(j)
                 PROVE  i = j
    BY DEF ReviewedOnce
  <2>2. i \in Reviews' /\ j \in Reviews' /\ cards'[i].type = cards'[j].type
    BY <1>2, <2>1
  <2>3. Asked(i)' = Asked(j)'
    BY <1>3, <2>1
  <2> QED
    BY <1>4, <2>2, <2>3 DEF ReviewedOnce
<1> QED
  BY <1>2, <1>3, <1>4

\* A line stays one as long as nothing is sealed at its end, ...
LEMMA LineKept ==
  ASSUME AgentsInv, [Next]_vars, ReviewIsLinear, Reviews' = Reviews
  PROVE  ReviewIsLinear'
<1>1. Keeps
  BY InvParts, EveryStep, ChainKept
<1>2. \A i \in Reviews : Asked(i)' = Asked(i)
  BY AskedStays
<1>3. Reviews' # {} => \E k \in Reviews' : Asked(k)' = 1
  BY <1>2 DEF ReviewIsLinear
<1>4. ASSUME NEW i \in Reviews', NEW j \in Reviews', i < j
      PROVE  i \in published' /\ i <= Asked(j)' /\ \E k \in Reviews' : Asked(k)' = i
  <2>1. i \in published /\ i <= Asked(j) /\ \E k \in Reviews : Asked(k) = i
    BY <1>4 DEF ReviewIsLinear
  <2> QED
    BY <1>1, <1>2, <2>1 DEF Keeps
<1> QED
  BY <1>3, <1>4 DEF ReviewIsLinear

\* ... and the incident stays where the review left it.
LEMMA StageKept ==
  ASSUME Keeps, ReviewInState, Reviews' \cap published' = Reviews \cap published,
         state' = state, Reviews \subseteq Reviews',
         state \in {"NONE", "DETECTED"} \/ state \notin BeforeReview \union {"CHALLENGED"}
           => Reviews' = Reviews
  PROVE  ReviewInState'
<1>1. \A i \in Reviews : LastReview(i) => LastReview(i)' /\ cards'[i] = cards[i]
  BY DEF LastReview, Keeps, Reviews
<1>2. state' \in {"NONE", "DETECTED"} => Reviews' = {}
  BY DEF ReviewInState
<1>3. state' \in {"TRIAGED", "SUPPRESSED"} => Reviews' \cap published' = {}
  BY DEF ReviewInState
<1>4. state' = "ASSESSED" => \E i \in Reviews' : LastReview(i)' /\ cards'[i].type = "Assessment"
  BY <1>1 DEF ReviewInState
<1>5. state' = "CHALLENGED" => \E i \in Reviews' : LastReview(i)' /\ IsChallenge(cards'[i])
  BY <1>1 DEF ReviewInState
<1>6. state' \notin BeforeReview \union {"CHALLENGED"} => Reviews' \subseteq published'
  BY DEF ReviewInState
<1> QED
  BY <1>2, <1>3, <1>4, <1>5, <1>6 DEF ReviewInState

\* What is sealed of the review answers its last card, or the routing.
LEMMA SealedInLine ==
  ASSUME AgentsInv, [Next]_vars, ReviewedOnce', RoutedOnce, ReviewIsLinear, ReviewInState,
         NEW r \in {DIAGNOSIS, REVIEWER}, NEW c, NEW o, Seals(r, c, o)
  PROVE  /\ Reviews' = Reviews \union {Len(cards) + 1}
         /\ \A n : n = Len(cards) + 1 => Asked(n)' = Question(r)
         /\ \/ Reviews = {} /\ Question(r) = 1
            \/ /\ Question(r) \in Reviews \cap published
               /\ \A i \in Reviews : i <= Question(r)
<1>0. PICK n, q : n = Len(cards) + 1 /\ q = Question(r)
  OBVIOUS
<1>1. r \in Agents /\ RoomSound /\ Keeps
  BY InvParts, Roles, SealExtends
<1>2. PICK d \in Card : Extends(d, o) /\ d.type = Answer(r)
  BY <1>1, SealExtends DEF Seals
<1>3. agent[r].pc = "reason" /\ o.msg = agent[r].msg /\ state \in StatePrerequisites(Answer(r))
  BY <1>1, SealExtends DEF Seals
<1>4. cards'[n].type = Answer(r) /\ n \notin DOMAIN cards
  BY <1>0, <1>2 DEF Extends
<1>5. Answer(r) \in {"Assessment", "Verdict"}
  BY Roles
<1>6. Reviews' = Reviews \union {n}
  BY <1>0, <1>1, <1>2, <1>4, <1>5 DEF Extends, Keeps, Reviews
<1>7. Asked(n)' = q /\ \A i \in Reviews : Asked(i)' = Asked(i) /\ cards'[i] = cards[i]
  <2>1. origin'[n].msg = agent[r].msg /\ agent[r].msg \in DOMAIN messages
    BY <1>0, <1>1, <1>2, <1>3, AtWork DEF Extends
  <2> QED
    BY <1>0, <2>1, AskedStays, MessagesStay DEF Asked, Question
<1>8. Reviews \subseteq DOMAIN cards
  BY DEF Reviews
<1>9. ~\E k \in Reviews : cards[k].type = Answer(r) /\ Asked(k) = q
  BY <1>4, <1>6, <1>7, <1>8 DEF ReviewedOnce
<1>10. \/ Reviews = {} /\ q = 1
       \/ q \in Reviews \cap published /\ \A i \in Reviews : i <= q
  BY <1>0, <1>3, <1>9, NextInLine
<1> QED
  BY <1>0, <1>6, <1>7, <1>10

\* Sealing an answer of the review prolongs the line.
LEMMA ReviewSealed ==
  ASSUME AgentsInv, [Next]_vars, ReviewedOnce', RoutedOnce, ReviewIsLinear, ReviewInState,
         NEW r \in {DIAGNOSIS, REVIEWER}, NEW c, NEW o, Seals(r, c, o)
  PROVE  ReviewIsLinear' /\ ReviewInState'
<1>0. PICK n, q : n = Len(cards) + 1 /\ q = Question(r)
  OBVIOUS
<1>1. r \in Agents /\ RoomSound /\ Keeps /\ state' = state /\ published \subseteq DOMAIN cards
  BY InvParts, Roles, SealExtends, InRange DEF Keeps
<1>2. PICK d \in Card : Extends(d, o)
  BY <1>1, SealExtends
<1>3. /\ n \notin DOMAIN cards /\ n \in Nat /\ \A i \in DOMAIN cards : i < n
      /\ state \in StatePrerequisites(Answer(r))
  BY <1>0, <1>1, <1>2, InRange, SealExtends DEF Extends, Seals
<1>4. /\ Reviews' = Reviews \union {n} /\ Asked(n)' = q
      /\ \/ Reviews = {} /\ q = 1
         \/ q \in Reviews \cap published /\ \A i \in Reviews : i <= q
  BY <1>0, SealedInLine
<1>5. \A i \in Reviews : Asked(i)' = Asked(i)
  BY AskedStays
<1>6. Reviews \subseteq DOMAIN cards /\ Reviews \subseteq Nat
  BY <1>1, ReviewAsks
<1>7. ReviewIsLinear'
  <2>1. \E k \in Reviews' : Asked(k)' = 1
    BY <1>4, <1>5 DEF ReviewIsLinear
  <2>2. ASSUME NEW i \in Reviews', NEW j \in Reviews', i < j
        PROVE  i \in published' /\ i <= Asked(j)' /\ \E k \in Reviews' : Asked(k)' = i
    <3>1. i \in Reviews
      BY <1>3, <1>4, <1>6, <2>2
    <3>2. CASE j \in Reviews
      BY <1>1, <1>4, <1>5, <2>2, <3>1, <3>2 DEF Keeps, ReviewIsLinear
    <3>3. CASE j = n
      <4>1. q \in Reviews \cap published /\ i <= q
        BY <1>4, <3>1
      <4>2. i = q \/ i < q
        BY <1>6, <3>1, <4>1
      <4>3. i \in published
        BY <3>1, <4>1, <4>2 DEF ReviewIsLinear
      <4>4. \E k \in Reviews' : Asked(k)' = i
        <5>1. CASE i = q
          BY <1>4, <1>5, <5>1
        <5>2. CASE i < q
          BY <1>4, <1>5, <3>1, <4>1, <5>2 DEF ReviewIsLinear
        <5> QED
          BY <4>2, <5>1, <5>2
      <4> QED
        BY <1>1, <1>4, <3>3, <4>1, <4>3, <4>4 DEF Keeps
    <3> QED
      BY <1>4, <3>2, <3>3
  <2> QED
    BY <2>1, <2>2 DEF ReviewIsLinear
<1>8. state \in {"TRIAGED", "CHALLENGED", "ASSESSED"}
  BY <1>3, Roles DEF StatePrerequisites
<1>9. Reviews' \cap published' = Reviews \cap published
  BY <1>1, <1>2, <1>3, <1>4 DEF Extends
<1>10. ReviewInState'
  BY <1>1, <1>4, <1>8, <1>9, StageKept DEF BeforeReview
<1> QED
  BY <1>7, <1>10

\* Publishing the end of the line, or a card that is none of the review, moves the incident
\* on with it.
LEMMA ReviewPublished ==
  ASSUME RoomSound, ReviewIsLinear, ReviewInState, NEW i, Publishes(i)
  PROVE  ReviewInState'
<1>1. /\ Keeps /\ cards' = cards /\ published' = published \union {i}
      /\ i \in DOMAIN cards /\ Reviews' = Reviews
  BY PublicationKeeps DEF Reviews
<1>2. CASE i \in Reviews
  <2>1. /\ i \notin published /\ state' = ResolveState(cards[i])
        /\ cards[i].type \in {"Assessment", "Verdict"}
    BY <1>2 DEF Publishes, ConfirmPublication, PublishAuthorization, PublishRefusal,
                IsAuthorization, IsRefusal, AdvancesIncident, Reviews
  <2>2. Reviews \subseteq Nat
    BY ReviewAsks
  <2>3. \A j \in Reviews : j <= i
    BY <1>2, <2>1, <2>2 DEF ReviewIsLinear
  <2>4. \A j \in Reviews : j < i => j \in published
    BY <1>2 DEF ReviewIsLinear
  <2>5. Reviews \subseteq published'
    BY <1>1, <1>2, <2>2, <2>3, <2>4
  <2>6. LastReview(i)'
    BY <1>1, <1>2, <2>3 DEF LastReview
  <2>7. \/ cards[i].type = "Assessment" /\ state' = "ASSESSED"
        \/ IsChallenge(cards[i]) /\ state' = "CHALLENGED"
        \/ state' \in {"REVIEWED", "CLOSED_FALSE_ALARM", "ESCALATED_HUMAN"}
    BY <2>1 DEF ResolveState, IsChallenge
  <2> QED
    BY <1>1, <1>2, <2>5, <2>6, <2>7 DEF ReviewInState, BeforeReview
<1>3. CASE i \notin Reviews
  <2>1. Reviews' \cap published' = Reviews \cap published
    BY <1>1, <1>3
  <2>2. state' = state => ReviewInState'
    BY <1>1, <2>1, StageKept
  <2>3. CASE ConfirmPublication(i)
    <3>1. cards[i].type \in CardTypes
      BY <1>1, InRange DEF Card
    <3>2. /\ state \in StatePrerequisites(cards[i].type)
          /\ cards[i].type \notin {"StructuredApproval", "PolicyAuthorization"}
          /\ state' = IF AdvancesIncident(i) THEN ResolveState(cards[i]) ELSE state
      BY <2>3 DEF ConfirmPublication, StateAllows
    <3>3. CASE cards[i].type = "AlertCard"
      BY <2>2, <3>2, <3>3 DEF AdvancesIncident, ResolveState
    <3>4. CASE cards[i].type = "TriageDecision"
      <4>1. state = "DETECTED" /\ state' \in {"TRIAGED", "SUPPRESSED"}
        BY <3>2, <3>4 DEF StatePrerequisites, AdvancesIncident, ResolveState
      <4> QED
        BY <1>1, <4>1 DEF ReviewInState, BeforeReview
    <3>5. CASE cards[i].type \in {"ResponsePlan", "ActionReceipt", "Postmortem"}
      <4>1. /\ state \notin BeforeReview \union {"CHALLENGED"}
            /\ state' \in {"PLANNED", "EXECUTED", "RESOLVED"}
        BY <3>2, <3>5 DEF StatePrerequisites, PlanStates, AdvancesIncident, ResolveState, BeforeReview
      <4> QED
        BY <1>1, <4>1 DEF ReviewInState, BeforeReview
    <3> QED
      BY <1>1, <1>3, <3>1, <3>2, <3>3, <3>4, <3>5 DEF CardTypes, Plain, Reviews
  <2>4. CASE PublishAuthorization(i)
    <3>1. state = "PLANNED" /\ state' \in {"APPROVED", "AUTHORIZED"}
      BY <2>4 DEF PublishAuthorization, LifecycleSource, IsAuthorization, ResolveState
    <3> QED
      BY <1>1, <3>1 DEF ReviewInState, BeforeReview
  <2>5. CASE PublishRefusal(i)
    BY <2>2, <2>5 DEF PublishRefusal
  <2> QED
    BY <2>3, <2>4, <2>5 DEF Publishes
<1> QED
  BY <1>2, <1>3

\* A card that is none of the review leaves it alone.
LEMMA OtherSealed ==
  ASSUME RoomSound, Keeps, NEW d, NEW o, Extends(d, o),
         d.type \notin {"Assessment", "Verdict"}
  PROVE  Reviews' = Reviews
BY DEF Extends, Keeps, Reviews

LEMMA ReviewStays ==
  ASSUME AgentsInv, [Next]_vars, ReviewedOnce', RoutedOnce, ReviewIsLinear, ReviewInState
  PROVE  ReviewIsLinear' /\ ReviewInState'
<1>1. RoomSound /\ ChainStep
  BY InvParts, EveryStep
<1>2. ASSUME NEW r \in Agents, NEW c, NEW o, Seals(r, c, o)
      PROVE  ReviewIsLinear' /\ ReviewInState'
  <2>1. CASE r \in {DIAGNOSIS, REVIEWER}
    BY <1>2, <2>1, ReviewSealed
  <2>2. CASE r = COMMANDER
    <3>1. PICK d \in Card : Extends(d, o) /\ d.type = "ResponsePlan"
      BY <1>1, <1>2, <2>2, SealExtends, Roles DEF Seals
    <3>2. Keeps /\ state' = state /\ Reviews' = Reviews /\ published' = published
      BY <1>1, <1>2, <3>1, SealExtends, OtherSealed DEF Extends
    <3> QED
      BY <3>2, LineKept, StageKept
  <2> QED
    BY <2>1, <2>2 DEF Agents
<1>3. ASSUME NEW c, NEW o, NEW j, Decides(c, o, j) PROVE ReviewIsLinear' /\ ReviewInState'
  <2>1. Keeps /\ Reviews' = Reviews /\ published' = published
    BY <1>1, <1>3, DecisionExtends, OtherSealed DEF Extends
  <2>2. Reviews' \subseteq published'
    BY <1>1, <1>3, <2>1, DecisionExtends DEF ReviewInState, BeforeReview
  <2>3. state' \notin BeforeReview \union {"CHALLENGED"}
    BY <1>1, <1>3, DecisionExtends DEF BeforeReview
  <2> QED
    BY <2>1, <2>2, <2>3, LineKept DEF ReviewInState, BeforeReview
<1>4. ASSUME NEW i, Publishes(i) PROVE ReviewIsLinear' /\ ReviewInState'
  <2>1. Reviews' = Reviews
    BY <1>1, <1>4, PublicationKeeps DEF Reviews
  <2> QED
    BY <1>1, <1>4, <2>1, LineKept, ReviewPublished
<1>5. ASSUME Rests PROVE ReviewIsLinear' /\ ReviewInState'
  <2>1. Keeps /\ Reviews' = Reviews /\ UNCHANGED <<state, published>>
    BY <1>1, <1>5, RestKeeps DEF Reviews
  <2> QED
    BY <2>1, LineKept, StageKept
<1> QED
  BY <1>1, <1>2, <1>3, <1>4, <1>5 DEF ChainStep

LEMMA RoutedStep ==
  ASSUME RoomSound, RoutedOnce, ChainStep
  PROVE  RoutedOnce'
<1>1. 1 \in DOMAIN cards
  BY InRange DEF RoomSound, RoutingIsPosted
<1>2. ASSUME NEW d, NEW o, Keeps, Extends(d, o), d.type # "TriageDecision" PROVE RoutedOnce'
  BY <1>1, <1>2 DEF Keeps, Extends, RoutedOnce
<1>3. \A r \in Agents : Answer(r) # "TriageDecision"
  BY Roles DEF Agents
<1>4. ASSUME NEW r \in Agents, NEW c, NEW o, Seals(r, c, o) PROVE RoutedOnce'
  BY <1>2, <1>3, <1>4, SealExtends DEF Seals
<1>5. ASSUME NEW c, NEW o, NEW j, Decides(c, o, j) PROVE RoutedOnce'
  BY <1>2, <1>5, DecisionExtends
<1>6. CASE UNCHANGED cards
  BY <1>6 DEF RoutedOnce
<1> QED
  BY <1>4, <1>5, <1>6, PublicationKeeps, RestKeeps DEF ChainStep

-------------------------------------------------------------------------------
(* The plans: a confirmation ends the review, and they follow it.              *)

LEMMA ConfirmIsLast ==
  ASSUME RoomSound, ReviewIsLinear, NEW v \in DOMAIN cards, IsConfirm(cards[v])
  PROVE  v \in Reviews /\ v \in Nat /\ \A i \in Reviews : i \in Nat /\ i <= v
<1>1. v \in Reviews /\ v \in Nat
  BY InRange DEF Reviews, IsConfirm
<1>2. ASSUME NEW i \in Reviews, v < i PROVE FALSE
  <2>1. PICK k \in Reviews : Asked(k) = v
    BY <1>1, <1>2 DEF ReviewIsLinear
  <2> QED
    BY <2>1, ReviewAsks DEF AsksFor, AsksDiagnosis, IsChallenge, IsConfirm
<1> QED
  BY <1>1, <1>2, ReviewAsks

\* Nothing of the review is sealed after it ...
LEMMA ConfirmEnds ==
  ASSUME AgentsInv, [Next]_vars, ReviewedOnce', RoutedOnce, ReviewIsLinear, ReviewInState, Confirmed,
         NEW r \in {DIAGNOSIS, REVIEWER}, NEW c, NEW o, Seals(r, c, o)
  PROVE  FALSE
<1>1. RoomSound /\ r \in Agents
  BY InvParts, Roles
<1>2. agent[r].pc = "reason" /\ Concerns(r, cards[Question(r)])
  BY <1>1, AtWork DEF Seals
<1>3. PICK v \in DOMAIN cards : IsConfirm(cards[v])
  BY DEF Confirmed
<1>4. v \in Reviews /\ v \in Nat /\ \A i \in Reviews : i \in Nat /\ i <= v
  BY <1>1, <1>3, ConfirmIsLast
<1>5. Question(r) \in Reviews /\ \A i \in Reviews : i <= Question(r)
  BY <1>4, SealedInLine
<1>6. Question(r) = v
  BY <1>4, <1>5
<1> QED
  BY <1>2, <1>3, <1>6, Roles DEF AsksDiagnosis, IsChallenge, IsConfirm

\* ... so no Assessment is sealed any more, ...
LEMMA LastSealedIsLast ==
  ASSUME RoomSound, NEW t, NEW i \in DOMAIN cards, cards[i].type = t
  PROVE  /\ LastSealed(t) \in DOMAIN cards /\ cards[LastSealed(t)].type = t
         /\ i <= LastSealed(t)
<1> DEFINE found == {j \in DOMAIN cards : cards[j].type = t}
<1>1. LastSealed(t) = IF found = {} THEN 0 ELSE CHOOSE j \in found : \A k \in found : k <= j
  BY DEF LastSealed
<1>2. found \in SUBSET (1..Len(cards)) /\ i \in found /\ Len(cards) \in Nat
  BY InRange
<1>3. PICK m \in found : \A k \in found : k <= m
  BY <1>2, Greatest
<1>4. m \in DOMAIN cards /\ cards[m].type = t /\ i <= m
  BY <1>2, <1>3
<1> HIDE DEF found
<1>5. (CHOOSE j \in found : \A k \in found : k <= j) = m
  BY <1>2, <1>3, GreatestIsUnique
<1>6. LastSealed(t) = m
  BY <1>1, <1>2, <1>5
<1> QED
  BY <1>4, <1>6

\* ... so the report to plan for stays what it is.
LEMMA ReportStays ==
  ASSUME RoomSound, Keeps, \A i \in DOMAIN cards' \ DOMAIN cards : cards'[i].type # "Assessment",
         NEW report, NEW older, PlansFor(report, older)
  PROVE  /\ PlansFor(report, older)'
         /\ LastSealed("Assessment")' = LastSealed("Assessment")
         /\ origin'[LastSealed("Assessment")] = origin[LastSealed("Assessment")]
<1>1. PICK v \in DOMAIN cards : IsConfirm(cards[v])
  BY DEF PlansFor, Confirmed
<1>2. Confirmed'
  BY <1>1 DEF Keeps, Confirmed
<1> DEFINE found == {i \in DOMAIN cards : cards[i].type = "Assessment"}
<1>3. /\ LastSealed("Assessment") = IF found = {} THEN 0 ELSE CHOOSE i \in found : \A j \in found : j <= i
      /\ LastSealed("Assessment")' = IF found' = {} THEN 0 ELSE CHOOSE i \in found' : \A j \in found' : j <= i
  BY DEF LastSealed
<1>4. found' = found
  BY DEF Keeps
<1>5. found # {} /\ found \in SUBSET (1..Len(cards)) /\ Len(cards) \in Nat
  BY <1>1, ReviewAsks, InRange DEF AsksFor, Reviews, IsConfirm
<1>6. PICK last \in found : \A j \in found : j <= last
  BY <1>5, Greatest
<1>7. last \in DOMAIN cards
  BY <1>6
<1>8. PICK a \in DOMAIN cards : cards[a].type = "Assessment" /\ report = origin[a].report
  BY DEF PlansFor
<1>9. a \in DOMAIN cards' /\ cards'[a] = cards[a] /\ origin'[a] = origin[a] /\ origin'[last] = origin[last]
  BY <1>7, <1>8 DEF Keeps
<1> HIDE DEF found
<1>10. LastSealed("Assessment") = last /\ LastSealed("Assessment")' = last
  <2>1. found \in SUBSET Nat /\ found' \in SUBSET Nat /\ last \in found' /\ \A j \in found' : j <= last
    BY <1>4, <1>5, <1>6
  <2>2. (CHOOSE i \in found : \A j \in found : j <= i) = last
    BY <1>6, <2>1, GreatestIsUnique
  <2>3. (CHOOSE i \in found' : \A j \in found' : j <= i) = last
    BY <2>1, GreatestIsUnique
  <2> QED
    BY <1>3, <1>4, <1>5, <2>2, <2>3
<1>11. ~older => report = origin[last].report
  BY <1>10 DEF PlansFor
<1>12. PlansFor(report, older)'
  BY <1>2, <1>8, <1>9, <1>10, <1>11 DEF PlansFor
<1> QED
  BY <1>9, <1>10, <1>12

\* The Commander keeps the report it has, or takes that of an Assessment it finds when it
\* turns to a confirmation or a refusal.
KeepsReport(m) ==
  m.ctx.known => /\ Context(COMMANDER).known /\ m.ctx.report = Context(COMMANDER).report
                 /\ m.ctx.older = Context(COMMANDER).older
LooksReportUp(m) ==
  /\ m.ctx.known => \E i \in DOMAIN cards :
       /\ cards[i].type = "Assessment" /\ m.ctx.report = origin[i].report
       /\ ~m.ctx.older => i = LastSealed("Assessment")
  /\ Confirmed \/ Refusals # {}
  /\ UNCHANGED <<cards, origin>>

LEMMA CommanderLooksUp ==
  ASSUME AgentsInv, NEW page, NEW ledger, Takes(page, ledger)
  PROVE  \E m : MovesTo(COMMANDER, m) /\ (KeepsReport(m) \/ LooksReportUp(m))
<1> DEFINE r == COMMANDER
           i == NextCard(r)
<1>1. r \in Agents /\ RoomSound /\ Receives(r) /\ i \in DOMAIN cards
  BY Roles, NextConcerns, InvParts, InRange DEF Takes, TakeConfirm, TakeRefusal
<1>2. Confirmed \/ Refusals # {}
  BY <1>1 DEF Takes, TakeConfirm, TakeRefusal, Confirmed, Refusals
<1>3. ASSUME NEW found \in AssessmentsFound, NEW ctx, Skip(r, ctx) \/ Accept(r, ctx),
             ctx.known =>
               \/ /\ Context(r).known /\ ctx.report = Context(r).report
                  /\ ctx.older = Context(r).older
               \/ found # 0 /\ ctx.report = origin[found].report /\ ctx.older = IsOlder(found)
      PROVE  \E m : MovesTo(COMMANDER, m) /\ (KeepsReport(m) \/ LooksReportUp(m))
  <2>1. PICK m : MovesTo(r, m) /\ m.ctx = ctx
    BY <1>1, <1>3, SkipMoves, AcceptMoves
  <2>2. UNCHANGED <<cards, origin>>
    BY <1>3 DEF Skip, Accept, roomVars, ledgerVars
  <2>3. CASE ctx.known => /\ Context(r).known /\ ctx.report = Context(r).report
                          /\ ctx.older = Context(r).older
    BY <2>1, <2>3 DEF KeepsReport
  <2>4. CASE found # 0 /\ ctx.report = origin[found].report /\ ctx.older = IsOlder(found)
    <3>1. found \in DOMAIN cards /\ cards[found].type = "Assessment"
      BY <1>1, <2>4, FoundIsAssessment
    <3>2. ~ctx.older => found = LastSealed("Assessment")
      BY <2>4 DEF IsOlder
    <3> QED
      BY <1>2, <2>1, <2>2, <2>4, <3>1, <3>2 DEF LooksReportUp
  <2> QED
    BY <1>3, <2>3, <2>4
<1>4. ASSUME NEW found \in AssessmentsFound, TakeConfirm(page, ledger, found)
      PROVE  \E m : MovesTo(COMMANDER, m) /\ (KeepsReport(m) \/ LooksReportUp(m))
  <2>1. PICK ctx : ctx = [NoContext EXCEPT !.known = TRUE, !.revision = 1,
                                    !.report = origin[found].report, !.older = IsOlder(found)]
    OBVIOUS
  <2>2. ctx.report = origin[found].report /\ ctx.older = IsOlder(found)
    BY <2>1 DEF NoContext
  <2>3. Skip(r, Context(r)) \/ (found # 0 /\ Accept(r, ctx))
    BY <1>4, <2>1 DEF TakeConfirm
  <2> QED
    BY <1>3, <2>2, <2>3
<1>5. ASSUME NEW found \in AssessmentsFound, NEW anchor, NEW plan,
             TakeRefusal(page, ledger, anchor, plan, found)
      PROVE  \E m : MovesTo(COMMANDER, m) /\ (KeepsReport(m) \/ LooksReportUp(m))
  <2>1. PICK base : base = RefusalContext(anchor, found)
    OBVIOUS
  <2>2. ~CannotRestore(found) =>
          \/ Context(r).known /\ base = Context(r)
          \/ found # 0 /\ base.report = origin[found].report /\ base.older = IsOlder(found)
    BY <2>1 DEF CannotRestore, RefusalContext, RestoredCommander, NoContext
  <2>3. PICK ctx : ctx = Revised(base, plan, i)
    OBVIOUS
  <2>4. ctx.report = base.report /\ ctx.older = base.older
    <3>1. base \in Contexts \/ base = RestoredCommander(anchor, found)
      BY <1>1, <2>1, InvParts DEF RefusalContext, SoundMemory, SoundContext, Context
    <3> QED
      BY <2>3, <3>1 DEF Revised, Contexts, RestoredCommander, NoContext
  <2>5. \/ Skip(r, Context(r))
        \/ ~CannotRestore(found) /\ (Skip(r, base) \/ Accept(r, ctx))
    BY <1>5, <2>1, <2>3, RefusalCases
  <2> QED
    BY <1>3, <2>2, <2>4, <2>5
<1> QED
  BY <1>4, <1>5 DEF Takes

LEMMA CommanderKeepsReport ==
  ASSUME AgentsInv, CommanderStep \/ Crash(COMMANDER) \/ Restart(COMMANDER)
  PROVE  \E m : MovesTo(COMMANDER, m) /\ (KeepsReport(m) \/ LooksReportUp(m))
<1> DEFINE r == COMMANDER
<1>1. r \in Agents /\ Context(r) \in Contexts
  BY Roles, InvParts DEF SoundMemory, SoundContext, Context
<1>2. ASSUME NEW ctx, Finished(r, ctx), ctx.known => Context(r).known,
             ctx.report = Context(r).report, ctx.older = Context(r).older
      PROVE  \E m : MovesTo(COMMANDER, m) /\ KeepsReport(m)
  BY <1>2, FinishedMoves DEF KeepsReport
<1>3. ASSUME NEW m, MovesTo(r, m), m.ctx = agent[r].ctx
      PROVE  \E x : MovesTo(COMMANDER, x) /\ KeepsReport(x)
  BY <1>3 DEF KeepsReport, Context
<1>4. [Context(r) EXCEPT !.submitted = TRUE].known = Context(r).known
      /\ [Context(r) EXCEPT !.submitted = TRUE].report = Context(r).report
      /\ [Context(r) EXCEPT !.submitted = TRUE].older = Context(r).older
  BY <1>1 DEF Contexts
<1>5. CASE Crash(r) \/ Restart(r)
  BY <1>5, FreshMoves DEF Crash, Restart, KeepsReport, NoContext
<1>6. CASE Submission(r)
  <2>1. CASE Lost(r)
    BY <1>1, <1>3, <2>1, SkipMoves DEF Lost, Context
  <2>2. CASE Post(r)
    BY <1>1, <1>3, <2>2, PhaseMoves DEF Post, TurnsTo
  <2>3. CASE ConfirmedUnheard(r) \/ ConfirmRefused(r) \/ BrokenOff(r)
    BY <1>2, <2>3 DEF ConfirmedUnheard, ConfirmRefused, BrokenOff
  <2> QED
    BY <1>6, <2>1, <2>2, <2>3 DEF Submission
<1>7. CASE SubmitPlan \/ PlanConflict
  <2>1. PICK c, o : Submit(r, c, o) \/ \E b \in BOOLEAN : KeyConflict(r, c, o, b)
    BY <1>7 DEF SubmitPlan, PlanConflict
  <2>2. Finished(r, Context(r)) \/ \E i : TakesUp(r, i)
    BY <2>1 DEF Submit, Prepare, PrepareAgain, PrepareRefused, KeyConflict, TakesUp
  <2> QED
    BY <1>1, <1>2, <1>3, <2>2, InHandMoves
<1>8. CASE PlanConfirmed
  BY <1>1, <1>3, <1>8, PhaseMoves DEF PlanConfirmed, TurnsTo
<1>9. CASE OpenChallenge \/ RequestAuthorization \/ AuthorizationRefused
  BY <1>2, <1>4, <1>9 DEF OpenChallenge, RequestAuthorization, AuthorizationRefused, PlanSubmitted
<1>10. CASE \E page, ledger \in {published, {}} :
              Takes(page, ledger)
  BY <1>10, CommanderLooksUp
<1> QED
  BY <1>5, <1>6, <1>7, <1>8, <1>9, <1>10 DEF CommanderStep

\* So the Commander plans for the Assessment that was reviewed.
LEMMA PlanReportStep ==
  ASSUME AgentsInv, PlanningInv, [Next]_vars, ReviewedOnce', ReviewInv, ReviewedOnce
  PROVE  PlansAsReviewed'
<1>1. /\ RoomSound /\ Keeps /\ ChainStep /\ PlannedAfterReview /\ OwnCards /\ SevereIsHighRisk
      /\ agent \in [Agents -> Memory]
  BY InvParts, EveryStep, ChainKept DEF PlanningInv
<1>2. RoutedOnce /\ ReviewIsLinear /\ ReviewInState /\ PlansAsReviewed
  BY DEF ReviewInv
<1>3. ASSUME Confirmed PROVE \A i \in DOMAIN cards' \ DOMAIN cards : cards'[i].type # "Assessment"
  <2>1. ASSUME NEW d, NEW o, Extends(d, o), d.type # "Assessment"
        PROVE  \A i \in DOMAIN cards' \ DOMAIN cards : cards'[i].type # "Assessment"
    BY <2>1 DEF Extends
  <2>2. ASSUME NEW r \in Agents, NEW c, NEW o, Seals(r, c, o) PROVE c.type # "Assessment"
    BY <1>2, <1>3, <2>2, ConfirmEnds, Roles DEF Seals, Agents
  <2> QED
    BY <1>1, <2>1, <2>2, SealExtends, DecisionExtends, PublicationKeeps, RestKeeps DEF ChainStep
<1>4. ASSUME NEW report, NEW older, PlansFor(report, older)
      PROVE  /\ PlansFor(report, older)'
             /\ LastSealed("Assessment")' = LastSealed("Assessment")
             /\ origin'[LastSealed("Assessment")] = origin[LastSealed("Assessment")]
  BY <1>1, <1>3, <1>4, ReportStays DEF PlansFor
<1>5. Refusals # {} => Confirmed
  BY <1>1, <1>2 DEF PlannedAfterReview, PlansAsReviewed, PlansFor
<1>6. ASSUME NEW m, MovesTo(COMMANDER, m), KeepsReport(m) \/ LooksReportUp(m), m.ctx.known
      PROVE  PlansFor(m.ctx.report, m.ctx.older)'
  <2>1. PlansFor(m.ctx.report, m.ctx.older)
    BY <1>2, <1>5, <1>6 DEF KeepsReport, LooksReportUp, PlansAsReviewed, PlansFor
  <2> QED
    BY <1>4, <2>1
<1>7. ASSUME NEW x, NEW y, agent'[COMMANDER].ctx.known,
             x = agent'[COMMANDER].ctx.report, y = agent'[COMMANDER].ctx.older
      PROVE  PlansFor(x, y)'
  <2>1. CASE agent'[COMMANDER] = agent[COMMANDER]
    BY <1>2, <1>4, <1>7, <2>1 DEF PlansAsReviewed, Context
  <2>2. CASE CommanderStep \/ Crash(COMMANDER) \/ Restart(COMMANDER)
    <3>1. PICK m : MovesTo(COMMANDER, m) /\ (KeepsReport(m) \/ LooksReportUp(m))
      BY <2>2, CommanderKeepsReport
    <3>2. agent'[COMMANDER] = m
      BY <1>1, <3>1, Roles DEF MovesTo
    <3> QED
      BY <1>6, <1>7, <3>1, <3>2
  <2>3. ASSUME NEW r \in Agents, Owns(r), r # COMMANDER PROVE agent'[COMMANDER] = agent[COMMANDER]
    BY <1>1, <2>3, Roles DEF Owns, MovesTo
  <2> QED
    BY <1>1, <2>1, <2>2, <2>3, WhoMoves
<1>8. ASSUME NEW i \in Plans', NEW x, NEW y, x = origin'[i].report, y = origin'[i].older
      PROVE  PlansFor(x, y)' /\ RiskFollows(i)'
  <2>1. CASE i \in DOMAIN cards
    <3>1. i \in Plans /\ origin'[i] = origin[i] /\ cards'[i] = cards[i]
      BY <1>1, <1>8, <2>1 DEF Keeps, Plans
    <3>2. PlansFor(origin[i].report, origin[i].older) /\ RiskFollows(i)
      BY <1>2, <3>1 DEF PlansAsReviewed
    <3> QED
      BY <1>4, <1>8, <3>1, <3>2 DEF RiskFollows
  <2>2. ASSUME NEW d, NEW o, Extends(d, o), d.type # "ResponsePlan" PROVE i \in DOMAIN cards
    BY <1>8, <2>2 DEF Extends, Plans
  <2>3. ASSUME NEW r \in Agents, NEW c, NEW o, Seals(r, c, o), i \notin DOMAIN cards
        PROVE  PlansFor(x, y)' /\ RiskFollows(i)'
    <3>1. PICK d \in Card : /\ Extends(d, o) /\ d.type = Answer(r)
                            /\ c.type = "ResponsePlan" /\ FloorIsHigh => d.risk = "high"
      BY <1>1, <2>3, SealExtends DEF Seals
    <3>2. r = COMMANDER /\ c.type = "ResponsePlan"
      BY <2>2, <2>3, <3>1, Roles DEF Agents, Seals
    <3>3. /\ o.report = Context(COMMANDER).report /\ o.older = Context(COMMANDER).older
          /\ Context(COMMANDER).known
      BY <2>3, <3>2, AtWork DEF Seals, PlanOrigin, NoOrigin
    <3>4. origin'[i] = o /\ cards'[i] = d
      BY <1>8, <2>3, <3>1 DEF Extends, Plans
    <3>5. PlansFor(x, y)
      BY <1>2, <1>8, <3>3, <3>4 DEF PlansAsReviewed
    <3>6. PICK last : last = LastSealed("Assessment")
      OBVIOUS
    <3>7. /\ last \in DOMAIN cards /\ cards[last].type = "Assessment"
          /\ \A j \in DOMAIN cards : cards[j].type = "Assessment" => j <= last
      BY <1>1, <3>5, <3>6, LastSealedIsLast DEF PlansFor
    <3>8. origin[last].report.severity = "P1" => d.risk = "high"
      <4>1. ASSUME cards[last].risk = "high" PROVE FloorIsHigh
        <5>1. \A j \in DOMAIN cards : j > last => cards[j].type # "Assessment"
          BY <1>1, <3>7, InRange
        <5> QED
          BY <3>7, <4>1, <5>1 DEF FloorIsHigh
      <4> QED
        BY <1>1, <3>1, <3>2, <3>7, <4>1 DEF SevereIsHighRisk
    <3>9. PlansFor(x, y)' /\ LastSealed("Assessment")' = last /\ origin'[last] = origin[last]
      BY <1>4, <3>5, <3>6
    <3> QED
      BY <3>4, <3>8, <3>9 DEF RiskFollows
  <2>4. ASSUME NEW c, NEW o, NEW j, Decides(c, o, j) PROVE i \in DOMAIN cards
    BY <1>1, <2>2, <2>4, DecisionExtends
  <2>5. ASSUME UNCHANGED cards PROVE i \in DOMAIN cards
    BY <1>8, <2>5 DEF Plans
  <2> QED
    BY <1>1, <2>1, <2>3, <2>4, <2>5, PublicationKeeps, RestKeeps DEF ChainStep
<1> QED
  BY <1>7, <1>8 DEF PlansAsReviewed, Context, PlansFor

LEMMA ReviewInit == Init => ReviewInv
<1> SUFFICES ASSUME Init PROVE ReviewInv
  OBVIOUS
<1>1. DOMAIN cards = {1} /\ cards[1].type = "TriageDecision" /\ state = "DETECTED"
  BY DEF Init
<1>2. Reviews = {} /\ Plans = {}
  BY <1>1 DEF Reviews, Plans
<1>3. ~Context(COMMANDER).known
  BY Roles DEF Init, Fresh, NoContext, Context
<1>4. RoutedOnce
  BY <1>1 DEF RoutedOnce
<1>5. ReviewIsLinear /\ ReviewInState
  BY <1>1, <1>2 DEF ReviewIsLinear, ReviewInState, BeforeReview
<1> QED
  BY <1>2, <1>3, <1>4, <1>5 DEF ReviewInv, PlansAsReviewed

LEMMA ReviewInvStep == AgentsInv /\ PlanningInv /\ ReviewInv /\ [Next]_vars => ReviewInv'
<1> SUFFICES ASSUME AgentsInv, PlanningInv, ReviewInv, [Next]_vars PROVE ReviewInv'
  OBVIOUS
<1>1. RoutedOnce'
  BY InvParts, EveryStep, RoutedStep DEF ReviewInv
<1>2. ASSUME ReviewedOnce' PROVE ReviewIsLinear' /\ ReviewInState' /\ PlansAsReviewed'
  <2>1. ReviewedOnce
    BY <1>2, AskedStays
  <2> QED
    BY <1>2, <2>1, ReviewStays, PlanReportStep DEF ReviewInv
<1> QED
  BY <1>1, <1>2 DEF ReviewInv

\* diagnosis/__init__.py, safety_reviewer/__init__.py, submission.py: as long as no question
\* is answered twice the review is a line of published cards, each the answer to the one
\* before, the incident is where its end has left it, and the Commander plans for an
\* Assessment of it: the last one, unless its lookup failed.  That holds for any faults and
\* any budget of challenges.
THEOREM ReviewInvariance == Spec => []ReviewInv
BY ReviewInit, ReviewInvStep, AgentsInvariance, PlanningInvariance, PTL DEF Spec

LEMMA InForceBefore ==
  ASSUME RoomSound, NEW i \in Nat, NEW a \in published, cards[a].type = "Assessment", a < i,
         \A j \in published : cards[j].type = "Assessment" /\ j < i => j <= a
  PROVE  AssessmentBefore(i) = a
<1> DEFINE found == {j \in published : cards[j].type = "Assessment" /\ j < i}
<1>1. AssessmentBefore(i) = IF found = {} THEN 0 ELSE CHOOSE j \in found : \A k \in found : k <= j
  BY DEF AssessmentBefore
<1>2. found \in SUBSET Nat /\ a \in found /\ \A j \in found : j <= a
  BY InRange
<1> HIDE DEF found
<1>3. (CHOOSE j \in found : \A k \in found : k <= j) = a
  BY <1>2, GreatestIsUnique
<1> QED
  BY <1>1, <1>2, <1>3

\* The verdict of a line is about the Assessment before it.
LEMMA VerdictInForce ==
  ASSUME RoomSound, ReviewIsLinear, NEW i \in Reviews, cards[i].type = "Verdict"
  PROVE  Asked(i) = AssessmentBefore(i)
<1> DEFINE a == Asked(i)
<1>1. /\ i \in Nat /\ a \in Nat /\ a < i /\ a \in DOMAIN cards /\ cards[a].type = "Assessment"
  BY ReviewAsks DEF AsksFor
<1>2. a \in published
  BY <1>1 DEF ReviewIsLinear, Reviews
<1>3. ASSUME NEW j \in published, cards[j].type = "Assessment", j < i PROVE j <= a
  BY <1>3, InRange DEF ReviewIsLinear, Reviews
<1> HIDE DEF a
<1>4. AssessmentBefore(i) = a
  BY <1>1, <1>2, <1>3, InForceBefore
<1> QED
  BY <1>4 DEF a

\* A CONFIRM is about the Assessment in force, whatever fails, unless some Assessment or
\* challenge has two answers: /confirm need not look which Assessment a verdict is about.
THEOREM EvidenceInForce == Spec => [](ReviewedOnce => ConfirmsEvidenceInForce)
<1>1. ASSUME AgentsInv, ReviewInv, ReviewedOnce PROVE ConfirmsEvidenceInForce
  <2>1. RoomSound /\ ReviewIsLinear /\ published \subseteq DOMAIN cards
    BY <1>1, InvParts, InRange DEF ReviewInv
  <2>2. ASSUME NEW i \in published, IsConfirm(cards[i]) PROVE Asked(i) = AssessmentBefore(i)
    BY <2>1, <2>2, VerdictInForce DEF Reviews, IsConfirm
  <2> QED
    BY <2>2 DEF ConfirmsEvidenceInForce
<1>2. AgentsInv /\ ReviewInv => (ReviewedOnce => ConfirmsEvidenceInForce)
  BY <1>1
<1> QED
  BY <1>2, AgentsInvariance, ReviewInvariance, PTL

\* commander/__init__.py _fetch_assessment: the Assessment sealed last, which the Commander
\* reads without looking whether it was reviewed, is the one that was, whatever fails,
\* unless some Assessment or challenge has two answers.  If it cannot read it and takes one
\* from the room, that is a published one, and maybe older.  A plan against a P1 is of high
\* risk in any case, and one for a report of P1 or P2.
THEOREM PlansFollow == Spec => [](ReviewedOnce => PlansFollowReview)
<1>1. ASSUME AgentsInv, PlanningInv, ReviewInv, ReviewedOnce PROVE PlansFollowReview
  <2>1. /\ RoomSound /\ ReviewIsLinear /\ PlansAsReviewed
        /\ PlannedAfterReview /\ SevereIsHighRisk
    BY <1>1, InvParts DEF ReviewInv, PlanningInv
  <2>2. SUFFICES ASSUME NEW i \in DOMAIN cards, cards[i].type = "ResponsePlan",
                        NEW reviewed, reviewed = origin[AssessmentBefore(i)].report
                 PROVE  /\ ~origin[i].older => origin[i].report = reviewed
                        /\ \E j \in published : /\ cards[j].type = "Assessment" /\ j < i
                                                /\ origin[j].report = origin[i].report
                        /\ reviewed.severity = "P1" => cards[i].risk = "high"
                        /\ origin[i].report.severity \in {"P1", "P2"} => cards[i].risk = "high"
    BY DEF PlansFollowReview
  <2>3. i \in Plans /\ i \in Nat
    BY <2>1, <2>2, InRange DEF Plans
  <2>4. PlansFor(origin[i].report, origin[i].older) /\ RiskFollows(i)
    BY <2>1, <2>3 DEF PlansAsReviewed
  <2>5. PICK v \in DOMAIN cards : IsConfirm(cards[v])
    BY <2>4 DEF PlansFor, Confirmed
  <2>6. v \in Reviews /\ v < i /\ \A j \in Reviews : j \in Nat /\ j <= v
    BY <2>1, <2>3, <2>5, ConfirmIsLast DEF PlannedAfterReview, IsConfirm
  <2>7. ASSUME NEW j \in DOMAIN cards, cards[j].type = "Assessment"
        PROVE  j \in published /\ j < i
    <3>1. j \in Reviews /\ j < v
      BY <2>5, <2>6, <2>7 DEF Reviews, IsConfirm
    <3> QED
      BY <2>1, <2>3, <2>6, <3>1 DEF ReviewIsLinear
  <2>8. PICK last : last = LastSealed("Assessment")
    OBVIOUS
  <2>9. /\ last \in DOMAIN cards /\ cards[last].type = "Assessment"
        /\ \A j \in DOMAIN cards : cards[j].type = "Assessment" => j <= last
    BY <2>1, <2>4, <2>8, LastSealedIsLast DEF PlansFor
  <2>10. \A j \in published : cards[j].type = "Assessment" /\ j < i => j <= last
    BY <2>1, <2>9, InRange
  <2>11. AssessmentBefore(i) = last
    BY <2>1, <2>3, <2>7, <2>9, <2>10, InForceBefore
  <2>12. ~origin[i].older => origin[i].report = reviewed
    BY <2>2, <2>4, <2>8, <2>11 DEF PlansFor
  <2>13. PICK a \in DOMAIN cards : cards[a].type = "Assessment" /\ origin[i].report = origin[a].report
    BY <2>4 DEF PlansFor
  <2>14. reviewed.severity = "P1" => cards[i].risk = "high"
    BY <2>2, <2>4, <2>8, <2>11 DEF RiskFollows
  <2>15. origin[i].report.severity \in {"P1", "P2"} => cards[i].risk = "high"
    BY <2>1, <2>3 DEF SevereIsHighRisk, LowSeverity
  <2> QED
    BY <2>7, <2>12, <2>13, <2>14, <2>15
<1>2. AgentsInv /\ PlanningInv /\ ReviewInv => (ReviewedOnce => PlansFollowReview)
  BY <1>1
<1> QED
  BY <1>2, AgentsInvariance, PlanningInvariance, ReviewInvariance, PTL

-------------------------------------------------------------------------------
(* Every step: what an agent does, and with what in hand.                      *)

\* An agent has no new question, and stays so.
Waits(r, m) == agent[r].pc = "poll" /\ m.pc = "poll" /\ UNCHANGED roomVars

\* It takes its next message.  If its lookups are answered, there is nothing newer than the
\* card in it; a challenge may be older, but it is not answered as it should be.
StillOpen(r, m) ==
  IF r = DIAGNOSIS /\ IsChallenge(cards[NextCard(r)])
  THEN /\ ~ChallengeAlreadyAnswered(published, NextCard(r))
       /\ ChallengedContext(published).known
       /\ m.ctx.revision = ChallengedContext(published).revision + 1
  ELSE ~StaleCard(published, NextCard(r))
TakesOn(r, m) ==
  /\ Receives(r) /\ m.pc = "reason" /\ m.msg = NextMessage(r) /\ UNCHANGED roomVars
  /\ faults' = faults => StillOpen(r, m)
  /\ r = DIAGNOSIS =>
       /\ m.ctx.known /\ ~m.ctx.submitted /\ m.ctx.revision >= 1
       /\ IsChallenge(cards[NextCard(r)]) => m.ctx.revision >= 2

\* It seals an answer, or has one sealed before.
Answered(r, m) ==
  /\ m.pc = "post" /\ m.card = Len(cards) + 1 /\ UNCHANGED messages
  /\ \E c, o : Seals(r, c, o) /\ (r = DIAGNOSIS => o.rev = Context(r).revision)
Resumes(r, m) ==
  /\ agent[r].pc = "reason" /\ m.pc = "post" /\ UNCHANGED <<roomVars, faults>>
  /\ m.card \in DOMAIN cards /\ cards[m.card].type = Answer(r)
  /\ origin[m.card].msg = agent[r].msg
  /\ r = DIAGNOSIS => origin[m.card].rev = Context(r).revision

\* It posts its answer, ...
Puts(r, m) ==
  /\ Post(r) /\ m.pc = "confirm" /\ m.card = agent[r].card
  /\ UNCHANGED <<state, cards, published, origin>>

\* ... has it confirmed, ...
Finishes(r, m) == Confirms(r) /\ m.pc \in {"poll", "authorize"}

\* ... or is done with it otherwise: its work is broken off, or for a reason.
GivesUp(r, m) ==
  /\ agent[r].pc # "poll" /\ m.pc = "poll" /\ UNCHANGED roomVars
  /\ agent[r].pc \in {"post", "confirm"} =>
       \/ faults' # faults
       \/ LET i == agent[r].card IN i \in published \/ ~StateAllows(i) \/ ~NotStale(i)
Authorizes(r, m) ==
  /\ agent[r].pc = "authorize" /\ m.pc = "poll" /\ UNCHANGED messages
  /\ \E c, o, j : Decides(c, o, j)

\* Only when Diagnosis takes a message does its context change, but for the mark that the
\* answer is submitted.
KeepsContext(r, m) ==
  \/ m.pc = "poll" /\ m.ctx = NoContext
  \/ m.ctx = Context(r)
  \/ agent[r].pc # "poll" /\ m.ctx = [Context(r) EXCEPT !.submitted = TRUE]

Behaves(r, m) ==
  /\ MovesTo(r, m)
  /\ \/ Waits(r, m) \/ TakesOn(r, m) \/ Answered(r, m) \/ Resumes(r, m) \/ Puts(r, m)
     \/ Finishes(r, m) \/ GivesUp(r, m) \/ Authorizes(r, m)
  /\ r = DIAGNOSIS => TakesOn(r, m) \/ KeepsContext(r, m)

\* Done with a message.
LEMMA GivingUp ==
  ASSUME AgentsInv, NEW r \in Agents, NEW ctx, Finished(r, ctx), agent[r].pc # "poll",
         UNCHANGED roomVars,
         agent[r].pc \in {"post", "confirm"} =>
           \/ faults' # faults
           \/ LET i == agent[r].card IN i \in published \/ ~StateAllows(i) \/ ~NotStale(i),
         r = DIAGNOSIS => ctx = Context(r)
  PROVE  \E m : Behaves(r, m)
<1>1. PICK m : MovesTo(r, m) /\ m.pc = "poll" /\ m.ctx = ctx
  BY FinishedMoves
<1>2. GivesUp(r, m)
  BY <1>1 DEF GivesUp
<1>3. r = DIAGNOSIS => KeepsContext(r, m)
  BY <1>1 DEF KeepsContext
<1> QED
  BY <1>1, <1>2, <1>3 DEF Behaves

\* A fault is a step of its own.
LEMMA FaultShows ==
  ASSUME AgentsInv, Fault
  PROVE  faults' # faults
<1>1. faults \in 0..MaxFaults
  BY InvParts
<1> QED
  BY <1>1, AgentAssumption DEF Fault

LEMMA SubmitBehaves ==
  ASSUME AgentsInv, NEW r \in Agents, NEW c \in AgentCards, NEW o,
         agent[r].pc = "reason", c.type = Answer(r), o.msg = agent[r].msg,
         r = COMMANDER => c = PlanCard /\ o = PlanOrigin,
         c.type = "Assessment" /\ o.report.severity = "P1" => c.risk = "high",
         r = DIAGNOSIS => o.rev = Context(r).revision,
         Submit(r, c, o) \/ \E b \in BOOLEAN : KeyConflict(r, c, o, b)
  PROVE  \E m : Behaves(r, m)
<1>1. CASE Prepare(r, c, o)
  <2>1. PICK n : n = Len(cards) + 1 /\ TakesUp(r, n)
    BY <1>1 DEF Prepare, TakesUp
  <2>2. PICK m : MovesTo(r, m) /\ m.pc = "post" /\ m.card = n /\ m.ctx = agent[r].ctx
    BY <2>1, InHandMoves
  <2>3. Seals(r, c, o) /\ UNCHANGED messages
    BY <1>1 DEF Seals, Prepare
  <2>4. Answered(r, m)
    BY <2>1, <2>2, <2>3 DEF Answered
  <2> QED
    BY <2>2, <2>4 DEF Behaves, KeepsContext, Context
<1>2. CASE PrepareAgain(r, c, o)
  <2>1. PICK i \in SealedFor(c, o) : SamePayload(i, c, o) /\ TakesUp(r, i)
    BY <1>2 DEF PrepareAgain, TakesUp
  <2>2. PICK m : MovesTo(r, m) /\ m.pc = "post" /\ m.card = i /\ m.ctx = agent[r].ctx
    BY <2>1, InHandMoves
  <2>3. /\ i \in DOMAIN cards /\ cards[i].type = Answer(r)
        /\ origin[i].msg = o.msg /\ origin[i].rev = o.rev
    <3>1. i \in DOMAIN cards /\ cards[i].type = Answer(r) /\ origin[i] \in Origin
      BY <2>1, InvParts, InRange DEF SealedFor
    <3> QED
      BY <2>1, <3>1 DEF SamePayload, Origin
  <2>4. Resumes(r, m)
    BY <1>2, <2>2, <2>3 DEF Resumes, PrepareAgain
  <2> QED
    BY <2>2, <2>4 DEF Behaves, KeepsContext, Context
<1>3. CASE PrepareRefused(r, c, o) \/ \E b \in BOOLEAN : KeyConflict(r, c, o, b)
  <2>1. Finished(r, Context(r)) /\ UNCHANGED roomVars
    BY <1>3 DEF PrepareRefused, KeyConflict
  <2> QED
    BY <2>1, GivingUp
<1> QED
  BY <1>1, <1>2, <1>3 DEF Submit

LEMMA SubmissionBehaves ==
  ASSUME AgentsInv, NEW r \in Agents, Submission(r) \/ Crash(r) \/ Restart(r)
  PROVE  \E m : Behaves(r, m)
<1>1. CASE Lost(r)
  <2>1. PICK m : MovesTo(r, m) /\ m.pc = "poll" /\ m.ctx = Context(r)
    BY <1>1, SkipMoves DEF Lost
  <2>2. Waits(r, m)
    BY <1>1, <2>1 DEF Lost, Receives, Skip, Waits
  <2> QED
    BY <2>1, <2>2 DEF Behaves, KeepsContext
<1>2. CASE Post(r)
  <2>1. PICK m : MovesTo(r, m) /\ m.pc = "confirm" /\ m.card = agent[r].card /\ m.ctx = agent[r].ctx
    BY <1>2, PhaseMoves DEF Post, TurnsTo
  <2>2. Puts(r, m)
    BY <1>2, <2>1 DEF Puts, Post, PostCard, ledgerVars
  <2> QED
    BY <2>1, <2>2 DEF Behaves, KeepsContext, Context
<1>3. CASE ConfirmedUnheard(r)
  <2>1. PICK m : MovesTo(r, m) /\ m.pc = "poll" /\ m.ctx = Context(r)
    BY <1>3, FinishedMoves DEF ConfirmedUnheard
  <2>2. Finishes(r, m)
    BY <1>3, <2>1 DEF ConfirmedUnheard, Finishes
  <2> QED
    BY <2>1, <2>2 DEF Behaves, KeepsContext
<1>4. CASE ConfirmRefused(r)
  <2>1. Finished(r, Context(r)) /\ UNCHANGED roomVars /\ agent[r].pc = "confirm"
    BY <1>4 DEF ConfirmRefused
  <2>2. LET i == agent[r].card IN i \in published \/ ~StateAllows(i) \/ ~NotStale(i)
    BY <1>4 DEF ConfirmRefused
  <2> QED
    BY <2>1, <2>2, GivingUp
<1>5. CASE BrokenOff(r)
  <2>1. Finished(r, Context(r)) /\ UNCHANGED roomVars /\ agent[r].pc # "poll" /\ faults' # faults
    BY <1>5, FaultShows DEF BrokenOff
  <2> QED
    BY <2>1, GivingUp
<1>6. CASE Crash(r)
  <2>1. PICK m : MovesTo(r, m) /\ m.pc = "poll" /\ m.ctx = NoContext
    BY <1>6, FreshMoves DEF Crash
  <2>2. UNCHANGED roomVars /\ agent[r].pc # "poll" /\ faults' # faults
    BY <1>6, FaultShows DEF Crash
  <2>3. GivesUp(r, m)
    BY <2>1, <2>2 DEF GivesUp
  <2> QED
    BY <2>1, <2>3 DEF Behaves, KeepsContext
<1>7. CASE Restart(r)
  <2>1. PICK m : MovesTo(r, m) /\ m.pc = "poll" /\ m.ctx = NoContext
    BY <1>7, FreshMoves DEF Restart
  <2>2. Waits(r, m)
    BY <1>7, <2>1 DEF Restart, Waits
  <2> QED
    BY <2>1, <2>2 DEF Behaves, KeepsContext
<1> QED
  BY <1>1, <1>2, <1>3, <1>4, <1>5, <1>6, <1>7 DEF Submission

LEMMA LookupsAnswered ==
  ASSUME AgentsInv, NEW page, NEW ledger, NEW rest, LooksUp(page, ledger, rest), faults' = faults
  PROVE  page = published /\ ledger = published
BY FaultShows DEF LooksUp

LEMMA PassesOver ==
  ASSUME AgentsInv, NEW r \in Agents, NEW ctx, Receives(r), Skip(r, ctx),
         r = DIAGNOSIS => ctx = Context(r)
  PROVE  \E m : Behaves(r, m)
<1>1. PICK m : MovesTo(r, m) /\ m.pc = "poll" /\ m.ctx = ctx
  BY SkipMoves
<1>2. Waits(r, m)
  BY <1>1 DEF Receives, Skip, Waits
<1> QED
  BY <1>1, <1>2 DEF Behaves, KeepsContext

LEMMA DiagnosisTurns ==
  ASSUME AgentsInv, ChallengesRevise, NEW page \in {published, {}}, NEW ledger \in {published, {}},
         TakeChallenge(page, ledger) \/ TakeRouting(page)
  PROVE  \E m : Behaves(DIAGNOSIS, m)
<1> DEFINE r == DIAGNOSIS
           q == NextCard(r)
<1>1. r \in Agents /\ Receives(r)
  BY Roles, DiagnosisTakes
<1>2. CASE TakeRouting(page)
  <2>1. PICK ctx : ctx = [NoContext EXCEPT !.known = TRUE, !.revision = 1]
    OBVIOUS
  <2>2. ctx.known /\ ~ctx.submitted /\ ctx.revision = 1
    BY <2>1 DEF NoContext
  <2>3. CASE Skip(r, Context(r))
    BY <1>1, <2>3, PassesOver
  <2>4. CASE ~IgnoresRouting(page) /\ Accept(r, ctx)
    <3>1. PICK m : MovesTo(r, m) /\ m.pc = "reason" /\ m.ctx = ctx /\ m.msg = NextMessage(r)
      BY <1>1, <2>4, AcceptMoves
    <3>2. ~IsChallenge(cards[q]) /\ ~StaleCard(page, q) /\ LooksUp(page, published, TRUE)
      BY <1>2, <2>4 DEF TakeRouting, IgnoresRouting, IsChallenge
    <3>3. faults' = faults => StillOpen(r, m)
      BY <3>2, LookupsAnswered DEF StillOpen
    <3>4. TakesOn(r, m)
      BY <1>1, <2>2, <2>4, <3>1, <3>2, <3>3 DEF TakesOn, Accept
    <3> QED
      BY <3>1, <3>4 DEF Behaves
  <2> QED
    BY <1>2, <2>1, <2>3, <2>4 DEF TakeRouting
<1>3. CASE TakeChallenge(page, ledger)
  <2>1. PICK base, ctx, n :
          /\ base = ChallengedContext(ledger) /\ n = base.revision + 1
          /\ ctx = [base EXCEPT !.submitted = FALSE, !.revision = n]
    OBVIOUS
  <2>2. CASE Skip(r, Context(r))
    BY <1>1, <2>2, PassesOver
  <2>3. CASE ~IgnoresChallenge(page, ledger) /\ Accept(r, ctx)
    <3>1. PICK m : MovesTo(r, m) /\ m.pc = "reason" /\ m.ctx = ctx /\ m.msg = NextMessage(r)
      BY <1>1, <2>3, AcceptMoves
    <3>2. /\ IsChallenge(cards[q]) /\ LooksUp(page, ledger, TRUE)
          /\ ~ChallengeAlreadyAnswered(ledger, q) /\ base.submitted
      BY <1>3, <2>1, <2>3 DEF TakeChallenge, IgnoresChallenge
    <3>3. Context(r) \in Contexts /\ ChallengesIn(ledger) \in Nat
      <4>1. SoundMemory(r, agent[r]) /\ RoomSound
        BY <1>1, InvParts
      <4>2. Len(cards) \in Nat /\ ledger \subseteq 1..Len(cards)
        BY <4>1, InRange
      <4> HIDE DEF r
      <4>3. PICK S : S = {j \in ledger : IsChallenge(cards[j])}
        OBVIOUS
      <4>4. S \subseteq 1..Len(cards)
        BY <4>2, <4>3
      <4>5. IsFiniteSet(1..Len(cards))
        BY <4>2, FS_Interval
      <4>6. IsFiniteSet(S)
        BY <4>4, <4>5, FS_Subset
      <4> QED
        BY <4>1, <4>3, <4>6, FS_CardinalityType DEF SoundMemory, SoundContext, Context, ChallengesIn
    <3>4. base.known /\ base.revision \in Nat /\ base.revision >= 1
      <4>1. CASE base = Context(r)
        BY <3>2, <3>3, <4>1 DEF ChallengesRevise, Context, Contexts
      <4>2. CASE base = RestoredDiagnosis(ledger)
        <5>1. PICK k \in Nat : k = ChallengesIn(ledger)
          BY <3>3
        <5>2. base = [NoContext EXCEPT !.known = TRUE, !.submitted = TRUE,
                                       !.revision = IF k > 1 THEN k ELSE 1]
          BY <4>2, <5>1 DEF RestoredDiagnosis
        <5> QED
          BY <5>1, <5>2 DEF NoContext
      <4> QED
        BY <2>1, <4>1, <4>2 DEF ChallengedContext
    <3>5. ctx.known /\ ~ctx.submitted /\ ctx.revision = n
      <4>1. base \in Contexts \/ base = RestoredDiagnosis(ledger)
        BY <2>1, <3>3 DEF ChallengedContext
      <4> QED
        BY <2>1, <3>4, <4>1 DEF Contexts, RestoredDiagnosis, NoContext
    <3>6. faults' = faults => StillOpen(r, m)
      BY <2>1, <3>1, <3>2, <3>4, <3>5, LookupsAnswered DEF StillOpen
    <3>7. TakesOn(r, m)
      BY <1>1, <2>1, <2>3, <3>1, <3>4, <3>5, <3>6 DEF TakesOn, Accept
    <3> QED
      BY <3>1, <3>7 DEF Behaves
  <2> QED
    BY <1>3, <2>1, <2>2, <2>3 DEF TakeChallenge
<1> QED
  BY <1>2, <1>3

LEMMA DiagnosisBehaves ==
  ASSUME AgentsInv, ChallengesRevise, DiagnosisStep
  PROVE  \E m : Behaves(DIAGNOSIS, m)
<1> DEFINE r == DIAGNOSIS
<1>1. r \in Agents /\ Answer(r) = "Assessment" /\ r # COMMANDER
  BY Roles
<1>2. CASE SubmitAssessment \/ AssessmentConflict
  <2>1. PICK report, c, o :
          /\ report \in Reports /\ c = AssessmentCard(report) /\ o = DiagnosisOrigin(report)
          /\ Submit(r, c, o) \/ KeyConflict(r, c, o, TRUE)
    BY <1>2 DEF SubmitAssessment, AssessmentConflict
  <2>2. c \in AgentCards /\ c.type = "Assessment"
    BY <2>1 DEF AssessmentCard, AgentCards
  <2>3. /\ o.msg = agent[r].msg /\ o.rev = Context(r).revision
        /\ o.report.severity = "P1" => c.risk = "high"
    BY <2>1 DEF AssessmentCard, DiagnosisOrigin, NoOrigin
  <2>4. agent[r].pc = "reason"
    BY <1>2 DEF SubmitAssessment, AssessmentConflict
  <2>5. \E m : Behaves(r, m)
    <3> HIDE DEF r
    <3> QED
      BY <1>1, <2>1, <2>2, <2>3, <2>4, SubmitBehaves
  <2> QED
    BY <2>5
<1>3. CASE AssessmentConfirmed
  <2>1. PICK ctx : Finished(r, ctx) /\ ctx = [Context(r) EXCEPT !.submitted = TRUE]
    BY <1>3 DEF AssessmentConfirmed
  <2>2. PICK m : MovesTo(r, m) /\ m.pc = "poll" /\ m.ctx = ctx
    BY <2>1, FinishedMoves
  <2>3. Finishes(r, m) /\ KeepsContext(r, m)
    BY <1>3, <2>1, <2>2 DEF AssessmentConfirmed, Finishes, KeepsContext, Confirms
  <2> QED
    BY <2>2, <2>3 DEF Behaves
<1>4. CASE Submission(r)
  BY <1>1, <1>4, SubmissionBehaves
<1> QED
  BY <1>2, <1>3, <1>4, DiagnosisTurns DEF DiagnosisStep

LEMMA ReviewerBehaves ==
  ASSUME AgentsInv, ReviewerStep
  PROVE  \E m : Behaves(REVIEWER, m)
<1> DEFINE r == REVIEWER
<1>1. r \in Agents /\ Answer(r) = "Verdict" /\ r # COMMANDER /\ r # DIAGNOSIS
  BY Roles
<1>2. ASSUME NEW page, NEW ledger, TakeAssessment(page, ledger)
      PROVE  \E m : Behaves(r, m)
  <2>1. PICK ctx : \/ Skip(r, ctx)
                   \/ ~IgnoresAssessment(page, ledger) /\ Accept(r, ctx)
    BY <1>2 DEF TakeAssessment
  <2>2. Receives(r) /\ LooksUp(page, ledger, TRUE)
    BY <1>2 DEF TakeAssessment
  <2>3. CASE Skip(r, ctx)
    BY <1>1, <2>2, <2>3, PassesOver
  <2>4. CASE ~IgnoresAssessment(page, ledger) /\ Accept(r, ctx)
    <3>1. PICK m : MovesTo(r, m) /\ m.pc = "reason" /\ m.msg = NextMessage(r)
      BY <1>1, <2>4, AcceptMoves
    <3>2. faults' = faults => StillOpen(r, m)
      BY <1>1, <2>2, <2>4, LookupsAnswered DEF StillOpen, IgnoresAssessment
    <3>3. TakesOn(r, m)
      BY <1>1, <2>2, <2>4, <3>1, <3>2 DEF TakesOn, Accept
    <3> QED
      BY <1>1, <3>1, <3>3 DEF Behaves
  <2> QED
    BY <2>1, <2>3, <2>4
<1>3. CASE SubmitVerdict \/ VerdictConflict
  <2>1. PICK c, o : c = VerdictCard /\ o = ReviewerOrigin
    OBVIOUS
  <2>2. agent[r].pc = "reason"
    BY <1>3 DEF SubmitVerdict, VerdictConflict
  <2>3. c \in AgentCards /\ c.type = "Verdict" /\ o.msg = agent[r].msg
    BY <2>1, <2>2, VerdictIsCard DEF ReviewerOrigin, NoOrigin
  <2>4. Submit(r, c, o) \/ \E b \in BOOLEAN : KeyConflict(r, c, o, b)
    <3>1. CASE SubmitVerdict
      BY <2>1, <3>1 DEF SubmitVerdict
    <3>2. CASE VerdictConflict
      <4>1. PICK b \in BOOLEAN : b = (VerdictCard.decision # "NEEDS_HUMAN")
        OBVIOUS
      <4>2. KeyConflict(r, c, o, b)
        BY <2>1, <3>2, <4>1 DEF VerdictConflict, KeyConflict
      <4> QED
        BY <4>2
    <3> QED
      BY <1>3, <3>1, <3>2
  <2>5. \E m : Behaves(r, m)
    <3> HIDE DEF r
    <3> QED
      BY <1>1, <2>2, <2>3, <2>4, SubmitBehaves
  <2> QED
    BY <2>5
<1>4. CASE VerdictConfirmed
  <2>1. PICK ctx : Finished(r, ctx) /\ Confirms(r)
    BY <1>4 DEF VerdictConfirmed
  <2>2. PICK m : MovesTo(r, m) /\ m.pc = "poll"
    BY <2>1, FinishedMoves
  <2>3. Finishes(r, m)
    BY <2>1, <2>2 DEF Finishes
  <2> QED
    BY <1>1, <2>2, <2>3 DEF Behaves
<1>5. CASE Submission(r)
  BY <1>1, <1>5, SubmissionBehaves
<1>6. \/ \E page, ledger \in {published, {}} : TakeAssessment(page, ledger)
      \/ SubmitVerdict \/ VerdictConflict \/ VerdictConfirmed \/ Submission(r)
  BY DEF ReviewerStep
<1> QED
  BY <1>2, <1>3, <1>4, <1>5, <1>6

LEMMA CommanderTurns ==
  ASSUME AgentsInv, NEW page, NEW ledger,
         Takes(page, ledger)
  PROVE  \E m : Behaves(COMMANDER, m)
<1> DEFINE r == COMMANDER
           i == NextCard(r)
<1>1. r \in Agents /\ r # DIAGNOSIS /\ Receives(r)
  BY Roles, CommanderReceives
<1>2. ASSUME NEW ctx, Skip(r, ctx) PROVE \E m : Behaves(COMMANDER, m)
  BY <1>1, <1>2, PassesOver
<1>3. ASSUME NEW ctx, NEW rest, Accept(r, ctx), LooksUp(page, ledger, rest), ~StaleCard(page, i)
      PROVE  \E m : Behaves(COMMANDER, m)
  <2>1. PICK m : MovesTo(r, m) /\ m.pc = "reason" /\ m.msg = NextMessage(r)
    BY <1>1, <1>3, AcceptMoves
  <2>2. faults' = faults => StillOpen(r, m)
    BY <1>1, <1>3, LookupsAnswered DEF StillOpen
  <2>3. TakesOn(r, m)
    BY <1>1, <1>3, <2>1, <2>2 DEF TakesOn, Accept
  <2> QED
    BY <1>1, <2>1, <2>3 DEF Behaves
<1>4. ASSUME NEW found, TakeConfirm(page, ledger, found) PROVE \E m : Behaves(COMMANDER, m)
  <2>1. LooksUp(page, ledger, ~IsOlder(found))
    BY <1>4 DEF TakeConfirm
  <2>2. \/ \E ctx : Skip(r, ctx)
        \/ ~StaleCard(page, i) /\ \E ctx : Accept(r, ctx)
    BY <1>4 DEF TakeConfirm, IgnoresConfirm
  <2> QED
    BY <1>2, <1>3, <2>1, <2>2
<1>5. ASSUME NEW anchor, NEW plan, NEW found, TakeRefusal(page, ledger, anchor, plan, found)
      PROVE  \E m : Behaves(COMMANDER, m)
  <2>1. PICK rest : LooksUp(page, ledger, rest)
    BY <1>5 DEF TakeRefusal
  <2>2. \/ \E ctx : Skip(r, ctx)
        \/ ~StaleCard(page, i) /\ \E ctx : Accept(r, ctx)
    BY <1>5, RefusalCases DEF IgnoresRefusal
  <2> QED
    BY <1>2, <1>3, <2>1, <2>2
<1> QED
  BY <1>4, <1>5 DEF Takes

LEMMA CommanderBehaves ==
  ASSUME AgentsInv, CommanderStep
  PROVE  \E m : Behaves(COMMANDER, m)
<1> DEFINE r == COMMANDER
<1>1. r \in Agents /\ Answer(r) = "ResponsePlan" /\ r # DIAGNOSIS
  BY Roles
<1>2. CASE SubmitPlan \/ PlanConflict
  <2>1. PICK c, o : c = PlanCard /\ o = PlanOrigin
    OBVIOUS
  <2>2. agent[r].pc = "reason" /\ (Submit(r, c, o) \/ \E b \in BOOLEAN : KeyConflict(r, c, o, b))
    BY <1>2, <2>1 DEF SubmitPlan, PlanConflict
  <2>3. c \in AgentCards /\ c.type = "ResponsePlan" /\ o.msg = agent[r].msg
    BY <2>1, <2>2, PlanIsSound DEF PlanOrigin, NoOrigin
  <2>4. \E m : Behaves(r, m)
    <3> HIDE DEF r
    <3> QED
      BY <1>1, <2>1, <2>2, <2>3, SubmitBehaves
  <2> QED
    BY <2>4
<1>3. CASE PlanConfirmed
  <2>1. TurnsTo(r, "authorize") /\ Confirms(r)
    BY <1>3 DEF PlanConfirmed, TurnsTo
  <2>2. PICK m : MovesTo(r, m) /\ m.pc = "authorize"
    BY <1>1, <2>1, PhaseMoves
  <2>3. Finishes(r, m)
    BY <2>1, <2>2 DEF Finishes
  <2> QED
    BY <1>1, <2>2, <2>3 DEF Behaves
<1>4. CASE OpenChallenge \/ AuthorizationRefused
  <2>1. PICK ctx : Finished(r, ctx) /\ agent[r].pc = "authorize" /\ UNCHANGED roomVars
    BY <1>4 DEF OpenChallenge, AuthorizationRefused, PlanSubmitted
  <2> QED
    BY <1>1, <2>1, GivingUp
<1>5. CASE RequestAuthorization
  <2>1. PICK ctx : Finished(r, ctx) /\ agent[r].pc = "authorize" /\ UNCHANGED messages
    BY <1>5 DEF RequestAuthorization, PlanSubmitted
  <2>2. PICK m : MovesTo(r, m) /\ m.pc = "poll"
    BY <2>1, FinishedMoves
  <2>3. Authorizes(r, m)
    BY <1>5, <2>1, <2>2, AuthorizationDecides DEF Authorizes
  <2> QED
    BY <1>1, <2>2, <2>3 DEF Behaves
<1>6. CASE Submission(r)
  BY <1>1, <1>6, SubmissionBehaves
<1>7. CASE \E page, ledger \in {published, {}} :
             Takes(page, ledger)
  BY <1>7, CommanderTurns
<1> QED
  BY <1>2, <1>3, <1>4, <1>5, <1>6, <1>7 DEF CommanderStep

\* What happens around the agents: a decision, a publication, or a message, of a card that
\* is no agent's.
Outside ==
  /\ UNCHANGED agent
  /\ \/ /\ UNCHANGED messages
        /\ \/ \E c, o, j : Decides(c, o, j)
           \/ \E i \in DOMAIN cards \ Answers : Publishes(i)
           \/ UNCHANGED roomVars
     \/ /\ \E i \in DOMAIN cards \ Answers :
             messages' = Append(messages, i) /\ (i \in room => faults' # faults)
        /\ UNCHANGED <<state, cards, published, origin>>

LEMMA OutsideStep ==
  ASSUME AgentsInv, RoutedOnce,
         \/ TriageConfirms \/ TriageRepeats \/ HumanDecides \/ UNCHANGED vars
         \/ \E i \in DOMAIN cards : GatewayPosts(i) \/ GatewayPublishes(i)
  PROVE  Outside
<1>1. RoomSound /\ 1 \in DOMAIN cards \ Answers
  <2>1. RoomSound /\ 1 \in DOMAIN cards
    BY InvParts, InRange DEF RoomSound, RoutingIsPosted
  <2> QED
    BY <2>1 DEF RoutedOnce, Answers, Reviews, Plans
<1>2. CASE TriageConfirms
  BY <1>1, <1>2 DEF TriageConfirms, Publishes, Outside
<1>3. CASE TriageRepeats
  BY <1>1, <1>3, FaultShows DEF TriageRepeats, Outside, ledgerVars
<1>4. CASE HumanDecides
  <2>1. \E c, o, j : Decides(c, o, j)
    BY <1>4, HumanSeals
  <2> QED
    BY <1>4, <2>1 DEF HumanDecides, Outside
<1>5. ASSUME NEW i \in DOMAIN cards, GatewayPosts(i) PROVE Outside
  <2>1. i \notin Answers
    BY <1>5 DEF GatewayPosts, Answers, Reviews, Plans
  <2>2. i \in room => faults' # faults
    BY <1>5, FaultShows DEF GatewayPosts
  <2> QED
    BY <1>5, <2>1, <2>2 DEF GatewayPosts, PostCard, ledgerVars, Outside
<1>6. ASSUME NEW i \in DOMAIN cards, GatewayPublishes(i) PROVE Outside
  <2>1. i \notin Answers
    BY <1>6 DEF GatewayPublishes, PublishAuthorization, PublishRefusal, IsAuthorization, IsRefusal,
                Answers, Reviews, Plans
  <2> QED
    BY <1>6, <2>1 DEF GatewayPublishes, Publishes, Outside
<1>7. CASE UNCHANGED vars
  BY <1>7 DEF vars, roomVars, Outside
<1> QED
  BY <1>2, <1>3, <1>4, <1>5, <1>6, <1>7

LEMMA EveryMove ==
  ASSUME AgentsInv, RoutedOnce, ChallengesRevise, [Next]_vars
  PROVE  Outside \/ \E r \in Agents : \E m : Behaves(r, m)
BY StepKinds, OutsideStep, DiagnosisBehaves, ReviewerBehaves, CommanderBehaves, SubmissionBehaves,
   Roles

-------------------------------------------------------------------------------
(* Answers and their questions.                                                *)

LEMMA AnswerAsks ==
  ASSUME RoomSound, NEW i \in Answers
  PROVE  /\ i \in DOMAIN cards /\ i \in Nat
         /\ origin[i].msg \in DOMAIN messages /\ origin[i].msg # 0
         /\ Asked(i) \in DOMAIN cards /\ Asked(i) \in Nat /\ Asked(i) < i
         /\ \E r \in Agents : cards[i].type = Answer(r) /\ Concerns(r, cards[Asked(i)])
<1>1. i \in DOMAIN cards
  BY DEF Answers, Reviews, Plans
<1>2. PICK r \in Agents : cards[i].type = Answer(r)
  BY Roles DEF Answers, Reviews, Plans
<1>3. /\ origin[i].msg \in DOMAIN messages /\ Asked(i) < i
      /\ Concerns(r, cards[Asked(i)])
  BY <1>1, <1>2 DEF RoomSound, AnswersConcern, Asked
<1>4. Asked(i) \in DOMAIN cards /\ DOMAIN cards \subseteq Nat /\ origin[i].msg # 0
  BY <1>3, InRange DEF Asked
<1> QED
  BY <1>1, <1>2, <1>3, <1>4

LEMMA AnswerOf ==
  ASSUME NEW i \in DOMAIN cards, NEW r \in Agents, cards[i].type = Answer(r)
  PROVE  i \in Answers
BY Roles DEF Agents, Answers, Reviews, Plans

LEMMA AnswersStay ==
  ASSUME AgentsInv, [Next]_vars
  PROVE  /\ \A i \in Answers : /\ i \in Answers' /\ Asked(i)' = Asked(i)
                               /\ cards'[i] = cards[i] /\ origin'[i] = origin[i]
         /\ \A i \in Answers' : i \in DOMAIN cards => i \in Answers
         /\ AnsweredOnce' => AnsweredOnce
<1>1. RoomSound /\ Keeps
  BY InvParts, EveryStep, ChainKept
<1>2. ASSUME NEW i \in Answers
      PROVE  /\ i \in Answers' /\ Asked(i)' = Asked(i)
             /\ cards'[i] = cards[i] /\ origin'[i] = origin[i]
  <2>1. i \in DOMAIN cards /\ origin[i].msg \in DOMAIN messages
    BY <1>1, AnswerAsks
  <2>2. /\ origin'[i] = origin[i] /\ cards'[i] = cards[i] /\ i \in DOMAIN cards'
        /\ messages'[origin[i].msg] = messages[origin[i].msg]
    BY <1>1, <2>1, MessagesStay DEF Keeps
  <2>3. i \in Answers'
    BY <2>1, <2>2 DEF Answers, Reviews, Plans
  <2> QED
    BY <2>2, <2>3 DEF Asked
<1>3. \A i \in Answers' : i \in DOMAIN cards => i \in Answers
  BY <1>1 DEF Keeps, Answers, Reviews, Plans
<1>4. ASSUME AnsweredOnce' PROVE AnsweredOnce
  <2>1. SUFFICES ASSUME NEW i \in Answers, NEW j \in Answers,
                        cards[i].type = cards[j].type, Asked(i) = Asked(j)
                 PROVE  i = j
    BY DEF AnsweredOnce
  <2>2. /\ i \in Answers' /\ j \in Answers' /\ cards'[i].type = cards'[j].type
        /\ Asked(i)' = Asked(j)'
    BY <1>2, <2>1
  <2> QED
    BY <1>4, <2>2 DEF AnsweredOnce
<1> QED
  BY <1>2, <1>3, <1>4

\* The answer r seals is one to its question, ...
LEMMA NewAnswer ==
  ASSUME AgentsInv, [Next]_vars, NEW r \in Agents, NEW c, NEW o, Seals(r, c, o),
         NEW n, n = Len(cards) + 1
  PROVE  /\ Keeps /\ n \notin DOMAIN cards /\ n \in DOMAIN cards' /\ n \in Nat
         /\ DOMAIN cards' = DOMAIN cards \union {n} /\ \A i \in DOMAIN cards : i < n
         /\ cards'[n].type = Answer(r) /\ origin'[n] = o
         /\ n \in Answers' /\ Answers' = Answers \union {n}
         /\ \A q : q = Question(r) => Asked(n)' = q
         /\ published' = published /\ state' = state /\ state \in StatePrerequisites(Answer(r))
         /\ Len(cards') = n
<1>1. RoomSound /\ Keeps
  BY InvParts, SealExtends
<1>2. PICK d \in Card : Extends(d, o) /\ d.type = Answer(r)
  BY <1>1, SealExtends DEF Seals
<1>3. /\ agent[r].pc = "reason" /\ o.msg = agent[r].msg
      /\ state' = state /\ state \in StatePrerequisites(Answer(r))
  BY <1>1, SealExtends DEF Seals
<1>4. /\ n \notin DOMAIN cards /\ n \in DOMAIN cards' /\ n \in Nat /\ Len(cards') = n
      /\ DOMAIN cards' = DOMAIN cards \union {n}
      /\ \A i \in DOMAIN cards : i < n
      /\ cards'[n].type = Answer(r) /\ origin'[n] = o /\ published' = published
  BY <1>1, <1>2, InRange DEF Extends
<1>5. n \in Answers'
  BY <1>4, Roles DEF Agents, Answers, Reviews, Plans
<1>6. Answers' = Answers \union {n}
  BY <1>4, <1>5, AnswersStay DEF Answers, Reviews, Plans
<1>7. ASSUME NEW q, q = Question(r) PROVE Asked(n)' = q
  <2>1. origin'[n].msg = agent[r].msg /\ agent[r].msg \in DOMAIN messages
    BY <1>3, <1>4, AtWork
  <2> QED
    BY <1>7, <2>1, MessagesStay DEF Asked, Question
<1> QED
  BY <1>1, <1>3, <1>4, <1>5, <1>6, <1>7

\* ... and nothing else is an answer.
LEMMA SameAnswers ==
  ASSUME RoomSound, UNCHANGED cards \/ \E c, o, j : Decides(c, o, j)
  PROVE  Answers' = Answers /\ Plans' = Plans /\ Reviews' = Reviews
<1>1. CASE UNCHANGED cards
  BY <1>1 DEF Answers, Reviews, Plans
<1>2. ASSUME NEW c, NEW o, NEW j, Decides(c, o, j)
      PROVE  Answers' = Answers /\ Plans' = Plans /\ Reviews' = Reviews
  <2>1. Keeps /\ Extends(c, o) /\ c.type \in {"StructuredApproval", "PolicyAuthorization"}
    BY <1>2, DecisionExtends
  <2>2. Plans' = Plans /\ Reviews' = Reviews
    BY <2>1 DEF Keeps, Extends, Reviews, Plans
  <2> QED
    BY <2>2 DEF Answers
<1> QED
  BY <1>1, <1>2

LEMMA WhoAnswers ==
  ASSUME AgentsInv, RoutedOnce, ChallengesRevise, [Next]_vars
  PROVE  \/ \E r \in Agents : \E m : Behaves(r, m) /\ Answered(r, m)
         \/ Answers' = Answers /\ Plans' = Plans /\ Reviews' = Reviews
<1>1. RoomSound
  BY InvParts
<1>2. ASSUME NEW r \in Agents, NEW m, Behaves(r, m), ~Answered(r, m)
      PROVE  UNCHANGED cards \/ \E c, o, j : Decides(c, o, j)
  BY <1>2 DEF Behaves, Waits, TakesOn, Resumes, Puts, Finishes, Confirms, ConfirmPublication,
              GivesUp, Authorizes, roomVars, ledgerVars
<1>3. ASSUME Outside PROVE UNCHANGED cards \/ \E c, o, j : Decides(c, o, j)
  BY <1>1, <1>3, PublicationKeeps DEF Outside, roomVars, ledgerVars
<1> QED
  BY <1>1, <1>2, <1>3, EveryMove, SameAnswers

-------------------------------------------------------------------------------
(* The plans are a line, too.                                                  *)

LEMMA KeyedStep ==
  ASSUME AgentsInv, PlanningInv, KeyedAnswers, PlansComeFirst, [Next]_vars
  PROVE  KeyedAnswers' /\ PlansComeFirst'
<1>1. RoomSound /\ ChainStep
  BY InvParts, EveryStep
<1>2. \A i \in Answers : i \in Answers'
  BY AnswersStay
<1>3. CASE UNCHANGED <<cards, origin>>
  BY <1>3 DEF KeyedAnswers, PlansComeFirst, Answers, Reviews, Plans
<1>4. ASSUME NEW r \in Agents, NEW c, NEW o, Seals(r, c, o) PROVE KeyedAnswers' /\ PlansComeFirst'
  <2>1. PICK n : n = Len(cards) + 1
    OBVIOUS
  <2>2. /\ Keeps /\ DOMAIN cards' = DOMAIN cards \union {n} /\ n \in Answers'
        /\ cards'[n].type = Answer(r)
    BY <1>4, <2>1, NewAnswer
  <2>3. KeyedAnswers'
    BY <1>2, <2>2 DEF KeyedAnswers, Keeps
  <2>4. ASSUME Plans' = {}, NEW i \in DOMAIN cards'
        PROVE  i \in Reviews' \/ cards'[i].type = "TriageDecision"
    <3>1. Plans = {}
      BY <1>2, <2>2, <2>4 DEF Plans, Keeps
    <3>2. CASE i = n
      BY <2>2, <2>4, <3>2 DEF Answers
    <3>3. CASE i \in DOMAIN cards
      BY <2>2, <3>1, <3>3 DEF PlansComeFirst, Keeps, Reviews
    <3> QED
      BY <2>2, <3>2, <3>3
  <2> QED
    BY <2>3, <2>4 DEF PlansComeFirst
<1>5. ASSUME NEW c, NEW o, NEW j, Decides(c, o, j) PROVE KeyedAnswers' /\ PlansComeFirst'
  <2>1. Keeps /\ Extends(c, o) /\ j \in Plans /\ o.msg = 0
    BY <1>1, <1>5, DecisionExtends DEF Decides
  <2>2. KeyedAnswers'
    BY <1>2, <2>1 DEF KeyedAnswers, Keeps, Extends
  <2>3. j \in Plans'
    BY <2>1 DEF Plans, Keeps
  <2> QED
    BY <2>2, <2>3 DEF PlansComeFirst
<1> QED
  BY <1>1, <1>3, <1>4, <1>5, PublicationKeeps, RestKeeps DEF ChainStep

LEMMA NotSuppressedStep ==
  ASSUME AgentsInv, RoutedOnce, NotSuppressed, [Next]_vars
  PROVE  NotSuppressed'
<1>1. RoomSound /\ ChainStep /\ Keeps
  BY InvParts, EveryStep, ChainKept
<1>2. cards'[1] = cards[1]
  BY <1>1, InRange DEF RoomSound, RoutingIsPosted, Keeps
<1>3. state' # "SUPPRESSED"
  <2>1. ASSUME NEW i, Publishes(i) PROVE state' # "SUPPRESSED"
    <3>1. i \in DOMAIN cards
      BY <2>1 DEF Publishes
    <3>2. cards[i].type = "TriageDecision" => cards[i].decision = "route"
      BY <3>1 DEF RoutedOnce, NotSuppressed
    <3>3. state' = state \/ state' = ResolveState(cards[i])
      BY <2>1 DEF Publishes, ConfirmPublication, PublishAuthorization, PublishRefusal
    <3> QED
      BY <3>2, <3>3 DEF ResolveState, NotSuppressed
  <2>2. ASSUME NEW c, NEW o, NEW j, Decides(c, o, j) PROVE state' # "SUPPRESSED"
    BY <1>1, <2>2, DecisionExtends
  <2> QED
    BY <1>1, <2>1, <2>2, SealExtends, RestKeeps DEF ChainStep, NotSuppressed
<1> QED
  BY <1>2, <1>3 DEF NotSuppressed

\* What Diagnosis has in mind when it answers a challenge.
LEMMA ChallengesReviseStep ==
  ASSUME AgentsInv, RoutedOnce, ChallengesRevise, [Next]_vars
  PROVE  ChallengesRevise'
<1> DEFINE r == DIAGNOSIS
<1>1. r \in Agents /\ agent \in [Agents -> Memory] /\ RoomSound /\ Keeps
  BY Roles, InvParts, EveryStep, ChainKept
<1>2. ASSUME NEW m, Behaves(r, m)
      PROVE  /\ m.ctx.submitted \/ m.pc # "poll" => m.ctx.known
             /\ m.ctx.known => m.ctx.revision >= 1
             /\ m.pc = "reason" /\ IsChallenge(cards'[messages'[m.msg]]) => m.ctx.revision >= 2
  <2>1. CASE TakesOn(r, m)
    BY <1>2, <2>1 DEF TakesOn, roomVars, ledgerVars, NextCard
  <2>2. CASE ~TakesOn(r, m)
    <3>1. m.pc # "reason"
      BY <1>2, <2>2 DEF Behaves, Waits, Answered, Resumes, Puts, Finishes, GivesUp, Authorizes
    <3>2. m.pc # "poll" => agent[r].pc # "poll"
      BY <1>2, <2>2 DEF Behaves, Waits, Answered, Seals, Resumes, Puts, Post, Finishes, Confirms,
                        GivesUp, Authorizes
    <3>3. KeepsContext(r, m) /\ Context(r) \in Contexts
      BY <1>1, <1>2, <2>2, InvParts DEF Behaves, SoundMemory, SoundContext, Context
    <3>4. CASE m.ctx = Context(r)
      BY <3>1, <3>2, <3>4 DEF ChallengesRevise, Context
    <3>5. CASE m.pc = "poll" /\ m.ctx = NoContext
      BY <3>5 DEF NoContext
    <3>6. CASE agent[r].pc # "poll" /\ m.ctx = [Context(r) EXCEPT !.submitted = TRUE]
      <4>1. m.ctx.known = Context(r).known /\ m.ctx.revision = Context(r).revision
        BY <3>3, <3>6 DEF Contexts
      <4> QED
        BY <3>1, <3>6, <4>1 DEF ChallengesRevise, Context
    <3> QED
      BY <3>3, <3>4, <3>5, <3>6 DEF KeepsContext
  <2> QED
    BY <2>1, <2>2
<1>3. PICK m : m = agent'[r]
  OBVIOUS
<1>4. ASSUME m = agent[r]
      PROVE  /\ m.ctx.submitted \/ m.pc # "poll" => m.ctx.known
             /\ m.ctx.known => m.ctx.revision >= 1
             /\ m.pc = "reason" /\ IsChallenge(cards'[messages'[m.msg]]) => m.ctx.revision >= 2
  <2>1. m.pc = "reason" => messages'[m.msg] = Question(r) /\ Question(r) \in DOMAIN cards
    BY <1>1, <1>4, AtWork, InRange, MessagesStay DEF Question
  <2> QED
    BY <1>1, <1>4, <2>1 DEF ChallengesRevise, Keeps
<1>5. Behaves(r, m) \/ m = agent[r]
  <2>1. ASSUME NEW q \in Agents, NEW x, Behaves(q, x) PROVE Behaves(r, m) \/ m = agent[r]
    BY <1>1, <1>3, <2>1 DEF Behaves, MovesTo
  <2> QED
    BY <1>3, <2>1, EveryMove DEF Outside
<1>6. /\ m.ctx.submitted \/ m.pc # "poll" => m.ctx.known
      /\ m.ctx.known => m.ctx.revision >= 1
      /\ m.pc = "reason" /\ IsChallenge(cards'[messages'[m.msg]]) => m.ctx.revision >= 2
  BY <1>2, <1>4, <1>5
<1>7. ASSUME NEW i \in DOMAIN cards', AnswersChallenge(i)' PROVE origin'[i].rev >= 2
  <2>1. i \in Answers'
    BY <1>7 DEF AnswersChallenge, Answers, Reviews
  <2>2. ASSUME i \in Answers PROVE origin'[i].rev >= 2
    <3>1. /\ Asked(i)' = Asked(i) /\ cards'[i] = cards[i] /\ origin'[i] = origin[i]
          /\ i \in DOMAIN cards /\ cards'[Asked(i)] = cards[Asked(i)]
      BY <1>1, <2>2, AnswersStay, AnswerAsks DEF Keeps
    <3> QED
      BY <1>7, <3>1 DEF AnswersChallenge, ChallengesRevise
  <2>3. ASSUME NEW q \in Agents, NEW x, Behaves(q, x), Answered(q, x), i \notin Answers
        PROVE  origin'[i].rev >= 2
    <3>1. PICK n, p, c, o :
            /\ n = Len(cards) + 1 /\ p = Question(q)
            /\ Seals(q, c, o) /\ (q = DIAGNOSIS => o.rev = Context(q).revision)
      BY <2>3 DEF Answered
    <3>2. i = n /\ cards'[n].type = Answer(q) /\ Asked(n)' = p /\ origin'[n] = o
      BY <2>1, <2>3, <3>1, NewAnswer
    <3>3. q = r
      BY <1>7, <3>2, Roles DEF AnswersChallenge, Agents
    <3>4. agent[q].pc = "reason" /\ p \in DOMAIN cards
      BY <1>1, <3>1, AtWork, InRange DEF Seals
    <3>5. IsChallenge(cards[p])
      BY <1>1, <1>7, <3>2, <3>4 DEF AnswersChallenge, Keeps
    <3> QED
      BY <3>1, <3>2, <3>3, <3>4, <3>5 DEF ChallengesRevise, Context
  <2> QED
    BY <2>1, <2>2, <2>3, WhoAnswers
<1> QED
  BY <1>3, <1>6, <1>7 DEF ChallengesRevise, Question

\* What the plans are for stays so.
LEMMA QuestionsStay ==
  ASSUME AgentsInv, [Next]_vars
  PROVE  /\ Plans \subseteq Plans' /\ PlanQuestions \subseteq PlanQuestions'
         /\ \A i \in Plans : Asked(i)' = Asked(i)
         /\ \A q : Planned(q) => Planned(q)'
<1>1. RoomSound /\ Keeps
  BY InvParts, EveryStep, ChainKept
<1>2. Plans \subseteq Plans' /\ PlanQuestions \subseteq PlanQuestions'
  BY <1>1 DEF Keeps, Plans, PlanQuestions
<1>3. \A i \in Plans : Asked(i)' = Asked(i)
  BY AnswersStay DEF Answers
<1> QED
  BY <1>2, <1>3 DEF Planned

LEMMA PlanAsks ==
  ASSUME RoomSound, NEW i \in Plans
  PROVE  /\ i \in Nat /\ i <= Len(cards) /\ Len(cards) \in Nat /\ i \notin PlanQuestions
         /\ Asked(i) \in PlanQuestions /\ Asked(i) \in Nat /\ Asked(i) < i
<1>1. i \in Answers /\ cards[i].type = "ResponsePlan"
  BY DEF Answers, Plans
<1>2. PICK r \in Agents : cards[i].type = Answer(r) /\ Concerns(r, cards[Asked(i)])
  BY <1>1, AnswerAsks
<1>3. r = COMMANDER
  BY <1>1, <1>2, Roles DEF Agents
<1>4. AsksCommander(cards[Asked(i)])
  BY <1>2, <1>3, Roles
<1>5. i \notin PlanQuestions
  BY <1>1 DEF PlanQuestions, AsksCommander, IsConfirm, IsRejection
<1>6. i \in 1..Len(cards) /\ Len(cards) \in Nat
  BY <1>1, AnswerAsks, InRange
<1> QED
  BY <1>1, <1>4, <1>5, <1>6, AnswerAsks DEF PlanQuestions

\* A plan that is sealed is for the last question, which has none; and there is no other
\* that is not published.
LEMMA PlanSealed ==
  ASSUME AgentsInv, [Next]_vars, AnsweredOnce', PlansAreLinear,
         NEW c, NEW o, Seals(COMMANDER, c, o)
  PROVE  PlansAreLinear'
<1>0. PICK n, p : n = Len(cards) + 1 /\ p = Question(COMMANDER)
  OBVIOUS
<1>1. COMMANDER \in Agents /\ RoomSound /\ Answer(COMMANDER) = "ResponsePlan"
  BY Roles, InvParts
<1>2. /\ Keeps /\ n \notin DOMAIN cards /\ n \in Nat /\ Len(cards') = n
      /\ DOMAIN cards' = DOMAIN cards \union {n} /\ \A i \in DOMAIN cards : i < n
      /\ cards'[n].type = "ResponsePlan" /\ n \in Answers' /\ Asked(n)' = p
      /\ published' = published /\ state' = state /\ state \in PlanStates
  BY <1>0, <1>1, NewAnswer DEF StatePrerequisites
<1>3. Plans' = Plans \union {n} /\ PlanQuestions' = PlanQuestions
  BY <1>2 DEF Keeps, Plans, PlanQuestions, AsksCommander, IsConfirm, IsRejection
<1>4. p \in PlanQuestions /\ p \in DOMAIN cards /\ p <= Len(cards) /\ p \in Nat /\ Len(cards) \in Nat
  <2>1. p \in 1..Len(cards) /\ Concerns(COMMANDER, cards[p])
    BY <1>0, <1>1, AtWork DEF Seals
  <2> QED
    BY <1>1, <2>1, Roles, InRange DEF PlanQuestions
<1>5. ~Planned(p)
  <2>1. SUFFICES ASSUME NEW i \in Plans, Asked(i) = p PROVE FALSE
    BY DEF Planned
  <2>2. i \in Answers' /\ Asked(i)' = p /\ cards'[i].type = "ResponsePlan" /\ i # n
    BY <1>2, <2>1, AnswersStay DEF Answers, Plans
  <2> QED
    BY <1>2, <2>2 DEF AnsweredOnce
<1>6. PlanQuestions \subseteq Nat
  BY <1>1, InRange DEF PlanQuestions
<1>7. \A q \in PlanQuestions : q <= p
  BY <1>4, <1>5, <1>6 DEF PlansAreLinear
<1>8. Plans \subseteq published
  <2>1. SUFFICES ASSUME NEW i \in Plans \ published PROVE FALSE
    OBVIOUS
  <2>2. i = Len(cards) /\ i \notin PlanQuestions /\ Asked(i) \in PlanQuestions
    BY <1>1, <2>1, PlanAsks DEF PlansAreLinear
  <2>3. p < i
    BY <1>4, <2>2
  <2>4. p <= Asked(i)
    BY <1>4, <2>1, <2>3 DEF PlansAreLinear
  <2>5. Asked(i) <= p /\ Asked(i) \in Nat
    BY <1>6, <1>7, <2>2
  <2> QED
    BY <1>4, <1>5, <2>1, <2>4, <2>5 DEF Planned
<1>9. \A i \in Plans : Asked(i)' = Asked(i)
  BY QuestionsStay
<1>10. \A i \in Plans', q \in PlanQuestions' : q < i => q <= Asked(i)'
  BY <1>2, <1>3, <1>7, <1>9 DEF PlansAreLinear
<1>11. \A q, k \in PlanQuestions' : q < k => Planned(q)'
  BY <1>3, QuestionsStay DEF PlansAreLinear
<1>12. \A i, j \in Plans' : i < j => i \in published'
  <2>1. \A i \in Plans : i < n /\ i \in Nat
    BY <1>1, <1>2, InRange DEF Plans
  <2>2. \A j \in Plans' : ~(n < j)
    BY <1>2, <1>3, <2>1
  <2> QED
    BY <1>2, <1>3, <1>8, <2>2
<1>13. \A i \in Plans' \ published' : i = Len(cards') /\ state' \in PlanStates
  BY <1>2, <1>3, <1>8
<1>14. state' # "PLANNED"
  BY <1>2 DEF PlanStates
<1> QED
  BY <1>10, <1>11, <1>12, <1>13, <1>14 DEF PlansAreLinear

\* Nothing of the review is sealed once there is a plan, or a question for one.
LEMMA ReviewSealedFirst ==
  ASSUME AgentsInv, PlanningInv, ReviewInv, [Next]_vars, AnsweredOnce', PlansAreLinear,
         NEW r \in {DIAGNOSIS, REVIEWER}, NEW c, NEW o, Seals(r, c, o)
  PROVE  PlansAreLinear'
<1>0. PICK n : n = Len(cards) + 1
  OBVIOUS
<1>1. r \in Agents /\ RoomSound /\ Answer(r) # "ResponsePlan" /\ PlannedAfterReview
  BY Roles, InvParts DEF PlanningInv
<1>2. /\ Keeps /\ n \notin DOMAIN cards /\ n \in Nat
      /\ DOMAIN cards' = DOMAIN cards \union {n}
      /\ cards'[n].type = Answer(r) /\ state' = state /\ state \in StatePrerequisites(Answer(r))
  BY <1>0, <1>1, NewAnswer
<1>3. state \in {"TRIAGED", "CHALLENGED", "ASSESSED"}
  BY <1>2, Roles DEF StatePrerequisites
<1>4. Plans = {} /\ Refusals = {}
  BY <1>1, <1>3 DEF PlannedAfterReview, AfterReview, PlanStates, Authorized
<1>5. ReviewedOnce' /\ ReviewedOnce
  <2>1. ReviewedOnce'
    BY DEF AnsweredOnce, ReviewedOnce, Answers
  <2> QED
    BY <2>1, AskedStays
<1>6. ~Confirmed
  BY <1>5, ConfirmEnds DEF ReviewInv
<1>7. PlanQuestions = {}
  BY <1>4, <1>6 DEF PlanQuestions, AsksCommander, Refusals, Confirmed
<1>8. Plans' = {} /\ \A q \in PlanQuestions' : q = n
  <2>1. Plans' = {}
    BY <1>1, <1>2, <1>4 DEF Plans, Keeps
  <2>2. ASSUME NEW q \in PlanQuestions' PROVE q = n
    BY <1>2, <1>7, <2>2 DEF PlanQuestions, Keeps
  <2> QED
    BY <2>1, <2>2
<1>9. \A q, k \in PlanQuestions' : ~(q < k)
  BY <1>2, <1>8
<1>10. state' # "PLANNED"
  BY <1>2, <1>3
<1> QED
  BY <1>8, <1>9, <1>10 DEF PlansAreLinear

LEMMA DecidedInLine ==
  ASSUME AgentsInv, [Next]_vars, PlansAreLinear, NEW c, NEW o, NEW j, Decides(c, o, j)
  PROVE  PlansAreLinear'
<1>0. PICK n : n = Len(cards) + 1
  OBVIOUS
<1>1. RoomSound /\ Keeps /\ Extends(c, o)
  BY InvParts, DecisionExtends
<1>2. /\ state = "PLANNED" /\ state' \in {"PLANNED", "REJECTED", "CLOSED_FALSE_ALARM"}
      /\ IsRejection(c) => state' = "REJECTED"
      /\ c.type \in {"StructuredApproval", "PolicyAuthorization"}
  BY <1>1, DecisionExtends
<1>3. /\ DOMAIN cards' = DOMAIN cards \union {n} /\ \A i \in DOMAIN cards : i < n
      /\ cards'[n] = c /\ published' = published /\ n \notin DOMAIN cards
  BY <1>0, <1>1 DEF Extends
<1>4. Plans' = Plans
  BY <1>1, <1>2, <1>3 DEF Plans, Keeps
<1>5. /\ \A q \in PlanQuestions' : q \in PlanQuestions \/ (q = n /\ IsRejection(c))
      /\ n \in Nat
  <2>1. n \in Nat
    BY <1>0, <1>1, InRange
  <2> QED
    BY <1>1, <1>2, <1>3, <2>1 DEF PlanQuestions, Keeps, AsksCommander, IsConfirm
<1>6. Plans \subseteq published /\ \A q \in PlanQuestions : Planned(q)
  BY <1>2 DEF PlansAreLinear, PlanStates
<1>7. \A q \in PlanQuestions : Planned(q)'
  BY <1>6, QuestionsStay
<1>8. \A q \in PlanQuestions' : \A i \in Plans' : q < i => q <= Asked(i)'
  <2>1. \A i \in Plans : i < n /\ i \in Nat /\ Asked(i)' = Asked(i)
    BY <1>1, <1>3, QuestionsStay, InRange DEF Plans
  <2> QED
    BY <1>4, <1>5, <2>1 DEF PlansAreLinear
<1>9. \A q, k \in PlanQuestions' : q < k => Planned(q)'
  <2>1. \A k \in PlanQuestions' : k <= n /\ k \in Nat
    BY <1>1, <1>3, <1>5, InRange DEF PlanQuestions
  <2> QED
    BY <1>5, <1>7, <2>1
<1>10. \A i, k \in Plans' : i < k => i \in published'
  BY <1>3, <1>4, <1>6
<1>11. Plans' \ published' = {}
  BY <1>3, <1>4, <1>6
<1>12. state' = "PLANNED" => \A q \in PlanQuestions' : Planned(q)'
  BY <1>2, <1>5, <1>7
<1> QED
  BY <1>8, <1>9, <1>10, <1>11, <1>12 DEF PlansAreLinear

LEMMA PublishedInLine ==
  ASSUME AgentsInv, [Next]_vars, PlansAreLinear, NEW i, Publishes(i)
  PROVE  PlansAreLinear'
<1>1. /\ RoomSound /\ Keeps /\ UNCHANGED <<cards, origin>> /\ i \in DOMAIN cards
      /\ published' = published \union {i}
  BY InvParts, PublicationKeeps
<1>2. Plans' = Plans /\ PlanQuestions' = PlanQuestions /\ cards[i].type \in CardTypes
  BY <1>1, InRange DEF Plans, PlanQuestions, Card
<1>3. /\ \A k \in Plans : Asked(k)' = Asked(k)
      /\ \A q : Planned(q) => Planned(q)'
  BY QuestionsStay
<1>4. i \notin published
  BY DEF Publishes, ConfirmPublication, PublishAuthorization, PublishRefusal, LifecycleSource
<1>5. ASSUME state \in PlanStates, i \notin Plans PROVE state' = state
  <2>1. CASE ConfirmPublication(i)
    <3>1. cards[i].type = "AlertCard"
      BY <1>1, <1>2, <1>5, <2>1
      DEF ConfirmPublication, StateAllows, StatePrerequisites, PlanStates, Plans, CardTypes, Plain
    <3> QED
      BY <1>5, <2>1, <3>1 DEF ConfirmPublication, AdvancesIncident, PlanStates
  <2>2. CASE PublishAuthorization(i) \/ PublishRefusal(i)
    BY <1>5, <2>2 DEF PublishAuthorization, PublishRefusal, LifecycleSource, PlanStates
  <2> QED
    BY <2>1, <2>2 DEF Publishes
<1>6. \A k \in Plans' \ published' : k = Len(cards') /\ state' \in PlanStates
  <2>1. SUFFICES ASSUME NEW k \in Plans' \ published' PROVE k = Len(cards) /\ state' \in PlanStates
    BY <1>1
  <2>2. k \in Plans \ published /\ k # i /\ k = Len(cards) /\ state \in PlanStates
    BY <1>1, <1>2, <2>1 DEF PlansAreLinear
  <2>3. i \notin Plans
    BY <1>4, <2>2 DEF PlansAreLinear
  <2> QED
    BY <1>5, <2>2, <2>3
<1>7. state' = "PLANNED" => \A q \in PlanQuestions : Planned(q)
  <2>1. SUFFICES ASSUME state' = "PLANNED", state # "PLANNED", NEW q \in PlanQuestions
                 PROVE  Planned(q)
    BY DEF PlansAreLinear
  <2>2. i \in Plans
    <3>1. state' = state \/ state' = ResolveState(cards[i])
      BY DEF Publishes, ConfirmPublication, PublishAuthorization, PublishRefusal
    <3>2. cards[i].type = "ResponsePlan"
      BY <1>2, <2>1, <3>1 DEF ResolveState, CardTypes, Plain
    <3> QED
      BY <1>1, <3>2 DEF Plans
  <2>3. i = Len(cards) /\ i \notin PlanQuestions /\ Asked(i) \in PlanQuestions
        /\ Asked(i) \in Nat /\ Len(cards) \in Nat
    BY <1>1, <1>4, <2>2, PlanAsks DEF PlansAreLinear
  <2>4. q \in 1..Len(cards)
    BY <1>1, InRange DEF PlanQuestions
  <2>5. q < i
    BY <2>3, <2>4
  <2>6. q <= Asked(i)
    BY <2>2, <2>5 DEF PlansAreLinear
  <2>7. CASE q = Asked(i)
    BY <2>2, <2>7 DEF Planned
  <2>8. CASE q < Asked(i)
    BY <2>3, <2>8 DEF PlansAreLinear
  <2> QED
    BY <2>3, <2>4, <2>6, <2>7, <2>8
<1> QED
  BY <1>1, <1>2, <1>3, <1>6, <1>7 DEF PlansAreLinear

LEMMA PlansLineStep ==
  ASSUME AgentsInv, PlanningInv, ReviewInv, [Next]_vars, AnsweredOnce', PlansAreLinear
  PROVE  PlansAreLinear'
<1>1. RoomSound /\ ChainStep
  BY InvParts, EveryStep
<1>2. ASSUME Rests PROVE PlansAreLinear'
  <2>1. UNCHANGED <<state, cards, published, origin>>
    BY <1>1, <1>2, RestKeeps
  <2>2. Plans' = Plans /\ PlanQuestions' = PlanQuestions
    BY <2>1 DEF Plans, PlanQuestions
  <2> QED
    BY <2>1, <2>2, QuestionsStay DEF PlansAreLinear
<1> QED
  BY <1>1, <1>2, PlanSealed, ReviewSealedFirst, DecidedInLine, PublishedInLine DEF ChainStep, Agents

LEMMA AnswersInvStep ==
  AgentsInv /\ PlanningInv /\ ReviewInv /\ AnswersInv /\ [Next]_vars => AnswersInv'
<1> SUFFICES ASSUME AgentsInv, PlanningInv, ReviewInv, AnswersInv, [Next]_vars PROVE AnswersInv'
  OBVIOUS
<1>1. /\ KeyedAnswers /\ PlansComeFirst /\ NotSuppressed /\ ChallengesRevise /\ RoutedOnce
      /\ AnsweredOnce => PlansAreLinear
  BY DEF AnswersInv, ReviewInv
<1>2. KeyedAnswers' /\ PlansComeFirst' /\ NotSuppressed' /\ ChallengesRevise'
  BY <1>1, KeyedStep, NotSuppressedStep, ChallengesReviseStep
<1>3. AnsweredOnce' => PlansAreLinear'
  BY <1>1, AnswersStay, PlansLineStep
<1> QED
  BY <1>2, <1>3 DEF AnswersInv

LEMMA AnswersInit == Init => AnswersInv
<1> SUFFICES ASSUME Init PROVE AnswersInv
  OBVIOUS
<1>1. /\ DOMAIN cards = {1} /\ cards[1].type = "TriageDecision" /\ cards[1].decision = "route"
      /\ origin[1] = NoOrigin /\ state = "DETECTED"
  BY DEF Init
<1>2. Plans = {} /\ PlanQuestions = {}
  BY <1>1 DEF Plans, PlanQuestions, AsksCommander, IsConfirm, IsRejection
<1>3. ~agent[DIAGNOSIS].ctx.submitted /\ agent[DIAGNOSIS].pc = "poll" /\ ~agent[DIAGNOSIS].ctx.known
  BY Roles DEF Init, Fresh, NoContext
<1>4. ChallengesRevise
  BY <1>1, <1>3 DEF ChallengesRevise, AnswersChallenge
<1>5. KeyedAnswers /\ PlansComeFirst /\ NotSuppressed
  BY <1>1 DEF KeyedAnswers, PlansComeFirst, NotSuppressed, NoOrigin
<1>6. PlansAreLinear
  BY <1>2 DEF PlansAreLinear
<1> QED
  BY <1>4, <1>5, <1>6 DEF AnswersInv

\* The incident that Triage routed is never suppressed, Diagnosis takes a challenge with a
\* revision of 2 or higher, whatever it knew or had restored, and while no question is
\* answered twice every plan answers the confirmation or the refusal before it.
THEOREM AnswersInvariance == Spec => []AnswersInv
BY AnswersInit, AnswersInvStep, AgentsInvariance, PlanningInvariance, ReviewInvariance, PTL DEF Spec

-------------------------------------------------------------------------------
(* One answer: what is not published is the last card.                         *)

\* What holds whatever fails.
ChainInv == AgentsInv /\ PlanningInv /\ ReviewInv /\ AnswersInv

\* What holds as long as no question is answered twice.
LEMMA InLine ==
  ASSUME ChainInv, AnsweredOnce
  PROVE  /\ RoomSound /\ RoutedOnce /\ ReviewedOnce /\ ReviewIsLinear /\ ReviewInState
         /\ PlansAreLinear
<1>1. ReviewedOnce
  BY DEF AnsweredOnce, ReviewedOnce, Answers
<1> QED
  BY <1>1, InvParts DEF ChainInv, ReviewInv, AnswersInv

\* A card of the review that is not published answers the one that was published last.
LEMMA AnswersTheLast ==
  ASSUME ChainInv, AnsweredOnce, Plans = {}, NEW i \in Reviews \ published,
         NEW p, LastReview(p)
  PROVE  Asked(i) = p
<1>1. /\ RoomSound /\ RoutedOnce /\ ReviewIsLinear /\ PlansComeFirst
      /\ p \in Reviews /\ p \in published /\ \A j \in Reviews \cap published : j <= p
  BY InLine DEF LastReview, ChainInv, AnswersInv
<1>2. /\ i \in Nat /\ Asked(i) \in Nat /\ Asked(i) < i /\ Asked(i) \in DOMAIN cards
      /\ p \in Nat /\ Asked(p) \in DOMAIN cards /\ Asked(p) \in Nat /\ Asked(p) < p
  BY <1>1, ReviewAsks
<1>3. p < i
  BY <1>1, <1>2 DEF ReviewIsLinear
<1>4. p <= Asked(i)
  BY <1>1, <1>3 DEF ReviewIsLinear
<1>5. Asked(i) # 1
  BY <1>1, <1>2, <1>4, InRange
<1>6. Asked(i) \in Reviews
  BY <1>1, <1>2, <1>5 DEF PlansComeFirst, RoutedOnce
<1>7. Asked(i) \in published
  BY <1>1, <1>2, <1>6 DEF ReviewIsLinear
<1> QED
  BY <1>1, <1>2, <1>4, <1>6, <1>7

\* An answer that is not published is the last card, and the incident waits for it.
LEMMA LooseIsLast ==
  ASSUME ChainInv, AnsweredOnce, NEW i \in Answers \ published
  PROVE  i = Len(cards) /\ StateAllows(i) /\ NotStale(i)
<1>1. /\ RoomSound /\ RoutedOnce /\ ReviewIsLinear /\ ReviewInState /\ PlansAreLinear
      /\ PlannedAfterReview /\ PlansComeFirst /\ NotSuppressed
  BY InLine DEF ChainInv, PlanningInv, AnswersInv
<1>2. i \in 1..Len(cards) /\ Len(cards) \in Nat /\ DOMAIN cards = 1..Len(cards)
  BY <1>1, AnswerAsks, InRange
<1>3. i = Len(cards) /\ StateAllows(i)
  <2>1. CASE i \in Plans
    BY <1>1, <2>1 DEF PlansAreLinear, StateAllows, StatePrerequisites, Plans
  <2>2. CASE i \in Reviews
    <3>1. state \in BeforeReview \union {"CHALLENGED"}
      BY <1>1, <2>2 DEF ReviewInState
    <3>2. Plans = {}
      BY <1>1, <3>1 DEF PlannedAfterReview, AfterReview, PlanStates, Authorized, BeforeReview
    <3>3. \A j \in Reviews : j <= i
      BY <1>1, <1>2, <2>2, ReviewAsks DEF ReviewIsLinear
    <3>4. i = Len(cards)
      <4>1. Len(cards) \in Reviews \/ Len(cards) = 1
        BY <1>1, <1>2, <3>2 DEF PlansComeFirst, RoutedOnce
      <4>2. PICK n \in Nat : n = Len(cards)
        BY <1>2
      <4>3. i \in Nat /\ i >= 1 /\ i <= n
        BY <1>2, <4>2
      <4>4. n <= i
        BY <3>3, <4>1, <4>2, <4>3
      <4> QED
        BY <4>2, <4>3, <4>4
    <3>5. cards[i].type \in {"Assessment", "Verdict"}
      BY <2>2 DEF Reviews
    <3>6. CASE state = "TRIAGED"
      <4>1. PICK k \in Reviews : Asked(k) = 1
        BY <1>1, <2>2 DEF ReviewIsLinear
      <4>2. k = i
        BY <1>1, <2>2, <3>3, <3>6, <4>1, ReviewAsks DEF ReviewIsLinear, ReviewInState
      <4>3. cards[1].type = "TriageDecision"
        BY <1>1, <1>2 DEF RoutedOnce
      <4>4. cards[i].type = "Assessment"
        BY <1>1, <4>1, <4>2, <4>3, ReviewAsks DEF AsksFor
      <4> QED
        BY <3>4, <3>6, <4>4 DEF StateAllows, StatePrerequisites
    <3>7. CASE state \in {"ASSESSED", "CHALLENGED"}
      <4>1. PICK p \in Reviews :
              /\ LastReview(p)
              /\ state = "ASSESSED" => cards[p].type = "Assessment"
              /\ state = "CHALLENGED" => IsChallenge(cards[p])
        BY <1>1, <3>7 DEF ReviewInState
      <4>2. Asked(i) = p
        BY <2>2, <3>2, <4>1, AnswersTheLast
      <4>3. AsksFor(cards[i].type, cards[p])
        BY <1>1, <2>2, <4>2, ReviewAsks
      <4>4. state = "ASSESSED" => cards[i].type = "Verdict"
        BY <3>5, <4>1, <4>3 DEF AsksFor, AsksDiagnosis, IsChallenge
      <4>5. state = "CHALLENGED" => cards[i].type = "Assessment"
        BY <3>5, <4>1, <4>3 DEF AsksFor, IsChallenge
      <4> QED
        BY <3>4, <3>7, <4>4, <4>5 DEF StateAllows, StatePrerequisites
    <3>8. state \notin {"NONE", "DETECTED", "SUPPRESSED"}
      BY <1>1, <2>2 DEF ReviewInState, NotSuppressed
    <3> QED
      BY <3>1, <3>6, <3>7, <3>8 DEF BeforeReview
  <2> QED
    BY <2>1, <2>2 DEF Answers
<1>4. NotStale(i)
  <2>1. \A j \in published : j \in 1..Len(cards) /\ j # i
    BY <1>1, InRange
  <2> QED
    BY <1>2, <1>3, <2>1 DEF NotStale
<1> QED
  BY <1>3, <1>4

\* The budget: no three challenges, one after the other.
LEMMA NoThirdChallenge ==
  ASSUME RoomSound, MaxChallenges <= 2, NEW i \in PublishedChallenges,
         NEW j \in PublishedChallenges, NEW k \in PublishedChallenges, i < j, j < k
  PROVE  FALSE
<1>1. IsFiniteSet(PublishedChallenges) /\ ChallengesSpent \in Nat /\ ChallengesSpent <= 2
  <2>1. TypeOK /\ ChallengeBudget /\ MaxChallenges \in Nat
    BY LedgerAssumption DEF RoomSound, BudgetInv
  <2>2. IsFiniteSet(PublishedChallenges)
    BY <2>1, ChallengesFinite
  <2> QED
    BY <2>1, <2>2, FS_CardinalityType DEF ChallengesSpent, ChallengeBudget
<1>2. i \in Nat /\ j \in Nat /\ k \in Nat
  BY InRange DEF PublishedChallenges
<1>3. IsFiniteSet({}) /\ Cardinality({}) = 0
  BY FS_EmptySet
<1>4. IsFiniteSet({i}) /\ Cardinality({i}) = 1
  BY FS_Singleton
<1>5. IsFiniteSet({i} \union {j}) /\ Cardinality({i} \union {j}) = 2
  BY <1>2, <1>4, FS_AddElement
<1>6. Cardinality({i} \union {j} \union {k}) = 3
  BY <1>2, <1>5, FS_AddElement
<1>7. Cardinality({i} \union {j} \union {k}) <= ChallengesSpent
  BY <1>1, FS_Subset DEF ChallengesSpent
<1> QED
  BY <1>1, <1>6, <1>7

\* Where the second round of challenges begins.
LEMMA SecondRound ==
  ASSUME RoomSound, MaxChallenges <= 2, NEW i \in Nat,
         NEW n, n = Cardinality({j \in published : IsChallenge(cards[j]) /\ j <= i})
  PROVE  /\ n \in Nat /\ n <= 2 /\ n <= ChallengesIn(published) /\ ChallengesIn(published) \in Nat
         /\ n >= 2 => \E j \in PublishedChallenges : j < i
<1> DEFINE S == {j \in published : IsChallenge(cards[j]) /\ j <= i}
<1>1. IsFiniteSet(PublishedChallenges) /\ ChallengesSpent \in Nat /\ ChallengesSpent <= 2
  <2>1. TypeOK /\ ChallengeBudget /\ MaxChallenges \in Nat
    BY LedgerAssumption DEF RoomSound, BudgetInv
  <2>2. IsFiniteSet(PublishedChallenges)
    BY <2>1, ChallengesFinite
  <2> QED
    BY <2>1, <2>2, FS_CardinalityType DEF ChallengesSpent, ChallengeBudget
<1>2. ChallengesIn(published) = ChallengesSpent
  BY DEF ChallengesIn, ChallengesSpent, PublishedChallenges
<1>3. S \subseteq PublishedChallenges
  BY DEF PublishedChallenges
<1>4. IsFiniteSet(S) /\ Cardinality(S) <= ChallengesSpent
  BY <1>1, <1>3, FS_Subset DEF ChallengesSpent
<1>5. Cardinality(S) \in Nat
  BY <1>4, FS_CardinalityType
<1>6. ASSUME Cardinality(S) >= 2 PROVE \E j \in PublishedChallenges : j < i
  <2>1. SUFFICES ASSUME \A j \in S : ~(j < i) PROVE FALSE
    BY <1>3
  <2>2. \A j \in S : j \in Nat /\ j <= i
    BY InRange
  <2>3. S \subseteq {i}
    BY <2>1, <2>2
  <2>4. IsFiniteSet({i}) /\ Cardinality({i}) = 1
    BY FS_Singleton
  <2>5. Cardinality(S) <= 1
    BY <2>3, <2>4, FS_Subset
  <2> QED
    BY <1>5, <1>6, <2>5
<1> QED
  BY <1>1, <1>2, <1>4, <1>5, <1>6

\* So there is but one of them.
LEMMA OneLoose ==
  ASSUME ChainInv, AnsweredOnce, NEW i \in Answers \ published, NEW j \in Answers \ published
  PROVE  i = j
BY LooseIsLast

\* No question gets a second answer in a step.
LEMMA AnsweredOnceStep ==
  ASSUME ChainInv, AnsweredOnce, AnswersAreKnown, MaxChallenges <= 2, [Next]_vars
  PROVE  AnsweredOnce'
<1>1. /\ AgentsInv /\ RoomSound /\ RoutedOnce /\ ReviewInState /\ ChallengesRevise
  BY InLine DEF ChainInv, AnswersInv
<1>2. CASE Answers' = Answers
  <2>1. SUFFICES ASSUME NEW i \in Answers, NEW j \in Answers,
                        cards'[i].type = cards'[j].type, Asked(i)' = Asked(j)'
                 PROVE  i = j
    BY <1>2 DEF AnsweredOnce
  <2> QED
    BY <1>1, <2>1, AnswersStay DEF AnsweredOnce
<1>3. ASSUME NEW r \in Agents, NEW m, Answered(r, m) PROVE AnsweredOnce'
  <2>1. PICK n, q, c, o :
          /\ n = Len(cards) + 1 /\ q = Question(r) /\ Seals(r, c, o)
    BY <1>3 DEF Answered
  <2>2. /\ Answers' = Answers \union {n} /\ cards'[n].type = Answer(r) /\ Asked(n)' = q
        /\ n \notin DOMAIN cards /\ state \in StatePrerequisites(Answer(r))
    BY <1>1, <2>1, NewAnswer
  <2>3. ASSUME NEW i \in Answers, cards[i].type = Answer(r), Asked(i) = q PROVE FALSE
    <3>1. KnownByKey(r, i) /\ i \in DOMAIN cards
      BY <1>1, <2>1, <2>3, AnswerAsks DEF AnswersAreKnown, AnswersFor, Seals
    <3>2. CASE origin[i].msg = agent[r].msg
      BY <2>1, <2>3, <3>1, <3>2 DEF Seals, Prepare, SealedFor
    <3>3. CASE /\ r = DIAGNOSIS /\ i \in published /\ q \in PublishedChallenges
               /\ \E j \in PublishedChallenges : j < q
      <4>1. i \in Reviews /\ cards[i].type = "Assessment"
        BY <2>3, <3>1, <3>3, Roles DEF Reviews
      <4>2. state \in {"TRIAGED", "CHALLENGED"}
        BY <2>2, <3>3, Roles DEF StatePrerequisites
      <4>3. state = "CHALLENGED"
        BY <1>1, <3>3, <4>1, <4>2 DEF ReviewInState
      <4>4. PICK k \in Reviews : LastReview(k) /\ IsChallenge(cards[k])
        BY <1>1, <4>3 DEF ReviewInState
      <4>5. k \in PublishedChallenges /\ i <= k
        BY <3>3, <4>1, <4>4 DEF LastReview, PublishedChallenges
      <4>6. q < i /\ i \in Nat /\ q \in Nat /\ k \in Nat
        BY <1>1, <2>3, <4>1, <4>4, ReviewAsks
      <4>7. q < k
        BY <4>5, <4>6
      <4> QED
        BY <1>1, <3>3, <4>5, <4>7, NoThirdChallenge
    <3> QED
      BY <2>1, <3>1, <3>2, <3>3 DEF KnownByKey
  <2>4. \A i \in Answers : /\ cards'[i] = cards[i] /\ Asked(i)' = Asked(i) /\ i # n
    BY <1>1, <2>2, AnswersStay, AnswerAsks
  <2> QED
    BY <2>2, <2>3, <2>4 DEF AnsweredOnce
<1> QED
  BY <1>1, <1>2, <1>3, WhoAnswers

\* Where a card goes: it is posted by the agent that has it in hand, ...
Posting ==
  \/ UNCHANGED messages
  \/ \E r \in Agents : \E m : Behaves(r, m) /\ Puts(r, m) /\ messages' = Append(messages, agent[r].card)
  \/ /\ UNCHANGED agent
     /\ \E i \in DOMAIN cards \ Answers :
          messages' = Append(messages, i) /\ (i \in room => faults' # faults)

LEMMA WhoPosts ==
  ASSUME AgentsInv, RoutedOnce, ChallengesRevise, [Next]_vars
  PROVE  Posting
<1>1. ASSUME NEW r \in Agents, NEW m, Behaves(r, m) PROVE Posting
  BY <1>1 DEF Behaves, Waits, TakesOn, Answered, Resumes, Puts, Post, Finishes, Confirms, GivesUp,
              Authorizes, roomVars, Posting
<1>2. ASSUME Outside PROVE Posting
  BY <1>2 DEF Outside, roomVars, Posting
<1> QED
  BY <1>1, <1>2, EveryMove

\* ... and published by it.
LEMMA WhoFinishes ==
  ASSUME AgentsInv, RoutedOnce, ChallengesRevise, [Next]_vars,
         NEW i \in Answers, i \in published' \ published
  PROVE  \E r \in Agents : \E m : Behaves(r, m) /\ Finishes(r, m) /\ i = agent[r].card
<1>1. RoomSound
  BY InvParts
<1>2. ASSUME NEW r \in Agents, NEW m, Behaves(r, m)
      PROVE  Finishes(r, m) /\ i = agent[r].card
  <2>1. CASE Finishes(r, m)
    BY <2>1 DEF Finishes, Confirms, ConfirmPublication
  <2>2. CASE ~Finishes(r, m)
    <3>1. ~Answered(r, m)
      BY <1>1, SealExtends DEF Answered, Extends
    <3>2. ~Authorizes(r, m)
      BY <1>1, DecisionExtends DEF Authorizes, Extends
    <3> QED
      BY <1>2, <2>2, <3>1, <3>2 DEF Behaves, Waits, TakesOn, Resumes, Puts, GivesUp, roomVars, ledgerVars
  <2> QED
    BY <2>1, <2>2
<1>3. ~Outside
  BY <1>1, DecisionExtends, PublicationKeeps DEF Outside, Extends, roomVars, ledgerVars
<1> QED
  BY <1>2, <1>3, EveryMove

\* An answer is in the hands of none but the agent whose it is.
LEMMA OwnHands ==
  ASSUME AgentsInv, OwnCards, NEW r \in Agents, NEW i, cards[i].type = Answer(r), InHand(i)
  PROVE  agent[r].pc \in {"post", "confirm"} /\ agent[r].card = i
<1>1. PICK q \in Agents : agent[q].pc \in {"post", "confirm"} /\ agent[q].card = i
  BY DEF InHand
<1>2. Answer(q) = Answer(r)
  BY <1>1 DEF OwnCards
<1> QED
  BY <1>1, <1>2, OwnAnswer

LEMMA HandsHoldAnswers ==
  ASSUME AgentsInv, OwnCards, NEW r \in Agents, agent[r].pc \in {"post", "confirm"}
  PROVE  agent[r].card \in Answers /\ cards[agent[r].card].type = Answer(r)
BY CardInHand, AnswerOf DEF OwnCards

\* Nothing is abandoned but by an agent that gives up for a fault.
LEMMA AbandonedStep ==
  ASSUME ChainInv, AnsweredOnce, [Next]_vars, ~Abandoned, Abandoned'
  PROVE  faults' # faults /\ \E r \in Agents : \E m : Behaves(r, m) /\ GivesUp(r, m)
<1>1. /\ AgentsInv /\ RoomSound /\ RoutedOnce /\ ChallengesRevise /\ Keeps
      /\ agent \in [Agents -> Memory]
  BY InLine, InvParts, EveryStep, ChainKept DEF ChainInv, AnswersInv
<1>2. PICK i \in Answers' \ published' : ~InHand(i)'
  BY DEF Abandoned
<1>3. CASE i \in Answers
  <2>1. i \in Answers \ published
    BY <1>1, <1>2, <1>3 DEF Keeps
  <2>2. PICK q \in Agents : agent[q].pc \in {"post", "confirm"} /\ agent[q].card = i
    BY <2>1 DEF Abandoned, InHand
  <2>3. agent'[q] # agent[q]
    BY <1>2, <2>2 DEF InHand
  <2>4. PICK m : Behaves(q, m) /\ agent'[q] = m
    BY <1>1, <2>3, EveryMove DEF Outside, Behaves, MovesTo
  <2>5. ~Puts(q, m)
    BY <1>2, <2>2, <2>4 DEF Puts, InHand
  <2>6. ~Finishes(q, m)
    BY <1>2, <2>2 DEF Finishes, Confirms, ConfirmPublication
  <2>7. GivesUp(q, m)
    BY <2>2, <2>4, <2>5, <2>6
    DEF Behaves, Waits, TakesOn, Receives, Answered, Seals, Resumes, Authorizes
  <2>8. StateAllows(i) /\ NotStale(i)
    BY <2>1, LooseIsLast
  <2> QED
    BY <2>1, <2>2, <2>4, <2>7, <2>8 DEF GivesUp
<1>4. CASE i \notin Answers
  <2>1. PICK r, m : r \in Agents /\ Behaves(r, m) /\ Answered(r, m)
    BY <1>1, <1>2, <1>4, WhoAnswers
  <2>2. PICK n, c, o : n = Len(cards) + 1 /\ Seals(r, c, o) /\ m.pc = "post" /\ m.card = n
    BY <2>1 DEF Answered
  <2>3. Answers' = Answers \union {n}
    BY <1>1, <2>1, <2>2, NewAnswer
  <2>4. agent'[r] = m
    BY <1>1, <2>1 DEF Behaves, MovesTo
  <2> QED
    BY <1>2, <1>4, <2>1, <2>2, <2>3, <2>4 DEF InHand
<1> QED
  BY <1>3, <1>4

-------------------------------------------------------------------------------
(* Nothing is in the room twice, or is about to be.                            *)

LEMMA PostedTwiceStep ==
  ASSUME AgentsInv, Posting, ~PostedTwice, \A r \in Agents : ~Reposts(r), faults' = faults
  PROVE  ~PostedTwice'
<1>1. /\ messages \in Seq(1..Len(cards)) /\ room = {messages[m] : m \in DOMAIN messages}
      /\ DOMAIN messages = 1..Len(messages) /\ Len(messages) \in Nat
  BY InvParts, InRange DEF RoomSound
<1>2. CASE UNCHANGED messages
  BY <1>2 DEF PostedTwice
<1>3. ASSUME NEW x \in DOMAIN cards, messages' = Append(messages, x), x \notin room
      PROVE  ~PostedTwice'
  <2>1. PICK n \in Nat : n = Len(messages)
    BY <1>1
  <2>2. /\ DOMAIN messages' = 1..(n + 1) /\ messages'[n + 1] = x
        /\ \A m \in 1..n : messages'[m] = messages[m] /\ messages[m] # x
    BY <1>1, <1>3, <2>1
  <2> QED
    BY <1>1, <2>1, <2>2 DEF PostedTwice
<1>4. ASSUME NEW r \in Agents, NEW m, Puts(r, m)
      PROVE  agent[r].card \in DOMAIN cards /\ agent[r].card \notin room
  BY <1>4, CardInHand DEF Puts, Post, Reposts
<1> QED
  BY <1>2, <1>3, <1>4 DEF Posting

\* What an agent answers a second time has the key of the first.
LEMMA SameKey ==
  ASSUME AgentsInv, ~PostedTwice, NEW r \in Agents, NEW i, AnswersFor(r, i),
         agent[r].msg \in DOMAIN messages
  PROVE  origin[i].msg = agent[r].msg
BY InvParts, AnswerAsks DEF AnswersFor, PostedTwice, Asked, Question

LEMMA RepostsStep ==
  ASSUME ChainInv, AnsweredOnce, ~Repeated, [Next]_vars,
         NEW q \in Agents, Reposts(q)', faults' = faults
  PROVE  Abandoned /\ ~Abandoned'
<1>1. /\ AgentsInv /\ RoomSound /\ RoutedOnce /\ ChallengesRevise /\ OwnCards
      /\ agent \in [Agents -> Memory]
  BY InLine, InvParts DEF ChainInv, AnswersInv, PlanningInv
<1>2. room' = {messages'[k] : k \in DOMAIN messages'}
  <2>1. AgentsInv'
    BY <1>1, AgentsInvStep
  <2> QED
    BY <2>1 DEF AgentsInv, AgentsTypeOK
<1>3. PICK i : i = agent'[q].card /\ agent'[q].pc = "post" /\ i \in room'
  BY DEF Reposts
<1>4. ASSUME UNCHANGED agent \/ \E r \in Agents : \E m : Behaves(r, m) /\ r # q
      PROVE  FALSE
  <2>1. agent'[q] = agent[q]
    BY <1>1, <1>4 DEF Behaves, MovesTo
  <2>2. i \in Answers /\ cards[i].type = Answer(q) /\ i \notin room
    BY <1>1, <1>3, <2>1, HandsHoldAnswers DEF Repeated, Reposts
  <2>3. PICK k \in DOMAIN messages' : messages'[k] = i
    BY <1>2, <1>3
  <2>4. CASE UNCHANGED messages
    BY <1>1, <2>2, <2>3, <2>4 DEF RoomSound
  <2>5. ASSUME NEW x, messages' = Append(messages, x) PROVE x = i
    <3>1. messages \in Seq(1..Len(cards)) /\ room = {messages[m] : m \in DOMAIN messages}
      BY <1>1, InRange DEF RoomSound
    <3>2. DOMAIN messages' = 1..(Len(messages) + 1) /\ Len(messages) \in Nat
          /\ DOMAIN messages = 1..Len(messages)
      BY <2>5, <3>1
    <3>3. \A m \in DOMAIN messages : messages'[m] = messages[m]
      BY <2>5, <3>1
    <3>4. k \notin DOMAIN messages
      BY <2>2, <2>3, <3>1, <3>3
    <3>5. k = Len(messages) + 1
      BY <2>3, <3>2, <3>4
    <3> QED
      BY <2>3, <2>5, <3>1, <3>5
  <2>6. ASSUME NEW r \in Agents, NEW m, Behaves(r, m), Puts(r, m), agent[r].card = i PROVE FALSE
    <3>1. cards[i].type = Answer(r) /\ agent'[r].pc = "confirm"
      BY <1>1, <2>6, HandsHoldAnswers DEF Puts, Post, Behaves, MovesTo
    <3>2. r = q
      BY <2>2, <3>1, OwnAnswer
    <3> QED
      BY <1>3, <3>1, <3>2
  <2> QED
    BY <1>1, <2>2, <2>4, <2>5, <2>6, WhoPosts DEF Posting
<1>5. PICK m : Behaves(q, m) /\ m = agent'[q]
  BY <1>1, <1>4, EveryMove DEF Outside, Behaves, MovesTo
<1>6. Answered(q, m) \/ Resumes(q, m)
  BY <1>3, <1>5 DEF Behaves, Waits, TakesOn, Puts, Finishes, GivesUp, Authorizes
<1>7. ~Answered(q, m)
  <2>1. SUFFICES ASSUME Answered(q, m) PROVE FALSE
    OBVIOUS
  <2>2. room' = room /\ i = Len(cards) + 1
    BY <1>3, <1>5, <2>1 DEF Answered, Seals, Prepare, PrepareCard
  <2> QED
    BY <1>1, <1>3, <2>2, InRange
<1>8. /\ agent[q].pc = "reason" /\ UNCHANGED roomVars /\ i \in DOMAIN cards
      /\ cards[i].type = Answer(q) /\ origin[i].msg = agent[q].msg
      /\ q = DIAGNOSIS => origin[i].rev = Context(q).revision
  BY <1>3, <1>5, <1>6, <1>7 DEF Resumes
<1>9. i \in Answers /\ AnswersFor(q, i)
  BY <1>8, AnswerOf DEF AnswersFor, Asked, Question
<1>10. i \notin published
  BY <1>8, <1>9 DEF Repeated, Redoes
<1>11. ~InHand(i)
  BY <1>1, <1>8, OwnHands
<1>12. Answers' = Answers /\ published' = published
  BY <1>1, <1>8, SameAnswers DEF roomVars, ledgerVars
<1>13. InHand(i)'
  BY <1>3 DEF InHand
<1>14. ~Abandoned'
  BY <1>9, <1>10, <1>12, <1>13, OneLoose DEF Abandoned
<1> QED
  BY <1>9, <1>10, <1>11, <1>14 DEF Abandoned

\* An answer to the challenge i that is not the one Diagnosis looks for is of the second
\* revision, and answers the second challenge.
LEMMA BehindInRevision ==
  ASSUME ChainInv, AnsweredOnce, MaxChallenges <= 2, NEW i \in published, AnswersChallenge(i),
         ~ChallengeAlreadyAnswered(published, Asked(i))
  PROVE  /\ origin[i].rev = 2 /\ ChallengesIn(published) \in Nat /\ ChallengesIn(published) >= 2
         /\ Asked(i) \in PublishedChallenges /\ \E j \in PublishedChallenges : j < Asked(i)
<1>1. /\ RoomSound /\ ReviewIsLinear /\ ChallengesRevise /\ i \in DOMAIN cards
      /\ cards[i].type = "Assessment" /\ IsChallenge(cards[Asked(i)])
  BY InLine, InRange DEF ChainInv, AnswersInv, AnswersChallenge
<1>2. i \in Reviews /\ i \in Nat /\ Asked(i) \in DOMAIN cards /\ Asked(i) \in Nat /\ Asked(i) < i
  BY <1>1, ReviewAsks DEF Reviews
<1>3. Asked(i) \in Reviews
  BY <1>1, <1>2 DEF Reviews, IsChallenge
<1>4. Asked(i) \in PublishedChallenges
  BY <1>1, <1>2, <1>3 DEF ReviewIsLinear, PublishedChallenges
<1>5. origin[i].rev \in Nat /\ origin[i].rev >= 2
  BY <1>1, InRange DEF ChallengesRevise, Origin
<1>6. PICK n : n = Cardinality({j \in published : IsChallenge(cards[j]) /\ j <= Asked(i)})
  OBVIOUS
<1>7. /\ n \in Nat /\ n <= 2 /\ n <= ChallengesIn(published) /\ ChallengesIn(published) \in Nat
      /\ n >= 2 => \E j \in PublishedChallenges : j < Asked(i)
  BY <1>1, <1>2, <1>6, SecondRound
<1>8. ~(origin[i].rev >= (IF n + 1 > 2 THEN n + 1 ELSE 2))
  BY <1>1, <1>2, <1>6 DEF ChallengeAlreadyAnswered
<1>9. n = 2 /\ origin[i].rev = 2
  BY <1>5, <1>7, <1>8
<1> QED
  BY <1>4, <1>7, <1>9

\* Whoever takes a message without a fault has not answered its card, if Diagnosis can count.
LEMMA RedoesStep ==
  ASSUME ChainInv, AnsweredOnce, MaxChallenges <= 2, ~Repeated, [Next]_vars,
         NEW q \in Agents, Redoes(q)', faults' = faults
  PROVE  FALSE
<1>1. /\ AgentsInv /\ RoomSound /\ RoutedOnce /\ ChallengesRevise /\ OwnCards
      /\ agent \in [Agents -> Memory]
  BY InLine, InvParts DEF ChainInv, AnswersInv, PlanningInv
<1>2. PICK m, p, i :
        /\ m = agent'[q] /\ m.pc = "reason" /\ p = messages'[m.msg]
        /\ i \in published' /\ AnswersFor(q, i)' /\ p = Asked(i)'
        /\ q = DIAGNOSIS => origin'[i].rev = m.ctx.revision
  BY DEF Redoes, AnswersFor, Question, Context
<1>3. ~\E x : Behaves(q, x) /\ Answered(q, x)
  BY <1>1, <1>2 DEF Behaves, MovesTo, Answered
<1>4. i \in Answers
  <2>1. SUFFICES ASSUME NEW r \in Agents, NEW x, Behaves(r, x), Answered(r, x), i \notin Answers
                 PROVE  FALSE
    BY <1>1, <1>2, WhoAnswers DEF AnswersFor
  <2>2. PICK n, c, o : n = Len(cards) + 1 /\ Seals(r, c, o)
    BY <2>1 DEF Answered
  <2>3. Answers' = Answers \union {n} /\ cards'[n].type = Answer(r)
    BY <1>1, <2>2, NewAnswer
  <2>4. r = q
    BY <1>2, <2>1, <2>3, OwnAnswer DEF AnswersFor
  <2> QED
    BY <1>3, <2>1, <2>4
<1>5. /\ Asked(i)' = Asked(i) /\ cards'[i] = cards[i] /\ origin'[i] = origin[i]
      /\ i \in DOMAIN cards /\ i \in Nat /\ Asked(i) \in Nat /\ Asked(i) < i
      /\ cards[i].type = Answer(q) /\ p = Asked(i)
  BY <1>1, <1>2, <1>4, AnswersStay, AnswerAsks DEF AnswersFor
<1>6. CASE m = agent[q]
  <2>1. p = Question(q)
    BY <1>1, <1>2, <1>6, AtWork, MessagesStay DEF Question
  <2>2. i \notin published
    BY <1>2, <1>4, <1>5, <1>6, <2>1 DEF Repeated, Redoes, AnswersFor, Context
  <2>3. PICK r, x : r \in Agents /\ Behaves(r, x) /\ Finishes(r, x) /\ i = agent[r].card
    BY <1>1, <1>2, <1>4, <2>2, WhoFinishes
  <2>4. agent[r].pc = "confirm"
    BY <2>3 DEF Finishes, Confirms
  <2>5. r = q
    BY <1>1, <1>5, <2>3, <2>4, HandsHoldAnswers, OwnAnswer
  <2> QED
    BY <1>2, <1>6, <2>4, <2>5
<1>7. CASE m # agent[q]
  <2>1. Behaves(q, m)
    BY <1>1, <1>2, <1>7, EveryMove DEF Outside, Behaves, MovesTo
  <2>2. TakesOn(q, m)
    BY <1>2, <2>1 DEF Behaves, Waits, Answered, Resumes, Puts, Finishes, GivesUp, Authorizes
  <2>3. StillOpen(q, m) /\ p = NextCard(q) /\ published' = published
    BY <1>2, <2>2 DEF TakesOn, roomVars, ledgerVars, NextCard
  <2>4. CASE q = DIAGNOSIS /\ IsChallenge(cards[p])
    <3>1. /\ ~ChallengeAlreadyAnswered(published, p) /\ ChallengedContext(published).known
          /\ m.ctx.revision = ChallengedContext(published).revision + 1
      BY <2>3, <2>4 DEF StillOpen
    <3>2. i \in published /\ AnswersChallenge(i)
      BY <1>2, <1>5, <2>3, <2>4, Roles DEF AnswersChallenge
    <3>3. /\ origin[i].rev = 2 /\ ChallengesIn(published) \in Nat
          /\ ChallengesIn(published) >= 2
      BY <1>5, <3>1, <3>2, BehindInRevision
    <3>4. m.ctx.revision = 2
      BY <1>2, <1>5, <2>4, <3>3
    <3>5. CASE ChallengedContext(published) = Context(DIAGNOSIS)
      <4>1. Context(DIAGNOSIS).revision \in Nat
        BY <1>1, <2>4, InvParts DEF SoundMemory, SoundContext, Contexts, Context
      <4>2. Context(DIAGNOSIS).known /\ Context(DIAGNOSIS).revision <= 1
        BY <3>1, <3>4, <3>5, <4>1
      <4> QED
        BY <1>5, <3>2, <4>2 DEF Repeated, Misled
    <3>6. CASE ChallengedContext(published) = RestoredDiagnosis(published)
      <4>1. PICK k \in Nat : k = ChallengesIn(published) /\ k >= 2
        BY <3>3
      <4>2. RestoredDiagnosis(published).revision = k
        BY <4>1 DEF RestoredDiagnosis, NoContext
      <4> QED
        BY <3>1, <3>4, <3>6, <4>1, <4>2
    <3> QED
      BY <3>5, <3>6 DEF ChallengedContext
  <2>5. CASE ~(q = DIAGNOSIS /\ IsChallenge(cards[p]))
    BY <1>2, <1>5, <2>3, <2>5 DEF StillOpen, StaleCard
  <2> QED
    BY <2>4, <2>5
<1> QED
  BY <1>6, <1>7

\* And Diagnosis can count: once a challenge is answered, its context is of a revision.
LEMMA MisledStep ==
  ASSUME ChainInv, AnsweredOnce, ~Misled, [Next]_vars,
         \/ faults' = faults
         \/ \E r \in Agents : \E m : Behaves(r, m) /\ GivesUp(r, m)
  PROVE  ~Misled'
<1> DEFINE r == DIAGNOSIS
<1>1. /\ AgentsInv /\ RoomSound /\ RoutedOnce /\ ChallengesRevise /\ ReviewIsLinear /\ Keeps
      /\ agent \in [Agents -> Memory] /\ r \in Agents /\ Answer(r) = "Assessment"
      /\ Context(r) \in Contexts
  BY InLine, InvParts, EveryStep, ChainKept, Roles
  DEF ChainInv, AnswersInv, SoundMemory, SoundContext, Context
<1>2. SUFFICES ASSUME Misled' PROVE FALSE
  OBVIOUS
<1>3. PICK m : m = agent'[r] /\ m.ctx.known /\ m.ctx.revision <= 1
  BY <1>2 DEF Misled, Context
<1>4. PICK i \in DOMAIN cards' : AnswersChallenge(i)'
  BY <1>2 DEF Misled
<1>5. i \in Answers'
  BY <1>4 DEF AnswersChallenge, Answers, Reviews
<1>6. ASSUME NEW q \in Agents, NEW x, Behaves(q, x), Answered(q, x), i \notin Answers PROVE FALSE
  <2>1. PICK n, p, c, o : n = Len(cards) + 1 /\ p = Question(q) /\ Seals(q, c, o)
    BY <1>6 DEF Answered
  <2>2. Answers' = Answers \union {n} /\ cards'[n].type = Answer(q) /\ Asked(n)' = p
    BY <1>1, <2>1, NewAnswer
  <2>3. q = r /\ IsChallenge(cards'[p])
    BY <1>1, <1>4, <1>5, <1>6, <2>2, OwnAnswer DEF AnswersChallenge
  <2>4. agent[r].pc = "reason" /\ p \in DOMAIN cards
    BY <1>1, <2>1, <2>3, AtWork, InRange DEF Seals
  <2>5. Context(r).revision >= 2 /\ Context(r).revision \in Nat
    BY <1>1, <2>1, <2>3, <2>4 DEF ChallengesRevise, Context, Keeps, Contexts
  <2>6. KeepsContext(r, x) /\ x.pc = "post" /\ m = x
    BY <1>1, <1>3, <1>6, <2>3 DEF Behaves, MovesTo, Answered, TakesOn
  <2>7. m.ctx.revision = Context(r).revision
    BY <1>1, <2>6 DEF KeepsContext, Contexts
  <2> QED
    BY <1>3, <2>5, <2>7
<1>7. i \in Answers
  BY <1>1, <1>5, <1>6, WhoAnswers
<1>8. AnswersChallenge(i) /\ i \in Reviews
  <2>1. /\ Asked(i)' = Asked(i) /\ cards'[i] = cards[i] /\ Asked(i) \in DOMAIN cards
        /\ i \in DOMAIN cards /\ cards'[Asked(i)] = cards[Asked(i)]
    BY <1>1, <1>7, AnswersStay, AnswerAsks DEF Keeps
  <2> QED
    BY <1>4, <2>1 DEF AnswersChallenge, Reviews
<1>9. ~(Context(r).known /\ Context(r).revision <= 1)
  BY <1>8 DEF Misled, Reviews
<1>10. PICK x : Behaves(r, x) /\ m = x
  BY <1>1, <1>3, <1>9, EveryMove DEF Outside, Behaves, MovesTo, Context
<1>11. TakesOn(r, x)
  <2>1. SUFFICES ASSUME KeepsContext(r, x) PROVE FALSE
    BY <1>10 DEF Behaves
  <2>2. CASE x.ctx = NoContext
    BY <1>3, <1>10, <2>2 DEF NoContext
  <2>3. CASE x.ctx = Context(r)
    BY <1>3, <1>9, <1>10, <2>3
  <2>4. CASE x.ctx = [Context(r) EXCEPT !.submitted = TRUE]
    <3>1. x.ctx.known = Context(r).known /\ x.ctx.revision = Context(r).revision
      BY <1>1, <2>4 DEF Contexts
    <3> QED
      BY <1>3, <1>9, <1>10, <3>1
  <2> QED
    BY <2>1, <2>2, <2>3, <2>4 DEF KeepsContext
<1>12. faults' = faults
  <2>1. SUFFICES ASSUME NEW q \in Agents, NEW y, Behaves(q, y), GivesUp(q, y) PROVE FALSE
    OBVIOUS
  <2>2. q = r
    <3>1. agent[r].pc = "poll" /\ m.pc = "reason"
      BY <1>10, <1>11 DEF TakesOn, Receives
    <3> QED
      BY <1>1, <1>3, <2>1, <3>1 DEF Behaves, MovesTo
  <2> QED
    BY <1>11, <2>1, <2>2 DEF GivesUp, TakesOn, Receives
<1>13. PICK p : p = NextCard(r)
  OBVIOUS
<1>14. /\ p \in DOMAIN cards /\ AsksDiagnosis(cards[p]) /\ ~IsChallenge(cards[p])
       /\ StillOpen(r, x)
  <2>1. Receives(r)
    BY <1>11 DEF TakesOn
  <2>2. p \in DOMAIN cards /\ AsksDiagnosis(cards[p])
    BY <1>1, <1>13, <2>1, NextConcerns, InRange, Roles
  <2>3. x.ctx.revision \in Nat
    <3>1. agent' \in [Agents -> Memory]
      <4>1. AgentsInv'
        BY <1>1, AgentsInvStep
      <4> QED
        BY <4>1 DEF AgentsInv, AgentsTypeOK
    <3>2. m \in Memory
      BY <1>1, <1>3, <3>1
    <3> QED
      BY <1>10, <3>2 DEF Memory, Contexts
  <2>4. IsChallenge(cards[p]) => x.ctx.revision >= 2
    BY <1>11, <1>13 DEF TakesOn
  <2>5. ~IsChallenge(cards[p])
    BY <1>3, <1>10, <2>3, <2>4
  <2>6. StillOpen(r, x)
    BY <1>11, <1>12 DEF TakesOn
  <2> QED
    BY <2>2, <2>5, <2>6
<1>15. p = 1
  BY <1>1, <1>14 DEF RoutedOnce, AsksDiagnosis
<1>16. Asked(i) \in published /\ Asked(i) \in Nat /\ Asked(i) > 1
  <2>1. i \in Nat /\ Asked(i) \in DOMAIN cards /\ Asked(i) \in Nat /\ Asked(i) < i
    BY <1>1, <1>8, ReviewAsks
  <2>2. Asked(i) \in Reviews /\ cards[Asked(i)].type # "TriageDecision"
    BY <1>8, <2>1 DEF AnswersChallenge, IsChallenge, Reviews
  <2>3. Asked(i) \in published
    BY <1>1, <1>8, <2>1, <2>2 DEF ReviewIsLinear
  <2> QED
    BY <1>1, <2>1, <2>2, <2>3, InRange DEF RoutedOnce
<1> QED
  BY <1>13, <1>14, <1>15, <1>16 DEF StillOpen, StaleCard

\* To give up is no way to repeat anything.
LEMMA GivingUpRepeatsNothing ==
  ASSUME ChainInv, AnsweredOnce, ~Repeated, [Next]_vars,
         NEW r \in Agents, NEW m, Behaves(r, m), GivesUp(r, m)
  PROVE  ~Repeated'
<1>1. AgentsInv /\ agent \in [Agents -> Memory] /\ UNCHANGED roomVars
  BY InvParts DEF ChainInv, GivesUp
<1>2. \A q \in Agents : agent'[q] = agent[q] \/ agent'[q].pc = "poll"
  BY <1>1 DEF Behaves, MovesTo, GivesUp
<1>3. ~PostedTwice'
  BY <1>1 DEF Repeated, PostedTwice, roomVars
<1>4. \A q \in Agents : ~Reposts(q)'
  BY <1>1, <1>2 DEF Repeated, Reposts, roomVars, ledgerVars
<1>5. \A q \in Agents : ~Redoes(q)'
  <2>1. SUFFICES ASSUME NEW q \in Agents, Redoes(q)' PROVE FALSE
    OBVIOUS
  <2>2. agent'[q] = agent[q]
    BY <1>2, <2>1 DEF Redoes
  <2>3. ~Redoes(q)
    BY DEF Repeated
  <2>4. Answers' = Answers
    BY <1>1 DEF Answers, Reviews, Plans, roomVars, ledgerVars
  <2> QED
    BY <1>1, <2>1, <2>2, <2>3, <2>4
    DEF Redoes, AnswersFor, Asked, Question, Context, roomVars, ledgerVars
<1>6. ~Misled'
  BY MisledStep DEF Repeated
<1> QED
  BY <1>3, <1>4, <1>5, <1>6 DEF Repeated

LEMMA RepeatedStep ==
  ASSUME ChainInv, AnsweredOnce, MaxChallenges <= 2, ~Repeated, [Next]_vars, Repeated',
         faults' = faults
  PROVE  Abandoned /\ ~Abandoned'
<1>1. ~PostedTwice'
  BY InLine, WhoPosts, PostedTwiceStep DEF ChainInv, AnswersInv, Repeated
<1>2. \A q \in Agents : ~Redoes(q)'
  BY RedoesStep
<1>3. ~Misled'
  BY MisledStep DEF Repeated
<1>4. PICK q \in Agents : Reposts(q)'
  BY <1>1, <1>2, <1>3 DEF Repeated
<1> QED
  BY <1>4, RepostsStep

LEMMA OneTroubleStep ==
  ASSUME ChainInv, AnsweredOnce, OneTrouble, MaxChallenges <= 2, [Next]_vars
  PROVE  OneTrouble'
<1>1. AgentsInv /\ faults \in Nat
  BY InvParts DEF ChainInv
<1>2. faults' = faults \/ faults' = faults + 1
  BY <1>1, FaultsStay DEF FaultsAdd
<1>3. CASE faults' = faults
  <2>1. ~Abandoned => ~Abandoned'
    BY <1>3, AbandonedStep
  <2>2. ~Repeated => ~Repeated' \/ (Abandoned /\ ~Abandoned')
    BY <1>3, RepeatedStep
  <2> QED
    BY <1>3, <2>1, <2>2 DEF OneTrouble
<1>4. CASE faults' = faults + 1 /\ faults = 0
  <2>1. ~Abandoned /\ ~Repeated
    BY <1>4 DEF OneTrouble
  <2>2. Abandoned' => \E r \in Agents : \E m : Behaves(r, m) /\ GivesUp(r, m)
    BY <2>1, AbandonedStep
  <2>3. Abandoned' => ~Repeated'
    BY <2>1, <2>2, GivingUpRepeatsNothing
  <2>4. faults' = 1
    BY <1>4
  <2> QED
    BY <2>3, <2>4 DEF OneTrouble
<1>5. CASE faults' = faults + 1 /\ faults # 0
  <2>1. faults' # 0 /\ faults' # 1
    BY <1>1, <1>5
  <2> QED
    BY <2>1 DEF OneTrouble
<1> QED
  BY <1>2, <1>3, <1>4, <1>5

\* Whoever sets to work on a question that is answered will find out.
LEMMA AnswersAreKnownStep ==
  ASSUME ChainInv, AnsweredOnce, OneTrouble, AnswersAreKnown, MaxChallenges <= 2, [Next]_vars,
         faults' <= 1
  PROVE  AnswersAreKnown'
<1>1. /\ AgentsInv /\ RoomSound /\ RoutedOnce /\ ChallengesRevise /\ OwnCards /\ Keeps
      /\ ReviewIsLinear /\ agent \in [Agents -> Memory] /\ faults \in Nat
  BY InLine, InvParts, EveryStep, ChainKept DEF ChainInv, AnswersInv, PlanningInv
<1>2. SUFFICES ASSUME NEW q \in Agents, agent'[q].pc = "reason", NEW i \in DOMAIN cards',
                      AnswersFor(q, i)'
               PROVE  KnownByKey(q, i)'
  BY DEF AnswersAreKnown
<1>3. PICK m, p : m = agent'[q] /\ p = messages'[m.msg] /\ Asked(i)' = p /\ i \in Answers'
  BY <1>2 DEF AnswersFor, Question
<1>4. ~\E x : Behaves(q, x) /\ Answered(q, x)
  BY <1>1, <1>2 DEF Behaves, MovesTo, Answered
<1>5. i \in Answers
  <2>1. SUFFICES ASSUME NEW r \in Agents, NEW x, Behaves(r, x), Answered(r, x), i \notin Answers
                 PROVE  FALSE
    BY <1>1, <1>3, WhoAnswers
  <2>2. PICK n, c, o : n = Len(cards) + 1 /\ Seals(r, c, o)
    BY <2>1 DEF Answered
  <2>3. Answers' = Answers \union {n} /\ cards'[n].type = Answer(r)
    BY <1>1, <2>2, NewAnswer
  <2>4. r = q
    BY <1>2, <1>3, <2>1, <2>3, OwnAnswer DEF AnswersFor
  <2> QED
    BY <1>4, <2>1, <2>4
<1>6. /\ cards'[i] = cards[i] /\ origin'[i] = origin[i]
      /\ i \in DOMAIN cards /\ i \in Nat /\ Asked(i) \in Nat /\ Asked(i) < i
      /\ cards[i].type = Answer(q) /\ p = Asked(i)
  BY <1>1, <1>2, <1>3, <1>5, AnswersStay, AnswerAsks DEF AnswersFor
<1>7. PublishedChallenges \subseteq PublishedChallenges' /\ published \subseteq published'
  BY <1>1 DEF Keeps, PublishedChallenges
<1>8. SUFFICES \/ origin[i].msg = m.msg
               \/ /\ q = DIAGNOSIS /\ i \in published /\ p \in PublishedChallenges
                  /\ \E j \in PublishedChallenges : j < p
  BY <1>3, <1>6, <1>7 DEF KnownByKey, Question
<1>9. CASE m = agent[q]
  <2>1. p = Question(q) /\ agent[q].pc = "reason"
    BY <1>1, <1>2, <1>3, <1>9, AtWork, MessagesStay DEF Question
  <2>2. KnownByKey(q, i)
    BY <1>5, <1>6, <2>1 DEF AnswersAreKnown, AnswersFor
  <2> QED
    BY <1>9, <2>1, <2>2 DEF KnownByKey
<1>10. CASE m # agent[q]
  <2>1. Behaves(q, m)
    BY <1>1, <1>3, <1>10, EveryMove DEF Outside, Behaves, MovesTo
  <2>2. TakesOn(q, m)
    BY <1>2, <1>3, <2>1 DEF Behaves, Waits, Answered, Resumes, Puts, Finishes, GivesUp, Authorizes
  <2>3. Receives(q) /\ m.msg = NextMessage(q) /\ p = NextCard(q) /\ UNCHANGED roomVars
    BY <1>3, <2>2 DEF TakesOn, roomVars, NextCard
  <2>4. CASE ~PostedTwice
    <3>1. m.msg \in DOMAIN messages /\ origin[i].msg \in DOMAIN messages
      BY <1>1, <1>5, <2>3, NextConcerns, InRange, AnswerAsks
    <3>2. messages[m.msg] = messages[origin[i].msg]
      BY <1>6, <2>3 DEF NextCard, Asked
    <3> QED
      BY <2>4, <3>1, <3>2 DEF PostedTwice
  <2>5. CASE PostedTwice
    <3>1. faults' = faults /\ ~Abandoned
      BY <1>1, <2>5, FaultsStay DEF OneTrouble, Repeated, FaultsAdd
    <3>2. StillOpen(q, m)
      BY <2>2, <3>1 DEF TakesOn
    <3>3. i \in published
      <4>1. ~InHand(i)
        BY <1>1, <1>6, <2>3, OwnHands DEF Receives
      <4> QED
        BY <1>5, <3>1, <4>1 DEF Abandoned
    <3>4. q = DIAGNOSIS /\ IsChallenge(cards[p])
      BY <1>6, <2>3, <3>2, <3>3 DEF StillOpen, StaleCard
    <3>5. AnswersChallenge(i) /\ ~ChallengeAlreadyAnswered(published, p)
      BY <1>6, <2>3, <3>2, <3>4, Roles DEF AnswersChallenge, StillOpen
    <3> QED
      BY <1>6, <3>3, <3>4, <3>5, BehindInRevision
  <2> QED
    BY <2>4, <2>5
<1> QED
  BY <1>9, <1>10

LEMMA OnceStep ==
  MaxChallenges <= 2 /\ ChainInv /\ OnceInv /\ [Next]_vars => OnceInv'
<1> SUFFICES ASSUME MaxChallenges <= 2, ChainInv, OnceInv, [Next]_vars, faults' <= 1
             PROVE  (AnsweredOnce /\ OneTrouble /\ AnswersAreKnown)'
  BY DEF OnceInv
<1>1. faults <= 1
  <2>1. faults \in Nat /\ (faults' = faults \/ faults' = faults + 1)
    BY InvParts, FaultsStay DEF ChainInv, FaultsAdd
  <2> QED
    BY <2>1
<1>2. AnsweredOnce /\ OneTrouble /\ AnswersAreKnown
  BY <1>1 DEF OnceInv
<1> QED
  BY <1>2, AnsweredOnceStep, OneTroubleStep, AnswersAreKnownStep

LEMMA OnceInit == Init => OnceInv
<1> SUFFICES ASSUME Init PROVE AnsweredOnce /\ OneTrouble /\ AnswersAreKnown
  BY DEF OnceInv
<1>1. /\ DOMAIN cards = {1} /\ cards[1].type = "TriageDecision" /\ messages = <<1>>
      /\ \A r \in Agents : agent[r] = Fresh
  BY DEF Init
<1>2. Answers = {}
  BY <1>1 DEF Answers, Reviews, Plans
<1>3. ~Abandoned
  BY <1>2 DEF Abandoned
<1>4. Fresh.pc = "poll" /\ ~Fresh.ctx.known
  BY DEF Fresh, NoContext
<1>5. ~Repeated
  <2>1. ~PostedTwice
    BY <1>1 DEF PostedTwice
  <2>2. ~Misled
    BY <1>1, <1>4, Roles DEF Misled, Context
  <2> QED
    BY <1>1, <1>4, <2>1, <2>2 DEF Repeated, Reposts, Redoes
<1>6. AnswersAreKnown
  BY <1>1, <1>4 DEF AnswersAreKnown
<1> QED
  BY <1>2, <1>3, <1>5, <1>6 DEF AnsweredOnce, OneTrouble

\* What a single fault can do to the agents' answers, and what it cannot: an answer is left
\* behind, or a card is in the room twice, never both.
THEOREM OnceInvariance == MaxChallenges <= 2 => (Spec => []OnceInv)
<1> SUFFICES ASSUME MaxChallenges <= 2 PROVE Spec => []OnceInv
  OBVIOUS
<1>1. ChainInv /\ OnceInv /\ [Next]_vars => OnceInv'
  BY OnceStep
<1> QED
  BY <1>1, OnceInit, AgentsInvariance, PlanningInvariance, ReviewInvariance, AnswersInvariance, PTL
  DEF Spec, ChainInv

\* seal-before-send, under restarts: whatever single thing fails, a question is answered
\* with one card, though the key of a card is the message and its question may be in two.
\* It takes a budget of two challenges, submission.py MAX_CHALLENGES_PER_INCIDENT.
THEOREM OneAnswer == MaxChallenges <= 2 => (Spec => []OneAnswerPerQuestion)
<1>1. AgentsInv /\ AnswersInv /\ OnceInv => OneAnswerPerQuestion
  <2> SUFFICES ASSUME AgentsInv, AnswersInv, OnceInv, faults <= 1,
                      NEW i \in DOMAIN cards, NEW j \in DOMAIN cards,
                      origin[i].msg # 0, origin[j].msg # 0, cards[i].type = cards[j].type,
                      messages[origin[i].msg] = messages[origin[j].msg]
               PROVE  i = j
    BY DEF OneAnswerPerQuestion
  <2>1. i \in Answers /\ j \in Answers
    BY DEF AnswersInv, KeyedAnswers
  <2> QED
    BY <2>1 DEF OnceInv, AnsweredOnce, Asked
<1> QED
  BY <1>1, AgentsInvariance, AnswersInvariance, OnceInvariance, PTL

\* So a single fault does no harm to the review: what is confirmed is the evidence in force,
\* and what is planned is planned for it, or for an older Assessment that was published if
\* the one fault is the lookup of the Assessment (_fetch_assessment, :1396-1408).
THEOREM OneFaultIsHarmless ==
  MaxChallenges <= 2 => (Spec => [](faults <= 1 => ConfirmsEvidenceInForce /\ PlansFollowReview))
<1>1. OnceInv /\ (ReviewedOnce => ConfirmsEvidenceInForce) /\ (ReviewedOnce => PlansFollowReview)
        => (faults <= 1 => ConfirmsEvidenceInForce /\ PlansFollowReview)
  BY DEF OnceInv, AnsweredOnce, ReviewedOnce, Answers
<1> QED
  BY <1>1, OnceInvariance, EvidenceInForce, PlansFollow, PTL
================================================================================
