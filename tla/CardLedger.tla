------------------------------ MODULE CardLedger ------------------------------
(***************************************************************************)
(* The seal-before-send protocol of the Gateway (gateway/routes/           *)
(* submission.py) for one incident.  An agent has a card sealed into the   *)
(* incident's chain (/prepare), posts it to the incident room itself, and  *)
(* then has the Gateway confirm the publication (/confirm); only that last *)
(* step moves the incident.  Any number of cards may be prepared and not   *)
(* yet confirmed at the same time, by agents that retry, restart or act on *)
(* a message delivered twice, and they may be confirmed in any order, or   *)
(* never.                                                                  *)
(*                                                                         *)
(* A card is its sequence number in "cards"; sealed cards never change, so *)
(* what happens to them later is kept beside them, in "room" (a message    *)
(* that carries the card is in the incident room) and "published"          *)
(* (published_at is set).                                                  *)
(*                                                                         *)
(* The Gateway seals two kinds of card itself, a human's decision and a    *)
(* policy authorization.  They are steps of this module in their weakest   *)
(* form; module Approval says when they are taken.                         *)
(***************************************************************************)
EXTENDS Naturals, Sequences, FiniteSets

CONSTANTS Bodies,         \* what a plan would do: runbook, envelopes, revision
          HumanOnly,      \* the bodies that force human approval at any severity
          NoBody,         \* the body of a card that carries no plan
          MaxChallenges,  \* MAX_CHALLENGES_PER_INCIDENT
          MaxCards        \* bound on the length of the chain

ASSUME LedgerAssumption ==
  /\ HumanOnly \subseteq Bodies
  /\ NoBody \notin Bodies
  /\ MaxChallenges \in Nat
  /\ MaxCards \in Nat

VARIABLES state,      \* incidents.state, "NONE" while there is no row
          cards,      \* the sealed chain, in sequence_number order
          room,       \* numbers of the cards some room message carries
          published   \* numbers of the cards with published_at set

ledgerVars == <<state, cards, room, published>>

-------------------------------------------------------------------------------
(* Cards.                                                                      *)

States == {"NONE", "DETECTED", "TRIAGED", "SUPPRESSED", "ASSESSED", "REVIEWED",
           "CHALLENGED", "ESCALATED_HUMAN", "PLANNED", "REJECTED", "APPROVED",
           "AUTHORIZED", "EXECUTED", "RESOLVED", "CLOSED_FALSE_ALARM"}

Plain    == {"AlertCard", "ActionReceipt", "Postmortem"}
Verdicts == {"CONFIRM", "CHALLENGE", "FALSE_ALARM", "NEEDS_HUMAN"}
CardTypes == Plain \union {"TriageDecision", "Assessment", "Verdict", "ResponsePlan",
                           "StructuredApproval", "PolicyAuthorization"}
Decisions == Verdicts \union {"none", "route", "suppress", "APPROVED", "REJECTED"}

\* "risk" is "high" in an Assessment of severity P1 and in a ResponsePlan with
\* risk_level high or requires_human_approval; an authorization repeats the
\* body and the risk of the plan it is about, which stands for its plan_hash.
Card == [type: CardTypes, decision: Decisions,
         body: Bodies \union {NoBody}, risk: {"low", "high"}]

\* What the agents may submit, each under its own key: the role decides the
\* card type, and the Gateway's own two types are in no agent's ACL.
AgentCards ==
  [type: Plain, decision: {"none"}, body: {NoBody}, risk: {"low"}]
  \union [type: {"TriageDecision"}, decision: {"route", "suppress"},
          body: {NoBody}, risk: {"low"}]
  \union [type: {"Assessment"}, decision: {"none"}, body: {NoBody}, risk: {"low", "high"}]
  \union [type: {"Verdict"}, decision: Verdicts, body: {NoBody}, risk: {"low"}]
  \union [type: {"ResponsePlan"}, decision: {"none"}, body: Bodies, risk: {"low", "high"}]

\* What the Gateway seals: the decision of a human, or of the policy.
GatewayCards ==
  [type: {"StructuredApproval"}, decision: {"APPROVED", "REJECTED", "FALSE_ALARM"},
   body: Bodies, risk: {"low", "high"}]
  \union [type: {"PolicyAuthorization"}, decision: {"none"}, body: Bodies, risk: {"low"}]

IsChallenge(c) == c.type = "Verdict" /\ c.decision = "CHALLENGE"
IsAuthorization(c) ==
  c.type = "PolicyAuthorization" \/ (c.type = "StructuredApproval" /\ c.decision = "APPROVED")
IsRefusal(c) ==
  c.type = "StructuredApproval" /\ c.decision \in {"REJECTED", "FALSE_ALARM"}

\* The state a card's publication moves the incident to.
ResolveState(c) ==
  CASE c.type = "AlertCard"           -> "DETECTED"
    [] c.type = "TriageDecision"      -> IF c.decision = "suppress" THEN "SUPPRESSED"
                                                                    ELSE "TRIAGED"
    [] c.type = "Assessment"          -> "ASSESSED"
    [] c.type = "Verdict"             -> CASE c.decision = "CONFIRM"     -> "REVIEWED"
                                           [] c.decision = "CHALLENGE"   -> "CHALLENGED"
                                           [] c.decision = "FALSE_ALARM" -> "CLOSED_FALSE_ALARM"
                                           [] OTHER                      -> "ESCALATED_HUMAN"
    [] c.type = "ResponsePlan"        -> "PLANNED"
    [] c.type = "StructuredApproval"  -> CASE c.decision = "REJECTED"    -> "REJECTED"
                                           [] c.decision = "FALSE_ALARM" -> "CLOSED_FALSE_ALARM"
                                           [] OTHER                      -> "APPROVED"
    [] c.type = "PolicyAuthorization" -> "AUTHORIZED"
    [] c.type = "ActionReceipt"       -> "EXECUTED"
    [] OTHER                          -> "RESOLVED"

\* Fault: an approved plan may still be revised.
RevisableStates == {"REVIEWED", "REJECTED", "ESCALATED_HUMAN", "APPROVED"}

\* A plan answers a review, a rejection or an escalation.
PlanStates == {"REVIEWED", "REJECTED", "ESCALATED_HUMAN"}

\* The states in which a card of a type may be prepared and confirmed.
StatePrerequisites(type) ==
  CASE type = "AlertCard"      -> States
    [] type = "TriageDecision" -> {"DETECTED"}
    [] type = "Assessment"     -> {"TRIAGED", "CHALLENGED"}
    [] type = "Verdict"        -> {"ASSESSED"}
    [] type = "ResponsePlan"   -> PlanStates
    [] type = "ActionReceipt"  -> {"APPROVED", "AUTHORIZED"}
    [] type = "Postmortem"     -> {"EXECUTED"}
    [] OTHER                   -> {"PLANNED"}

-------------------------------------------------------------------------------
(* What the handlers read from the cards table.                                *)

PublishedChallenges == {i \in published : IsChallenge(cards[i])}
ChallengesSpent == Cardinality(PublishedChallenges)

\* The severity the risk floor goes by: that of the Assessment sealed last.
FloorIsHigh ==
  \E i \in DOMAIN cards :
     /\ cards[i].type = "Assessment" /\ cards[i].risk = "high"
     /\ \A j \in DOMAIN cards : j > i => cards[j].type # "Assessment"

\* _apply_risk_floor raises the risk of a plan, and never lowers it.
ApplyRiskFloor(c) ==
  IF c.type = "ResponsePlan" /\ (FloorIsHigh \/ c.body \in HumanOnly)
  THEN [c EXCEPT !.risk = "high"] ELSE c

-------------------------------------------------------------------------------
(* The checks of the handlers, each after the faulty form of it that a mutant  *)
(* puts in its place.                                                          *)

\* Fault: the budget is compared with <= (submission.py compares with >=).
BudgetLeftOffByOne(c) == IsChallenge(c) => ChallengesSpent <= MaxChallenges

\* A CHALLENGE is sealed only while fewer than MaxChallenges are published.
BudgetLeft(c) == IsChallenge(c) => ChallengesSpent < MaxChallenges

\* Fault: /confirm takes the agent's word for the room message.
UnverifiedRoomMessage(i) == TRUE

\* _verify_room_publication: some message of the room carries the card.
RoomMessageVerified(i) == i \in room

\* Fault: /confirm relies on the check that /prepare made.
StateCheckedAtPrepare(i) == TRUE

\* /confirm checks the state once more.
StateAllows(i) == state \in StatePrerequisites(cards[i].type)

\* Fault: only a published card of the same type makes a card stale.
NotStaleWithinType(i) ==
  \A j \in published : cards[j].type = cards[i].type => j < i

\* The staleness check: no card with a higher sequence number is published.
NotStale(i) == \A j \in published : j < i

\* Fault: an AlertCard that is confirmed late drives the state as the first did.
AnyAlertAdvances(i) == TRUE

\* The AlertCard regression guard.
AdvancesIncident(i) == cards[i].type = "AlertCard" => state = "DETECTED"

\* Fault: the lifecycle looks at the card and the authorization alone.
AdvanceInAnyState(i) == i \notin published

\* The source mode of advance_authorization_lifecycle.
LifecycleSource(i) == i \notin published /\ state = "PLANNED"

-------------------------------------------------------------------------------
(* The Gateway's handlers.                                                     *)

LedgerInit == state = "NONE" /\ cards = <<>> /\ room = {} /\ published = {}

\* POST /api/prepare, up to its commit.  A retry with the same idempotency key
\* returns the card it made before and changes nothing.
PrepareCard(c) ==
  /\ Len(cards) < MaxCards
  /\ state \in StatePrerequisites(c.type)
  /\ BudgetLeft(c)
  /\ cards' = Append(cards, ApplyRiskFloor(c))
  /\ state' = IF state = "NONE" THEN "DETECTED" ELSE state
  /\ UNCHANGED <<room, published>>

\* The incident row is committed before the card is sealed: a crash between
\* the two leaves an incident without a card.
CrashAfterUpsert ==
  /\ state = "NONE"
  /\ state' = "DETECTED"
  /\ UNCHANGED <<cards, room, published>>

\* The preparing agent, or the Gateway for a card of its own, posts the card.
PostCard(i) ==
  /\ i \notin room
  /\ room' = room \union {i}
  /\ UNCHANGED <<state, cards, published>>

\* POST /api/confirm: verify the room message, the state and that no newer card
\* was confirmed, then publish the card and advance the incident in one
\* transaction.  A late AlertCard is published and moves nothing.
ConfirmPublication(i) ==
  /\ i \notin published
  /\ cards[i].type \notin {"StructuredApproval", "PolicyAuthorization"}
  /\ RoomMessageVerified(i)
  /\ StateAllows(i)
  /\ NotStale(i)
  /\ published' = published \union {i}
  /\ state' = IF AdvancesIncident(i) THEN ResolveState(cards[i]) ELSE state
  /\ UNCHANGED <<cards, room>>

\* The Gateway seals a decision on the plan.  A refusal moves the incident in
\* the same transaction, an authorization only once it is published.
SealDecision(c) ==
  /\ Len(cards) < MaxCards
  /\ state = "PLANNED"
  /\ cards' = Append(cards, c)
  /\ state' = IF IsRefusal(c) THEN ResolveState(c) ELSE state
  /\ UNCHANGED <<room, published>>

\* advance_authorization_lifecycle: publish the authorization and advance.
PublishAuthorization(i) ==
  /\ i \in room
  /\ IsAuthorization(cards[i])
  /\ LifecycleSource(i)
  /\ published' = published \union {i}
  /\ state' = ResolveState(cards[i])
  /\ UNCHANGED <<cards, room>>

\* _publish_rejection_to_room: the notification of a refusal, whatever has
\* happened to the incident since.
PublishRefusal(i) ==
  /\ i \in room \ published
  /\ IsRefusal(cards[i])
  /\ published' = published \union {i}
  /\ UNCHANGED <<state, cards, room>>

LedgerNext ==
  \/ \E c \in AgentCards : PrepareCard(c)
  \/ CrashAfterUpsert
  \/ \E c \in GatewayCards : SealDecision(c)
  \/ \E i \in DOMAIN cards : \/ PostCard(i)
                             \/ ConfirmPublication(i)
                             \/ PublishAuthorization(i)
                             \/ PublishRefusal(i)

LedgerSpec == LedgerInit /\ [][LedgerNext]_ledgerVars

-------------------------------------------------------------------------------
(* Properties.                                                                 *)

\* Types, and that the room has seen every card that is published.
TypeOK == /\ state \in States
          /\ cards \in Seq(Card)
          /\ Len(cards) <= MaxCards
          /\ room \subseteq 1..Len(cards)
          /\ published \subseteq room

\* The challenge budget is durable: no more than MaxChallenges CHALLENGE verdicts
\* are ever published, although /prepare counts the published ones and any number
\* of verdicts may be prepared before the first of them is confirmed.
ChallengeBudget == ChallengesSpent <= MaxChallenges

\* At most one authorization of an incident is ever published, however many
\* human and policy authorizations are sealed and pending for its plans.
SingleAuthorization ==
  \A i, j \in published : IsAuthorization(cards[i]) /\ IsAuthorization(cards[j]) => i = j

\* The incident is in a state that an authorization leads to only if one is
\* published, and a published one is never forgotten.
Authorized == {"APPROVED", "AUTHORIZED", "EXECUTED", "RESOLVED"}
AuthorizedByCard ==
  state \in Authorized <=> \E i \in published : IsAuthorization(cards[i])

\* An incident is past its review only on a verdict about the investigation in
\* force: every published Assessment is older than some published Verdict.
BeforeReview == {"NONE", "DETECTED", "TRIAGED", "SUPPRESSED", "ASSESSED"}
ReviewCoversAssessment ==
  state \notin BeforeReview =>
    \A i \in published : cards[i].type = "Assessment" =>
       \E j \in published : cards[j].type = "Verdict" /\ i < j

\* The protocol implements the incident's lifecycle, with the published
\* challenges for its count.
Lifecycle == INSTANCE IncidentLifecycle WITH challenges <- ChallengesSpent
ImplementsLifecycle == Lifecycle!LifecycleSpec

-------------------------------------------------------------------------------
(* Why the budget holds: the inductive invariant of the proofs.                *)

\* A prepared card that could still be confirmed, were the state right for it.
Confirmable(i) == i \in DOMAIN cards \ published /\ NotStale(i)
Pending(type) == {i \in DOMAIN cards : Confirmable(i) /\ cards[i].type = type}

\* No verdict is sealed before the first investigation is confirmed.
NoEarlyVerdict ==
  state \in {"NONE", "DETECTED", "TRIAGED", "SUPPRESSED"} =>
    \A i \in DOMAIN cards : cards[i].type # "Verdict"

\* A challenge that could be confirmed now was counted against this very budget.
PendingChallengeFits ==
  state = "ASSESSED" =>
    \A i \in Pending("Verdict") : IsChallenge(cards[i]) => ChallengesSpent < MaxChallenges

\* Confirming a verdict outdates every Assessment that is pending, ...
VerdictsAreNewer ==
  state = "ASSESSED" => \A i \in Pending("Assessment"), j \in Pending("Verdict") : i < j

\* ... and confirming the next Assessment outdates every verdict that is.
AssessmentsAreNewer ==
  state = "CHALLENGED" => \A i \in Pending("Assessment"), j \in Pending("Verdict") : j < i

BudgetInv == /\ TypeOK /\ ChallengeBudget /\ NoEarlyVerdict /\ PendingChallengeFits
             /\ VerdictsAreNewer /\ AssessmentsAreNewer
===============================================================================
