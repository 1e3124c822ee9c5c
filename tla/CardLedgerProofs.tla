--------------------------- MODULE CardLedgerProofs ---------------------------
(***************************************************************************)
(* What the card ledger guarantees for every bound on the chain, every set *)
(* of plan bodies and every challenge budget.                              *)
(***************************************************************************)
EXTENDS CardLedger, FiniteSetTheorems, TLAPS

\* Sealing a card leaves every earlier card where it is.
LEMMA SealKeepsCards ==
  ASSUME cards \in Seq(Card), NEW c \in Card, cards' = Append(cards, c)
  PROVE  /\ cards' \in Seq(Card)
         /\ Len(cards') = Len(cards) + 1
         /\ DOMAIN cards = 1..Len(cards)
         /\ DOMAIN cards' = 1..(Len(cards) + 1)
         /\ cards'[Len(cards) + 1] = c
         /\ \A i \in 1..Len(cards) : cards'[i] = cards[i]
  OBVIOUS

\* The risk floor turns a card into a card and touches nothing but the risk.
LEMMA RiskFloorKeepsCard ==
  ASSUME NEW c \in Card
  PROVE  /\ ApplyRiskFloor(c) \in Card
         /\ ApplyRiskFloor(c).type = c.type
         /\ ApplyRiskFloor(c).decision = c.decision
  BY DEF ApplyRiskFloor, Card

\* The cards of the agents and of the Gateway are cards.
LEMMA SubmittedAreCards ==
  AgentCards \subseteq Card /\ GatewayCards \subseteq Card
  BY DEF AgentCards, GatewayCards, Card, CardTypes, Plain, Verdicts, Decisions

\* A card's publication leads to one of the states.
LEMMA ResolveStateType == \A c \in Card : ResolveState(c) \in States
  BY DEF ResolveState, States

\* Every step of the ledger keeps the types.
LEMMA LedgerTypingStep ==
  TypeOK /\ [LedgerNext]_ledgerVars => TypeOK'
<1> SUFFICES ASSUME TypeOK, [LedgerNext]_ledgerVars PROVE TypeOK'
  OBVIOUS
<1>1. ASSUME NEW c \in AgentCards, PrepareCard(c) PROVE TypeOK'
  <2>1. ApplyRiskFloor(c) \in Card
    BY SubmittedAreCards, RiskFloorKeepsCard
  <2>2. cards' \in Seq(Card) /\ Len(cards') = Len(cards) + 1
    BY <1>1, <2>1, SealKeepsCards DEF TypeOK, PrepareCard
  <2> QED
    BY <1>1, <2>2, LedgerAssumption DEF TypeOK, PrepareCard, States
<1>2. CASE CrashAfterUpsert
  BY <1>2 DEF TypeOK, CrashAfterUpsert, States
<1>3. ASSUME NEW c \in GatewayCards, SealDecision(c) PROVE TypeOK'
  <2>1. cards' \in Seq(Card) /\ Len(cards') = Len(cards) + 1
    BY <1>3, SubmittedAreCards, SealKeepsCards DEF TypeOK, SealDecision
  <2>2. state' \in States
    BY <1>3, ResolveStateType, SubmittedAreCards DEF TypeOK, SealDecision
  <2> QED
    BY <1>3, <2>1, <2>2, LedgerAssumption DEF TypeOK, SealDecision
<1>4. ASSUME NEW i \in DOMAIN cards, PostCard(i) PROVE TypeOK'
  <2>1. DOMAIN cards = 1..Len(cards)
    BY DEF TypeOK
  <2> QED
    BY <1>4, <2>1 DEF TypeOK, PostCard
<1>5. ASSUME NEW i \in DOMAIN cards,
             \/ ConfirmPublication(i) \/ PublishAuthorization(i) \/ PublishRefusal(i)
      PROVE  TypeOK'
  <2>1. cards[i] \in Card
    BY DEF TypeOK
  <2>2. state' \in States
    BY <1>5, <2>1, ResolveStateType
    DEF TypeOK, ConfirmPublication, PublishAuthorization, PublishRefusal
  <2>3. i \in room /\ published' = published \union {i} /\ UNCHANGED <<cards, room>>
    BY <1>5 DEF ConfirmPublication, PublishAuthorization, PublishRefusal, RoomMessageVerified
  <2> QED
    BY <2>2, <2>3 DEF TypeOK
<1>6. CASE UNCHANGED ledgerVars
  BY <1>6 DEF TypeOK, ledgerVars
<1> QED
  BY <1>1, <1>2, <1>3, <1>4, <1>5, <1>6 DEF LedgerNext

\* Type correctness of the ledger, and that nothing is published which the room has
\* not seen.
THEOREM LedgerTyping == LedgerSpec => []TypeOK
<1>1. LedgerInit => TypeOK
  BY LedgerAssumption DEF LedgerInit, TypeOK, States
<1> QED
  BY <1>1, LedgerTypingStep, PTL DEF LedgerSpec

-------------------------------------------------------------------------------
(* The count of published challenges.                                          *)

LEMMA ChallengesFinite ==
  ASSUME TypeOK
  PROVE  IsFiniteSet(PublishedChallenges) /\ ChallengesSpent \in Nat
<1>1. IsFiniteSet(1..Len(cards))
  BY FS_Interval DEF TypeOK
<1>2. PublishedChallenges \subseteq 1..Len(cards)
  BY DEF TypeOK, PublishedChallenges
<1>3. IsFiniteSet(PublishedChallenges)
  BY <1>1, <1>2, FS_Subset
<1> QED
  BY <1>3, FS_CardinalityType DEF ChallengesSpent

\* Sealing a card spends nothing.
LEMMA SealSpendsNothing ==
  ASSUME TypeOK, NEW c \in Card, cards' = Append(cards, c), published' = published
  PROVE  PublishedChallenges' = PublishedChallenges /\ ChallengesSpent' = ChallengesSpent
<1>1. \A i \in published : cards'[i] = cards[i]
  BY SealKeepsCards DEF TypeOK
<1>2. PublishedChallenges' = PublishedChallenges
  BY <1>1 DEF PublishedChallenges
<1> QED
  BY <1>2 DEF ChallengesSpent

\* Publishing a card spends one challenge if it is a CHALLENGE verdict.
LEMMA PublicationSpends ==
  ASSUME TypeOK, NEW i \in DOMAIN cards, i \notin published,
         cards' = cards, published' = published \union {i}
  PROVE  ChallengesSpent' = ChallengesSpent + (IF IsChallenge(cards[i]) THEN 1 ELSE 0)
<1>1. CASE IsChallenge(cards[i])
  <2>1. PublishedChallenges' = PublishedChallenges \union {i} /\ i \notin PublishedChallenges
    BY <1>1 DEF PublishedChallenges
  <2>2. Cardinality(PublishedChallenges \union {i}) = Cardinality(PublishedChallenges) + 1
    BY <2>1, ChallengesFinite, FS_AddElement
  <2> QED
    BY <1>1, <2>1, <2>2 DEF ChallengesSpent
<1>2. CASE ~IsChallenge(cards[i])
  <2>1. PublishedChallenges' = PublishedChallenges
    BY <1>2 DEF PublishedChallenges
  <2> QED
    BY <1>2, <2>1, ChallengesFinite DEF ChallengesSpent
<1> QED
  BY <1>1, <1>2

-------------------------------------------------------------------------------
(* The challenge budget.                                                       *)

\* What sealing card c, as number n, does to the cards that are pending.
LEMMA SealPending ==
  ASSUME TypeOK, NEW c \in Card, NEW n, n = Len(cards) + 1,
         cards' = Append(cards, c), published' = published
  PROVE  /\ cards'[n] = c
         /\ \A t : \A i \in Pending(t)' : (i = n /\ c.type = t) \/ i \in Pending(t)
         /\ \A t : \A i \in Pending(t) : i < n /\ cards'[i] = cards[i]
<1>1. /\ DOMAIN cards = 1..Len(cards) /\ DOMAIN cards' = 1..n
      /\ cards'[n] = c
      /\ \A i \in 1..Len(cards) : cards'[i] = cards[i]
      /\ Len(cards) \in Nat
  BY SealKeepsCards DEF TypeOK
<1>2. \A i \in 1..Len(cards) : Confirmable(i)' => Confirmable(i)
  BY <1>1 DEF Confirmable, NotStale
<1>3. \A i \in 1..n : i # n => i \in 1..Len(cards)
  BY <1>1
<1> QED
  BY <1>1, <1>2, <1>3 DEF Pending

\* Publishing a card takes it, and every older card, from those that are pending.
LEMMA PublicationPending ==
  ASSUME TypeOK, NEW i \in DOMAIN cards, cards' = cards, published' = published \union {i}
  PROVE  \A t : \A j \in Pending(t)' : j \in Pending(t) /\ i < j
  BY DEF TypeOK, Pending, Confirmable, NotStale

\* A step that spends no challenge, makes no card pending and enters none of the states
\* the invariant speaks of keeps it.
LEMMA BudgetKept ==
  ASSUME BudgetInv, TypeOK', cards' = cards,
         ChallengesSpent' = ChallengesSpent,
         \A t : \A j \in Pending(t)' : j \in Pending(t),
         \/ state' = state
         \/ /\ state' \notin {"ASSESSED", "CHALLENGED"}
            /\ state' \in {"NONE", "DETECTED", "TRIAGED", "SUPPRESSED"} =>
                 state \in {"NONE", "DETECTED", "TRIAGED", "SUPPRESSED"}
  PROVE  BudgetInv'
BY DEF BudgetInv, ChallengeBudget, NoEarlyVerdict, PendingChallengeFits,
       VerdictsAreNewer, AssessmentsAreNewer

\* Every step of the ledger keeps the invariant behind the challenge budget.
LEMMA BudgetStep ==
  BudgetInv /\ TypeOK' /\ [LedgerNext]_ledgerVars => BudgetInv'
<1> SUFFICES ASSUME BudgetInv, TypeOK', [LedgerNext]_ledgerVars PROVE BudgetInv'
  OBVIOUS
<1> USE DEF BudgetInv
<1>1. ASSUME NEW c \in AgentCards, PrepareCard(c) PROVE BudgetInv'
  <2> DEFINE d == ApplyRiskFloor(c)
  <2>1. d \in Card /\ d.type = c.type /\ d.decision = c.decision
    BY SubmittedAreCards, RiskFloorKeepsCard
  <2> HIDE DEF d
  <2>2. PICK n : n = Len(cards) + 1
    OBVIOUS
  <2>3. cards' = Append(cards, d) /\ published' = published
    BY <1>1 DEF PrepareCard, d
  <2>4. state' = state \/ (state = "NONE" /\ state' = "DETECTED")
    BY <1>1 DEF PrepareCard
  <2>5. state \in StatePrerequisites(d.type)
    BY <1>1, <2>1 DEF PrepareCard
  <2>6. IsChallenge(d) => ChallengesSpent < MaxChallenges
    BY <1>1, <2>1 DEF PrepareCard, BudgetLeft, IsChallenge
  <2>7. ChallengesSpent' = ChallengesSpent
    BY <2>1, <2>3, SealSpendsNothing
  <2>8. /\ cards'[n] = d
        /\ \A t : \A i \in Pending(t)' : (i = n /\ d.type = t) \/ i \in Pending(t)
        /\ \A t : \A i \in Pending(t) : i < n /\ cards'[i] = cards[i]
    BY <2>1, <2>2, <2>3, SealPending
  <2>9. ChallengeBudget'
    BY <2>7 DEF ChallengeBudget
  <2>10. NoEarlyVerdict'
    <3>1. \A i \in DOMAIN cards' : i = n \/ (i \in DOMAIN cards /\ cards'[i] = cards[i])
      BY <2>1, <2>2, <2>3, SealKeepsCards DEF TypeOK
    <3>2. d.type = "Verdict" => state = "ASSESSED"
      BY <2>5 DEF StatePrerequisites, PlanStates
    <3> QED
      BY <2>4, <2>8, <3>1, <3>2 DEF NoEarlyVerdict
  <2>11. PendingChallengeFits'
    BY <2>4, <2>6, <2>7, <2>8 DEF PendingChallengeFits
  <2>12. VerdictsAreNewer'
    <3>1. state = "ASSESSED" => d.type # "Assessment"
      BY <2>5 DEF StatePrerequisites, PlanStates
    <3> QED
      BY <2>4, <2>8, <3>1 DEF VerdictsAreNewer
  <2>13. AssessmentsAreNewer'
    <3>1. state = "CHALLENGED" => d.type # "Verdict"
      BY <2>5 DEF StatePrerequisites, PlanStates
    <3> QED
      BY <2>4, <2>8, <3>1 DEF AssessmentsAreNewer
  <2> QED
    BY <2>9, <2>10, <2>11, <2>12, <2>13
<1>2. CASE CrashAfterUpsert
  <2>1. UNCHANGED <<cards, published>> /\ state = "NONE" /\ state' = "DETECTED"
    BY <1>2 DEF CrashAfterUpsert
  <2>2. ChallengesSpent' = ChallengesSpent
    BY <2>1 DEF ChallengesSpent, PublishedChallenges
  <2> QED
    BY <2>1, <2>2 DEF ChallengeBudget, NoEarlyVerdict, PendingChallengeFits,
                      VerdictsAreNewer, AssessmentsAreNewer
<1>3. ASSUME NEW c \in GatewayCards, SealDecision(c) PROVE BudgetInv'
  <2>1. c \in Card /\ c.type \in {"StructuredApproval", "PolicyAuthorization"}
    BY SubmittedAreCards DEF GatewayCards
  <2>2. /\ cards' = Append(cards, c) /\ published' = published
        /\ state = "PLANNED" /\ state' \in {"PLANNED", "REJECTED", "CLOSED_FALSE_ALARM"}
    BY <1>3, <2>1 DEF SealDecision, IsRefusal, ResolveState
  <2>3. ChallengesSpent' = ChallengesSpent
    BY <2>1, <2>2, SealSpendsNothing
  <2> QED
    BY <2>2, <2>3 DEF ChallengeBudget, NoEarlyVerdict, PendingChallengeFits,
                      VerdictsAreNewer, AssessmentsAreNewer
<1>4. ASSUME NEW i \in DOMAIN cards, PostCard(i) PROVE BudgetInv'
  <2>1. UNCHANGED <<state, cards, published>>
    BY <1>4 DEF PostCard
  <2> QED
    BY <2>1, BudgetKept DEF ChallengesSpent, PublishedChallenges, Pending, Confirmable, NotStale
<1>5. ASSUME NEW i \in DOMAIN cards, ConfirmPublication(i) PROVE BudgetInv'
  <2>1. /\ cards' = cards /\ published' = published \union {i}
        /\ i \in Pending(cards[i].type) /\ i \notin published
        /\ state \in StatePrerequisites(cards[i].type)
        /\ cards[i].type \notin {"StructuredApproval", "PolicyAuthorization"}
        /\ cards[i].type \in CardTypes
    <3>1. cards[i] \in Card
      BY DEF TypeOK
    <3>2. i \in Pending(cards[i].type)
      BY <1>5 DEF ConfirmPublication, Pending, Confirmable
    <3> QED
      BY <1>5, <3>1, <3>2 DEF ConfirmPublication, StateAllows, Card
  <2>2. ChallengesSpent' = ChallengesSpent + (IF IsChallenge(cards[i]) THEN 1 ELSE 0)
    BY <2>1, PublicationSpends
  <2>3. \A t : \A j \in Pending(t)' : j \in Pending(t) /\ i < j
    BY <2>1, PublicationPending
  <2>4. \A t : \A j \in Pending(t) : j \in 1..Len(cards)
    BY DEF TypeOK, Pending, Confirmable
  <2>5. ChallengesSpent \in Nat /\ MaxChallenges \in Nat
    BY ChallengesFinite, LedgerAssumption
  <2>6. CASE cards[i].type = "Verdict"
    <3>1. state = "ASSESSED" /\ state' \in {"REVIEWED", "CHALLENGED", "CLOSED_FALSE_ALARM",
                                             "ESCALATED_HUMAN"}
      BY <1>5, <2>1, <2>6
      DEF ConfirmPublication, AdvancesIncident, StatePrerequisites, PlanStates, ResolveState
    <3>2. ChallengeBudget'
      BY <2>1, <2>2, <2>5, <2>6, <3>1 DEF ChallengeBudget, PendingChallengeFits
    <3>3. \A j \in Pending("Assessment") : j < i
      BY <2>1, <2>6, <3>1 DEF VerdictsAreNewer
    <3>4. Pending("Assessment")' = {}
      BY <2>3, <2>4, <3>3
    <3> QED
      BY <3>1, <3>2, <3>4 DEF NoEarlyVerdict, PendingChallengeFits,
                              VerdictsAreNewer, AssessmentsAreNewer
  <2>7. CASE cards[i].type = "Assessment"
    <3>1. state \in {"TRIAGED", "CHALLENGED"} /\ state' = "ASSESSED"
      BY <1>5, <2>1, <2>7
      DEF ConfirmPublication, AdvancesIncident, StatePrerequisites, PlanStates, ResolveState
    <3>2. ChallengesSpent' = ChallengesSpent
      BY <2>2, <2>5, <2>7 DEF IsChallenge
    <3>3. CASE state = "TRIAGED"
      <4>1. Pending("Verdict")' = {}
        BY <2>3, <3>3 DEF NoEarlyVerdict, Pending, Confirmable
      <4> QED
        BY <3>1, <3>2, <4>1 DEF ChallengeBudget, NoEarlyVerdict, PendingChallengeFits,
                                VerdictsAreNewer, AssessmentsAreNewer
    <3>4. CASE state = "CHALLENGED"
      <4>1. \A j \in Pending("Verdict") : j < i
        BY <2>1, <2>7, <3>4 DEF AssessmentsAreNewer
      <4>2. Pending("Verdict")' = {}
        BY <2>3, <2>4, <4>1
      <4> QED
        BY <3>1, <3>2, <4>2 DEF ChallengeBudget, NoEarlyVerdict, PendingChallengeFits,
                                VerdictsAreNewer, AssessmentsAreNewer
    <3> QED
      BY <3>1, <3>3, <3>4
  <2>8. CASE cards[i].type \notin {"Verdict", "Assessment"}
    <3>1. \/ state' = state
          \/ /\ state' \notin {"ASSESSED", "CHALLENGED"}
             /\ state' \in {"NONE", "DETECTED", "TRIAGED", "SUPPRESSED"} =>
                  state \in {"NONE", "DETECTED", "TRIAGED", "SUPPRESSED"}
      BY <1>5, <2>1, <2>8
      DEF ConfirmPublication, AdvancesIncident, StatePrerequisites, PlanStates, ResolveState,
          CardTypes, Plain
    <3>2. ChallengesSpent' = ChallengesSpent
      BY <2>2, <2>5, <2>8 DEF IsChallenge
    <3> QED
      BY <2>1, <2>3, <3>1, <3>2, BudgetKept
  <2> QED
    BY <2>6, <2>7, <2>8
<1>6. ASSUME NEW i \in DOMAIN cards, PublishAuthorization(i) \/ PublishRefusal(i)
      PROVE  BudgetInv'
  <2>1. /\ cards' = cards /\ published' = published \union {i} /\ i \notin published
        /\ IsAuthorization(cards[i]) \/ IsRefusal(cards[i])
    BY <1>6 DEF PublishAuthorization, PublishRefusal, LifecycleSource
  <2>2. state' = state \/ state' \in {"APPROVED", "AUTHORIZED"}
    BY <1>6 DEF PublishAuthorization, PublishRefusal, IsAuthorization, ResolveState
  <2>3. ChallengesSpent' = ChallengesSpent
    BY <2>1, PublicationSpends, ChallengesFinite DEF IsChallenge, IsAuthorization, IsRefusal
  <2>4. \A t : \A j \in Pending(t)' : j \in Pending(t) /\ i < j
    BY <2>1, PublicationPending
  <2> QED
    BY <2>1, <2>2, <2>3, <2>4, BudgetKept
<1>7. CASE UNCHANGED ledgerVars
  <2>1. UNCHANGED <<state, cards, published>>
    BY <1>7 DEF ledgerVars
  <2> QED
    BY <2>1, BudgetKept DEF ChallengesSpent, PublishedChallenges, Pending, Confirmable, NotStale
<1> QED
  BY <1>1, <1>2, <1>3, <1>4, <1>5, <1>6, <1>7 DEF LedgerNext

\* Why the budget holds, in every reachable state: what could still be confirmed was
\* counted against the budget that is left, because of the order in which cards become
\* stale.
THEOREM BudgetInvariance == LedgerSpec => []BudgetInv
<1>1. LedgerInit => BudgetInv
  <2> SUFFICES ASSUME LedgerInit PROVE BudgetInv
    OBVIOUS
  <2>1. TypeOK
    BY LedgerAssumption DEF LedgerInit, TypeOK, States
  <2>2. ChallengesSpent = 0
    <3>1. PublishedChallenges = {}
      BY DEF LedgerInit, PublishedChallenges
    <3> QED
      BY <3>1, FS_EmptySet DEF ChallengesSpent
  <2> QED
    BY <2>1, <2>2, LedgerAssumption
    DEF LedgerInit, BudgetInv, ChallengeBudget, NoEarlyVerdict, PendingChallengeFits,
        VerdictsAreNewer, AssessmentsAreNewer
<1> QED
  BY <1>1, BudgetStep, LedgerTyping, PTL DEF LedgerSpec

\* The challenge budget is never overdrawn, although /prepare checks it long before
\* /confirm spends it.
THEOREM ChallengeBudgetHolds == LedgerSpec => []ChallengeBudget
<1>1. BudgetInv => ChallengeBudget
  BY DEF BudgetInv
<1> QED
  BY <1>1, BudgetInvariance, PTL

-------------------------------------------------------------------------------
(* Authorizations.                                                             *)

\* A step that publishes no authorization and neither enters nor leaves the states
\* that one leads to keeps what is said of them.
LEMMA AuthorizationKept ==
  ASSUME TypeOK, SingleAuthorization, AuthorizedByCard,
         \A j \in published' : cards'[j] = cards[j],
         published \subseteq published',
         \A j \in published' \ published : ~IsAuthorization(cards[j]),
         state' \in Authorized <=> state \in Authorized
  PROVE  SingleAuthorization' /\ AuthorizedByCard'
<1>1. \A j \in published' : /\ IsAuthorization(cards'[j]) <=> IsAuthorization(cards[j])
                            /\ IsAuthorization(cards[j]) => j \in published
  BY DEF IsAuthorization
<1>2. SingleAuthorization'
  BY <1>1 DEF SingleAuthorization, IsAuthorization
<1>3. AuthorizedByCard'
  BY <1>1 DEF AuthorizedByCard, IsAuthorization
<1> QED
  BY <1>2, <1>3

\* Every step of the ledger keeps what is said of authorizations.
LEMMA AuthorizedStep ==
  SingleAuthorization /\ AuthorizedByCard /\ TypeOK /\ [LedgerNext]_ledgerVars
    => SingleAuthorization' /\ AuthorizedByCard'
<1> SUFFICES ASSUME SingleAuthorization, AuthorizedByCard, TypeOK, [LedgerNext]_ledgerVars
             PROVE  SingleAuthorization' /\ AuthorizedByCard'
  OBVIOUS
<1>1. ASSUME NEW c \in AgentCards, PrepareCard(c)
      PROVE  SingleAuthorization' /\ AuthorizedByCard'
  <2>1. ApplyRiskFloor(c) \in Card
    BY SubmittedAreCards, RiskFloorKeepsCard
  <2>2. published' = published /\ \A j \in published : cards'[j] = cards[j]
    BY <1>1, <2>1, SealKeepsCards DEF TypeOK, PrepareCard
  <2>3. state' \in Authorized <=> state \in Authorized
    BY <1>1 DEF PrepareCard, Authorized
  <2> QED
    BY <2>2, <2>3, AuthorizationKept
<1>2. CASE CrashAfterUpsert
  <2>1. state' \in Authorized <=> state \in Authorized
    BY <1>2 DEF CrashAfterUpsert, Authorized
  <2> QED
    BY <1>2, <2>1, AuthorizationKept DEF CrashAfterUpsert
<1>3. ASSUME NEW c \in GatewayCards, SealDecision(c)
      PROVE  SingleAuthorization' /\ AuthorizedByCard'
  <2>1. published' = published /\ \A j \in published : cards'[j] = cards[j]
    BY <1>3, SubmittedAreCards, SealKeepsCards DEF TypeOK, SealDecision
  <2>2. state' \in Authorized <=> state \in Authorized
    BY <1>3 DEF SealDecision, IsRefusal, ResolveState, Authorized
  <2> QED
    BY <2>1, <2>2, AuthorizationKept
<1>4. ASSUME NEW i \in DOMAIN cards, PostCard(i)
      PROVE  SingleAuthorization' /\ AuthorizedByCard'
  BY <1>4, AuthorizationKept DEF PostCard
<1>5. ASSUME NEW i \in DOMAIN cards, ConfirmPublication(i)
      PROVE  SingleAuthorization' /\ AuthorizedByCard'
  <2>1. /\ cards' = cards /\ published' = published \union {i}
        /\ state \in StatePrerequisites(cards[i].type)
        /\ cards[i].type \notin {"StructuredApproval", "PolicyAuthorization"}
    BY <1>5 DEF ConfirmPublication, StateAllows
  <2>2. cards[i] \in Card
    BY DEF TypeOK
  <2>3. cards[i].type \in CardTypes
    BY <2>2 DEF Card
  <2>4. ~IsAuthorization(cards[i])
    BY <2>1 DEF IsAuthorization
  <2>5. state' \in Authorized <=> state \in Authorized
    BY <1>5, <2>1, <2>3 DEF ConfirmPublication, AdvancesIncident, StatePrerequisites, PlanStates,
                            ResolveState, Authorized, CardTypes, Plain
  <2> QED
    BY <2>1, <2>4, <2>5, AuthorizationKept
<1>6. ASSUME NEW i \in DOMAIN cards, PublishAuthorization(i)
      PROVE  SingleAuthorization' /\ AuthorizedByCard'
  <2>1. /\ cards' = cards /\ published' = published \union {i}
        /\ state = "PLANNED" /\ IsAuthorization(cards[i])
    BY <1>6 DEF PublishAuthorization, LifecycleSource
  <2>2. state' \in Authorized
    BY <1>6, <2>1 DEF PublishAuthorization, IsAuthorization, ResolveState, Authorized
  <2>3. \A j \in published : ~IsAuthorization(cards[j])
    BY <2>1 DEF AuthorizedByCard, Authorized
  <2>4. SingleAuthorization'
    BY <2>1, <2>3 DEF SingleAuthorization, IsAuthorization
  <2>5. AuthorizedByCard'
    BY <2>1, <2>2 DEF AuthorizedByCard, IsAuthorization
  <2> QED
    BY <2>4, <2>5
<1>7. ASSUME NEW i \in DOMAIN cards, PublishRefusal(i)
      PROVE  SingleAuthorization' /\ AuthorizedByCard'
  <2>1. /\ UNCHANGED <<state, cards>> /\ published' = published \union {i}
        /\ ~IsAuthorization(cards[i])
    BY <1>7 DEF PublishRefusal, IsRefusal, IsAuthorization
  <2> QED
    BY <2>1, AuthorizationKept
<1>8. CASE UNCHANGED ledgerVars
  BY <1>8, AuthorizationKept DEF ledgerVars
<1> QED
  BY <1>1, <1>2, <1>3, <1>4, <1>5, <1>6, <1>7, <1>8 DEF LedgerNext

\* An incident is authorized exactly when an authorization card of it is published,
\* and then one only: several may be sealed and pending, but one alone can find the
\* incident in PLANNED.
THEOREM AuthorizationHolds == LedgerSpec => [](SingleAuthorization /\ AuthorizedByCard)
<1>1. LedgerInit => SingleAuthorization /\ AuthorizedByCard
  BY DEF LedgerInit, SingleAuthorization, AuthorizedByCard, Authorized
<1> QED
  BY <1>1, AuthorizedStep, LedgerTyping, PTL DEF LedgerSpec

\* submission.py and shared/approval.py: an incident is in a state that an authorization
\* leads to exactly while one of its authorization cards is published.
THEOREM AuthorizedExactlyByCard == LedgerSpec => []AuthorizedByCard
BY AuthorizationHolds, PTL

-------------------------------------------------------------------------------
(* The review.                                                                 *)

\* A step keeps the coverage of the published Assessments if it publishes no other and
\* does not leave the states before the review.
LEMMA ReviewKept ==
  ASSUME TypeOK, ReviewCoversAssessment,
         \A j \in published' : cards'[j] = cards[j],
         published \subseteq published',
         \A j \in published' \ published : cards[j].type # "Assessment",
         state' \notin BeforeReview => state \notin BeforeReview
  PROVE  ReviewCoversAssessment'
BY DEF ReviewCoversAssessment

\* Every step of the ledger keeps what is said of the review.
LEMMA ReviewStep ==
  ReviewCoversAssessment /\ TypeOK /\ [LedgerNext]_ledgerVars => ReviewCoversAssessment'
<1> SUFFICES ASSUME ReviewCoversAssessment, TypeOK, [LedgerNext]_ledgerVars
             PROVE  ReviewCoversAssessment'
  OBVIOUS
<1>1. ASSUME NEW c \in AgentCards, PrepareCard(c) PROVE ReviewCoversAssessment'
  <2>1. ApplyRiskFloor(c) \in Card
    BY SubmittedAreCards, RiskFloorKeepsCard
  <2>2. published' = published /\ \A j \in published : cards'[j] = cards[j]
    BY <1>1, <2>1, SealKeepsCards DEF TypeOK, PrepareCard
  <2>3. state' \notin BeforeReview => state \notin BeforeReview
    BY <1>1 DEF PrepareCard, BeforeReview
  <2> QED
    BY <2>2, <2>3, ReviewKept
<1>2. CASE CrashAfterUpsert
  BY <1>2 DEF CrashAfterUpsert, ReviewCoversAssessment, BeforeReview
<1>3. ASSUME NEW c \in GatewayCards, SealDecision(c) PROVE ReviewCoversAssessment'
  <2>1. published' = published /\ \A j \in published : cards'[j] = cards[j]
    BY <1>3, SubmittedAreCards, SealKeepsCards DEF TypeOK, SealDecision
  <2>2. state \notin BeforeReview
    BY <1>3 DEF SealDecision, BeforeReview
  <2> QED
    BY <2>1, <2>2, ReviewKept
<1>4. ASSUME NEW i \in DOMAIN cards, PostCard(i) PROVE ReviewCoversAssessment'
  BY <1>4, ReviewKept DEF PostCard
<1>5. ASSUME NEW i \in DOMAIN cards, ConfirmPublication(i) PROVE ReviewCoversAssessment'
  <2>1. /\ cards' = cards /\ published' = published \union {i}
        /\ state \in StatePrerequisites(cards[i].type)
        /\ \A j \in published : j < i
        /\ cards[i].type \notin {"StructuredApproval", "PolicyAuthorization"}
    BY <1>5 DEF ConfirmPublication, StateAllows, NotStale
  <2>2. cards[i] \in Card
    BY DEF TypeOK
  <2>3. cards[i].type \in CardTypes
    BY <2>2 DEF Card
  <2>4. CASE cards[i].type = "Verdict"
    BY <2>1, <2>4 DEF ReviewCoversAssessment
  <2>5. CASE cards[i].type = "Assessment"
    <3>1. state' = "ASSESSED"
      BY <1>5, <2>5 DEF ConfirmPublication, AdvancesIncident, ResolveState
    <3> QED
      BY <3>1 DEF ReviewCoversAssessment, BeforeReview
  <2>6. CASE cards[i].type \notin {"Verdict", "Assessment"}
    <3>1. state' \notin BeforeReview => state \notin BeforeReview
      BY <1>5, <2>1, <2>3, <2>6
      DEF ConfirmPublication, AdvancesIncident, StatePrerequisites, PlanStates, ResolveState,
          BeforeReview, CardTypes, Plain
    <3> QED
      BY <2>1, <2>6, <3>1, ReviewKept
  <2> QED
    BY <2>4, <2>5, <2>6
<1>6. ASSUME NEW i \in DOMAIN cards, PublishAuthorization(i) \/ PublishRefusal(i)
      PROVE  ReviewCoversAssessment'
  <2>1. /\ cards' = cards /\ published' = published \union {i}
        /\ cards[i].type # "Assessment"
    BY <1>6 DEF PublishAuthorization, PublishRefusal, IsAuthorization, IsRefusal
  <2>2. state' \notin BeforeReview => state \notin BeforeReview
    BY <1>6 DEF PublishAuthorization, PublishRefusal, LifecycleSource, BeforeReview
  <2> QED
    BY <2>1, <2>2, ReviewKept
<1>7. CASE UNCHANGED ledgerVars
  BY <1>7, ReviewKept DEF ledgerVars
<1> QED
  BY <1>1, <1>2, <1>3, <1>4, <1>5, <1>6, <1>7 DEF LedgerNext

\* Past its review an incident always has a published verdict newer than every published
\* Assessment: what is planned, approved and executed was reviewed.
THEOREM ReviewHolds == LedgerSpec => []ReviewCoversAssessment
<1>1. LedgerInit => ReviewCoversAssessment
  BY DEF LedgerInit, ReviewCoversAssessment
<1> QED
  BY <1>1, ReviewStep, LedgerTyping, PTL DEF LedgerSpec

-------------------------------------------------------------------------------
(* The refinement.                                                             *)

\* Every step of the ledger is one of the lifecycle, or none.
LEMMA LifecycleStep ==
  BudgetInv /\ [LedgerNext]_ledgerVars
    => [Lifecycle!LifecycleNext]_(Lifecycle!lifecycleVars)
<1> SUFFICES ASSUME BudgetInv, [LedgerNext]_ledgerVars
             PROVE  Lifecycle!LifecycleNext \/ UNCHANGED Lifecycle!lifecycleVars
  OBVIOUS
<1> USE DEF BudgetInv, Lifecycle!LifecycleNext, Lifecycle!lifecycleVars, Lifecycle!Move
<1>1. ASSUME NEW c \in AgentCards, PrepareCard(c)
      PROVE  Lifecycle!LifecycleNext \/ UNCHANGED Lifecycle!lifecycleVars
  <2>1. ApplyRiskFloor(c) \in Card
    BY SubmittedAreCards, RiskFloorKeepsCard
  <2>2. ChallengesSpent' = ChallengesSpent
    BY <1>1, <2>1, SealSpendsNothing DEF PrepareCard
  <2> QED
    BY <1>1, <2>2 DEF PrepareCard, Lifecycle!Open
<1>2. CASE CrashAfterUpsert
  <2>1. ChallengesSpent' = ChallengesSpent
    BY <1>2 DEF CrashAfterUpsert, ChallengesSpent, PublishedChallenges
  <2> QED
    BY <1>2, <2>1 DEF CrashAfterUpsert, Lifecycle!Open
<1>3. ASSUME NEW c \in GatewayCards, SealDecision(c)
      PROVE  Lifecycle!LifecycleNext \/ UNCHANGED Lifecycle!lifecycleVars
  <2>1. ChallengesSpent' = ChallengesSpent
    BY <1>3, SubmittedAreCards, SealSpendsNothing DEF SealDecision
  <2>2. state = "PLANNED" /\ state' \in {"PLANNED", "REJECTED", "CLOSED_FALSE_ALARM"}
    BY <1>3 DEF SealDecision, IsRefusal, ResolveState
  <2> QED
    BY <2>1, <2>2 DEF Lifecycle!Reject, Lifecycle!Dismiss
<1>4. ASSUME NEW i \in DOMAIN cards, PostCard(i)
      PROVE  Lifecycle!LifecycleNext \/ UNCHANGED Lifecycle!lifecycleVars
  BY <1>4 DEF PostCard, ChallengesSpent, PublishedChallenges
<1>5. ASSUME NEW i \in DOMAIN cards, ConfirmPublication(i)
      PROVE  Lifecycle!LifecycleNext \/ UNCHANGED Lifecycle!lifecycleVars
  <2>1. /\ cards' = cards /\ published' = published \union {i} /\ i \notin published
        /\ state \in StatePrerequisites(cards[i].type)
        /\ cards[i].type \notin {"StructuredApproval", "PolicyAuthorization"}
        /\ i \in Pending(cards[i].type)
    BY <1>5 DEF ConfirmPublication, StateAllows, Pending, Confirmable
  <2>2. ChallengesSpent' = ChallengesSpent + (IF IsChallenge(cards[i]) THEN 1 ELSE 0)
    BY <2>1, PublicationSpends
  <2>3. ChallengesSpent \in Nat
    BY ChallengesFinite
  <2>4. cards[i] \in Card
    BY DEF TypeOK
  <2>5. cards[i].type \in CardTypes
    BY <2>4 DEF Card
  <2>6. CASE cards[i].type = "Verdict"
    <3>1. state = "ASSESSED" /\ state' = ResolveState(cards[i])
      BY <1>5, <2>1, <2>6 DEF ConfirmPublication, AdvancesIncident, StatePrerequisites, PlanStates
    <3>2. CASE IsChallenge(cards[i])
      <4>1. state' = "CHALLENGED"
        BY <3>1, <3>2 DEF IsChallenge, ResolveState
      <4>2. ChallengesSpent < MaxChallenges
        BY <2>1, <2>6, <3>1, <3>2 DEF PendingChallengeFits
      <4> QED
        BY <2>2, <3>1, <3>2, <4>1, <4>2 DEF Lifecycle!Challenge
    <3>3. CASE ~IsChallenge(cards[i])
      <4>1. state' \in {"REVIEWED", "CLOSED_FALSE_ALARM", "ESCALATED_HUMAN"}
        BY <2>6, <3>1, <3>3 DEF IsChallenge, ResolveState
      <4>2. ChallengesSpent' = ChallengesSpent
        BY <2>2, <2>3, <3>3
      <4> QED
        BY <3>1, <4>1, <4>2 DEF Lifecycle!Confirm, Lifecycle!Dismiss, Lifecycle!Escalate
    <3> QED
      BY <3>2, <3>3
  <2>7. CASE cards[i].type # "Verdict"
    <3>1. ChallengesSpent' = ChallengesSpent
      BY <2>2, <2>3, <2>7 DEF IsChallenge
    <3>2. CASE cards[i].type = "AlertCard"
      BY <1>5, <3>1, <3>2 DEF ConfirmPublication, AdvancesIncident, ResolveState
    <3>3. CASE cards[i].type = "TriageDecision"
      BY <1>5, <3>1, <3>3 DEF ConfirmPublication, AdvancesIncident, ResolveState,
                              StateAllows, StatePrerequisites, PlanStates,
                              Lifecycle!Route, Lifecycle!Suppress
    <3>4. CASE cards[i].type = "Assessment"
      BY <1>5, <3>1, <3>4 DEF ConfirmPublication, AdvancesIncident, ResolveState,
                              StateAllows, StatePrerequisites, PlanStates, Lifecycle!Assess
    <3>5. CASE cards[i].type = "ResponsePlan"
      BY <1>5, <3>1, <3>5 DEF ConfirmPublication, AdvancesIncident, ResolveState,
                              StateAllows, StatePrerequisites, PlanStates, Lifecycle!Plan
    <3>6. CASE cards[i].type = "ActionReceipt"
      BY <1>5, <3>1, <3>6 DEF ConfirmPublication, AdvancesIncident, ResolveState,
                              StateAllows, StatePrerequisites, PlanStates, Lifecycle!Execute
    <3>7. CASE cards[i].type = "Postmortem"
      BY <1>5, <3>1, <3>7 DEF ConfirmPublication, AdvancesIncident, ResolveState,
                              StateAllows, StatePrerequisites, PlanStates, Lifecycle!Resolve
    <3> QED
      BY <2>1, <2>5, <2>7, <3>2, <3>3, <3>4, <3>5, <3>6, <3>7 DEF CardTypes, Plain
  <2> QED
    BY <2>6, <2>7
<1>6. ASSUME NEW i \in DOMAIN cards, PublishAuthorization(i) \/ PublishRefusal(i)
      PROVE  Lifecycle!LifecycleNext \/ UNCHANGED Lifecycle!lifecycleVars
  <2>1. /\ cards' = cards /\ published' = published \union {i} /\ i \notin published
        /\ IsAuthorization(cards[i]) \/ IsRefusal(cards[i])
    BY <1>6 DEF PublishAuthorization, PublishRefusal, LifecycleSource
  <2>2. ChallengesSpent' = ChallengesSpent
    BY <2>1, PublicationSpends, ChallengesFinite DEF IsChallenge, IsAuthorization, IsRefusal
  <2>3. \/ state' = state
        \/ state = "PLANNED" /\ state' \in {"APPROVED", "AUTHORIZED"}
    BY <1>6 DEF PublishAuthorization, PublishRefusal, LifecycleSource, IsAuthorization,
                ResolveState
  <2> QED
    BY <2>2, <2>3 DEF Lifecycle!Approve, Lifecycle!Authorize
<1>7. CASE UNCHANGED ledgerVars
  BY <1>7 DEF ledgerVars, ChallengesSpent, PublishedChallenges
<1> QED
  BY <1>1, <1>2, <1>3, <1>4, <1>5, <1>6, <1>7 DEF LedgerNext

\* The protocol implements the lifecycle.  That a confirmed challenge is a step of the
\* lifecycle at all, where the budget is a guard, rests on BudgetInv.
THEOREM RefinesLifecycle == LedgerSpec => ImplementsLifecycle
<1>1. LedgerInit => Lifecycle!LifecycleInit
  <2> SUFFICES ASSUME LedgerInit PROVE Lifecycle!LifecycleInit
    OBVIOUS
  <2>1. PublishedChallenges = {}
    BY DEF LedgerInit, PublishedChallenges
  <2> QED
    BY <2>1, FS_EmptySet DEF LedgerInit, Lifecycle!LifecycleInit, ChallengesSpent
<1> QED
  BY <1>1, LifecycleStep, BudgetInvariance, PTL DEF LedgerSpec, ImplementsLifecycle, Lifecycle!LifecycleSpec
===============================================================================
