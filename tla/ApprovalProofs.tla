----------------------------- MODULE ApprovalProofs -----------------------------
(***************************************************************************)
(* Proofs about Approval, for any number of plans, nonces, cards and       *)
(* retries and any crash: a nonce decides once, and what is authorized is  *)
(* the plan of record.                                                     *)
(*                                                                         *)
(* The argument: every step of the Gateway's approval is a step of the     *)
(* card ledger (LedgerStep), so what is proved of that holds here.  Only   *)
(* the publication of a ResponsePlan changes the current plan, and no plan *)
(* is published once the incident is authorized; between the check and the *)
(* publication of an authorization no other step of the Gateway is taken   *)
(* (HandlerIsCurrent).                                                     *)
(***************************************************************************)
EXTENDS Approval, CardLedgerProofs

USE ApprovalAssumption

-------------------------------------------------------------------------------
(* The ledger below.                                                           *)

\* What the Gateway seals are its cards.
LEMMA SealedByGateway ==
  ASSUME NEW h \in PlanHashes
  PROVE  /\ \A d \in {"APPROVED", "REJECTED", "FALSE_ALARM"} :
              /\ ApprovalCard(h, d) \in GatewayCards
              /\ PlanHash(ApprovalCard(h, d)) = h
              /\ d = "APPROVED" => IsAuthorization(ApprovalCard(h, d)) /\ ~IsRefusal(ApprovalCard(h, d))
              /\ d # "APPROVED" => IsRefusal(ApprovalCard(h, d)) /\ ~IsAuthorization(ApprovalCard(h, d))
              /\ ApprovalCard(h, d).type = "StructuredApproval"
         /\ h.risk = "low" => PolicyCard(h) \in GatewayCards
         /\ PlanHash(PolicyCard(h)) = h
         /\ IsAuthorization(PolicyCard(h)) /\ ~IsRefusal(PolicyCard(h))
         /\ PolicyCard(h).type = "PolicyAuthorization" /\ PolicyCard(h).risk = h.risk
BY DEF PlanHashes, ApprovalCard, PolicyCard, GatewayCards, PlanHash, IsAuthorization, IsRefusal

\* Authorizations and refusals are cards of the chain.
LEMMA DecisionsAreCards ==
  ASSUME ApprovalTypeOK
  PROVE  /\ cards \in Seq(Card) /\ DOMAIN cards = 1..Len(cards) /\ Len(cards) \in Nat
         /\ published \subseteq DOMAIN cards
         /\ \A a \in DOMAIN auths : a \in DOMAIN cards /\ IsAuthorization(cards[a])
                                    /\ ~IsRefusal(cards[a])
         /\ \A i \in DOMAIN notify : i \in DOMAIN cards /\ IsRefusal(cards[i])
                                     /\ ~IsAuthorization(cards[i])
         /\ NoCard \notin DOMAIN auths /\ NoCard \notin DOMAIN notify
<1>1. cards \in Seq(Card) /\ published \subseteq 1..Len(cards)
  BY DEF ApprovalTypeOK, TypeOK
<1>2. DOMAIN cards = 1..Len(cards) /\ Len(cards) \in Nat
  BY <1>1
<1>3. \A c : ~(IsAuthorization(c) /\ IsRefusal(c))
  BY DEF IsAuthorization, IsRefusal
<1>4. NoCard \notin DOMAIN cards
  BY <1>2 DEF NoCard
<1>5. DOMAIN auths \subseteq DOMAIN cards /\ DOMAIN notify \subseteq DOMAIN cards
  BY DEF ApprovalTypeOK
<1>6. /\ \A a \in DOMAIN auths : IsAuthorization(cards[a])
      /\ \A i \in DOMAIN notify : IsRefusal(cards[i])
  BY DEF ApprovalTypeOK
<1> QED
  BY <1>1, <1>2, <1>3, <1>4, <1>5, <1>6

\* Every step is a step of the ledger, or leaves it as it is.
LEMMA LedgerStep ==
  ASSUME ApprovalTypeOK, [Next]_vars
  PROVE  [LedgerNext]_ledgerVars
<1>1. CASE AgentStep
  BY <1>1 DEF AgentStep, LedgerNext
<1>2. CASE NonceStep
  <2>1. CASE \/ CreateNonce
             \/ \E n \in DOMAIN nonces : PostChallenge(n) \/ ExpireNonce(n)
    BY <2>1 DEF CreateNonce, PostChallenge, ExpireNonce
  <2>2. ASSUME NEW n \in DOMAIN nonces, ApproveOnPage(n) \/ ApproveInRoom(n)
        PROVE  LedgerNext
    <3>1. PICK h \in PlanHashes : SealDecision(ApprovalCard(h, "APPROVED"))
      BY <2>2 DEF ApproveOnPage, ApproveInRoom, FreshConsume, SealAuthorization
    <3> QED
      BY <3>1, SealedByGateway DEF LedgerNext
  <2>3. ASSUME NEW n \in DOMAIN nonces, NEW d \in {"REJECTED", "FALSE_ALARM"}, Refuse(n, d)
        PROVE  LedgerNext
    <3>1. PICK h \in PlanHashes : SealDecision(ApprovalCard(h, d))
      BY <2>3 DEF Refuse
    <3> QED
      BY <3>1, SealedByGateway DEF LedgerNext
  <2> QED
    BY <1>2, <2>1, <2>2, <2>3 DEF NonceStep
<1>3. CASE AuthorizationStep
  <2>1. ASSUME NEW h \in PlanHashes, RequestPolicyAuthorization(h)
        PROVE  LedgerNext
    <3>1. SealDecision(PolicyCard(h)) /\ h.risk = "low"
      BY <2>1 DEF RequestPolicyAuthorization, SealAuthorization, PolicyMayAuthorize
    <3> QED
      BY <3>1, SealedByGateway DEF LedgerNext
  <2>2. CASE \E a \in DOMAIN auths : \/ ResumePending(a) \/ LapsePolicyAuthorization(a)
                                     \/ ConsumeAuthorization(a)
    BY <2>2 DEF ResumePending, LapsePolicyAuthorization, ConsumeAuthorization
  <2> QED
    BY <1>3, <2>1, <2>2 DEF AuthorizationStep
<1>4. CASE HandlerStep
  <2>1. CASE HandlerPost
    <3>1. step = "post" /\ room' = room \union {handler} /\ UNCHANGED <<state, cards, published>>
      BY <2>1 DEF HandlerPost
    <3>2. handler \in DOMAIN cards
      BY <3>1, DecisionsAreCards DEF ApprovalTypeOK, Idle
    <3>3. CASE handler \in room
      BY <3>1, <3>3 DEF ledgerVars
    <3>4. CASE handler \notin room
      BY <3>1, <3>2, <3>4 DEF PostCard, LedgerNext
    <3> QED
      BY <3>3, <3>4
  <2>2. CASE FinishAuthorization \/ FinishRefusal
    <3>1. step = "finish" /\ (PublishAuthorization(handler) \/ PublishRefusal(handler))
      BY <2>2 DEF FinishAuthorization, FinishRefusal
    <3>2. handler \in DOMAIN cards
      BY <3>1, DecisionsAreCards DEF ApprovalTypeOK, Idle
    <3> QED
      BY <3>1, <3>2 DEF LedgerNext
  <2>3. CASE HandlerPostFails \/ Restart \/ \E i \in DOMAIN notify : RetryNotification(i)
    BY <2>3 DEF HandlerPostFails, Restart, RetryNotification
  <2> QED
    BY <1>4, <2>1, <2>2, <2>3 DEF HandlerStep
<1>5. CASE UNCHANGED vars
  BY <1>5 DEF vars
<1> QED
  BY <1>1, <1>2, <1>3, <1>4, <1>5 DEF Next

-------------------------------------------------------------------------------
(* The current plan.                                                           *)

\* What is published is not lost, and sealed cards stay as they are.
LEMMA LedgerGrows ==
  ASSUME ApprovalTypeOK, [Next]_vars
  PROVE  /\ published \subseteq published' /\ DOMAIN cards \subseteq DOMAIN cards'
         /\ \A i \in DOMAIN cards : cards'[i] = cards[i]
<1>1. [LedgerNext]_ledgerVars
  BY LedgerStep
<1>2. cards \in Seq(Card)
  BY DEF ApprovalTypeOK, TypeOK
<1>3. ASSUME NEW c \in Card, cards' = Append(cards, c)
      PROVE  DOMAIN cards \subseteq DOMAIN cards' /\ \A i \in DOMAIN cards : cards'[i] = cards[i]
  BY <1>2, <1>3, SealKeepsCards
<1>4. ASSUME NEW c \in AgentCards, PrepareCard(c)
      PROVE  ApplyRiskFloor(c) \in Card /\ cards' = Append(cards, ApplyRiskFloor(c))
             /\ published' = published
  BY <1>4, SubmittedAreCards, RiskFloorKeepsCard DEF PrepareCard
<1>5. ASSUME NEW c \in GatewayCards, SealDecision(c)
      PROVE  c \in Card /\ cards' = Append(cards, c) /\ published' = published
  BY <1>5, SubmittedAreCards DEF SealDecision
<1>6. ASSUME CrashAfterUpsert \/ UNCHANGED ledgerVars \/
             \E i \in DOMAIN cards : \/ PostCard(i) \/ ConfirmPublication(i)
                                     \/ PublishAuthorization(i) \/ PublishRefusal(i)
      PROVE  cards' = cards /\ published \subseteq published'
  BY <1>6 DEF CrashAfterUpsert, ledgerVars, PostCard, ConfirmPublication,
              PublishAuthorization, PublishRefusal
<1> QED
  BY <1>1, <1>3, <1>4, <1>5, <1>6 DEF LedgerNext

\* The current plan stays when no ResponsePlan is published.
LEMMA PlanKept ==
  ASSUME ApprovalTypeOK, [Next]_vars,
         \A i \in published' \ published : cards'[i].type # "ResponsePlan"
  PROVE  \A h : CurrentPlanIs(h)' <=> CurrentPlanIs(h)
<1>1. \A i \in published : i \in published' /\ cards'[i] = cards[i]
  BY LedgerGrows, DecisionsAreCards
<1>2. \A i : IsCurrentPlan(i)' <=> IsCurrentPlan(i)
  BY <1>1 DEF IsCurrentPlan
<1> QED
  BY <1>1, <1>2 DEF CurrentPlanIs, IsCurrentPlan, PlanHash

\* Only an agent's confirmation publishes a ResponsePlan, of an incident that is not
\* authorized, and the Gateway has no authorization in hand.
LEMMA PlanPublished ==
  ASSUME ApprovalTypeOK, [Next]_vars
  PROVE  \/ \A i \in published' \ published : cards'[i].type # "ResponsePlan"
         \/ /\ Idle /\ state \notin Authorized /\ state' \notin Authorized
            /\ UNCHANGED approvalVars
<1>1. ASSUME NEW i \in DOMAIN cards, ConfirmPublication(i), cards[i].type = "ResponsePlan"
      PROVE  state \notin Authorized /\ state' \notin Authorized
  BY <1>1 DEF ConfirmPublication, StateAllows, StatePrerequisites, PlanStates, ResolveState,
              AdvancesIncident, Authorized
<1>2. ASSUME published' = published
      PROVE  \A i \in published' \ published : cards'[i].type # "ResponsePlan"
  BY <1>2
<1>3. CASE AgentStep
  <2>1. ASSUME NEW i \in DOMAIN cards, ConfirmPublication(i)
        PROVE  cards' = cards /\ published' = published \union {i}
    BY <2>1 DEF ConfirmPublication
  <2>2. CASE CrashAfterUpsert \/ \E c \in AgentCards : PrepareCard(c)
    BY <1>2, <2>2 DEF CrashAfterUpsert, PrepareCard
  <2>3. CASE \E i \in DOMAIN cards : PostCard(i)
    BY <1>2, <2>3 DEF PostCard
  <2>4. CASE \E i \in DOMAIN cards : ConfirmPublication(i)
    BY <1>1, <1>3, <2>1, <2>4 DEF AgentStep
  <2> QED
    BY <1>3, <2>2, <2>3, <2>4 DEF AgentStep
<1>4. CASE NonceStep
  <2>1. published' = published
    BY <1>4 DEF NonceStep, CreateNonce, PostChallenge, ExpireNonce, ApproveOnPage, ApproveInRoom,
                FreshConsume, SealAuthorization, Refuse, SealDecision, ledgerVars
  <2> QED
    BY <1>2, <2>1
<1>5. CASE AuthorizationStep
  <2>1. published' = published
    BY <1>5 DEF AuthorizationStep, RequestPolicyAuthorization, SealAuthorization, SealDecision,
                ResumePending, LapsePolicyAuthorization, ConsumeAuthorization, ledgerVars
  <2> QED
    BY <1>2, <2>1
<1>6. CASE FinishAuthorization \/ FinishRefusal
  <2>1. /\ cards' = cards /\ published' = published \union {handler}
        /\ IsAuthorization(cards[handler]) \/ IsRefusal(cards[handler])
    BY <1>6 DEF FinishAuthorization, FinishRefusal, PublishAuthorization, PublishRefusal
  <2> QED
    BY <2>1 DEF IsAuthorization, IsRefusal
<1>7. CASE HandlerPost \/ HandlerPostFails \/ Restart \/ \E i \in DOMAIN notify : RetryNotification(i)
  <2>1. published' = published
    BY <1>7 DEF HandlerPost, HandlerPostFails, Restart, RetryNotification, ledgerVars
  <2> QED
    BY <1>2, <2>1
<1>8. CASE UNCHANGED vars
  BY <1>2, <1>8 DEF vars, ledgerVars
<1> QED
  BY <1>3, <1>4, <1>5, <1>6, <1>7, <1>8 DEF Next, HandlerStep

-------------------------------------------------------------------------------
(* Types.                                                                      *)

\* A sealed card, and where its row belongs.
LEMMA SealedRow ==
  ASSUME ApprovalTypeOK, NEW c \in Card, cards' = Append(cards, c)
  PROVE  /\ Len(cards)' = Len(cards) + 1 /\ cards'[Len(cards)'] = c
         /\ Len(cards)' \notin DOMAIN cards /\ Len(cards)' # NoCard
         /\ {i \in DOMAIN cards : IsAuthorization(cards[i])}'
              = DOMAIN auths \union (IF IsAuthorization(c) THEN {Len(cards)'} ELSE {})
         /\ {i \in DOMAIN cards : IsRefusal(cards[i])}'
              = DOMAIN notify \union (IF IsRefusal(c) THEN {Len(cards)'} ELSE {})
<1>1. cards \in Seq(Card)
  BY DEF ApprovalTypeOK, TypeOK
<1>2. /\ Len(cards)' = Len(cards) + 1 /\ Len(cards) \in Nat
      /\ DOMAIN cards = 1..Len(cards) /\ DOMAIN cards' = 1..(Len(cards) + 1)
      /\ cards'[Len(cards) + 1] = c
      /\ \A i \in DOMAIN cards : cards'[i] = cards[i]
  BY <1>1, SealKeepsCards
<1>3. DOMAIN cards' = DOMAIN cards \union {Len(cards)'} /\ Len(cards)' \notin DOMAIN cards
  BY <1>2
<1>4. /\ DOMAIN auths = {i \in DOMAIN cards : IsAuthorization(cards[i])}
      /\ DOMAIN notify = {i \in DOMAIN cards : IsRefusal(cards[i])}
  BY DEF ApprovalTypeOK
<1>5. {i \in DOMAIN cards : IsAuthorization(cards[i])}'
        = DOMAIN auths \union (IF IsAuthorization(c) THEN {Len(cards)'} ELSE {})
  BY <1>2, <1>3, <1>4
<1>6. {i \in DOMAIN cards : IsRefusal(cards[i])}'
        = DOMAIN notify \union (IF IsRefusal(c) THEN {Len(cards)'} ELSE {})
  BY <1>2, <1>3, <1>4
<1> QED
  BY <1>2, <1>3, <1>5, <1>6 DEF NoCard

\* The types of the tables of this module, without the chain's.
Tables ==
  /\ nonces \in Seq(PlanHashes) /\ Len(nonces) <= MaxNonces
  /\ visible \union consumed \union invalidated \union expired \subseteq DOMAIN nonces
  /\ auths \in [DOMAIN auths -> [status: {"PENDING", "PUBLISHED", "CONSUMED"},
                                 nonce: 0..MaxNonces,
                                 channel: {"page", "room", "policy"}]]
  /\ lapsed \subseteq DOMAIN auths
  /\ notify \in [DOMAIN notify -> 0..RoomAttempts]

\* ... and of the handler in hand.
HandlerTyped ==
  /\ step \in {"idle", "post", "finish"}
  /\ IF Idle THEN handler = NoCard ELSE handler \in DOMAIN auths \union DOMAIN notify

\* A step that seals nothing keeps the rows with their cards.
LEMMA RowsKept ==
  ASSUME ApprovalTypeOK, TypeOK', Tables', HandlerTyped', cards' = cards,
         DOMAIN auths' = DOMAIN auths, DOMAIN notify' = DOMAIN notify
  PROVE  ApprovalTypeOK'
BY DEF ApprovalTypeOK, Tables, HandlerTyped

\* An authorization is sealed with its row, and its handler goes on to publish it.
LEMMA SealAuthorizationTypes ==
  ASSUME ApprovalTypeOK, TypeOK',
         NEW c \in Card, IsAuthorization(c), ~IsRefusal(c),
         NEW n \in 0..MaxNonces, NEW ch \in {"page", "room", "policy"},
         SealAuthorization(c, n, ch),
         UNCHANGED <<nonces, visible, invalidated, expired, lapsed, notify>>,
         consumed' \subseteq DOMAIN nonces
  PROVE  ApprovalTypeOK'
<1>1. /\ cards' = Append(cards, c) /\ handler' = Len(cards)' /\ step' = "post"
      /\ auths' = [a \in DOMAIN auths \union {Len(cards)'} |->
                     IF a = Len(cards)' THEN [status |-> "PENDING", nonce |-> n, channel |-> ch]
                                        ELSE auths[a]]
  BY DEF SealAuthorization, SealDecision
<1>2. Tables'
  BY <1>1 DEF ApprovalTypeOK, Tables
<1>3. /\ DOMAIN auths' = {i \in DOMAIN cards : IsAuthorization(cards[i])}'
      /\ DOMAIN notify' = {i \in DOMAIN cards : IsRefusal(cards[i])}'
  BY <1>1, SealedRow
<1>4. HandlerTyped'
  BY <1>1 DEF HandlerTyped, Idle
<1> QED
  BY <1>2, <1>3, <1>4 DEF ApprovalTypeOK, Tables, HandlerTyped

LEMMA AgentTypes ==
  ASSUME ApprovalTypeOK, TypeOK', AgentStep
  PROVE  ApprovalTypeOK'
<1>1. Tables' /\ HandlerTyped'
  BY DEF AgentStep, approvalVars, nonceVars, ApprovalTypeOK, Tables, HandlerTyped, Idle
<1>2. ASSUME NEW c \in AgentCards, PrepareCard(c) PROVE ApprovalTypeOK'
  <2>1. /\ ApplyRiskFloor(c) \in Card /\ cards' = Append(cards, ApplyRiskFloor(c))
        /\ ApplyRiskFloor(c).type = c.type
    BY <1>2, SubmittedAreCards, RiskFloorKeepsCard DEF PrepareCard
  <2>2. c.type \notin {"StructuredApproval", "PolicyAuthorization"}
    BY DEF AgentCards, Plain
  <2>3. ~IsAuthorization(ApplyRiskFloor(c)) /\ ~IsRefusal(ApplyRiskFloor(c))
    BY <2>1, <2>2 DEF IsAuthorization, IsRefusal
  <2>4. /\ DOMAIN auths = {i \in DOMAIN cards : IsAuthorization(cards[i])}'
        /\ DOMAIN notify = {i \in DOMAIN cards : IsRefusal(cards[i])}'
    BY <2>1, <2>3, SealedRow
  <2>5. auths' = auths /\ notify' = notify
    BY DEF AgentStep, approvalVars
  <2> QED
    BY <1>1, <2>4, <2>5 DEF ApprovalTypeOK, Tables, HandlerTyped
<1>3. CASE CrashAfterUpsert \/ \E i \in DOMAIN cards : PostCard(i) \/ ConfirmPublication(i)
  <2>1. cards' = cards /\ auths' = auths /\ notify' = notify
    BY <1>3 DEF AgentStep, approvalVars, CrashAfterUpsert, PostCard, ConfirmPublication
  <2> QED
    BY <1>1, <2>1, RowsKept
<1> QED
  BY <1>2, <1>3 DEF AgentStep

LEMMA BodiesKept ==
  ASSUME ApprovalTypeOK, PlansHaveBodies, [Next]_vars
  PROVE  PlansHaveBodies'
<1>1. [LedgerNext]_ledgerVars /\ cards \in Seq(Card)
  BY LedgerStep DEF ApprovalTypeOK, TypeOK
<1>2. ASSUME NEW c \in Card, cards' = Append(cards, c), c.type = "ResponsePlan" => c.body \in Bodies
      PROVE  PlansHaveBodies'
  <2>1. \A i \in DOMAIN cards' : (i \in DOMAIN cards /\ cards'[i] = cards[i]) \/ cards'[i] = c
    BY <1>1, <1>2, SealKeepsCards
  <2> QED
    BY <1>2, <2>1 DEF PlansHaveBodies
<1>3. ASSUME NEW c \in AgentCards, PrepareCard(c) PROVE PlansHaveBodies'
  <2>1. ApplyRiskFloor(c) \in Card /\ cards' = Append(cards, ApplyRiskFloor(c))
    BY <1>3, SubmittedAreCards, RiskFloorKeepsCard DEF PrepareCard
  <2>2. c.type = "ResponsePlan" => c.body \in Bodies
    BY DEF AgentCards, Plain
  <2>3. ApplyRiskFloor(c).type = c.type /\ ApplyRiskFloor(c).body = c.body
    BY SubmittedAreCards DEF ApplyRiskFloor, Card
  <2> QED
    BY <1>2, <2>1, <2>2, <2>3
<1>4. ASSUME NEW c \in GatewayCards, SealDecision(c) PROVE PlansHaveBodies'
  <2>1. c \in Card /\ cards' = Append(cards, c) /\ c.type # "ResponsePlan"
    BY <1>4, SubmittedAreCards DEF SealDecision, GatewayCards
  <2> QED
    BY <1>2, <2>1
<1>5. ASSUME CrashAfterUpsert \/ UNCHANGED ledgerVars \/
             \E i \in DOMAIN cards : \/ PostCard(i) \/ ConfirmPublication(i)
                                     \/ PublishAuthorization(i) \/ PublishRefusal(i)
      PROVE  PlansHaveBodies'
  <2>1. cards' = cards
    BY <1>5 DEF CrashAfterUpsert, ledgerVars, PostCard, ConfirmPublication,
                PublishAuthorization, PublishRefusal
  <2> QED
    BY <2>1 DEF PlansHaveBodies
<1> QED
  BY <1>1, <1>3, <1>4, <1>5 DEF LedgerNext

LEMMA CreateNonceTypes ==
  ASSUME ApprovalTypeOK, TypeOK', PlansHaveBodies, CreateNonce
  PROVE  ApprovalTypeOK' /\ Len(nonces)' = Len(nonces) + 1 /\ DOMAIN nonces = 1..Len(nonces)
         /\ DOMAIN nonces' = DOMAIN nonces \union {Len(nonces)'}
<1>1. PICK i \in published : IsCurrentPlan(i) /\ nonces' = Append(nonces, PlanHash(cards[i]))
  BY DEF CreateNonce
<1>2. PlanHash(cards[i]) \in PlanHashes
  <2>1. cards[i] \in Card /\ cards[i].type = "ResponsePlan"
    BY <1>1, DecisionsAreCards DEF IsCurrentPlan
  <2>2. cards[i].body \in Bodies
    BY <2>1, DecisionsAreCards DEF PlansHaveBodies
  <2> QED
    BY <2>1, <2>2 DEF PlanHash, PlanHashes, Card
<1>3. nonces \in Seq(PlanHashes)
  BY DEF ApprovalTypeOK
<1>4. /\ nonces' \in Seq(PlanHashes) /\ Len(nonces') = Len(nonces) + 1 /\ Len(nonces) \in Nat
      /\ DOMAIN nonces = 1..Len(nonces) /\ DOMAIN nonces' = 1..(Len(nonces) + 1)
  BY <1>1, <1>2, <1>3
<1>5. DOMAIN nonces' = DOMAIN nonces \union {Len(nonces)'}
  BY <1>4
<1>6. /\ invalidated' = invalidated \union (DOMAIN nonces \ consumed) /\ Len(nonces) < MaxNonces
      /\ UNCHANGED <<ledgerVars, visible, consumed, expired, auths, lapsed, notify, handler, step>>
  BY DEF CreateNonce, InvalidateEarlierNonces
<1>7. Tables' /\ HandlerTyped'
  <2>1. Len(nonces') <= MaxNonces
    BY <1>4, <1>6
  <2>2. (visible \union consumed \union invalidated \union expired \subseteq DOMAIN nonces)'
    BY <1>5, <1>6 DEF ApprovalTypeOK
  <2> QED
    BY <1>4, <1>6, <2>1, <2>2 DEF ApprovalTypeOK, Tables, HandlerTyped, Idle
<1> QED
  BY <1>4, <1>5, <1>6, <1>7, RowsKept DEF ledgerVars

LEMMA NonceTypes ==
  ASSUME ApprovalTypeOK, TypeOK', PlansHaveBodies, NonceStep
  PROVE  ApprovalTypeOK'
<1>1. ASSUME NEW n \in DOMAIN nonces, PostChallenge(n) \/ ExpireNonce(n) PROVE ApprovalTypeOK'
  <2>1. Tables' /\ HandlerTyped'
    BY <1>1 DEF PostChallenge, ExpireNonce, ApprovalTypeOK, Tables, HandlerTyped, Idle
  <2> QED
    BY <1>1, <2>1, RowsKept DEF PostChallenge, ExpireNonce, ledgerVars
<1>2. \A n \in DOMAIN nonces : n \in 0..MaxNonces
  <2>1. Len(nonces) \in Nat /\ DOMAIN nonces = 1..Len(nonces) /\ Len(nonces) <= MaxNonces
    BY DEF ApprovalTypeOK
  <2> QED
    BY <2>1 DEF ApprovalAssumption
<1>3. ASSUME NEW n \in DOMAIN nonces, ApproveOnPage(n) \/ ApproveInRoom(n) PROVE ApprovalTypeOK'
  <2>1. PICK h \in PlanHashes, ch \in {"page", "room"} : FreshConsume(n, h, ch)
    BY <1>3 DEF ApproveOnPage, ApproveInRoom
  <2>2. /\ SealAuthorization(ApprovalCard(h, "APPROVED"), n, ch)
        /\ consumed' = consumed \union {n}
        /\ UNCHANGED <<nonces, visible, invalidated, expired, lapsed, notify>>
    BY <2>1 DEF FreshConsume
  <2>3. consumed' \subseteq DOMAIN nonces
    BY <2>2 DEF ApprovalTypeOK
  <2> QED
    BY <1>2, <2>2, <2>3, SealedByGateway, SubmittedAreCards, SealAuthorizationTypes
<1>4. ASSUME NEW n \in DOMAIN nonces, NEW d \in {"REJECTED", "FALSE_ALARM"}, Refuse(n, d)
      PROVE  ApprovalTypeOK'
  <2>1. PICK h \in PlanHashes : SealDecision(ApprovalCard(h, d))
    BY <1>4 DEF Refuse
  <2> DEFINE c == ApprovalCard(h, d)
  <2>2. c \in Card /\ IsRefusal(c) /\ ~IsAuthorization(c) /\ cards' = Append(cards, c)
    BY <2>1, SealedByGateway, SubmittedAreCards DEF SealDecision
  <2>3. /\ invalidated' = invalidated \union ({n} \ consumed)
        /\ notify' = [i \in DOMAIN notify \union {Len(cards)'} |->
                        IF i # Len(cards)' THEN notify[i]
                        ELSE IF d = "REJECTED" THEN RoomAttempts ELSE 1]
        /\ handler' = Len(cards)' /\ step' = "post"
        /\ UNCHANGED <<nonces, visible, consumed, expired, auths, lapsed>>
    BY <1>4 DEF Refuse
  <2>4. /\ DOMAIN auths' = {i \in DOMAIN cards : IsAuthorization(cards[i])}'
        /\ DOMAIN notify' = {i \in DOMAIN cards : IsRefusal(cards[i])}'
    BY <2>2, <2>3, SealedRow
  <2>5. 1 \in 0..RoomAttempts /\ RoomAttempts \in 0..RoomAttempts
    BY DEF ApprovalAssumption
  <2>6. Tables'
    BY <2>3, <2>5 DEF ApprovalTypeOK, Tables
  <2>7. HandlerTyped'
    BY <2>3 DEF HandlerTyped, Idle
  <2> QED
    BY <2>4, <2>6, <2>7 DEF ApprovalTypeOK, Tables, HandlerTyped
<1> QED
  BY <1>1, <1>3, <1>4, CreateNonceTypes DEF NonceStep

LEMMA AuthorizationTypes ==
  ASSUME ApprovalTypeOK, TypeOK', AuthorizationStep
  PROVE  ApprovalTypeOK'
<1>1. ASSUME NEW h \in PlanHashes, RequestPolicyAuthorization(h) PROVE ApprovalTypeOK'
  <2>1. /\ SealAuthorization(PolicyCard(h), NoNonce, "policy") /\ h.risk = "low"
        /\ UNCHANGED <<nonceVars, lapsed, notify>>
    BY <1>1 DEF RequestPolicyAuthorization, PolicyMayAuthorize
  <2>2. NoNonce \in 0..MaxNonces
    BY DEF NoNonce, ApprovalAssumption
  <2>3. PolicyCard(h) \in Card /\ IsAuthorization(PolicyCard(h)) /\ ~IsRefusal(PolicyCard(h))
    BY <2>1, SealedByGateway, SubmittedAreCards
  <2>4. consumed' \subseteq DOMAIN nonces
    BY <2>1 DEF nonceVars, ApprovalTypeOK
  <2> QED
    BY <2>1, <2>2, <2>3, <2>4, SealAuthorizationTypes DEF nonceVars
<1>2. ASSUME NEW a \in DOMAIN auths,
             ResumePending(a) \/ LapsePolicyAuthorization(a) \/ ConsumeAuthorization(a)
      PROVE  ApprovalTypeOK'
  <2>1. DOMAIN auths' = DOMAIN auths /\ UNCHANGED <<cards, notify, nonceVars>>
    BY <1>2 DEF ResumePending, LapsePolicyAuthorization, ConsumeAuthorization, ledgerVars
  <2>2. Tables'
    BY <1>2, <2>1 DEF ResumePending, LapsePolicyAuthorization, ConsumeAuthorization, nonceVars,
                      ApprovalTypeOK, Tables
  <2>3. HandlerTyped'
    BY <1>2, <2>1 DEF ResumePending, LapsePolicyAuthorization, ConsumeAuthorization,
                      ApprovalTypeOK, HandlerTyped, Idle
  <2> QED
    BY <2>1, <2>2, <2>3, RowsKept
<1> QED
  BY <1>1, <1>2 DEF AuthorizationStep

\* A start keeps the rows, but for the status of those it lifts.
LEMMA MigratedRows ==
  ASSUME ApprovalTypeOK
  PROVE  /\ DOMAIN Migrated = DOMAIN auths
         /\ Migrated \in [DOMAIN auths -> [status: {"PENDING", "PUBLISHED", "CONSUMED"},
                                          nonce: 0..MaxNonces,
                                          channel: {"page", "room", "policy"}]]
         /\ \A a \in DOMAIN auths :
              /\ Migrated[a].nonce = auths[a].nonce /\ Migrated[a].channel = auths[a].channel
              /\ \/ Migrated[a] = auths[a]
                 \/ /\ PolicyIsPublished /\ auths[a].status = "PENDING"
                    /\ Migrated[a].status = "PUBLISHED"
<1>1. /\ DOMAIN Migrated = DOMAIN auths
      /\ \A a \in DOMAIN auths :
           Migrated[a] = IF PolicyIsPublished /\ auths[a].status = "PENDING"
                         THEN [auths[a] EXCEPT !.status = "PUBLISHED"] ELSE auths[a]
  BY DEF Migrated
<1>2. \A a \in DOMAIN auths : auths[a] \in [status: {"PENDING", "PUBLISHED", "CONSUMED"},
                                           nonce: 0..MaxNonces,
                                           channel: {"page", "room", "policy"}]
  BY DEF ApprovalTypeOK
<1>3. ASSUME NEW a \in DOMAIN auths
      PROVE  /\ Migrated[a] \in [status: {"PENDING", "PUBLISHED", "CONSUMED"},
                                 nonce: 0..MaxNonces, channel: {"page", "room", "policy"}]
             /\ Migrated[a].nonce = auths[a].nonce /\ Migrated[a].channel = auths[a].channel
             /\ \/ Migrated[a] = auths[a]
                \/ /\ PolicyIsPublished /\ auths[a].status = "PENDING"
                   /\ Migrated[a].status = "PUBLISHED"
  <2>1. CASE PolicyIsPublished /\ auths[a].status = "PENDING"
    BY <1>1, <1>2, <2>1
  <2>2. CASE ~(PolicyIsPublished /\ auths[a].status = "PENDING")
    BY <1>1, <1>2, <2>2
  <2> QED
    BY <2>1, <2>2
<1>4. Migrated = [a \in DOMAIN auths |-> Migrated[a]]
  BY DEF Migrated
<1> QED
  BY <1>1, <1>3, <1>4

LEMMA HandlerTypes ==
  ASSUME ApprovalTypeOK, TypeOK', HandlerHasAttempt, HandlerStep
  PROVE  ApprovalTypeOK'
<1>1. CASE HandlerPost \/ HandlerPostFails \/ Restart
  <2>1. DOMAIN notify' = DOMAIN notify /\ UNCHANGED <<cards, nonceVars, lapsed>>
    BY <1>1 DEF HandlerPost, HandlerPostFails, Restart, ledgerVars
  <2>0. /\ DOMAIN auths' = DOMAIN auths
        /\ auths' \in [DOMAIN auths -> [status: {"PENDING", "PUBLISHED", "CONSUMED"},
                                        nonce: 0..MaxNonces,
                                        channel: {"page", "room", "policy"}]]
    <3>1. CASE HandlerPost \/ HandlerPostFails
      BY <3>1 DEF HandlerPost, HandlerPostFails, ApprovalTypeOK
    <3>2. CASE Restart
      BY <3>2, MigratedRows DEF Restart
    <3> QED
      BY <1>1, <3>1, <3>2
  <2>2. \A i \in DOMAIN notify : notify[i] \in 0..RoomAttempts /\ 0 \in 0..RoomAttempts
    BY DEF ApprovalTypeOK, ApprovalAssumption
  <2>3. notify' \in [DOMAIN notify -> 0..RoomAttempts]
    <3>1. CASE HandlerPost \/ Restart
      BY <2>2, <3>1 DEF HandlerPost, Restart
    <3>2. CASE HandlerPostFails
      <4>1. step = "post" /\ \A i \in DOMAIN notify : i = handler => notify[i] > 0
        BY <3>2 DEF HandlerPostFails, HandlerHasAttempt
      <4>2. \A i \in DOMAIN notify : i = handler => notify[i] - 1 \in 0..RoomAttempts
        BY <2>2, <4>1 DEF ApprovalAssumption
      <4> QED
        BY <2>2, <3>2, <4>2 DEF HandlerPostFails
    <3> QED
      BY <1>1, <3>1, <3>2
  <2>4. Tables'
    BY <2>0, <2>1, <2>3 DEF nonceVars, ApprovalTypeOK, Tables
  <2>5. HandlerTyped'
    BY <1>1, <2>0, <2>1 DEF HandlerPost, HandlerPostFails, Restart, ApprovalTypeOK, HandlerTyped, Idle
  <2> QED
    BY <2>0, <2>1, <2>4, <2>5, RowsKept
<1>2. CASE FinishRefusal \/ \E i \in DOMAIN notify : RetryNotification(i)
  <2>1. UNCHANGED <<cards, auths, nonceVars, lapsed, notify>>
    BY <1>2 DEF FinishRefusal, RetryNotification, PublishRefusal, ledgerVars
  <2>2. Tables'
    BY <2>1 DEF nonceVars, ApprovalTypeOK, Tables
  <2>3. HandlerTyped'
    BY <1>2, <2>1 DEF FinishRefusal, RetryNotification, ApprovalTypeOK, HandlerTyped, Idle
  <2> QED
    BY <2>1, <2>2, <2>3, RowsKept
<1>3. CASE FinishAuthorization
  <2>1. /\ auths' = [auths EXCEPT ![handler].status = "PUBLISHED"] /\ handler' = NoCard
        /\ step' = "idle" /\ UNCHANGED <<cards, nonceVars, lapsed, notify>>
    BY <1>3 DEF FinishAuthorization, AuthorizationPublished, PublishAuthorization
  <2>2. DOMAIN auths' = DOMAIN auths
    BY <2>1
  <2>3. Tables'
    BY <2>1, <2>2 DEF nonceVars, ApprovalTypeOK, Tables
  <2>4. HandlerTyped'
    BY <2>1 DEF HandlerTyped, Idle
  <2> QED
    BY <2>1, <2>2, <2>3, <2>4, RowsKept
<1> QED
  BY <1>1, <1>2, <1>3 DEF HandlerStep

\* A handler that is about to post a refusal has an attempt left for it.
LEMMA AttemptKept ==
  ASSUME ApprovalTypeOK, ApprovalTypeOK', HandlerHasAttempt, [Next]_vars
  PROVE  HandlerHasAttempt'
<1>1. CASE AgentStep \/ UNCHANGED vars
  BY <1>1 DEF AgentStep, vars, approvalVars, HandlerHasAttempt
<1>2. CASE HandlerStep
  <2>1. ASSUME NEW i \in DOMAIN notify, RetryNotification(i) PROVE HandlerHasAttempt'
    BY <2>1 DEF RetryNotification, HandlerHasAttempt
  <2>2. CASE HandlerPost \/ HandlerPostFails \/ FinishAuthorization \/ FinishRefusal \/ Restart
    <3>1. step' # "post"
      BY <2>2 DEF HandlerPost, HandlerPostFails, FinishAuthorization, FinishRefusal, Restart
    <3> QED
      BY <3>1 DEF HandlerHasAttempt
  <2> QED
    BY <1>2, <2>1, <2>2 DEF HandlerStep
<1>3. CASE AuthorizationStep
  <2>1. UNCHANGED notify
    BY <1>3 DEF AuthorizationStep, RequestPolicyAuthorization, ResumePending,
                LapsePolicyAuthorization, ConsumeAuthorization
  <2>2. ASSUME NEW h \in PlanHashes, RequestPolicyAuthorization(h) PROVE handler' \in DOMAIN auths'
    BY <2>2 DEF RequestPolicyAuthorization, SealAuthorization
  <2>3. ASSUME NEW a \in DOMAIN auths, ResumePending(a) PROVE handler' \in DOMAIN auths'
    BY <2>3 DEF ResumePending
  <2>4. \A i \in DOMAIN auths' : i \notin DOMAIN notify'
    BY DEF ApprovalTypeOK, IsAuthorization, IsRefusal
  <2>5. CASE \E a \in DOMAIN auths : LapsePolicyAuthorization(a) \/ ConsumeAuthorization(a)
    BY <2>1, <2>5 DEF LapsePolicyAuthorization, ConsumeAuthorization, HandlerHasAttempt
  <2> QED
    BY <1>3, <2>2, <2>3, <2>4, <2>5 DEF AuthorizationStep, HandlerHasAttempt
<1>4. CASE NonceStep
  <2>1. ASSUME NEW n \in DOMAIN nonces, NEW d \in {"REJECTED", "FALSE_ALARM"}, Refuse(n, d)
        PROVE  HandlerHasAttempt'
    <3>1. handler' = Len(cards)'
          /\ notify' = [i \in DOMAIN notify \union {Len(cards)'} |->
                          IF i # Len(cards)' THEN notify[i]
                          ELSE IF d = "REJECTED" THEN RoomAttempts ELSE 1]
      BY <2>1 DEF Refuse
    <3>2. RoomAttempts > 0
      BY DEF ApprovalAssumption
    <3> QED
      BY <3>1, <3>2 DEF HandlerHasAttempt
  <2>2. ASSUME NEW n \in DOMAIN nonces, ApproveOnPage(n) \/ ApproveInRoom(n)
        PROVE  handler' \in DOMAIN auths'
    BY <2>2 DEF ApproveOnPage, ApproveInRoom, FreshConsume, SealAuthorization
  <2>3. \A i \in DOMAIN auths' : i \notin DOMAIN notify'
    BY DEF ApprovalTypeOK, IsAuthorization, IsRefusal
  <2>4. CASE CreateNonce \/ \E n \in DOMAIN nonces : PostChallenge(n) \/ ExpireNonce(n)
    BY <2>4 DEF CreateNonce, PostChallenge, ExpireNonce, HandlerHasAttempt
  <2> QED
    BY <1>4, <2>1, <2>2, <2>3, <2>4 DEF NonceStep, HandlerHasAttempt
<1> QED
  BY <1>1, <1>2, <1>3, <1>4 DEF Next

\* The types, with what they rest on.
LEMMA ApprovalTypingStep ==
  ASSUME ApprovalTypeOK, PlansHaveBodies, HandlerHasAttempt, [Next]_vars
  PROVE  ApprovalTypeOK' /\ PlansHaveBodies' /\ HandlerHasAttempt'
<1>1. TypeOK'
  BY LedgerStep, LedgerTypingStep DEF ApprovalTypeOK
<1>2. ApprovalTypeOK'
  <2>1. CASE UNCHANGED vars
    <3>1. Tables' /\ HandlerTyped'
      BY <2>1 DEF vars, approvalVars, nonceVars, ApprovalTypeOK, Tables, HandlerTyped, Idle
    <3> QED
      BY <1>1, <2>1, <3>1, RowsKept DEF vars, ledgerVars, approvalVars
  <2> QED
    BY <1>1, <2>1, AgentTypes, NonceTypes, AuthorizationTypes, HandlerTypes DEF Next
<1> QED
  BY <1>2, BodiesKept, AttemptKept

-------------------------------------------------------------------------------
(* What holds below, in every step.                                            *)

LEMMA FromLedger ==
  ASSUME ApprovalInv, [Next]_vars
  PROVE  /\ ApprovalTypeOK' /\ PlansHaveBodies' /\ HandlerHasAttempt'
         /\ SingleAuthorization' /\ AuthorizedByCard'
         /\ state \in Authorized => state' \in Authorized
<1>1. ApprovalTypeOK' /\ PlansHaveBodies' /\ HandlerHasAttempt'
  BY ApprovalTypingStep DEF ApprovalInv
<1>2. SingleAuthorization' /\ AuthorizedByCard'
  BY LedgerStep, AuthorizedStep DEF ApprovalInv, ApprovalTypeOK
<1>3. state \in Authorized => state' \in Authorized
  <2>1. \A i \in published : i \in published' /\ cards'[i] = cards[i]
    BY LedgerGrows, DecisionsAreCards DEF ApprovalInv
  <2> QED
    BY <1>2, <2>1 DEF ApprovalInv, AuthorizedByCard
<1> QED
  BY <1>1, <1>2, <1>3

\* While the incident is authorized or a handler is at work the current plan stays.
LEMMA PlanStays ==
  ASSUME ApprovalTypeOK, [Next]_vars, state \in Authorized \/ ~Idle \/ UNCHANGED published
  PROVE  \A h : CurrentPlanIs(h)' <=> CurrentPlanIs(h)
BY PlanPublished, PlanKept

-------------------------------------------------------------------------------
(* Nonces.                                                                     *)

NonceInv == NonceDecidesOnce /\ OneActiveNonce

\* A step that neither makes nor spends a nonce.
LEMMA NoncesKept ==
  ASSUME ApprovalInv, UNCHANGED <<nonces, consumed, invalidated>>, DOMAIN auths' = DOMAIN auths,
         \A a \in DOMAIN auths : auths'[a].nonce = auths[a].nonce
  PROVE  NonceInv'
<1>1. {auths'[a].nonce : a \in DOMAIN auths'} = {auths[a].nonce : a \in DOMAIN auths}
  OBVIOUS
<1>2. NonceDecidesOnce'
  BY <1>1 DEF ApprovalInv, NonceDecidesOnce
<1>3. OneActiveNonce'
  BY DEF ApprovalInv, OneActiveNonce, ActiveNonces
<1> QED
  BY <1>2, <1>3 DEF NonceInv

\* A nonce that was consumed gives one authorization, a new one.
LEMMA SealedNonce ==
  ASSUME ApprovalInv, NEW c, NEW n, NEW ch, Len(cards)' \notin DOMAIN auths,
         SealAuthorization(c, n, ch)
  PROVE  /\ DOMAIN auths' = DOMAIN auths \union {Len(cards)'}
         /\ auths'[Len(cards)'] = [status |-> "PENDING", nonce |-> n, channel |-> ch]
         /\ auths'[Len(cards)'].nonce = n /\ auths'[Len(cards)'].channel = ch
         /\ \A a \in DOMAIN auths : auths'[a] = auths[a]
         /\ {auths'[a].nonce : a \in DOMAIN auths'} = {auths[a].nonce : a \in DOMAIN auths} \union {n}
<1>1. auths' = [a \in DOMAIN auths \union {Len(cards)'} |->
                  IF a = Len(cards)' THEN [status |-> "PENDING", nonce |-> n, channel |-> ch]
                                     ELSE auths[a]]
  BY DEF SealAuthorization
<1>2. /\ DOMAIN auths' = DOMAIN auths \union {Len(cards)'}
      /\ auths'[Len(cards)'] = [status |-> "PENDING", nonce |-> n, channel |-> ch]
      /\ \A a \in DOMAIN auths : auths'[a] = auths[a]
  BY <1>1
<1>3. auths'[Len(cards)'].nonce = n /\ auths'[Len(cards)'].channel = ch
  BY <1>2
<1>4. {auths'[a].nonce : a \in DOMAIN auths'} = {auths[a].nonce : a \in DOMAIN auths} \union {n}
  BY <1>2, <1>3
<1> QED
  BY <1>2, <1>3, <1>4

\* A new status leaves the rest of an authorization, and the other ones.
LEMMA StatusSet ==
  ASSUME ApprovalTypeOK, NEW a \in DOMAIN auths, NEW s, auths' = [auths EXCEPT ![a].status = s]
  PROVE  /\ DOMAIN auths' = DOMAIN auths /\ auths'[a].status = s
         /\ \A b \in DOMAIN auths : /\ auths'[b].nonce = auths[b].nonce
                                    /\ auths'[b].channel = auths[b].channel
                                    /\ b # a => auths'[b] = auths[b]
<1>1. \A b \in DOMAIN auths : auths[b] \in [status: {"PENDING", "PUBLISHED", "CONSUMED"},
                                           nonce: 0..MaxNonces,
                                           channel: {"page", "room", "policy"}]
  BY DEF ApprovalTypeOK
<1>2. DOMAIN auths' = DOMAIN auths /\ auths'[a] = [auths[a] EXCEPT !.status = s]
      /\ \A b \in DOMAIN auths : b # a => auths'[b] = auths[b]
  OBVIOUS
<1>3. auths'[a].status = s /\ auths'[a].nonce = auths[a].nonce /\ auths'[a].channel = auths[a].channel
  BY <1>1, <1>2
<1> QED
  BY <1>2, <1>3

LEMMA NonceInvStep ==
  ASSUME ApprovalInv, ApprovalTypeOK', [Next]_vars
  PROVE  NonceInv'
<1> USE DEF ApprovalInv
<1>0. DOMAIN auths \subseteq DOMAIN cards
  BY DecisionsAreCards
<1>1. CASE CreateNonce
  <2>1. /\ Len(nonces)' = Len(nonces) + 1 /\ DOMAIN nonces = 1..Len(nonces)
        /\ DOMAIN nonces' = DOMAIN nonces \union {Len(nonces)'}
    BY <1>1, CreateNonceTypes, FromLedger DEF ApprovalTypeOK
  <2>2. /\ invalidated' = invalidated \union (DOMAIN nonces \ consumed)
        /\ UNCHANGED <<consumed, auths>>
    BY <1>1 DEF CreateNonce, InvalidateEarlierNonces
  <2>3. NonceDecidesOnce'
    BY <2>2 DEF NonceDecidesOnce
  <2>4. ActiveNonces' \subseteq {Len(nonces)'}
    BY <2>1, <2>2 DEF ActiveNonces
  <2> QED
    BY <2>3, <2>4 DEF NonceInv, OneActiveNonce
<1>2. ASSUME NEW n \in DOMAIN nonces, ApproveOnPage(n) \/ ApproveInRoom(n) PROVE NonceInv'
  <2>1. PICK h \in PlanHashes, ch \in {"page", "room"} : FreshConsume(n, h, ch)
    BY <1>2 DEF ApproveOnPage, ApproveInRoom
  <2>2. /\ n \in ActiveNonces /\ SealAuthorization(ApprovalCard(h, "APPROVED"), n, ch)
        /\ consumed' = consumed \union {n} /\ UNCHANGED <<nonces, invalidated>>
        /\ cards' = Append(cards, ApprovalCard(h, "APPROVED"))
    BY <2>1 DEF FreshConsume, NonceValid, SealAuthorization, SealDecision
  <2>3. Len(cards)' \notin DOMAIN auths
    BY <1>0, <2>2, SealedRow, SealedByGateway, SubmittedAreCards
  <2>4. /\ DOMAIN auths' = DOMAIN auths \union {Len(cards)'}
        /\ auths'[Len(cards)'].nonce = n
        /\ \A a \in DOMAIN auths : auths'[a] = auths[a]
        /\ {auths'[a].nonce : a \in DOMAIN auths'} = {auths[a].nonce : a \in DOMAIN auths} \union {n}
    BY <2>2, <2>3, SealedNonce
  <2>5. n \notin consumed /\ n \notin invalidated /\ n # NoNonce
    BY <2>2 DEF ActiveNonces, NoNonce, ApprovalTypeOK
  <2>6. \A a \in DOMAIN auths : auths[a].nonce # n
    BY <2>5 DEF NonceDecidesOnce
  <2>7. NonceDecidesOnce'
    BY <2>2, <2>4, <2>5, <2>6 DEF NonceDecidesOnce
  <2>8. OneActiveNonce'
    BY <2>2 DEF OneActiveNonce, ActiveNonces
  <2> QED
    BY <2>7, <2>8 DEF NonceInv
<1>3. ASSUME NEW n \in DOMAIN nonces, NEW d \in {"REJECTED", "FALSE_ALARM"}, Refuse(n, d)
      PROVE  NonceInv'
  <2>1. /\ invalidated' = invalidated \union ({n} \ consumed)
        /\ UNCHANGED <<nonces, consumed, auths>>
    BY <1>3 DEF Refuse
  <2> QED
    BY <2>1 DEF NonceInv, NonceDecidesOnce, OneActiveNonce, ActiveNonces
<1>4. ASSUME NEW h \in PlanHashes, RequestPolicyAuthorization(h) PROVE NonceInv'
  <2>1. /\ SealAuthorization(PolicyCard(h), NoNonce, "policy") /\ h.risk = "low"
        /\ UNCHANGED <<nonces, consumed, invalidated>>
        /\ cards' = Append(cards, PolicyCard(h))
    BY <1>4 DEF RequestPolicyAuthorization, PolicyMayAuthorize, SealAuthorization, SealDecision,
                nonceVars
  <2>2. Len(cards)' \notin DOMAIN auths
    BY <1>0, <2>1, SealedRow, SealedByGateway, SubmittedAreCards
  <2>3. /\ DOMAIN auths' = DOMAIN auths \union {Len(cards)'}
        /\ auths'[Len(cards)'].nonce = NoNonce
        /\ \A a \in DOMAIN auths : auths'[a] = auths[a]
        /\ {auths'[a].nonce : a \in DOMAIN auths'}
             = {auths[a].nonce : a \in DOMAIN auths} \union {NoNonce}
    BY <2>1, <2>2, SealedNonce
  <2>4. NonceDecidesOnce'
    BY <2>1, <2>3 DEF NonceDecidesOnce
  <2>5. OneActiveNonce'
    BY <2>1 DEF OneActiveNonce, ActiveNonces
  <2> QED
    BY <2>4, <2>5 DEF NonceInv
<1>5. ASSUME NEW n \in DOMAIN nonces, PostChallenge(n) \/ ExpireNonce(n) PROVE NonceInv'
  BY <1>5, NoncesKept DEF PostChallenge, ExpireNonce
<1>6. CASE AgentStep \/ UNCHANGED vars
  BY <1>6, NoncesKept DEF AgentStep, vars, approvalVars, nonceVars
<1>7. ASSUME NEW a \in DOMAIN auths,
             ResumePending(a) \/ LapsePolicyAuthorization(a) \/ ConsumeAuthorization(a)
      PROVE  NonceInv'
  <2>1. /\ UNCHANGED <<nonces, consumed, invalidated>> /\ DOMAIN auths' = DOMAIN auths
        /\ auths' = auths \/ auths' = [auths EXCEPT ![a].status = "CONSUMED"]
    BY <1>7 DEF ResumePending, LapsePolicyAuthorization, ConsumeAuthorization, nonceVars
  <2>2. \A b \in DOMAIN auths : auths'[b].nonce = auths[b].nonce
    BY <2>1, StatusSet
  <2> QED
    BY <2>1, <2>2, NoncesKept
<1>8. CASE HandlerStep
  <2>1. /\ UNCHANGED <<nonces, consumed, invalidated>> /\ DOMAIN auths' = DOMAIN auths
        /\ \/ auths' = auths \/ auths' = Migrated
           \/ FinishAuthorization /\ auths' = [auths EXCEPT ![handler].status = "PUBLISHED"]
    BY <1>8, MigratedRows DEF HandlerStep, HandlerPost, HandlerPostFails, FinishAuthorization, FinishRefusal,
                Restart, RetryNotification, AuthorizationPublished, nonceVars
  <2>2. FinishAuthorization => handler \in DOMAIN auths
    BY DecisionsAreCards DEF FinishAuthorization, PublishAuthorization, ApprovalTypeOK, Idle
  <2>3. \A b \in DOMAIN auths : auths'[b].nonce = auths[b].nonce
    BY <2>1, <2>2, StatusSet, MigratedRows
  <2> QED
    BY <2>1, <2>3, NoncesKept
<1> QED
  BY <1>1, <1>2, <1>3, <1>4, <1>5, <1>6, <1>7, <1>8 DEF Next, NonceStep, AuthorizationStep

-------------------------------------------------------------------------------
(* Authorizations and the current plan.                                        *)

\* A card that was for the current plan still is, while that stays.
LEMMA HashStays ==
  ASSUME ApprovalTypeOK, [Next]_vars, state \in Authorized \/ ~Idle \/ UNCHANGED published
  PROVE  \A a \in DOMAIN cards :
           CurrentPlanIs(PlanHash(cards[a]))' <=> CurrentPlanIs(PlanHash(cards[a]))
<1>1. \A h : CurrentPlanIs(h)' <=> CurrentPlanIs(h)
  BY PlanStays
<1>2. \A a \in DOMAIN cards : cards'[a] = cards[a]
  BY LedgerGrows
<1> SUFFICES ASSUME NEW a \in DOMAIN cards
             PROVE  CurrentPlanIs(PlanHash(cards[a]))' <=> CurrentPlanIs(PlanHash(cards[a]))
  OBVIOUS
<1>3. PICK h : h = PlanHash(cards[a])
  OBVIOUS
<1>4. PlanHash(cards[a])' = h
  BY <1>2, <1>3 DEF PlanHash
<1>5. CurrentPlanIs(PlanHash(cards[a])) <=> CurrentPlanIs(h)
  BY <1>3
<1>6. CurrentPlanIs(PlanHash(cards[a]))' <=> CurrentPlanIs(h)'
  BY <1>4 DEF CurrentPlanIs
<1> QED
  BY <1>1, <1>5, <1>6

\* An authorization that is published makes the incident an authorized one.
LEMMA PublishedAuthorizes ==
  ASSUME ApprovalTypeOK, AuthorizedByCard
  PROVE  /\ \A a \in DOMAIN auths : a \in published => state \in Authorized
         /\ PolicyIsPublished => state \in Authorized
BY DecisionsAreCards DEF AuthorizedByCard, PolicyIsPublished, IsAuthorization

\* ... and so does a row that is pending no more.
LEMMA RowAuthorizes ==
  ASSUME ApprovalInv
  PROVE  \A a \in DOMAIN auths : auths[a].status # "PENDING" => state \in Authorized
BY PublishedAuthorizes DEF ApprovalInv, LifecycleConsistent

\* The policy's authorization stays published.
LEMMA PolicyStays ==
  ASSUME ApprovalInv, [Next]_vars
  PROVE  PolicyIsPublished => PolicyIsPublished'
<1>1. \A i \in published : i \in published' /\ cards'[i] = cards[i]
  BY LedgerGrows, DecisionsAreCards DEF ApprovalInv
<1> QED
  BY <1>1 DEF PolicyIsPublished

RowInv == LifecycleConsistent /\ ConsumedIsCurrentPlan /\ PageApprovalIsForCurrentPlan /\ PolicyIsLow

\* A step that leaves the authorizations as they are, published or not.
LEMMA RowsStay ==
  ASSUME ApprovalInv, [Next]_vars, auths' = auths,
         \A a \in DOMAIN auths : a \in published' => a \in published
  PROVE  RowInv'
<1> USE DEF ApprovalInv
<1>1. \A a \in DOMAIN auths : /\ cards'[a] = cards[a] /\ a \in DOMAIN cards
                              /\ a \in published' <=> a \in published
  BY LedgerGrows, DecisionsAreCards
<1>2. \A a \in DOMAIN auths : a \in published \/ auths[a].status # "PENDING" =>
        /\ state' \in Authorized
        /\ CurrentPlanIs(PlanHash(cards[a]))' <=> CurrentPlanIs(PlanHash(cards[a]))
  BY <1>1, PublishedAuthorizes, RowAuthorizes, HashStays, FromLedger
<1>3. LifecycleConsistent' /\ PolicyIsLow'
  BY <1>1, PolicyStays DEF LifecycleConsistent, PolicyIsLow
<1>4. ConsumedIsCurrentPlan'
  BY <1>2 DEF ConsumedIsCurrentPlan
<1>5. PageApprovalIsForCurrentPlan'
  BY <1>1, <1>2 DEF PageApprovalIsForCurrentPlan, ForCurrentPlan
<1> QED
  BY <1>3, <1>4, <1>5 DEF RowInv

\* A new authorization is pending, and changes nothing of the others.
LEMMA SealedRowInv ==
  ASSUME ApprovalInv, [Next]_vars, NEW c \in Card, NEW n, NEW ch, SealAuthorization(c, n, ch),
         c.type = "PolicyAuthorization" => ch = "policy" /\ c.risk = "low"
  PROVE  RowInv'
<1> USE DEF ApprovalInv
<1>1. cards' = Append(cards, c) /\ published' = published
  BY DEF SealAuthorization, SealDecision
<1>2. Len(cards)' \notin DOMAIN cards /\ cards'[Len(cards)'] = c
  BY <1>1, SealedRow
<1>3. Len(cards)' \notin DOMAIN auths /\ Len(cards)' \notin published'
  BY <1>1, <1>2, DecisionsAreCards
<1>4. /\ DOMAIN auths' = DOMAIN auths \union {Len(cards)'}
      /\ auths'[Len(cards)'] = [status |-> "PENDING", nonce |-> n, channel |-> ch]
      /\ \A a \in DOMAIN auths : auths'[a] = auths[a]
  BY <1>3, SealedNonce
<1>5. auths'[Len(cards)'].status = "PENDING" /\ auths'[Len(cards)'].channel = ch
  BY <1>4
<1>6. \A a \in DOMAIN auths : cards'[a] = cards[a] /\ a \in DOMAIN cards
  BY LedgerGrows, DecisionsAreCards
<1>7. \A a \in DOMAIN auths :
        CurrentPlanIs(PlanHash(cards[a]))' <=> CurrentPlanIs(PlanHash(cards[a]))
  BY <1>1, <1>6, HashStays
<1>8. LifecycleConsistent'
  BY <1>1, <1>3, <1>4, <1>5, PolicyStays DEF LifecycleConsistent
<1>9. ConsumedIsCurrentPlan'
  BY <1>4, <1>5, <1>7, FromLedger DEF ConsumedIsCurrentPlan
<1>10. PageApprovalIsForCurrentPlan'
  BY <1>1, <1>3, <1>4, <1>7 DEF PageApprovalIsForCurrentPlan, ForCurrentPlan
<1>11. PolicyIsLow'
  BY <1>2, <1>4, <1>5, <1>6 DEF PolicyIsLow
<1> QED
  BY <1>8, <1>9, <1>10, <1>11 DEF RowInv

\* The handler publishes what it has compared with the plan, and no other authorization
\* of the incident is published.
LEMMA FinishAuthorizationRowInv ==
  ASSUME ApprovalInv, [Next]_vars, FinishAuthorization
  PROVE  RowInv'
<1> USE DEF ApprovalInv
<1>1. /\ step = "finish" /\ IsAuthorization(cards[handler]) /\ state = "PLANNED"
      /\ cards' = cards /\ published' = published \union {handler}
      /\ state' = ResolveState(cards[handler])
      /\ auths' = [auths EXCEPT ![handler].status = "PUBLISHED"]
  BY DEF FinishAuthorization, PublishAuthorization, LifecycleSource, AuthorizationPublished
<1>2. handler \in DOMAIN auths
  BY <1>1, DecisionsAreCards DEF ApprovalTypeOK, Idle
<1>3. /\ DOMAIN auths' = DOMAIN auths /\ auths'[handler].status = "PUBLISHED"
      /\ \A b \in DOMAIN auths : /\ auths'[b].channel = auths[b].channel
                                 /\ b # handler => auths'[b] = auths[b]
  BY <1>1, <1>2, StatusSet
<1>4. \A b \in DOMAIN auths : b \notin published
  BY <1>1, PublishedAuthorizes DEF Authorized
<1>5. \A b \in DOMAIN auths : b # handler => b \notin published' /\ auths'[b].status = "PENDING"
  BY <1>1, <1>3, <1>4, RowAuthorizes DEF Authorized
<1>6. \A b \in DOMAIN auths :
        CurrentPlanIs(PlanHash(cards[b]))' <=> CurrentPlanIs(PlanHash(cards[b]))
  BY <1>1, HashStays, DecisionsAreCards DEF Idle
<1>7. LifecycleConsistent'
  BY <1>1, <1>2, <1>3, <1>5 DEF LifecycleConsistent
<1>8. ConsumedIsCurrentPlan'
  BY <1>3, <1>5 DEF ConsumedIsCurrentPlan
<1>9. PageApprovalIsForCurrentPlan'
  BY <1>2, <1>3, <1>5, <1>6 DEF PageApprovalIsForCurrentPlan, ForCurrentPlan, HandlerIsCurrent
<1>10. PolicyIsLow'
  BY <1>1, <1>3 DEF PolicyIsLow
<1> QED
  BY <1>7, <1>8, <1>9, <1>10 DEF RowInv

\* A start lifts only rows of an incident that is authorized.
LEMMA RestartRowInv ==
  ASSUME ApprovalInv, [Next]_vars, Restart
  PROVE  RowInv'
<1> USE DEF ApprovalInv
<1>1. auths' = Migrated /\ UNCHANGED <<state, cards, published>>
  BY DEF Restart, ledgerVars
<1>2. /\ DOMAIN auths' = DOMAIN auths
      /\ \A a \in DOMAIN auths :
           /\ auths'[a].channel = auths[a].channel
           /\ \/ auths'[a] = auths[a]
              \/ PolicyIsPublished /\ auths'[a].status = "PUBLISHED"
  BY <1>1, MigratedRows
<1>3. \A a \in DOMAIN auths :
        CurrentPlanIs(PlanHash(cards[a]))' <=> CurrentPlanIs(PlanHash(cards[a]))
  BY <1>1, HashStays, DecisionsAreCards
<1>4. LifecycleConsistent'
  BY <1>1, <1>2, PolicyStays DEF LifecycleConsistent
<1>5. ConsumedIsCurrentPlan'
  BY <1>1, <1>2, <1>3 DEF ConsumedIsCurrentPlan
<1>6. PageApprovalIsForCurrentPlan'
  BY <1>1, <1>2, <1>3 DEF PageApprovalIsForCurrentPlan, ForCurrentPlan
<1>7. PolicyIsLow'
  BY <1>1, <1>2 DEF PolicyIsLow
<1> QED
  BY <1>4, <1>5, <1>6, <1>7 DEF RowInv

\* What is consumed was lifted or published, and is compared with the plan once more.
LEMMA ConsumeRowInv ==
  ASSUME ApprovalInv, [Next]_vars, NEW a \in DOMAIN auths, ConsumeAuthorization(a)
  PROVE  RowInv'
<1> USE DEF ApprovalInv
<1>1. /\ auths[a].status = "PUBLISHED" /\ CurrentPlanIs(PlanHash(cards[a]))
      /\ auths' = [auths EXCEPT ![a].status = "CONSUMED"]
      /\ UNCHANGED <<state, cards, published>>
  BY DEF ConsumeAuthorization, Consumable, ledgerVars
<1>2. /\ DOMAIN auths' = DOMAIN auths /\ auths'[a].status = "CONSUMED"
      /\ \A b \in DOMAIN auths : /\ auths'[b].channel = auths[b].channel
                                 /\ b # a => auths'[b] = auths[b]
  BY <1>1, StatusSet
<1>3. state \in Authorized /\ (a \in published \/ PolicyIsPublished)
  BY <1>1, RowAuthorizes DEF LifecycleConsistent
<1>4. \A b \in DOMAIN auths :
        CurrentPlanIs(PlanHash(cards[b]))' <=> CurrentPlanIs(PlanHash(cards[b]))
  BY <1>1, HashStays, DecisionsAreCards
<1>5. LifecycleConsistent'
  BY <1>1, <1>2, <1>3, PolicyStays DEF LifecycleConsistent
<1>6. ConsumedIsCurrentPlan'
  BY <1>1, <1>2, <1>3, <1>4 DEF ConsumedIsCurrentPlan
<1>7. PageApprovalIsForCurrentPlan'
  BY <1>1, <1>2, <1>4 DEF PageApprovalIsForCurrentPlan, ForCurrentPlan
<1>8. PolicyIsLow'
  BY <1>1, <1>2 DEF PolicyIsLow
<1> QED
  BY <1>5, <1>6, <1>7, <1>8 DEF RowInv

LEMMA RowInvStep ==
  ASSUME ApprovalInv, [Next]_vars
  PROVE  RowInv'
<1> USE DEF ApprovalInv
<1>1. CASE AgentStep
  <2>1. auths' = auths
    BY <1>1 DEF AgentStep, approvalVars
  <2>2. \A a \in DOMAIN auths : a \in published' => a \in published
    BY <1>1, DecisionsAreCards DEF AgentStep, PrepareCard, CrashAfterUpsert, PostCard,
                                   ConfirmPublication, IsAuthorization
  <2> QED
    BY <2>1, <2>2, RowsStay
<1>2. ASSUME NEW n \in DOMAIN nonces, ApproveOnPage(n) \/ ApproveInRoom(n) PROVE RowInv'
  <2>1. PICK h \in PlanHashes, ch \in {"page", "room"} : FreshConsume(n, h, ch)
    BY <1>2 DEF ApproveOnPage, ApproveInRoom
  <2>2. SealAuthorization(ApprovalCard(h, "APPROVED"), n, ch)
    BY <2>1 DEF FreshConsume
  <2>3. /\ ApprovalCard(h, "APPROVED") \in Card
        /\ ApprovalCard(h, "APPROVED").type # "PolicyAuthorization"
    BY SealedByGateway, SubmittedAreCards
  <2> QED
    BY <2>2, <2>3, SealedRowInv
<1>3. CASE CreateNonce \/ \E n \in DOMAIN nonces :
             \/ PostChallenge(n) \/ ExpireNonce(n)
             \/ \E d \in {"REJECTED", "FALSE_ALARM"} : Refuse(n, d)
  <2>1. auths' = auths /\ published' = published
    BY <1>3 DEF CreateNonce, PostChallenge, ExpireNonce, Refuse, SealDecision, ledgerVars
  <2> QED
    BY <2>1, RowsStay
<1>4. ASSUME NEW h \in PlanHashes, RequestPolicyAuthorization(h) PROVE RowInv'
  <2>1. SealAuthorization(PolicyCard(h), NoNonce, "policy") /\ h.risk = "low"
    BY <1>4 DEF RequestPolicyAuthorization, PolicyMayAuthorize
  <2>2. PolicyCard(h) \in Card /\ PolicyCard(h).risk = "low"
    BY <2>1, SealedByGateway, SubmittedAreCards
  <2> QED
    BY <2>1, <2>2, SealedRowInv
<1>5. ASSUME NEW a \in DOMAIN auths, ResumePending(a) \/ LapsePolicyAuthorization(a) PROVE RowInv'
  <2>1. auths' = auths /\ published' = published
    BY <1>5 DEF ResumePending, LapsePolicyAuthorization, ledgerVars
  <2> QED
    BY <2>1, RowsStay
<1>6. CASE HandlerPost \/ HandlerPostFails \/ (\E i \in DOMAIN notify : RetryNotification(i))
           \/ UNCHANGED vars
  <2>1. auths' = auths /\ published' = published
    BY <1>6 DEF HandlerPost, HandlerPostFails, RetryNotification, ledgerVars, vars,
                approvalVars
  <2> QED
    BY <2>1, RowsStay
<1>7. CASE FinishRefusal
  <2>1. auths' = auths /\ published' = published \union {handler} /\ IsRefusal(cards[handler])
    BY <1>7 DEF FinishRefusal, PublishRefusal
  <2>2. \A a \in DOMAIN auths : a # handler
    BY <2>1, DecisionsAreCards
  <2> QED
    BY <2>1, <2>2, RowsStay
<1> QED
  BY <1>1, <1>2, <1>3, <1>4, <1>5, <1>6, <1>7, FinishAuthorizationRowInv, ConsumeRowInv, RestartRowInv
  DEF Next, NonceStep, AuthorizationStep, HandlerStep

-------------------------------------------------------------------------------
(* The authorization in hand.                                                  *)

\* An authorization is sealed for the current plan, or the room has answered.
LEMMA SealedHandler ==
  ASSUME ApprovalInv, [Next]_vars, NEW c \in Card, NEW n, NEW ch, SealAuthorization(c, n, ch),
         ch # "room" => CurrentPlanIs(PlanHash(c))
  PROVE  HandlerIsCurrent'
<1>1. cards' = Append(cards, c) /\ published' = published /\ handler' = Len(cards)'
  BY DEF SealAuthorization, SealDecision
<1>2. cards'[Len(cards)'] = c /\ Len(cards)' \notin DOMAIN cards
  BY <1>1, SealedRow DEF ApprovalInv
<1>3. Len(cards)' \notin DOMAIN auths
  BY <1>2, DecisionsAreCards DEF ApprovalInv
<1>4. auths'[Len(cards)'].channel = ch
  BY <1>3, SealedNonce
<1>5. \A h : CurrentPlanIs(h)' <=> CurrentPlanIs(h)
  BY <1>1, PlanStays DEF ApprovalInv
<1>6. PICK h : h = PlanHash(c)
  OBVIOUS
<1>7. CurrentPlanIs(PlanHash(cards[handler]))' <=> CurrentPlanIs(h)'
  <2>1. PlanHash(cards[handler])' = h
    BY <1>1, <1>2, <1>6 DEF PlanHash
  <2> QED
    BY <2>1 DEF CurrentPlanIs
<1> QED
  BY <1>1, <1>4, <1>5, <1>6, <1>7 DEF HandlerIsCurrent

LEMMA HandlerIsCurrentStep ==
  ASSUME ApprovalInv, ApprovalTypeOK', [Next]_vars
  PROVE  HandlerIsCurrent'
<1> USE DEF ApprovalInv
<1>1. ASSUME step' = "idle" PROVE HandlerIsCurrent'
  <2>1. handler' = NoCard /\ DOMAIN auths' \subseteq DOMAIN cards' /\ cards' \in Seq(Card)
    BY <1>1 DEF ApprovalTypeOK, TypeOK, Idle
  <2>2. NoCard \notin DOMAIN cards'
    BY <2>1 DEF NoCard
  <2> QED
    BY <2>1, <2>2 DEF HandlerIsCurrent
\* The handler goes on with the card it has.
<1>2. ASSUME handler' = handler, auths' = auths, UNCHANGED <<cards, published>>
      PROVE  HandlerIsCurrent'
  <2>1. \A a \in DOMAIN cards :
          CurrentPlanIs(PlanHash(cards[a]))' <=> CurrentPlanIs(PlanHash(cards[a]))
    BY <1>2, HashStays
  <2>2. CurrentPlanIs(PlanHash(cards[handler]))' <=> CurrentPlanIs(PlanHash(cards[handler]))
    BY <1>2 DEF CurrentPlanIs, IsCurrentPlan, PlanHash
  <2> QED
    BY <1>2, <2>2 DEF HandlerIsCurrent
<1>3. CASE AgentStep
  <2>1. step' = "idle"
    BY <1>3 DEF AgentStep, Idle, approvalVars
  <2> QED
    BY <1>1, <2>1
<1>4. ASSUME NEW n \in DOMAIN nonces, ApproveOnPage(n) \/ ApproveInRoom(n) PROVE HandlerIsCurrent'
  <2>1. PICK h \in PlanHashes, ch \in {"page", "room"} :
          FreshConsume(n, h, ch) /\ (ch # "room" => CurrentPlanIs(h))
    BY <1>4 DEF ApproveOnPage, ApproveInRoom
  <2>2. SealAuthorization(ApprovalCard(h, "APPROVED"), n, ch)
    BY <2>1 DEF FreshConsume
  <2>3. ApprovalCard(h, "APPROVED") \in Card /\ PlanHash(ApprovalCard(h, "APPROVED")) = h
    BY SealedByGateway, SubmittedAreCards
  <2> QED
    BY <2>1, <2>2, <2>3, SealedHandler
<1>5. ASSUME NEW h \in PlanHashes, RequestPolicyAuthorization(h) PROVE HandlerIsCurrent'
  <2>1. /\ SealAuthorization(PolicyCard(h), NoNonce, "policy") /\ h.risk = "low"
        /\ CurrentPlanIs(h)
    BY <1>5 DEF RequestPolicyAuthorization, PolicyMayAuthorize
  <2>2. PolicyCard(h) \in Card /\ PlanHash(PolicyCard(h)) = h
    BY <2>1, SealedByGateway, SubmittedAreCards
  <2> QED
    BY <2>1, <2>2, SealedHandler
<1>6. ASSUME NEW a \in DOMAIN auths, ResumePending(a) PROVE HandlerIsCurrent'
  <2>1. /\ CurrentPlanIs(PlanHash(cards[a])) /\ handler' = a
        /\ UNCHANGED <<cards, published, auths>>
    BY <1>6 DEF ResumePending, ResumeValid, ledgerVars
  <2>2. CurrentPlanIs(PlanHash(cards[handler]))' <=> CurrentPlanIs(PlanHash(cards[a]))
    BY <2>1 DEF CurrentPlanIs, IsCurrentPlan, PlanHash
  <2> QED
    BY <2>1, <2>2 DEF HandlerIsCurrent
<1>7. ASSUME NEW n \in DOMAIN nonces, NEW d \in {"REJECTED", "FALSE_ALARM"}, Refuse(n, d)
      PROVE  HandlerIsCurrent'
  <2>1. PICK h \in PlanHashes : SealDecision(ApprovalCard(h, d))
    BY <1>7 DEF Refuse
  <2>2. /\ handler' = Len(cards)' /\ auths' = auths
        /\ cards' = Append(cards, ApprovalCard(h, d)) /\ ApprovalCard(h, d) \in Card
    BY <1>7, <2>1, SealedByGateway, SubmittedAreCards DEF Refuse, SealDecision
  <2>3. handler' \notin DOMAIN auths'
    BY <2>2, SealedRow, DecisionsAreCards
  <2> QED
    BY <2>3 DEF HandlerIsCurrent
<1>8. CASE CreateNonce \/ \E n \in DOMAIN nonces : PostChallenge(n) \/ ExpireNonce(n)
  BY <1>2, <1>8 DEF CreateNonce, PostChallenge, ExpireNonce, ledgerVars
<1>9. ASSUME NEW a \in DOMAIN auths, LapsePolicyAuthorization(a) PROVE HandlerIsCurrent'
  BY <1>2, <1>9 DEF LapsePolicyAuthorization, ledgerVars
<1>10. ASSUME NEW a \in DOMAIN auths, ConsumeAuthorization(a) PROVE HandlerIsCurrent'
  BY <1>1, <1>10 DEF ConsumeAuthorization, Idle
<1>11. CASE HandlerPost \/ UNCHANGED vars
  BY <1>2, <1>11 DEF HandlerPost, vars, ledgerVars, approvalVars
<1>12. CASE HandlerPostFails \/ FinishAuthorization \/ FinishRefusal \/ Restart
  BY <1>1, <1>12 DEF HandlerPostFails, FinishAuthorization, FinishRefusal, Restart
<1>13. ASSUME NEW i \in DOMAIN notify, RetryNotification(i) PROVE HandlerIsCurrent'
  <2>1. handler' = i /\ auths' = auths
    BY <1>13 DEF RetryNotification
  <2>2. i \notin DOMAIN auths
    BY DecisionsAreCards
  <2> QED
    BY <2>1, <2>2 DEF HandlerIsCurrent
<1> QED
  BY <1>3, <1>4, <1>5, <1>6, <1>7, <1>8, <1>9, <1>10, <1>11, <1>12, <1>13
  DEF Next, NonceStep, AuthorizationStep, HandlerStep

-------------------------------------------------------------------------------
(* Theorems.                                                                   *)

\* An empty database has the invariant.
LEMMA InitHasInv == Init => ApprovalInv
<1> SUFFICES ASSUME Init PROVE ApprovalInv
  OBVIOUS
<1>1. /\ state = "NONE" /\ cards = <<>> /\ room = {} /\ published = {}
      /\ nonces = <<>> /\ visible = {} /\ consumed = {} /\ invalidated = {} /\ expired = {}
      /\ auths = <<>> /\ lapsed = {} /\ notify = <<>> /\ handler = NoCard /\ step = "idle"
  BY DEF Init, LedgerInit, ApprovalInit
<1>2. DOMAIN cards = {} /\ DOMAIN nonces = {} /\ DOMAIN auths = {} /\ DOMAIN notify = {}
  BY <1>1
<1>3. TypeOK
  BY <1>1, LedgerAssumption DEF TypeOK, States
<1>4. nonces \in Seq(PlanHashes) /\ Len(nonces) <= MaxNonces
  BY <1>1 DEF ApprovalAssumption
<1>5. /\ auths \in [DOMAIN auths -> [status: {"PENDING", "PUBLISHED", "CONSUMED"},
                                     nonce: 0..MaxNonces,
                                     channel: {"page", "room", "policy"}]]
      /\ notify \in [DOMAIN notify -> 0..RoomAttempts]
  BY <1>1, <1>2
<1>6. ApprovalTypeOK
  BY <1>1, <1>2, <1>3, <1>4, <1>5 DEF ApprovalTypeOK, Idle
<1>7. SingleAuthorization /\ AuthorizedByCard
  BY <1>1 DEF SingleAuthorization, AuthorizedByCard, Authorized
<1>8. NonceDecidesOnce /\ OneActiveNonce
  BY <1>1, <1>2 DEF NonceDecidesOnce, OneActiveNonce, ActiveNonces
<1>9. RowInv
  BY <1>2 DEF RowInv, LifecycleConsistent, ConsumedIsCurrentPlan, PageApprovalIsForCurrentPlan,
              PolicyIsLow
<1>10. HandlerIsCurrent /\ HandlerHasAttempt /\ PlansHaveBodies
  BY <1>2 DEF HandlerIsCurrent, HandlerHasAttempt, PlansHaveBodies
<1> QED
  BY <1>6, <1>7, <1>8, <1>9, <1>10 DEF ApprovalInv, RowInv

\* The inductive invariant holds in every reachable state.
THEOREM ApprovalInvariance == Spec => []ApprovalInv
<1>1. ApprovalInv /\ [Next]_vars => ApprovalInv'
  <2> SUFFICES ASSUME ApprovalInv, [Next]_vars PROVE ApprovalInv'
    OBVIOUS
  <2>1. /\ ApprovalTypeOK' /\ PlansHaveBodies' /\ HandlerHasAttempt'
        /\ SingleAuthorization' /\ AuthorizedByCard'
    BY FromLedger
  <2> QED
    BY <2>1, NonceInvStep, RowInvStep, HandlerIsCurrentStep DEF ApprovalInv, NonceInv, RowInv
<1> QED
  BY <1>1, InitHasInv, PTL DEF Spec

\* The tables and the chain agree: every authorization and refusal has its card, and the
\* handler in hand one of them.
THEOREM ApprovalTyping == Spec => []ApprovalTypeOK
BY ApprovalInvariance, PTL DEF ApprovalInv

\* nonce.py, authorization.py and approve_ui.py keep to the protocol of the card ledger,
\* so that what is proved of the ledger (its challenge budget, its single authorization,
\* its review) holds of the Gateway with its approval.
THEOREM ApprovalKeepsLedger == Spec => LedgerSpec
<1>1. Init => LedgerInit
  BY DEF Init
<1>2. ApprovalTypeOK /\ [Next]_vars => [LedgerNext]_ledgerVars
  BY LedgerStep
<1> QED
  BY <1>1, <1>2, ApprovalTyping, PTL DEF Spec, LedgerSpec

\* nonce.py: a nonce is consumed by exactly one authorization or spent by a refusal.
THEOREM NonceDecides == Spec => []NonceDecidesOnce
BY ApprovalInvariance, PTL DEF ApprovalInv

\* nonce.py, create: no two nonces can be answered at the same time.
THEOREM ActiveNonceAlone == Spec => []OneActiveNonce
BY ApprovalInvariance, PTL DEF ApprovalInv

\* shared/approval.py, gateway/database.py _migrate: the row of an authorization leaves
\* PENDING with the publication of its card, or at a start of the Gateway after the policy
\* has authorized a plan of the incident; whatever crashes in between.
THEOREM LifecycleAgrees == Spec => []LifecycleConsistent
BY ApprovalInvariance, PTL DEF ApprovalInv

\* authorization.py, consume: what is executed is the plan of record, for good.
THEOREM ConsumedPlanIsCurrent == Spec => []ConsumedIsCurrentPlan
BY ApprovalInvariance, PTL DEF ApprovalInv

\* approve_ui.py and authorization.py: what the page or the policy authorizes is the plan
\* in force when it is published, though the check and the publication are transactions
\* of their own.
THEOREM PageApprovalIsCurrent == Spec => []PageApprovalIsForCurrentPlan
BY ApprovalInvariance, PTL DEF ApprovalInv

\* authorization.py: a plan of high risk is not executed on the policy's word.
THEOREM HighRiskHasHuman == Spec => []HighRiskNeedsHuman
<1>1. ApprovalInv => HighRiskNeedsHuman
  <2> SUFFICES ASSUME ApprovalInv, state \in Authorized, NEW i \in published,
                      IsCurrentPlan(i), cards[i].risk = "high"
               PROVE  \E j \in published : /\ cards[j].type = "StructuredApproval"
                                           /\ cards[j].decision = "APPROVED"
    BY DEF HighRiskNeedsHuman
  <2>1. PICK a \in published : IsAuthorization(cards[a])
    BY DEF ApprovalInv, AuthorizedByCard
  <2>2. a \in DOMAIN auths
    BY <2>1, DecisionsAreCards DEF ApprovalInv, ApprovalTypeOK
  <2>3. CASE cards[a].type = "PolicyAuthorization"
    <3>1. auths[a].channel = "policy" /\ cards[a].risk = "low"
      BY <2>2, <2>3 DEF ApprovalInv, PolicyIsLow
    <3>2. CurrentPlanIs(PlanHash(cards[a]))
      BY <2>1, <2>2, <3>1 DEF ApprovalInv, PageApprovalIsForCurrentPlan, ForCurrentPlan
    <3>3. PICK k \in published : IsCurrentPlan(k) /\ PlanHash(cards[k]) = PlanHash(cards[a])
      BY <3>2 DEF CurrentPlanIs
    <3>4. cards[k].risk = "low"
      BY <3>1, <3>3 DEF PlanHash
    <3>5. i \in Nat /\ k \in Nat /\ i <= k /\ k <= i
      BY <3>3, DecisionsAreCards DEF IsCurrentPlan, ApprovalInv
    <3> QED
      BY <3>4, <3>5
  <2>4. CASE cards[a].type # "PolicyAuthorization"
    BY <2>1, <2>4 DEF IsAuthorization
  <2> QED
    BY <2>3, <2>4
<1> QED
  BY <1>1, ApprovalInvariance, PTL

\* approve_ui.py:784 and submission.py: once the incident is authorized its plan of record
\* does not change any more.
THEOREM PlanStaysFrozen == Spec => PlanFrozen
<1>1. ApprovalTypeOK /\ [Next]_vars =>
        [\A h \in PlanHashes :
           state \in Authorized => (CurrentPlanIs(h)' <=> CurrentPlanIs(h))]_vars
  BY PlanStays
<1> QED
  BY <1>1, ApprovalTyping, PTL DEF Spec, PlanFrozen
=================================================================================
