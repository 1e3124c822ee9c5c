-------------------------------- MODULE Approval --------------------------------
(***************************************************************************)
(* How a published plan gets permission to be executed: the Gateway's      *)
(* nonces and authorizations (gateway/routes/nonce.py, authorization.py,   *)
(* approve_ui.py and shared/approval.py), on top of the card ledger.       *)
(*                                                                         *)
(* The Gateway is one process with one event loop.  A handler commits one  *)
(* or more transactions and posts to the room between them, without ever   *)
(* yielding to another handler in between; but the process may crash there *)
(* and start again, and the post may fail.  "handler" is the card whose    *)
(* handler is past its first commit, "step" what it does next.  While it   *)
(* is there nothing else in the Gateway moves; only time goes on.          *)
(*                                                                         *)
(* A plan's plan_hash and action_hash are one value, its body with its     *)
(* risk: two plans with equal contents have equal hashes.  The humans of   *)
(* the approver allowlist act as one approver, the incident has its room,  *)
(* and the Operator is configured.                                         *)
(***************************************************************************)
EXTENDS CardLedger

CONSTANTS MaxNonces,     \* bound on the nonces created
          RoomAttempts   \* posts of a rejection before the handler gives up

ASSUME ApprovalAssumption == MaxNonces \in Nat /\ RoomAttempts \in Nat \ {0}

VARIABLES nonces,       \* the plan hash of each nonce, in creation order
          visible,      \* nonces whose challenge is in the room
          consumed,     \* nonces with consumed=1
          invalidated,  \* nonces with invalidated=1
          expired,      \* nonces past their expiry
          auths,        \* the authorization sealed with a card: status, nonce, channel
          lapsed,       \* policy authorizations past their expiry
          notify,       \* attempts left to post the card of a refusal
          handler, step \* the handler past its first commit, and its next step

nonceVars == <<nonces, visible, consumed, invalidated, expired>>
approvalVars == <<nonceVars, auths, lapsed, notify, handler, step>>
vars == <<ledgerVars, approvalVars>>

NoNonce == 0
NoCard == 0
Idle == step = "idle"

-------------------------------------------------------------------------------
(* Plans, nonces and authorizations as the handlers look them up.              *)

PlanHashes == [body: Bodies, risk: {"low", "high"}]
PlanHash(c) == [body |-> c.body, risk |-> c.risk]

\* The latest published ResponsePlan of the incident, if it is card i.
IsCurrentPlan(i) ==
  /\ i \in published /\ cards[i].type = "ResponsePlan"
  /\ \A j \in published : cards[j].type = "ResponsePlan" => j <= i

CurrentPlanIs(h) == \E i \in published : IsCurrentPlan(i) /\ PlanHash(cards[i]) = h

PolicyIsPublished == \E i \in published : cards[i].type = "PolicyAuthorization"

ActiveNonces == DOMAIN nonces \ (consumed \union invalidated)

\* Fault: a nonce is not looked up for whether it was invalidated.
NonceValidUnlessConsumed(n, h) ==
  n \in (DOMAIN nonces \ (consumed \union expired)) \intersect visible /\ nonces[n] = h

\* validate_nonce_only, with the challenge required to be visible.
NonceValid(n, h) == n \in (ActiveNonces \ expired) \intersect visible /\ nonces[n] = h

AuthorizationExpired(a) ==
  IF auths[a].nonce = NoNonce THEN a \in lapsed ELSE auths[a].nonce \in expired

ApprovalCard(h, d) ==
  [type |-> "StructuredApproval", decision |-> d, body |-> h.body, risk |-> h.risk]
PolicyCard(h) ==
  [type |-> "PolicyAuthorization", decision |-> "none", body |-> h.body, risk |-> h.risk]

-------------------------------------------------------------------------------
(* Nonces: POST /api/nonce/create and /api/nonce/challenge-posted.             *)

\* A new nonce invalidates every earlier one that was not consumed.
InvalidateEarlierNonces == invalidated \union (DOMAIN nonces \ consumed)

\* The Gateway binds the nonce to the plan published last; it does not look at
\* the incident's state.
CreateNonce ==
  /\ Idle
  /\ Len(nonces) < MaxNonces
  /\ \E i \in published : IsCurrentPlan(i) /\ nonces' = Append(nonces, PlanHash(cards[i]))
  /\ invalidated' = InvalidateEarlierNonces
  /\ UNCHANGED <<ledgerVars, visible, consumed, expired, auths, lapsed, notify,
                 handler, step>>

PostChallenge(n) ==
  /\ Idle
  /\ n \in ActiveNonces \ (expired \union visible)
  /\ visible' = visible \union {n}
  /\ UNCHANGED <<ledgerVars, nonces, consumed, invalidated, expired, auths, lapsed,
                 notify, handler, step>>

ExpireNonce(n) ==
  /\ n \notin expired
  /\ expired' = expired \union {n}
  /\ UNCHANGED <<ledgerVars, nonces, visible, consumed, invalidated, auths, lapsed,
                 notify, handler, step>>

-------------------------------------------------------------------------------
(* Sealing an authorization and starting to publish it.                        *)

\* The card and its PENDING authorization are one transaction.
SealAuthorization(c, n, ch) ==
  /\ SealDecision(c)
  /\ auths' = [a \in DOMAIN auths \union {Len(cards)'} |->
                 IF a = Len(cards)' THEN [status |-> "PENDING", nonce |-> n, channel |-> ch]
                                    ELSE auths[a]]
  /\ handler' = Len(cards)'
  /\ step' = "post"

\* _fresh_consume.  "h" is the hash the caller presents: the approval page takes
\* it from the current plan, the Operator, which answers an "APPROVE <nonce>" in the
\* room, from the challenge it saw there.
FreshConsume(n, h, channel) ==
  /\ Idle
  /\ NonceValid(n, h)
  /\ SealAuthorization(ApprovalCard(h, "APPROVED"), n, channel)
  /\ consumed' = consumed \union {n}
  /\ UNCHANGED <<nonces, visible, invalidated, expired, lapsed, notify>>

ApproveOnPage(n) == \E h \in PlanHashes : CurrentPlanIs(h) /\ FreshConsume(n, h, "page")
ApproveInRoom(n) == \E h \in PlanHashes : FreshConsume(n, h, "room")

\* Fault: a resumed authorization is not compared with the current plan.
ResumeUnchecked(a) == state = "PLANNED" /\ auths[a].status = "PENDING" /\ a \notin published

\* The revalidation of a retry: _resume_pending and its like for the policy.
ResumeValid(a) == /\ state = "PLANNED"
                  /\ auths[a].status = "PENDING"
                  /\ a \notin published
                  /\ CurrentPlanIs(PlanHash(cards[a]))

ResumePending(a) ==
  /\ Idle
  /\ ResumeValid(a)
  /\ cards[a].type = "StructuredApproval" => auths[a].nonce \in consumed
  /\ handler' = a
  /\ step' = "post"
  /\ UNCHANGED <<ledgerVars, nonceVars, auths, lapsed, notify>>

\* Fault: only requires_human_approval is looked at in the request, not the plan.
PolicyMayAuthorizeAny(h) == CurrentPlanIs(h)

\* The policy authorizes the current plan, if it is not a high-risk one.
PolicyMayAuthorize(h) == CurrentPlanIs(h) /\ h.risk = "low"

\* POST /api/authorization/request.  The idempotency key is the plan's hash: a
\* second request for it resumes the first one (ResumePending).
RequestPolicyAuthorization(h) ==
  /\ Idle
  /\ PolicyMayAuthorize(h)
  /\ \A a \in DOMAIN auths : cards[a] # PolicyCard(h)
  /\ SealAuthorization(PolicyCard(h), NoNonce, "policy")
  /\ UNCHANGED <<nonceVars, lapsed, notify>>

LapsePolicyAuthorization(a) ==
  /\ auths[a].nonce = NoNonce /\ a \notin lapsed
  /\ lapsed' = lapsed \union {a}
  /\ UNCHANGED <<ledgerVars, nonceVars, auths, notify, handler, step>>

-------------------------------------------------------------------------------
(* The human refuses the plan: POST /approve/{incident}, revise or false_alarm. *)

Refuse(n, d) ==
  /\ Idle
  /\ \E h \in PlanHashes : /\ CurrentPlanIs(h)
                           /\ NonceValid(n, h)
                           /\ SealDecision(ApprovalCard(h, d))
  /\ invalidated' = invalidated \union ({n} \ consumed)
  /\ notify' = [i \in DOMAIN notify \union {Len(cards)'} |->
                  IF i # Len(cards)' THEN notify[i]
                  ELSE IF d = "REJECTED" THEN RoomAttempts ELSE 1]
  /\ handler' = Len(cards)'
  /\ step' = "post"
  /\ UNCHANGED <<nonces, visible, consumed, expired, auths, lapsed>>

\* The next attempt of a refusal's handler, after its sleep.
RetryNotification(i) ==
  /\ Idle
  /\ notify[i] > 0
  /\ handler' = i
  /\ step' = "post"
  /\ UNCHANGED <<ledgerVars, nonceVars, auths, lapsed, notify>>

-------------------------------------------------------------------------------
(* A handler after its first commit.                                           *)

\* The room message of the card; a retry posts it once more.
HandlerPost ==
  /\ step = "post"
  /\ room' = room \union {handler}
  /\ step' = "finish"
  /\ notify' = [i \in DOMAIN notify |-> IF i = handler THEN 0 ELSE notify[i]]
  /\ UNCHANGED <<state, cards, published, nonceVars, auths, lapsed, handler>>

HandlerPostFails ==
  /\ step = "post"
  /\ notify' = [i \in DOMAIN notify |-> IF i = handler THEN notify[i] - 1 ELSE notify[i]]
  /\ handler' = NoCard
  /\ step' = "idle"
  /\ UNCHANGED <<ledgerVars, nonceVars, auths, lapsed>>

\* Fault: the transaction forgets the authorization's row.
AuthorizationRowLeft(a) == auths

AuthorizationPublished(a) == [auths EXCEPT ![a].status = "PUBLISHED"]

FinishAuthorization ==
  /\ step = "finish"
  /\ PublishAuthorization(handler)
  /\ auths' = AuthorizationPublished(handler)
  /\ handler' = NoCard
  /\ step' = "idle"
  /\ UNCHANGED <<nonceVars, lapsed, notify>>

FinishRefusal ==
  /\ step = "finish"
  /\ PublishRefusal(handler)
  /\ handler' = NoCard
  /\ step' = "idle"
  /\ UNCHANGED <<nonceVars, auths, lapsed, notify>>

\* _migrate, on every start: the pending authorizations of an incident that has a
\* published PolicyAuthorization become PUBLISHED, whether or not it is their card.
Migrated == [a \in DOMAIN auths |->
               IF PolicyIsPublished /\ auths[a].status = "PENDING"
               THEN [auths[a] EXCEPT !.status = "PUBLISHED"] ELSE auths[a]]

\* The process stops, at any time, and starts again with what was committed.
Restart ==
  /\ auths' = Migrated
  /\ handler' = NoCard
  /\ step' = "idle"
  /\ notify' = [i \in DOMAIN notify |-> 0]
  /\ UNCHANGED <<ledgerVars, nonceVars, lapsed>>

-------------------------------------------------------------------------------
(* POST /api/authorization/{id}/consume, by the Operator.  A repeated call      *)
(* after the authorization is CONSUMED is answered again and changes nothing.   *)

\* Fault: the plan is not hashed again when the authorization is consumed.
ConsumableUnbound(a) == auths[a].status = "PUBLISHED" /\ ~AuthorizationExpired(a)

Consumable(a) == /\ auths[a].status = "PUBLISHED"
                 /\ ~AuthorizationExpired(a)
                 /\ CurrentPlanIs(PlanHash(cards[a]))

ConsumeAuthorization(a) ==
  /\ Idle
  /\ Consumable(a)
  /\ auths' = [auths EXCEPT ![a].status = "CONSUMED"]
  /\ UNCHANGED <<ledgerVars, nonceVars, lapsed, notify, handler, step>>

-------------------------------------------------------------------------------
\* The agents' side of the ledger, between two handlers of this module.
AgentStep ==
  /\ Idle
  /\ \/ \E c \in AgentCards : PrepareCard(c)
     \/ CrashAfterUpsert
     \/ \E i \in DOMAIN cards : /\ ~IsAuthorization(cards[i]) /\ ~IsRefusal(cards[i])
                                /\ PostCard(i) \/ ConfirmPublication(i)
  /\ UNCHANGED approvalVars

ApprovalInit ==
  /\ nonces = <<>>
  /\ visible = {} /\ consumed = {} /\ invalidated = {} /\ expired = {}
  /\ auths = <<>>
  /\ lapsed = {}
  /\ notify = <<>>
  /\ handler = NoCard /\ step = "idle"

Init == LedgerInit /\ ApprovalInit

NonceStep ==
  \/ CreateNonce
  \/ \E n \in DOMAIN nonces :
       \/ PostChallenge(n)
       \/ ExpireNonce(n)
       \/ ApproveOnPage(n)
       \/ ApproveInRoom(n)
       \/ \E d \in {"REJECTED", "FALSE_ALARM"} : Refuse(n, d)

AuthorizationStep ==
  \/ \E h \in PlanHashes : RequestPolicyAuthorization(h)
  \/ \E a \in DOMAIN auths : \/ ResumePending(a)
                             \/ LapsePolicyAuthorization(a)
                             \/ ConsumeAuthorization(a)

HandlerStep ==
  \/ HandlerPost \/ HandlerPostFails \/ FinishAuthorization \/ FinishRefusal \/ Restart
  \/ \E i \in DOMAIN notify : RetryNotification(i)

Next == AgentStep \/ NonceStep \/ AuthorizationStep \/ HandlerStep

Spec == Init /\ [][Next]_vars

-------------------------------------------------------------------------------
(* Properties.                                                                 *)

ApprovalTypeOK ==
  /\ TypeOK
  /\ nonces \in Seq(PlanHashes) /\ Len(nonces) <= MaxNonces
  /\ visible \union consumed \union invalidated \union expired \subseteq DOMAIN nonces
  /\ auths \in [DOMAIN auths -> [status: {"PENDING", "PUBLISHED", "CONSUMED"},
                                 nonce: 0..MaxNonces,
                                 channel: {"page", "room", "policy"}]]
  /\ lapsed \subseteq DOMAIN auths
  /\ notify \in [DOMAIN notify -> 0..RoomAttempts]
  /\ DOMAIN auths = {i \in DOMAIN cards : IsAuthorization(cards[i])}
  /\ DOMAIN notify = {i \in DOMAIN cards : IsRefusal(cards[i])}
  /\ step \in {"idle", "post", "finish"}
  /\ IF Idle THEN handler = NoCard ELSE handler \in DOMAIN auths \union DOMAIN notify

\* A nonce decides once: it is consumed by exactly one authorization or spent by a
\* refusal, never both, whatever is pending, retried or resumed.
NonceDecidesOnce ==
  /\ consumed \intersect invalidated = {}
  /\ consumed = {auths[a].nonce : a \in DOMAIN auths} \ {NoNonce}
  /\ \A a, b \in DOMAIN auths : auths[a].nonce = auths[b].nonce /\ auths[a].nonce # NoNonce
                                  => a = b

\* At most one nonce can still be answered, so a human never has two challenges open
\* (a part of the invariant below).
OneActiveNonce == \A m, n \in ActiveNonces : m = n

\* The rows of an authorization agree in every state a crash can leave: once its card is
\* published its status has left PENDING, and it leaves PENDING with its card, or at a
\* start after the policy's authorization of the incident was published.
LifecycleConsistent ==
  \A a \in DOMAIN auths :
    /\ a \in published => auths[a].status # "PENDING"
    /\ auths[a].status # "PENDING" => a \in published \/ PolicyIsPublished

\* What the Operator gets to execute is the plan of record: the plan of a consumed
\* authorization is the current plan, for good.
ConsumedIsCurrentPlan ==
  \A a \in DOMAIN auths : auths[a].status = "CONSUMED" =>
     state \in Authorized /\ CurrentPlanIs(PlanHash(cards[a]))

\* A plan that needs a human is never executed on the policy's word.
HighRiskNeedsHuman ==
  state \in Authorized =>
    \A i \in published : IsCurrentPlan(i) /\ cards[i].risk = "high" =>
       \E j \in published : /\ cards[j].type = "StructuredApproval"
                           /\ cards[j].decision = "APPROVED"

\* Once an incident is authorized its current plan never changes.
PlanFrozen ==
  [][\A h \in PlanHashes :
       state \in Authorized => (CurrentPlanIs(h)' <=> CurrentPlanIs(h))]_vars

\* An authorization whose card is published is for the plan in force, unless the
\* nonce was answered in the room.
ForCurrentPlan(a) == a \in published => CurrentPlanIs(PlanHash(cards[a]))
PageApprovalIsForCurrentPlan ==
  \A a \in DOMAIN auths : auths[a].channel # "room" => ForCurrentPlan(a)

\* Why: a handler publishes the authorization it has in hand while nothing else moves,
\* and it has compared that with the current plan unless the room answered; what the
\* policy seals is for a plan of low risk.
HandlerIsCurrent ==
  handler \in DOMAIN auths /\ auths[handler].channel # "room"
    => CurrentPlanIs(PlanHash(cards[handler]))
PolicyIsLow ==
  \A a \in DOMAIN auths : cards[a].type = "PolicyAuthorization" =>
    auths[a].channel = "policy" /\ cards[a].risk = "low"
PlansHaveBodies ==
  \A i \in DOMAIN cards : cards[i].type = "ResponsePlan" => cards[i].body \in Bodies
HandlerHasAttempt == step = "post" /\ handler \in DOMAIN notify => notify[handler] > 0

ApprovalInv ==
  /\ ApprovalTypeOK
  /\ SingleAuthorization /\ AuthorizedByCard
  /\ NonceDecidesOnce /\ OneActiveNonce
  /\ LifecycleConsistent /\ ConsumedIsCurrentPlan /\ PageApprovalIsForCurrentPlan
  /\ HandlerIsCurrent /\ HandlerHasAttempt /\ PolicyIsLow /\ PlansHaveBodies

-------------------------------------------------------------------------------
(* Statements of the code's comments that the code does not keep.              *)

\* nonce.py on the guards of _fresh_consume: the nonce must match the CURRENT plan and
\* action hashes.  So every authorization that is published is for the plan in force.
ApprovalIsForCurrentPlan == \A a \in DOMAIN auths : ForCurrentPlan(a)
===============================================================================
