------------------------------- MODULE Commander -------------------------------
(***************************************************************************)
(* The Commander: it plans when a verdict CONFIRMs an Assessment and plans *)
(* again when a human has refused the plan.  Once a plan is confirmed, it  *)
(* opens the way to an authorization, within the same call: an approval    *)
(* challenge (a nonce) for a human, or a request to the policy.            *)
(*                                                                         *)
(* The Gateway's part is here as far as the Commander needs it: module     *)
(* Approval has the nonces and authorizations.                             *)
(***************************************************************************)
EXTENDS RoomAgent

CONSTANTS Wishes,       \* the runbooks that refusals ask for
          MaxRefusals   \* bound on the refusals

ASSUME CommanderAssumption ==
  /\ Wishes \subseteq Bodies \union {NoBody}
  /\ MaxRefusals \in Nat

VARIABLE challenged  \* the plans whose approval challenge is open

-------------------------------------------------------------------------------
(* The runbook and the risk of a plan.                                         *)

LowSeverity(report) == report.severity \in {"P3", "P4"}

\* Rollback and DNS failover are destructive.
Destructive == {3, 5}

\* select_runbook: at P3 and P4 a circuit breaker and a maintenance page stand in for
\* the destructive runbooks.
SelectRunbook(report) ==
  CASE LowSeverity(report) /\ report.runbook = 3 -> 4
    [] LowSeverity(report) /\ report.runbook = 5 -> 6
    [] OTHER                                     -> report.runbook

\* get_allowed_runbooks.
AllowedRunbooks(report) == IF LowSeverity(report) THEN (1..6) \ Destructive ELSE 1..6

\* Fault: a revision selects as if for the first time when the wish is of no use.
ReviseBlindly(report, rejected, wish) ==
  IF wish \in AllowedRunbooks(report) \ {rejected} THEN wish ELSE SelectRunbook(report)

\* The runbook of a revision: what the human wishes, if policy allows it; else what
\* would be selected, or if that was refused the first other one that is allowed.
ReviseRunbook(report, rejected, wish) ==
  LET allowed == AllowedRunbooks(report) \ {rejected}
  IN IF wish \in allowed THEN wish
     ELSE IF SelectRunbook(report) # rejected THEN SelectRunbook(report)
     ELSE CHOOSE b \in allowed : \A x \in allowed : b <= x

\* Fault: the severity is left to the Gateway's risk floor.
RiskOfRunbook(report, body) == IF body \in Destructive THEN "high" ELSE "low"

\* determine_risk_level, and the runbook's own minimum.
AskedRisk(report, body) ==
  IF ~LowSeverity(report) \/ body \in Destructive THEN "high" ELSE "low"

-------------------------------------------------------------------------------
(* Taking a message.                                                           *)

\* Fault: the oldest card instead.
FirstSealed(type) ==
  LET found == {i \in DOMAIN cards : cards[i].type = type}
  IN IF found = {} THEN 0 ELSE CHOOSE i \in found : \A j \in found : i <= j

\* The card of the type that was sealed last, confirmed or not; 0 if there is none.  It is
\* what _fetch_assessment and _fetch_response_plan find among the cards.
LastSealed(type) ==
  LET found == {i \in DOMAIN cards : cards[i].type = type}
  IN IF found = {} THEN 0 ELSE CHOOSE i \in found : \A j \in found : j <= i

\* _fetch_assessment: if that fails, the last Assessment among the first 50 messages of
\* the room.  Other messages are in the room, too, so these may end with any Assessment
\* that was posted, an older one or one that was posted again, or before them all.
AssessmentsFound ==
  {LastSealed("Assessment"), 0} \union {i \in room : cards[i].type = "Assessment"}

PlansFound == {LastSealed("ResponsePlan"), 0}

\* What is found is not the Assessment sealed last.
IsOlder(found) == found # LastSealed("Assessment")

\* verdict_already_planned.
VerdictAlreadyPlanned(ledger, i) ==
  \E j \in ledger : cards[j].type = "ResponsePlan" /\ j > i

\* rejection_already_revised.
RejectionAlreadyRevised(ledger, i) ==
  \E j \in ledger : cards[j].type = "ResponsePlan" /\ j > i /\ origin[j].rev > origin[i].rev

IgnoresConfirm(page, ledger) ==
  LET i == NextCard(COMMANDER) IN
  \/ StaleCard(page, i) \/ TerminalIncident(page)
  \/ VerdictAlreadyPlanned(ledger, i)
  \/ Context(COMMANDER).known

\* CommanderPreprocessor.process, for a Verdict(CONFIRM): without an Assessment it is
\* dropped.
TakeConfirm(page, ledger, found) ==
  /\ Receives(COMMANDER) /\ IsConfirm(cards[NextCard(COMMANDER)])
  /\ LooksUp(page, ledger, ~IsOlder(found))
  /\ IF IgnoresConfirm(page, ledger) \/ found = 0
     THEN Skip(COMMANDER, Context(COMMANDER))
     ELSE Accept(COMMANDER, [NoContext EXCEPT !.known = TRUE, !.revision = 1,
                               !.report = origin[found].report, !.older = IsOlder(found)])

\* _restore_context_from_gateway: for the Assessment that is found, and anchored to the
\* revision of the plan that is found, or to the first one.
RestoredCommander(anchor, found) ==
  [NoContext EXCEPT !.known = TRUE, !.revision = IF anchor = 0 THEN 1 ELSE origin[anchor].rev,
                    !.report = origin[found].report, !.older = IsOlder(found)]

RefusalContext(anchor, found) ==
  IF Context(COMMANDER).known THEN Context(COMMANDER) ELSE RestoredCommander(anchor, found)

CannotRestore(found) == ~Context(COMMANDER).known /\ found = 0

IgnoresRefusal(page, ledger) ==
  LET i == NextCard(COMMANDER) IN
  StaleCard(page, i) \/ TerminalIncident(page) \/ RejectionAlreadyRevised(ledger, i)

\* A plan of a higher revision is sealed.
NewerPlanSealed(plan, i) == plan # 0 /\ origin[plan].rev > origin[i].rev

\* This process has answered it, or a newer plan is found.
RefusalDone(plan, ctx, i) ==
  \/ ctx.source = i /\ ctx.submitted
  \/ NewerPlanSealed(plan, i)

\* The context for the next plan.
Revised(ctx, plan, i) ==
  [ctx EXCEPT !.submitted = FALSE, !.revision = ctx.revision + 1, !.source = i,
              !.rejected = IF plan = 0 THEN NoBody ELSE cards[plan].body,
              !.wish = origin[i].wish]

\* _handle_rejection.  "plan" is the plan that it finds, "anchor" the one that the restoring
\* of a context finds, by a lookup of its own.  What is restored is kept, also if the
\* refusal is then dropped.
TakeRefusal(page, ledger, anchor, plan, found) ==
  LET i   == NextCard(COMMANDER)
      ctx == RefusalContext(anchor, found)
  IN
  /\ Receives(COMMANDER) /\ IsRejection(cards[i])
  /\ LooksUp(page, ledger, anchor # 0 /\ plan # 0 /\ ~IsOlder(found))
  /\ CASE IgnoresRefusal(page, ledger) \/ CannotRestore(found) ->
            Skip(COMMANDER, Context(COMMANDER))
       [] ~IgnoresRefusal(page, ledger) /\ ~CannotRestore(found) /\ RefusalDone(plan, ctx, i) ->
            Skip(COMMANDER, ctx)
       [] OTHER ->
            Accept(COMMANDER, Revised(ctx, plan, i))

-------------------------------------------------------------------------------
(* Submitting the plan: handle_submit_response_plan.                           *)

ChosenRunbook ==
  LET ctx == Context(COMMANDER)
  IN IF ctx.source = 0 THEN SelectRunbook(ctx.report)
                       ELSE ReviseRunbook(ctx.report, ctx.rejected, ctx.wish)

PlanCard ==
  [type |-> "ResponsePlan", decision |-> "none", body |-> ChosenRunbook,
   risk |-> AskedRisk(Context(COMMANDER).report, ChosenRunbook)]

PlanOrigin ==
  [NoOrigin EXCEPT !.msg = agent[COMMANDER].msg, !.rev = Context(COMMANDER).revision,
                   !.report = Context(COMMANDER).report,
                   !.older = Context(COMMANDER).older]

SubmitPlan ==
  /\ agent[COMMANDER].pc = "reason"
  /\ Submit(COMMANDER, PlanCard, PlanOrigin)
  /\ UNCHANGED challenged

\* The plan has none of the LLM's words in it.
PlanConflict ==
  /\ agent[COMMANDER].pc = "reason"
  /\ KeyConflict(COMMANDER, PlanCard, PlanOrigin, FALSE)
  /\ UNCHANGED challenged

PlanConfirmed ==
  /\ Confirms(COMMANDER)
  /\ agent' = [agent EXCEPT ![COMMANDER].pc = "authorize"]
  /\ UNCHANGED <<faults, challenged>>

\* The plan in force: the one published last.
PlanInForce(i) ==
  /\ i \in published /\ cards[i].type = "ResponsePlan"
  /\ \A j \in published : cards[j].type = "ResponsePlan" => j <= i

NeedsHuman == PlanCard.risk = "high"

PlanSubmitted == Finished(COMMANDER, [Context(COMMANDER) EXCEPT !.submitted = TRUE])

\* _high_risk_flow: the Gateway makes a nonce for the plan in force and shows the
\* challenge in the room.
OpenChallenge ==
  /\ agent[COMMANDER].pc = "authorize"
  /\ NeedsHuman
  /\ challenged' = challenged \union {i \in published : PlanInForce(i)}
  /\ PlanSubmitted
  /\ UNCHANGED <<roomVars, faults>>

\* What the policy authorizes: a plan in force that is the very one the Commander
\* hashed, and not of high risk as it was sealed.
PolicyAllows(i) ==
  /\ state = "PLANNED" /\ PlanInForce(i)
  /\ cards[i].body = PlanCard.body
  /\ cards[i].risk = "low"

\* _low_risk_flow: the Gateway seals the authorization, and publishes it.
RequestAuthorization ==
  /\ agent[COMMANDER].pc = "authorize"
  /\ ~NeedsHuman
  /\ \E i \in published : PolicyAllows(i)
  /\ SealDecision([PlanCard EXCEPT !.type = "PolicyAuthorization", !.risk = "low"])
  /\ origin' = Append(origin, NoOrigin)
  /\ PlanSubmitted
  /\ UNCHANGED <<messages, faults, challenged>>

\* 400, 403 or 409: an error that is logged.
AuthorizationRefused ==
  /\ agent[COMMANDER].pc = "authorize"
  /\ ~NeedsHuman
  /\ ~\E i \in published : PolicyAllows(i)
  /\ Finished(COMMANDER, Context(COMMANDER))
  /\ UNCHANGED <<roomVars, faults, challenged>>

Takes(page, ledger) ==
  \E found \in AssessmentsFound :
    \/ TakeConfirm(page, ledger, found)
    \/ \E anchor, plan \in PlansFound : TakeRefusal(page, ledger, anchor, plan, found)

CommanderStep ==
  \/ \E page, ledger \in {published, {}} :
       /\ Takes(page, ledger)
       /\ UNCHANGED challenged
  \/ SubmitPlan \/ PlanConflict \/ PlanConfirmed
  \/ OpenChallenge \/ RequestAuthorization \/ AuthorizationRefused
  \/ Submission(COMMANDER) /\ UNCHANGED challenged

-------------------------------------------------------------------------------
(* The human at the approval page, and the Gateway's messages.                 *)

Refusals == {i \in DOMAIN cards : IsRejection(cards[i])}

\* A human decides on the plan in force, on the page or in the room, when its challenge
\* is open: approves it, refuses it with instructions, or dismisses the incident.
HumanDecides ==
  \E i \in challenged, d \in {"APPROVED", "REJECTED", "FALSE_ALARM"}, w \in Wishes :
    /\ PlanInForce(i)
    /\ d = "REJECTED" => Cardinality(Refusals) < MaxRefusals
    /\ SealDecision([type |-> "StructuredApproval", decision |-> d,
                     body |-> cards[i].body, risk |-> cards[i].risk])
    /\ origin' = Append(origin, [NoOrigin EXCEPT !.rev = origin[i].rev, !.wish = w])
    /\ challenged' = challenged \ {i}
    /\ UNCHANGED <<messages, agent, faults>>

\* The Gateway posts a decision, up to three times if it does not hear of the post.
GatewayPosts(i) ==
  /\ cards[i].type \in {"StructuredApproval", "PolicyAuthorization"}
  /\ Len(messages) < MaxMessages
  /\ messages' = Append(messages, i)
  /\ IF i \in room THEN Fault /\ UNCHANGED ledgerVars ELSE PostCard(i) /\ UNCHANGED faults
  /\ UNCHANGED <<origin, agent, challenged>>

GatewayPublishes(i) ==
  /\ PublishAuthorization(i) \/ PublishRefusal(i)
  /\ UNCHANGED <<messages, origin, agent, faults, challenged>>
================================================================================
