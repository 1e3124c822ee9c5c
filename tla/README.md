# A verification of YITING's incident protocol

YITING responds to production incidents with a society of LLM agents. The agents do
not act on each other's word: every decision is a *card* that a central **Gateway**
seals into the incident's hash chain, that is posted to an incident room, and that
counts only once the Gateway has confirmed its publication. A plan is executed by the
Operator only with an authorization, given by a human or by a policy. This directory
holds TLA+ models of that protocol and of the parts around it where order, retries and
crashes decide whether it is right, their model-checking configurations, and proofs.

Paths below are relative to the repository's root (`src/` in `PROJECT.json`).

## 1. Inventory

| Component | State it keeps | Operations | What makes it correct |
|---|---|---|---|
| **Card ledger** `gateway/routes/submission.py`, `shared/integrity.py` | tables `incidents` (state), `cards` (chain, `published_at`) | `/prepare`, `/confirm`, sealing in a caller's transaction | the incident moves only along its lifecycle; the challenge budget holds; one authorization; nothing past review on an outdated verdict |
| **Nonces, approval page** `gateway/routes/nonce.py`, `approve_ui.py`, `shared/approval.py` | tables `nonces`, `authorizations` | create a nonce, post its challenge, consume it (page or room), resume, revise, false alarm | a nonce decides once; the rows agree after any restart; approval is for the plan in force |
| **Policy authorization** `gateway/routes/authorization.py` | `authorizations` | request, retry, consume | only low-risk plans; what is consumed is the plan of record |
| **Operator** `agents/operator` | execution contexts, room offset (memory) | take a message, consume, execute envelopes, submit a receipt | effects only when authorized, each once; an exact receipt |
| **Victim application** `victim-app/app.py` | table of applied actions | `heal` | an action is applied once per execution key |
| **Triage** `agents/triage`, rules in `gateway/app.py` | `suppression_rules`; handled messages (memory) | classify, look up a rule, increment, submit | critical alerts are routed; suppressions stay within the rule's bound |
| **Token budget** `shared/qwen_budget.py`, `qwen_reasoning.py` | a meter file shared by all processes | reserve, commit, release | the meter is exact; a day goes beyond its limit only by what can be named: answers beyond their estimate, torn updates, calls over midnight |
| **Room runtime** `shared/local_room_runtime.py`, **supervisor** `shared/supervisor.py`, **rooms** `gateway/routes/rooms.py` | offset per room, page in hand (memory); failures in a row; rooms, participants, messages | list, fetch, handle; create the agent, give up; post, recruit, delete a demo's rooms | a message once per process and none passed over; every message in the end, after exceptions and restarts too |
| **Submission client** `shared/submission_client.py` | none | prepare → post → confirm, retried | a retry has the same idempotency key |
| **Diagnosis, Safety Reviewer, Commander** `agents/*`, with `shared/replay_guard.py`, `card_intake.py`, `context_restore.py` | context per incident (memory), restored from the ledger | answer a routing, a challenge, an Assessment, a CONFIRM, a refusal | a question has one answer, restarts or not; weak evidence never passes; a plan follows the review and the human's refusal; the review comes to an end |
| Recorder, rate limiter, demo triggers | alerts, hits per window | submit AlertCards, throttle, break the victim | see section 9 |
| Dashboard, landing page, MCP, scripts, deployment, evals, configuration | – | – | outside of the protocol |

**How they interact.** Agents call the Gateway over HTTP with a key per role, and read
the room by polling. The Gateway is one process with one SQLite connection and one event
loop; its handlers do not `await` between the statements of a transaction, so handlers
are serialised, but one handler may consist of several commits with a room post between
them, and the process may stop between any two. Agents are separate processes that can
stop anywhere; what they remember is lost, and the whole room is delivered to them again.

**What is hard**: cards that are prepared in one state and confirmed in another; several
authorizations pending at once; the stretch between a commit, a room post and the next
commit; nonces that outlive the plan they are for; remediation requests that time out and
still arrive; redelivery after a restart with an LLM that answers differently; meters and
counters at their limit. `PROJECT.json` lists each of these under `hazards`, at its line.

## 2. Plan

Modules, in the order of their importance; 1 to 9 exist.

1. `CardLedger` (with the abstract `IncidentLifecycle`) and `CardLedgerProofs`
2. `Approval`, which extends `CardLedger`, and `ApprovalProofs`
3. `Execution` (with the abstract `Remediation`) and `ExecutionProofs`
4. `Suppression` and `SuppressionProofs`
5. `QwenBudget` and `QwenBudgetProofs`
6. `RoomAgent`, which extends `CardLedger`; `Diagnosis`, `SafetyReviewer` and `Commander`,
   which extend it; `ReasoningAgents`, which composes the three with the Gateway and a human
7. `RoomRuntime` and `RoomRuntimeProofs`
8. the MC modules of 1, 2, 3 and 6
9. `ReasoningAgentsProofs`, over `ReasoningAgents` and `CardLedgerProofs`, and `PlanningProofs`,
   which goes on from there: the agents and the ledger, the Commander's plans, the review, and
   that a question has one answer
10. `IntegrityChain`: `seal_card` and `verify_chain`, with the detection of a changed card
11. the deletion of an incident's rows under a submission (`chaos_cleanup.py`), the rate
    limiter, and a property on the retry of an expired authorization (section 8)

## 3. The modules and the code

### CardLedger: `/prepare`, the room, `/confirm`

The chain of one incident is the sequence `cards`; a card is its sequence number.
`published` holds the numbers with `published_at` set, `room` those that some message of
the room carries, `state` is `incidents.state` (`"NONE"` without a row). A card is
its type, its decision, the body of its plan and a risk; the agents' role decides the type.

| Action | Code |
|---|---|
| `PrepareCard(c)` | `prepare_card`: `_STATE_PREREQUISITES`, challenge budget, upsert, `_apply_risk_floor`, `seal_card` |
| `CrashAfterUpsert` | the commit of `_upsert_incident` without the one of `seal_card` |
| `PostCard(i)` | the agent (or the Gateway) posts the card: `store_room_message` |
| `ConfirmPublication(i)` | `confirm_publication`: `_verify_room_publication`, state, staleness, AlertCard guard, publish and advance |
| `SealDecision(c)` | a StructuredApproval or PolicyAuthorization sealed by the Gateway |
| `PublishAuthorization(i)` | `advance_authorization_lifecycle` |
| `PublishRefusal(i)` | `_publish_rejection_to_room` |

The last three are the Gateway's own steps in their weakest form: `CardLedger` lets them
happen whenever the ledger permits them, `Approval` says when they do, and each step of
`Approval` is a step of `CardLedger` or leaves it unchanged.

`IncidentLifecycle` is what the ledger promises with no cards in it: fourteen moves, and
a budget that is checked *where it is spent*. In the code it is checked where a verdict is
prepared, and any number of verdicts may be pending; `ImplementsLifecycle` says the
staleness check makes up for that.

### Approval: nonces and authorizations

Extends `CardLedger`. `nonces[n]` is the plan hash a nonce was made for; `consumed`,
`invalidated`, `expired` and `visible` are the columns of its row. `auths[a]` is the
authorization sealed with card `a`: status, nonce, and the channel it came by. The plan
and action hashes are one value, the plan's body with its risk.

A handler with several commits is a program counter: after its first commit `handler` is
the card it is about and `step` is `"post"`, then `"finish"`. While a handler is there,
no other step of the Gateway is possible (nothing yields), except that time passes:
nonces and authorizations expire. `HandlerPostFails` and `Restart` end it early. A restart
runs the migration of `init_db` (`Migrated`): once some PolicyAuthorization of the incident is
published, it makes *every* pending authorization of the incident PUBLISHED. That is a step the
protocol itself does not take, and it can happen between any two others.
`_handle_revise` does yield, in the sleeps between its three attempts: `notify` counts the
attempts left and `RetryNotification` is the next one.

| Action | Code |
|---|---|
| `CreateNonce`, `PostChallenge` | `create_nonce_endpoint`, `confirm_challenge_posted` |
| `FreshConsume` (`ApproveOnPage`, `ApproveInRoom`) | `_fresh_consume`, called by `_handle_approve` with the hashes of the current plan, by the Operator with those of the challenge it saw |
| `ResumePending` | `_resume_pending`; the retry of `request_policy_authorization` |
| `RequestPolicyAuthorization` | `request_policy_authorization` up to its commit |
| `Refuse` | `_handle_revise`, `_handle_false_alarm` up to their commit |
| `HandlerPost`, `FinishAuthorization`, `FinishRefusal` | room post; `advance_authorization_lifecycle`; publication of a refusal |
| `ConsumeAuthorization` | `consume_authorization` |
| `Restart` | the process stops and starts again: `lifespan`, `init_db`, `_migrate` |
| `AgentStep` | the agents' steps of `CardLedger` |

### Execution: the Operator

One incident with one authorization (`SingleAuthorization` is why that is enough).
Durable: `plan`, `incident`, `status`, `messages`, `sealed` at the Gateway, `effects` at the
victim. In the Operator's memory: `pc`, `offset`, `results`. `wire` holds heal requests
nobody waits for any more. The plan is any of `Plans`; what other plans contain must not
be touched, and a plan that repeats an envelope must not be receipted. `Finish` is the
runtime's `finally`: whatever came of a message, the offset moves. `Crash` and `Restart` start
the offset at 0 again. Lookups that are fail-open in the code
(`_should_skip_completed_authorization`, the EXECUTED check) may let the Operator go on, at
the price of a fault. A receipt sealed by an earlier process for the same message is a
conflict (`PrepareRefused`): the idempotency key is the same, the timeline is not.

`Remediation` is the promise: grant, apply each action of the plan at most once and nothing
else, close when all are.

### RoomAgent, Diagnosis, SafetyReviewer, Commander, ReasoningAgents

`RoomAgent` is what the three agents share. `messages` is the room, the card each message
carries; a card may be in it more than once. `origin[i]` is what card `i` answers (the
*message*, which its idempotency key is made of), its revision, and the part of its content
the agents look at: a report with a severity, the runbook its wording leads to, and whether
the cross-check finds something in it. Its field `older` is history: no code reads it. It says
that a plan is for an Assessment that was found in the room and not sealed last. `agent[r]` is the memory of an agent: what it does
next, its offset, the message and the card in hand, and its context of the incident.

| Operators | Code |
|---|---|
| `Receives`, `Skip`, `Accept`, `Finished`, `Lost` | `LocalRoomAgent._poll_once` around a preprocessor |
| `LooksUp(page, ledger, rest)`, `StaleCard`, `TerminalIncident` | `replay_guard.py`, `context_restore.py`: a lookup that fails is an empty answer |
| `AssessmentsFound`, `PlansFound` | `_fetch_assessment`, `_fetch_response_plan`: the lookup of the plan that fails is an empty answer, too; that of the Assessment falls back to the room's first fifty messages, whose last Assessment may be any that was posted, or none |
| `Prepare`, `PrepareAgain`, `KeyConflict`, `PrepareRefused` | the answers of `/prepare`: sealed, the same card again, 409 for another payload under the key, 409 for state or budget |
| `Post`, `Confirms`, `ConfirmRefused`, `ConfirmedUnheard` | the rest of the saga; a card that was confirmed with another message is a 409 |
| `TakeRouting`, `TakeChallenge`, `RestoredDiagnosis` | `DiagnosisPreprocessor.process`, `_handle_challenge`, `_restore_context_from_gateway` |
| `TakeAssessment`, `ChallengesIssued`, `FinalDecision` | `SafetyReviewerPreprocessor.process`, `handle_submit_verdict` |
| `TakeConfirm`, `TakeRefusal` (with two lookups of the plan, when it restores), `SelectRunbook`, `ReviseRunbook` | `CommanderPreprocessor.process`, `_handle_rejection`, `select_runbook`, `handle_submit_response_plan` |
| `OpenChallenge`, `RequestAuthorization`, `AuthorizationRefused` | `_high_risk_flow`, `_low_risk_flow` |
| `HumanDecides`, `GatewayPosts`, `GatewayPublishes` | the approval page and the Gateway's posts, as far as the Commander sees them; `Approval` has the details |

An agent posts its card before it confirms it, so the next agent may answer a card that is not
published. `/prepare` then refuses the answer for the incident's state, and the client
retries for a while: `PrepareRefused` is without a fault only when no confirmation of the
question is under way. `KeyConflict` is possible for an agent whose payload has the LLM's words
or the time in it; the Commander's plan has neither.

### RoomRuntime: rooms, poll loop, supervisor

Rooms and messages are numbered in the order of creation; `rooms`, `joined` and `posted` are the
Gateway's tables, which other agents and the clean-up of demo incidents change at any
time. `proc` is where the process is: `create` and `wait` in the supervisor, `list`, `fetch`,
`handle` and `sleep` in the runtime, `exited`. `offsets`, `round`, `room` and `page` are locals of
the runtime; `heard` is a history variable.

| Action | Code |
|---|---|
| `ListRooms`, `FetchMessages`, `HandleMessage`, `RoomDone`, `RoundDone`, `NextRound` | `LocalRoomAgent.run`, `_poll_once` |
| `PollFails` | an exception of the client, caught in `run` |
| `AgentCreated`, `CreationFails`, `TryAgain`, `NewProcess` | `run_with_supervisor`, the container's restart |
| `RemoveDemoIncidents` | `remove_demo_incidents`, for the tables of the rooms |

### Suppression, QwenBudget

`Suppression` has several incidents with one fingerprint, the one rule for it, and Triage
with one message in hand: look up, increment, submit, each a request that may be lost in
either direction; an increment sent by a process that died may arrive later (`wire`). The
alert of an incident may be in its room more than once (`Copies`), and the key of a
decision is the message's. `PassOver` and `TakeAlert` are the three guards against an alert that
was triaged before, which fail open. A lookup of rules that is answered with an error leaves
the LLM's suppress standing (`LookUpRefused`), one without an answer does not
(`LookUpFails`). The LLM's decision is a free choice at every delivery. `charged` and `silenced`
are history variables.

`QwenBudget` has the meter file and one reservation per call. `_mutate_meter` reads and writes
the file under its lock, but it truncates before it writes, so an update that breaks off
leaves an empty file (`TornReserve`, `CommitFails`, `TornRelease`), which the next update takes for
a new meter (`EmptyFile`, `Meter`). When a commit raises, `ask_qwen_json` releases the
reservation, perhaps for the second time (`Release` after `CommitFails`). An answer used any
of `Uses`, below the estimate or above. `Midnight` changes the date, `Leak` is a cancelled call
or a dead process. `spent`, `over` and `mishaps` are history: what the calls of a day used, what of
that was beyond their estimates, and the updates of a day that went wrong.

## 4. What the runs check

Deadlock checking is off where the system does stop: an incident that is closed, a chain at its
bound, calls that are all made. It is on in the runs of the agents and of `Approval`, and in
`runtime`.

| Run | Question | Outcome |
|---|---|---|
| `ledger` | does the ledger keep its budget, one authorization, a review for every assessment, and the lifecycle, with cards prepared and confirmed in any order? | holds (1.2 million states) |
| `approval` | are the rows consistent and the nonces single-use after any restart, failed post, retry or revision; does only the plan of record get consumed? | holds (1.1 million states) |
| `execution` | is each effect authorized and in the plan, applied once, and the receipt exact, also for a plan that repeats itself; do restarts recover? | holds (20 thousand states) |
| `suppression` | are charges counted, are critical alerts routed? | holds (4.0 million states) |
| `qwen_budget` | is the meter exact on a day without a mishap; what does each mishap, and each answer beyond its estimate, cost the limit? | holds (980 thousand states) |
| `agents_review` | is each question answered once, does weak evidence never pass, is a human called only when the challenges are spent, does the policy leave severe incidents to a human, and does the review end, with restarts at any time and one fault? | holds (63 thousand states) |
| `agents_plans` | is the confirmed Assessment the one in force, and do plans follow it (or an earlier one where the lookup of it failed), with two faults, when a question may already be answered twice; is a refusal answered once and with another runbook? | holds (891 thousand states) |
| `runtime` | is a message heard once and none passed over, is each heard in the end, does the supervisor give up? | holds (329 thousand states) |

Four further runs check a sentence of the code's comments or tests that the code does not
keep; see section 8.

Each property of a passing run has a mutant in `PROJECT.json`: the operator named "Fault"
in the module, put in the place of the definition after it, is a plausible bug of that
code, and TLC finds the property violated under the run's own configuration. For example,
`ChallengeBudget` depends on the staleness check looking at cards of *all* types
(`NotStaleWithinType`), and `ReviewCoversAssessment` on `/confirm` checking the state again.
`PlanFrozen`, in contrast, survives the loss of that second check: the staleness check alone
keeps a plan out that was prepared before the authorization.

What the properties of the agents rest on is not obvious from one agent's code:

- `OneAnswerPerQuestion`. The key of an answer is the message, not the card in it, and a
  question may be posted twice. What keeps an agent from a second answer is then its context
  or, after a restart, the lookups for stale and for answered cards, which fail open. Two
  faults (a repeated post, and a lookup without an answer after a restart) are enough for two
  answers; the property is stated for one. It also rests on `MAX_CHALLENGES` being 2: with 3,
  one fault is enough (TLC finds a behaviour of 39 steps). Diagnosis restarts before the second
  challenge is published and restores a revision that is one too low (`restored_revision`), so
  its answer has a revision too low for the lookup to recognise; when that challenge
  is posted again and the third one has made the incident CHALLENGED, it is answered again.
- `ConfirmsSoundEvidence` holds whatever fails; it is proved.
- `ConfirmsEvidenceInForce` says the confirmed Assessment is also the one in force. `/confirm`
  does not look which Assessment a verdict is about. It need not as long as no Assessment and no
  challenge has two answers (`ReviewedOnce`), whatever fails; that is proved. Two faults are
  enough for two answers, but not yet for a wrong one to be confirmed (`agents_plans`);
  with three a second Assessment can overtake the one under review (section 8).
- `PlansFollowReview`. The Commander, and the Gateway's risk floor, read the Assessment sealed
  last, published or not. If the Commander's lookup fails, it takes an Assessment from the
  room, which may be one that was challenged and revised since: a single fault. What is left then
  is said of such plans too: the Assessment was published before, the plan is of high risk if
  that one or the reviewed one is a P1 (the Gateway's floor) or if that one is a P2. What nothing
  ensures is the reviewed one being a P2 and the earlier one a P3 (section 8). Without that
  fault the plan is for the reviewed Assessment under the same conditions as above, and with three
  faults it need not be: an Assessment that is in the room twice is challenged when a later one
  has its CONFIRM, sealed and posted but not published; the incident moves on with a
  third Assessment, and the Commander plans for the CONFIRM that is in the room.
- `PolicyIsForMinor`: no plan that was made for a P1 or a P2 is authorized without a human. The Gateway's risk
  floor ensures that of a P1 only: that of a P2 is medium, which the policy authorizes, so it
  rests on what the Commander asks for (`determine_risk_level`), on its context still having the
  report it planned for after a restart, and on the authorization being for that plan. It holds
  whatever fails, and is proved.
- `LifecycleConsistent`: an authorization is PUBLISHED with its own card, or since a start after
  the policy's was. `ConsumedIsCurrentPlan` holds for those of the second kind because the
  consumption hashes the plan again.
- `MeterIsExact` and `WithinBudget` speak of a *mishap*: an update that breaks off, one that
  gives a reservation back a second time, and a call settled on a later day than it reserved on.
  On a day without one the meter is exact. Each costs the limit at most once more, since the calls
  admitted on an empty meter, or on one that was given back too much, fit the limit by
  themselves; and an answer may use any number of tokens, so what is beyond the estimates
  (`over`) comes on top.
- `ReviewCompletes` is for runs in which `/prepare` stops refusing reworded answers: a key
  conflict with a card that was sealed and never published is the end of an incident
  (`execution_recovery` has that case for the Operator).

## 5. Bounds, and why they are enough

- **Ledger**: six cards, two plan bodies (one that forces human approval), budget 1 where the code has 2.
  Six cards hold an alert, a triage decision, an assessment, and three more, enough
  for two pending verdicts around a second assessment, and with budget 1 that is the shortest
  overdraft. Theorems hold for every budget and length.
- **Approval**: starts at an incident that was reviewed without a detour (`ReviewedInit`,
  four published cards) with room for four cards: plan, refusal, new plan, authorization, or two
  authorizations pending for one plan. Two nonces, two attempts to post (three in the code).
- **Execution**: three plans over two actions and a simulated one: all three, one of the
  actions alone, and a plan that repeats one; three messages with the authorization (two
  posts whose handler crashed and a third), five faults, any number of restarts between messages.
- **Suppression**: four incidents, one of them critical, two messages with each alert, a bound of
  two where the code has three, two faults. The rule can be exhausted with an alert left over, and
  an alert can be charged twice.
- **QwenBudget**: three calls, two estimates, a limit that two calls fit and three do not,
  answers below and above the estimates, two days. Mishaps are bounded by the calls.
- **Agents**: the code's two challenges. `agents_review` has a weak report of a P1, a sound one of
  a P2 (above the policy's reach and below the risk floor's) and a minor one, one fault and no
  refusal: three Assessments with two challenges between them, then a plan or a human.
  `agents_plans` has a weak report and three nobody challenges, one refusal with or without a wish,
  and two faults up to the first decision on a plan. After that its constraint `FewTroubles` leaves
  it one fault, or none if there was a challenge: two faults are for the review, which is over
  by then, and one is enough to bring a refusal to the Commander twice. No state of
  the two has as many as twelve cards or fourteen messages, so these bounds cut nothing off.
  Restarts between messages are not bounded. `restored_revision` needs no fault at all.
- **Runtime**: three rooms with a listing of two and pages of two, so that a room drops out of
  the listing; three messages, so that a page is not all of a room; two failures in a row
  before the supervisor gives up (five in the code); two faults.

## 6. Fairness

Nothing is assumed of the Gateway, of messages on the wire, of humans, or of faults, which are
bounded.

- `Execution`: `WF_vars(OperatorStep)`. The runtime's loop polls and handles messages as long
  as its process lives, and each of its HTTP calls has a timeout. Restarts are not assumed but a
  premise of the two properties (`[]<><<Restart>>_vars`): the code does not restart itself to make
  progress, and without a restart a message that was given up is not delivered again.
- `ReasoningAgents`: `WF_vars(AgentStep(r))` for each agent, for the same reason, and
  `WF_vars(TriageConfirms)`. `ReviewCompletes` has restarts as a premise again
  (`StartedAgain`): every agent is a new process again and again and has read the room to its
  end again and again, and conflicts of keys do not go on for ever.
- `RoomRuntime`: `WF_vars(RuntimeStep)`, the event loop of the process, and
  `WF_vars(SupervisorStep)`, the supervisor's loop and the container's restart policy.
  `MessagesAreHeard` has as a premise that the agent can be created again and again.

## 7. What is proved

`CardLedgerProofs`, for all `Bodies`, `HumanOnly`, `MaxChallenges` and `MaxCards`, from
`LedgerAssumption` alone:

- `LedgerTyping`: `TypeOK`.
- `BudgetInvariance` and `ChallengeBudgetHolds`. `ChallengeBudget` is not inductive: a
  pending CHALLENGE could be confirmed when the budget is spent. The invariant `BudgetInv` adds
  why it cannot: while the incident is ASSESSED every confirmable challenge was counted
  against the present budget (`PendingChallengeFits`). That is kept because confirming a
  verdict outdates all pending assessments (`VerdictsAreNewer`) and confirming the next
  assessment outdates all pending verdicts (`AssessmentsAreNewer`), and no verdict exists
  before the first assessment (`NoEarlyVerdict`).
- `AuthorizationHolds`: `SingleAuthorization` and `AuthorizedByCard`, inductive together.
- `ReviewHolds`: `ReviewCoversAssessment`.
- `RefinesLifecycle`: `LedgerSpec => ImplementsLifecycle`, one step per action; that
  confirming a CHALLENGE is a step of the lifecycle is where `BudgetInv` is used.

`ApprovalProofs`, for the same constants and any number of nonces and of attempts to post,
from `LedgerAssumption` and `ApprovalAssumption`. The theorems start at an empty ledger
(`Spec`), which the run's reviewed incident is reached from.

- `ApprovalKeepsLedger`: `Spec => LedgerSpec`. Each step is one of the ledger or leaves it
  unchanged, so every theorem of `CardLedgerProofs` holds here.
- `ApprovalInvariance`: `ApprovalInv`. To the properties it adds what makes them inductive:
  the handler between two commits has in hand an authorization for the current plan unless the
  room answered (`HandlerIsCurrent`), it has an attempt left (`HandlerHasAttempt`), what the
  policy sealed is of low risk (`PolicyIsLow`), and plans have bodies (`PlansHaveBodies`). All of
  them hold through a restart with its migration, at any step.
- `ApprovalTyping`, `NonceDecides`, `LifecycleAgrees`, `ConsumedPlanIsCurrent`,
  `PageApprovalIsCurrent`, `HighRiskHasHuman`: the run's invariants; and `ActiveNonceAlone`, which
  is proved only: at most one nonce can be answered.
- `PlanStaysFrozen`: the action property `PlanFrozen`: nothing that is confirmed in an authorized
  state is a plan.

`ExecutionProofs`, for all sets of plans and of simulated actions and all bounds, from
`ExecutionAssumption`:

- `ExecutionInvariance`: `ExecutionInv`, which adds to the properties that the rows agree, that
  an outcome recorded as applied is an effect (`AppliedIsEffect`), that no envelope is recorded
  twice (`AppliedOnce`), and that a receipt under way has them all (`ConfirmsAll`,
  `ExecutedInFull`).
- `ExecutionTypes`, `EffectsAreAuthorized`, `EffectsComeOnce`, `ReceiptsAreExact`, and
  `RefinesRemediation`: `Spec => ImplementsRemediation`.

`RoomRuntimeProofs`, for all limits and bounds, from `RuntimeAssumption`:

- `RuntimeInvariant`: `RuntimeInv`. `HeardOnce` and `NothingPassedOver` lean on each other through
  the page in hand: it is newer than the offset of its room (`PageIsNew`), it leaves nothing
  out before its last message (`PageIsComplete`: this is what `ORDER BY id LIMIT` gives and the
  newest messages would not), and the offsets cover what was heard (`OffsetsCoverHeard`).
- `RuntimeTypes`, `MessageHeardOnce`, `NoMessagePassedOver`.

`SuppressionProofs`, for any incidents, bound and number of faults, from
`SuppressionAssumption`, with any number of messages for an alert: `SuppressionInvariant`
(`SuppressInv`, which adds that the message in hand has passed the guards and that an increment on
its way cost a fault),
`SuppressionTypes`, `ChargesHold`, `CriticalStaysRouted`.

`ReasoningAgentsProofs`, for all sets of reports and of wishes, any challenge budget and any
bounds on cards, messages, refusals and faults, from `LedgerAssumption`, `AgentAssumption` and
`CommanderAssumption` (the runbooks are the code's six):

- `AgentsInvariance`: `AgentsInv`. Each step is one of `LedgerNext` or leaves the ledger alone,
  so the lemmas of `CardLedgerProofs` on steps carry over; its `Init` is an incident that Triage
  has routed, so `BudgetInv` is part of the invariant instead of a consequence of `LedgerSpec`.
  Cards, origins and messages are never taken back (`Grows`), so what was true of an answer when
  it was sealed stays true (`SoundCard`). That leaves the memories: a question concerns the agent
  that has it in hand (`QuestionsConcern`), a plan is for a report of Diagnosis
  (`PlansForReport`), and the Reviewer's counter, remembered or restored from a lookup that may
  have failed, is never above the published challenges (`ChallengesCounted`).
- `AgentsTypes`; `SoundEvidence`: `ConfirmsSoundEvidence`; and `EscalationHolds`:
  `EscalatedWhenSpent`. The last needs the count from both sides: the Reviewer's is at most the
  published one, and that is at most the budget (`ChallengeBudget`), so a verdict that calls for a
  human has exactly `MaxChallenges` before it.

`PlanningProofs`, with the same generality:

- `AgentsKeepLedger`: every step seals an agent's answer, seals a decision, publishes a card or
  leaves the chain alone (`ChainStep`), and so is one of `LedgerNext`. From it, with the lemmas of
  `CardLedgerProofs`, what the ledger promises holds of the agents too, who start at a routed
  incident instead of an empty chain: `AgentsKeepBudget`, `AgentsAuthorizeOnce`,
  `AgentsReviewFirst` and `AgentsKeepLifecycle`. Later proofs have four kinds of steps to look
  at instead of twenty actions.
- `PlanningInvariance`: `PlanningInv`, for any faults. An agent in the middle of its saga has a card of its own
  type in hand (`OwnCards`), a message has one answer of a type (`KeysAreUnique`), a plan for a
  severe report is of high risk (`SevereIsHighRisk`), and no verdict comes after a plan
  (`PlannedAfterReview`: the states from PLANNED on never lead back). `PolicyStaysMinor` is
  `PolicyIsForMinor`: an authorization of the policy copies the body and the risk of a
  published plan, and neither that plan nor its report changes afterwards. `KeysStayUnique` and
  `PlansComeLast` say the second and the last part by themselves.
- `RevisionInvariance`: `RevisionInv`, and `RunbookChanges`: `ChangesRunbook`, as long as nothing
  fails. That a revision differs from the plan before it is not inductive: the Commander compares
  with the plan *it* knows of. The invariant says it knows the right one, whatever restarts:
  revisions go up (`PlansInOrder`); every plan but the one in hand is published, and that one is
  the newest card (`PlansArePublished`), so a lookup after a restart finds the last plan;
  its context has the revision of that plan, or the next one with the plan's body as the
  rejected one while it revises (`ContextIsCurrent`, `RevisesLastPlan`); and a refusal
  no plan has followed leaves the incident REJECTED (`RefusalsHold`), so a refusal taken up after a
  restart is either the last plan's or recognised as answered.

- `ReviewInvariance`: `ReviewInv`, for any faults and any budget. As long as no Assessment and no
  challenge has two answers (`ReviewedOnce`), the review is a line: a card of it is published and
  answered before the next but one is sealed (`ReviewIsLinear`). So at most one of its cards is under
  way, the incident is in the state that the last published one left it in (`ReviewInState`), and the
  Commander has the report of the last Assessment as soon as it has any, or that of an
  earlier one if it did not find the last (`PlansAsReviewed`).
  `EvidenceInForce` and `PlansFollow` read `ConfirmsEvidenceInForce` and `PlansFollowReview` off that
  line: the two hold for any number of faults unless a question was answered twice.
- `AnswersInvariance`: `AnswersInv`, for any faults: what the next proof needs to know of plans and
  revisions. While no question is answered twice the plans are a line too (`PlansAreLinear`), and
  Diagnosis takes a challenge with revision 2 or higher, whatever it has restored
  (`ChallengesRevise`).
- `OnceInvariance`: `OnceInv`, and `OneAnswer`: `OneAnswerPerQuestion`, for `MaxChallenges <= 2`. That a
  question has one answer is not inductive. Two things can go wrong before it has two: an answer
  is sealed, not published and in nobody's hands (`Abandoned`), or a card is in the room twice,
  will be, or Diagnosis has lost count (`Repeated`). Either is harmless alone: an abandoned
  answer has its key at the only message of its question, so that `/prepare` finds it; and what
  is in the room twice is answered by a published card, so that the lookups show it. `OneTrouble`
  says that without a fault there is neither, and with one never both. What is inductive
  with it is that an agent about to answer a question again does so under the same key, or is
  a Diagnosis whose second challenge has been answered (`AnswersAreKnown`). The proof looks
  at eight kinds of things an agent may do (`Behaves`) instead of each handler. The hypothesis is the
  code's value (`MAX_CHALLENGES_PER_INCIDENT`, `submission.py:178`), and it is needed: with three TLC
  finds the violation of section 4. It is used where a revision that was restored too low would
  make Diagnosis answer again: with two challenges there is no third to make that possible.
- `OneFaultIsHarmless` puts these together: for `MaxChallenges <= 2` and at most one fault, what is
  confirmed is the Assessment in force, and plans are for it, or, where the one fault is the
  Commander's lookup of it, for an earlier one with the risk that `PlansFollowReview` still promises.

`QwenBudgetProofs`, for any calls, estimates, usages, limit and number of days, from
`BudgetAssumption`: `QwenInvariance` (`QwenInv`), `QwenTypes`, `MeterExact` and `LimitHolds`. The
outstanding reservations are the cardinality of a set, one element per token (`HeldTokens`), and
not a sum over the calls: a call that reserves or settles adds or removes the tokens
of that call, and `FiniteSetTheorems` counts them. `NothingAhead` says that no call and no
update of the file is of a day to come, so that at midnight nothing is used or reserved.
`WithinBudget` is not inductive: after an update is torn the meter admits calls that the day has no
room for. `LossBounded` says how far the meter can be behind the truth, by one limit for each
mishap and by what is beyond the estimates, and `Fits` bounds the meter when a call is admitted.

Only model-checked are

- the liveness properties of `Execution`, `ReasoningAgents` and `RoomRuntime`: out of the
  prover's reach;
- `ConfirmsEvidenceInForce` and `PlansFollowReview` in states with two faults in which some question
  was answered twice. With one fault, and with any number as long as questions are answered once,
  they are proved; with three and a question answered twice they are false. An inductive
  invariant for what is left would have to say of each state how many more faults the
  violation takes; we have none.

## 8. Where code and text disagree

Four are runs that TLC finds violated, and findings in `PROJECT.json` with the quotation.

- `approval_room`: a nonce answered in the room can authorize a superseded plan. The
  incident is then APPROVED and its authorization can never be consumed. On the
  approval page this does not happen (`PageApprovalIsForCurrentPlan`), and nothing is
  executed (`ConsumedIsCurrentPlan`).
- `execution_recovery`: a receipt that was sealed and not confirmed keeps the incident
  AUTHORIZED for good.
- `suppression_bound`: when a rule is exhausted, Triage suppresses without it.
- `restored_revision`: Diagnosis, restarted while a challenge is posted and not yet confirmed,
  restores a revision that is one too low, and two published Assessments share it.

Seen while modelling, without a run:

- `submission.py:311-318` says the state advances only at `/confirm`, after the room has seen the
  card. A refusal on the approval page changes the incident's state in the transaction that
  seals it; the post comes later, or never (`Refuse` and `HandlerPost` in `Approval`).
- `submission.py:435-437` calls a prepared card inert. `_apply_risk_floor` takes the severity
  from the Assessment sealed last, confirmed or not. In `ledger` alone that can lower the risk
  of a plan; with the agents as they are that takes three faults (`PlansFollowReview`).
- `/confirm` checks the state, and that no newer card is published, but not that the Assessment
  in force is the one a verdict answers. It takes three faults to tell the two apart: the routing
  is posted twice, Diagnosis dies after it has posted its Assessment, and when it is restarted
  the first routing message is lost. It answers the second one under another key; that Assessment is
  confirmed while the Reviewer has the first in hand, and the verdict on the first is then
  confirmed (`ConfirmsEvidenceInForce` is stated for two faults, or for questions answered once).
- `qwen_budget.py:14-15`: a call under way at midnight gives its reservation back to the new
  day's meter, which then lets calls past the limit; so does a meter that a dying process has
  left empty (`:159-163`), and a commit that fails after it has written (`qwen_reasoning.py:119-123`).
  And a commit adds whatever an answer used, though only the estimate was held against the
  limit. `WithinBudget` says what each of these can cost.
- `database.py:356-365` is called a historical migration, but it runs at every start of the
  Gateway. A human's authorization whose post failed stays PENDING; when the policy's
  authorization of that plan is published and the Gateway is restarted, it is PUBLISHED, though its
  card never was, and it can be consumed beside the policy's. No harm comes of it: it is
  for the same plan (`ConsumedIsCurrentPlan`).
- The Commander's fallback to the room (`commander/__init__.py:1396-1408`) takes the *oldest*
  fifty messages (`list_messages` orders by id), and does not look whether the Assessment in
  them was challenged. A report of P3 that was challenged and revised to P2 can then, with one
  failed lookup, be what the plan rests on; the risk floor of a P2 is medium, and the policy
  authorizes the plan without a human.
- `triage/__init__.py:657` says "lookup failure → route normally", and that is so when the lookup
  raises. An answer other than 200 is not a failure there but an empty list (`:630`): the LLM's
  suppress stands, and no rule is charged (`LookUpRefused`).
- A PENDING authorization that is resumed after its expiry is published although it can no
  longer be consumed (`nonce.py:510` calls the retry safe).
- The staleness check does not see a rejection that was never published
  (`submission.py:790-797` says it catches all stale cards). A Commander that stops between
  sealing the next plan and confirming it, takes its own unpublished plan for the answer
  when it is restarted (`NewerPlanSealed`).
- The docstring of `consume_authorization` says CONSUMED answers 409; the same role gets 200.
- A scale-up (RB-002) at P3 or P4 is of high risk to the Gateway and of low risk to the
  Commander, which then asks the policy and is refused: the incident stays PLANNED.
- A Commander that stops between the confirmation of its plan and the nonce (or the request to
  the policy) finds the plan published when it is restarted and skips the CONFIRM: the
  incident stays PLANNED, against the comment in `commander/__init__.py:1265-1270`.
- `supervisor.py` says that authorization and policy failures end the process; the runtime's
  `run` catches every exception, so only those of the creation get there.
- A room that newer ones push off the listing is not polled any more, whatever is posted to it:
  its `updated_at` never changes. `MessagesAreHeard` speaks of the listed rooms only.

## 9. Abstractions, and what is not modelled

- Hashes are the contents they hash; signatures, keys and CSRF tokens are left out: an agent
  has its own role's key and submits only its own types. The gateway's key is used by an agent
  only for the Postmortem.
- The approvers of the allowlist act as one, on the page and in the room. The incident has
  its room, and the Operator is configured.
- A plan has envelopes; plan revisions with the same contents have the same hash, as in the
  code. The incident's `severity` column is left out: no modelled guard reads it.
- An idempotent retry of `/prepare` or `/confirm` changes nothing and is a stutter in the
  ledger; in `RoomAgent` it is `PrepareAgain`. The attempts of one request are one step,
  answered or not.
- In `Execution`, APPROVED and AUTHORIZED are one state; the victim applies and records an
  action in one step under its lock and does not fail between the two.
- In `Suppression` the lookup of rules answers for one fingerprint; rules are never
  deactivated, as in the code (`expires_at` and `active` are never written).
- In `QwenBudget` the estimate's formula is not modelled; a part of a line in the file is an empty
  file, as `_load` reads both alike.
- In `ReasoningAgents` messages that concern no agent are left out, each agent has one incident,
  a lookup answers for one moment, and a nonce is the challenge of a plan that is open or not.
  What the investigation comes to is any report, another one at each delivery.
- In `RoomRuntime` a room is numbered by its `updated_at`, which is its creation; the
  participants' rows go with the room. The heartbeat is left out.
- Not modelled: the hash chain's verification (`integrity.py`), the evidence export, and the
  deletion of an incident's rows under a submission, which are planned (section 2); the rate
  limiter, whose refusals are failed requests in every model; the Recorder's normalization, the
  demo trigger and the victim's metrics, which have no state the protocol depends on; prompts, LLM
  answers, the dashboard, MCP, scripts, deployment and evaluation, which keep no protocol state.

## 10. Running it

`tlc -config CardLedger.cfg MCCardLedger`, and likewise for the other runs of `PROJECT.json`;
`tlapm CardLedgerProofs.tla`, and likewise for `ApprovalProofs`, `ExecutionProofs`,
`PlanningProofs`, `QwenBudgetProofs`, `ReasoningAgentsProofs`, `RoomRuntimeProofs` and
`SuppressionProofs`. The longest run takes about two minutes with two
workers; of the proofs, `PlanningProofs` takes longest.
