------------------------------- MODULE Execution -------------------------------
(***************************************************************************)
(* The Operator (agents/operator) carries out the one authorization of an  *)
(* incident (CardLedger shows there is one): its runtime takes a message   *)
(* from the incident room, consumes the authorization, has the victim      *)
(* application heal one envelope after the other, and submits an           *)
(* ActionReceipt, which moves the incident to EXECUTED.                    *)
(*                                                                         *)
(* What is durable: the Gateway's rows (incident, status, messages,        *)
(* sealed) and the victim's table of applied actions (effects).  What the  *)
(* Operator knows, its offset in the room included, is in its memory: a    *)
(* restart has every message of the room delivered again, and a message it *)
(* gave up on is not delivered again before that.                          *)
(*                                                                         *)
(* An APPROVED incident is called AUTHORIZED here: what happens next is    *)
(* the same.                                                               *)
(***************************************************************************)
EXTENDS Naturals, Sequences, FiniteSets

CONSTANTS Plans,        \* the plans an authorization may be for
          Simulated,    \* the actions that call nothing: update_status_page
          MaxMessages,  \* bound on the room messages carrying the authorization
          MaxFaults     \* bound on crashes, lost requests and lost answers

EnvelopesOf(p) == {p[i] : i \in DOMAIN p}
Envelopes == UNION {EnvelopesOf(p) : p \in Plans}
Actions == Envelopes \ Simulated

ASSUME ExecutionAssumption ==
  /\ Plans \subseteq Seq(Envelopes) \ {<<>>}
  /\ MaxMessages \in Nat
  /\ MaxFaults \in Nat

VARIABLES plan,      \* the envelopes of the authorization, in order
          incident,  \* state of the incident: PLANNED, AUTHORIZED or EXECUTED
          status,    \* of the authorization: PENDING, PUBLISHED or CONSUMED
          expired,   \* the authorization is past its expiry
          messages,  \* how many room messages carry the authorization
          sealed,    \* the messages for which an ActionReceipt is sealed
          effects,   \* how often each action took effect at the victim
          wire,      \* heal requests on their way that nobody waits for
          pc,        \* what the Operator does next
          offset,    \* the room message it has got to
          results,   \* outcomes of the envelopes of the message in hand
          faults     \* faults so far

gatewayVars  == <<plan, incident, status, expired, messages, sealed>>
victimVars   == <<effects, wire>>
operatorVars == <<pc, offset, results>>
vars == <<gatewayVars, victimVars, operatorVars, faults>>

\* Fault: the message in hand is taken for the one before.
PreviousMessage == offset

\* The message in hand; its id is part of the receipt's idempotency key.
Current == offset + 1

\* The actions the authorization is for.
Planned == EnvelopesOf(plan) \ Simulated

Fault == faults < MaxFaults /\ faults' = faults + 1

Init == /\ plan \in Plans
        /\ incident = "PLANNED" /\ status = "PENDING" /\ expired = FALSE
        /\ messages = 0 /\ sealed = {}
        /\ effects = [a \in Actions |-> 0] /\ wire = {}
        /\ pc = "poll" /\ offset = 0 /\ results = <<>>
        /\ faults = 0

-------------------------------------------------------------------------------
(* The Gateway posts the authorization and advances the incident.              *)

PublishAuthorization ==
  /\ status = "PENDING"
  /\ messages < MaxMessages
  /\ messages' = messages + 1
  /\ status' = "PUBLISHED"
  /\ incident' = "AUTHORIZED"
  /\ UNCHANGED <<plan, expired, sealed, victimVars, operatorVars, faults>>

\* It crashes after the post: the message announces an authorization that is
\* still PENDING, and the retry posts another one.
PostThenCrash ==
  /\ Fault
  /\ status = "PENDING"
  /\ messages < MaxMessages
  /\ messages' = messages + 1
  /\ UNCHANGED <<plan, incident, status, expired, sealed, victimVars, operatorVars>>

Expire ==
  /\ ~expired
  /\ expired' = TRUE
  /\ UNCHANGED <<plan, incident, status, messages, sealed, victimVars, operatorVars, faults>>

-------------------------------------------------------------------------------
(* The room runtime and the Operator's preprocessor.                           *)

\* The Operator is done with the message, whatever came of it: the runtime moves
\* the offset in a finally clause, and the next poll is for the messages after it.
Finish == pc' = "poll" /\ offset' = offset + 1 /\ results' = <<>>

\* _should_skip_completed_authorization.
SkipCompleted ==
  /\ pc = "poll" /\ offset < messages
  /\ incident = "EXECUTED"
  /\ Finish
  /\ UNCHANGED <<gatewayVars, victimVars, faults>>

\* Its lookups are fail-open: if they fail, the message is taken all the same.
TakeMessage ==
  /\ pc = "poll" /\ offset < messages
  /\ IF incident = "EXECUTED" THEN Fault ELSE UNCHANGED faults
  /\ pc' = "consume"
  /\ UNCHANGED <<gatewayVars, victimVars, offset, results>>

\* Fault: a CONSUMED authorization is refused to its own consumer too.
ConsumableOnce == status = "PUBLISHED" /\ ~expired

\* Fault: what is announced in the room is taken for authorized.
ConsumablePending == ~expired

\* consume_authorization: PUBLISHED, or CONSUMED by this same role before.
Consumable == status \in {"PUBLISHED", "CONSUMED"} /\ ~expired

\* The context is set up.  One more look at the incident's state stops the
\* Operator short of an incident that is EXECUTED, fail-open again.
Consume ==
  /\ pc = "consume"
  /\ Consumable
  /\ status' = "CONSUMED"
  /\ IF incident = "EXECUTED"
     THEN \/ Finish /\ UNCHANGED faults
          \/ Fault /\ pc' = "execute" /\ UNCHANGED <<offset, results>>
     ELSE pc' = "execute" /\ UNCHANGED <<offset, results, faults>>
  /\ UNCHANGED <<plan, incident, expired, messages, sealed, victimVars>>

\* Expired, or still PENDING after the bounded retries: fail-closed.
ConsumeRefused ==
  /\ pc = "consume"
  /\ ~Consumable
  /\ Finish
  /\ UNCHANGED <<gatewayVars, victimVars, faults>>

\* The answer, or the request, is lost: fail-closed, CONSUMED or not.
ConsumeLost ==
  /\ pc = "consume"
  /\ Fault
  /\ \/ Consumable /\ status' = "CONSUMED"
     \/ UNCHANGED status
  /\ Finish
  /\ UNCHANGED <<plan, incident, expired, messages, sealed, victimVars>>

-------------------------------------------------------------------------------
(* Executing the envelopes: execute_remediation and the victim's heal_scenario. *)

Envelope == plan[Len(results) + 1]
Executing == pc = "execute" /\ Len(results) < Len(plan)

\* Fault: the victim does not look the execution key up.
ApplyAgain(a) == [effects EXCEPT ![a] = @ + 1]

\* The victim looks the execution key up and applies the action unless it has.
ApplyOnce(a) == IF effects[a] = 0 THEN [effects EXCEPT ![a] = 1] ELSE effects

AlreadyTaken(a) == \E i \in DOMAIN results : plan[i] = a /\ results[i] = "applied"

\* An envelope that repeats another one of the plan is refused and not recorded.
RefuseDuplicate ==
  /\ Executing /\ AlreadyTaken(Envelope)
  /\ results' = Append(results, "duplicate")
  /\ UNCHANGED <<gatewayVars, victimVars, pc, offset, faults>>

\* The victim answers healed or already_applied; the status page always succeeds.
Execute ==
  /\ Executing /\ ~AlreadyTaken(Envelope)
  /\ effects' = IF Envelope \in Actions THEN ApplyOnce(Envelope) ELSE effects
  /\ results' = Append(results, "applied")
  /\ UNCHANGED <<gatewayVars, wire, pc, offset, faults>>

\* Fault: an action whose outcome is not known is taken for done.
UnknownIsDone == "applied"

\* A request without an answer is recorded as an error.
UnknownOutcome == "failed"

\* No answer: the request never arrived, or its answer is lost, or it is still on
\* its way when the Operator's patience ends.
ExecuteFails ==
  /\ Executing /\ ~AlreadyTaken(Envelope) /\ Envelope \in Actions
  /\ Fault
  /\ \/ UNCHANGED victimVars
     \/ effects' = ApplyOnce(Envelope) /\ UNCHANGED wire
     \/ wire' = wire \union {Envelope} /\ UNCHANGED effects
  /\ results' = Append(results, UnknownOutcome)
  /\ UNCHANGED <<gatewayVars, pc, offset>>

LateArrival(a) ==
  /\ a \in wire
  /\ wire' = wire \ {a}
  /\ effects' = ApplyOnce(a)
  /\ UNCHANGED <<gatewayVars, operatorVars, faults>>

-------------------------------------------------------------------------------
(* The receipt: submit_action_receipt.                                         *)

Executed == pc = "execute" /\ Len(results) = Len(plan)

\* Fault: the receipt is refused only for a failed action.
NoneFailed == \A i \in DOMAIN results : results[i] # "failed"

\* No entry failed, and the entries are the envelopes, each as often as approved.
AllApplied == \A i \in DOMAIN results : results[i] = "applied"

\* Any heal call ends the scenario, so the metrics recover with the first one.
Recovered == \E a \in Actions : effects[a] > 0

\* A failed action, a duplicate or no recovery.  The metrics may be out of reach, and
\* the call to the LLM for a summary raises when the token budget is used up.
RefuseReceipt ==
  /\ Executed
  /\ IF AllApplied /\ Recovered THEN Fault ELSE UNCHANGED faults
  /\ Finish
  /\ UNCHANGED <<gatewayVars, victimVars>>

\* /prepare: the key is the message's id and the plan's hash.  A receipt sealed
\* under the same key by an earlier process differs in its timestamps: 409.
PrepareReceipt ==
  /\ Executed
  /\ AllApplied /\ Recovered
  /\ Current \notin sealed
  /\ incident = "AUTHORIZED"
  /\ sealed' = sealed \union {Current}
  /\ pc' = "confirm"
  /\ UNCHANGED <<plan, incident, status, expired, messages, victimVars, offset, results, faults>>

PrepareRefused ==
  /\ Executed
  /\ AllApplied /\ Recovered
  /\ Current \in sealed \/ incident = "EXECUTED"
  /\ Finish
  /\ UNCHANGED <<gatewayVars, victimVars, faults>>

\* The receipt is posted and confirmed.
ConfirmReceipt ==
  /\ pc = "confirm"
  /\ incident' = "EXECUTED"
  /\ Finish
  /\ UNCHANGED <<plan, status, expired, messages, sealed, victimVars, faults>>

\* The post or the confirmation fails, or the answer to the preparation is lost.
SubmissionFails ==
  /\ pc = "confirm"
  /\ Fault
  /\ Finish
  /\ UNCHANGED <<gatewayVars, victimVars>>

-------------------------------------------------------------------------------
\* A process that has just started.
Fresh == pc' = "poll" /\ offset' = 0 /\ results' = <<>>

\* The Operator dies in the middle of a message and is started again; a request
\* it was waiting for may still arrive.
Crash ==
  /\ pc # "poll"
  /\ Fault
  /\ Fresh
  /\ \/ UNCHANGED wire
     \/ Executing /\ Envelope \in Actions /\ wire' = wire \union {Envelope}
  /\ UNCHANGED <<gatewayVars, effects>>

\* Between two messages it is started again for any other reason.
Restart ==
  /\ pc = "poll" /\ offset > 0
  /\ Fresh
  /\ UNCHANGED <<gatewayVars, victimVars, faults>>

OperatorStep ==
  \/ SkipCompleted \/ TakeMessage \/ Consume \/ ConsumeRefused \/ ConsumeLost
  \/ RefuseDuplicate \/ Execute \/ ExecuteFails
  \/ RefuseReceipt \/ PrepareReceipt \/ PrepareRefused \/ ConfirmReceipt \/ SubmissionFails

Next ==
  \/ PublishAuthorization \/ PostThenCrash \/ Expire
  \/ OperatorStep
  \/ \E a \in Actions : LateArrival(a)
  \/ Crash \/ Restart

Spec == Init /\ [][Next]_vars

\* The runtime's loop goes on as long as the process lives.
FairSpec == Spec /\ WF_vars(OperatorStep)

-------------------------------------------------------------------------------
(* Properties.                                                                 *)

NoRepetition == \A i, j \in DOMAIN plan : plan[i] = plan[j] => i = j

TypeOK ==
  /\ plan \in Plans
  /\ incident \in {"PLANNED", "AUTHORIZED", "EXECUTED"}
  /\ status \in {"PENDING", "PUBLISHED", "CONSUMED"}
  /\ expired \in BOOLEAN
  /\ messages \in 0..MaxMessages
  /\ sealed \subseteq 1..messages
  /\ effects \in [Actions -> Nat]
  /\ wire \subseteq Actions
  /\ pc \in {"poll", "consume", "execute", "confirm"}
  /\ offset \in 0..messages
  /\ results \in Seq({"applied", "failed", "duplicate"})
  /\ Len(results) <= Len(plan)
  /\ pc # "poll" => offset < messages
  /\ faults \in 0..MaxFaults

\* What may be done to the production system.
Permitted == IF incident = "PLANNED" \/ status # "CONSUMED" THEN {} ELSE Planned

\* Nothing happens to the production system unless the incident is authorized and the
\* Operator has consumed the authorization, and then only what the authorization is
\* for: no other request is under way or was ever served.
NoEffectUnauthorized ==
  wire \subseteq Permitted /\ \A a \in Actions \ Permitted : effects[a] = 0

\* An action takes effect at most once, however often its request is sent: after a
\* crash, a timeout, a second delivery of the authorization, or late.
EffectsOnce == \A a \in Actions : effects[a] <= 1

\* An incident is EXECUTED only if every action took effect exactly as often as the
\* plan has it; what is still on the wire then can add nothing, and a plan that repeats
\* an envelope never counts as executed.
ReceiptIsExact ==
  incident = "EXECUTED" =>
    \A a \in Actions : effects[a] = Cardinality({i \in DOMAIN plan : plan[i] = a})

\* All of this at once, step by step: the Operator implements the remediation.
Phase == CASE incident = "PLANNED"    -> "waiting"
           [] incident = "AUTHORIZED" -> "authorized"
           [] OTHER                   -> "executed"
Abstract == INSTANCE Remediation WITH phase <- Phase, approved <- Planned
ImplementsRemediation == Abstract!RemediationSpec

\* Why it implements it: the inductive invariant of the proofs.  The rows of the
\* authorization agree, an outcome recorded as applied is an effect, no envelope is
\* recorded twice, and a receipt is only under way when all of them are recorded.
RowsAgree == status = "PENDING" <=> incident = "PLANNED"
ConsumedFirst == pc \in {"execute", "confirm"} => status = "CONSUMED"
AppliedIsEffect ==
  \A i \in DOMAIN results : results[i] = "applied" /\ plan[i] \in Actions => effects[plan[i]] = 1
AppliedOnce ==
  \A i, j \in DOMAIN results :
    results[i] = "applied" /\ results[j] = "applied" /\ plan[i] = plan[j] => i = j
ConfirmsAll == pc = "confirm" => Len(results) = Len(plan) /\ AllApplied
ExecutedInFull ==
  incident = "EXECUTED" => NoRepetition /\ \A a \in Planned : effects[a] = 1

ExecutionInv == /\ TypeOK /\ RowsAgree /\ NoEffectUnauthorized /\ EffectsOnce /\ ConsumedFirst
                /\ AppliedIsEffect /\ AppliedOnce /\ ConfirmsAll /\ ExecutedInFull

\* The comment on the replay of a consumed authorization: a restarted Operator gets
\* on with it.  If the Operator is restarted again and again, an authorized plan that
\* repeats nothing gets as far as a sealed receipt, unless the authorization expires.
RestartsRecover ==
  NoRepetition /\ []<><<Restart>>_vars =>
    (incident = "AUTHORIZED" ~> (incident = "EXECUTED" \/ expired \/ sealed # {}))

\* tests/test_authorization_replay.py: with that fix an incident no longer stays
\* authorized but unexecuted.  Given restarts and time, its plan is executed.
RecoveryCompletes ==
  NoRepetition /\ []<><<Restart>>_vars =>
    (incident = "AUTHORIZED" ~> (incident = "EXECUTED" \/ expired))
===============================================================================
