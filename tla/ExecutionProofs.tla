---------------------------- MODULE ExecutionProofs ----------------------------
(***************************************************************************)
(* Theorems about Execution: for every plan, and whatever the bounds on    *)
(* messages and faults, the invariant ExecutionInv is inductive, it gives  *)
(* the safety properties of the runs, and with it every step of the        *)
(* Operator is a step of Remediation or changes nothing there.             *)
(***************************************************************************)
EXTENDS Execution, FiniteSetTheorems, TLAPS

\* A plan is a sequence that is not empty, of which the actions are envelopes.
LEMMA PlanIndices ==
  ASSUME plan \in Plans
  PROVE  /\ DOMAIN plan = 1..Len(plan)
         /\ Len(plan) \in Nat \ {0}
         /\ Planned \subseteq Actions
         /\ \A i \in DOMAIN plan : plan[i] \in Actions => plan[i] \in Planned
         /\ \A a \in Planned : \E i \in DOMAIN plan : plan[i] = a
<1>1. plan \in Seq(Envelopes) /\ plan # <<>>
  BY ExecutionAssumption
<1>2. DOMAIN plan = 1..Len(plan) /\ Len(plan) \in Nat \ {0}
  BY <1>1
<1>3. Planned \subseteq Actions
  BY DEF Planned, Actions, Envelopes
<1>4. \A i \in DOMAIN plan : plan[i] \in Actions => plan[i] \in Planned
  BY DEF Planned, Actions, EnvelopesOf
<1>5. \A a \in Planned : \E i \in DOMAIN plan : plan[i] = a
  BY DEF Planned, EnvelopesOf
<1> QED
  BY <1>2, <1>3, <1>4, <1>5

\* What may be done stays the same, or begins with the consumption.
LEMMA PermittedFixed ==
  ASSUME UNCHANGED <<plan, incident>>,
         status' = status \/ (status # "PENDING" /\ status' = "CONSUMED")
  PROVE  /\ Planned' = Planned
         /\ Permitted \subseteq Permitted'
         /\ status = "CONSUMED" \/ status' = status => Permitted' = Permitted
BY DEF Planned, Permitted, EnvelopesOf

\* What the victim does to its table of applied actions.
LEMMA ApplyOnceSets ==
  ASSUME effects \in [Actions -> Nat], EffectsOnce, NEW a \in Actions
  PROVE  /\ ApplyOnce(a) \in [Actions -> Nat]
         /\ ApplyOnce(a)[a] = 1
         /\ \A b \in Actions : b # a => ApplyOnce(a)[b] = effects[b]
         /\ effects[a] # 0 => ApplyOnce(a) = effects
BY DEF ApplyOnce, EffectsOnce

\* One more outcome at the end of the results.
LEMMA AppendedResult ==
  ASSUME TypeOK, Executing, NEW r \in {"applied", "failed", "duplicate"}
  PROVE  /\ Append(results, r) \in Seq({"applied", "failed", "duplicate"})
         /\ Len(Append(results, r)) = Len(results) + 1
         /\ Len(results) + 1 <= Len(plan)
         /\ Len(results) + 1 \in DOMAIN plan
         /\ Append(results, r)[Len(results) + 1] = r
         /\ \A i \in DOMAIN results : Append(results, r)[i] = results[i]
         /\ DOMAIN Append(results, r) = DOMAIN results \union {Len(results) + 1}
         /\ Len(results) + 1 \notin DOMAIN results
<1>1. results \in Seq({"applied", "failed", "duplicate"}) /\ Len(results) < Len(plan)
  BY DEF TypeOK, Executing
<1> QED
  BY <1>1, PlanIndices

LEMMA InitInv == Init => ExecutionInv
<1> SUFFICES ASSUME Init PROVE ExecutionInv
  OBVIOUS
<1> USE DEF Init
<1>1. TypeOK
  <2>1. results \in Seq({"applied", "failed", "duplicate"}) /\ Len(results) <= Len(plan)
    BY PlanIndices
  <2>2. expired \in BOOLEAN
    BY Zenon
  <2> QED
    BY <2>1, <2>2, ExecutionAssumption DEF TypeOK
<1>2. RowsAgree /\ NoEffectUnauthorized /\ EffectsOnce /\ ConsumedFirst
  BY DEF RowsAgree, NoEffectUnauthorized, EffectsOnce, ConsumedFirst
<1>3. AppliedIsEffect /\ AppliedOnce /\ ConfirmsAll /\ ExecutedInFull
  BY DEF AppliedIsEffect, AppliedOnce, ConfirmsAll, ExecutedInFull
<1> QED
  BY <1>1, <1>2, <1>3 DEF ExecutionInv

\* The end of a message, or of the process, keeps the invariant: it leaves nothing of
\* what the Operator has recorded, and at most consumes the authorization.
LEMMA FinishKeeps ==
  ASSUME ExecutionInv, Finish \/ Fresh,
         pc # "poll" \/ offset < messages \/ Fresh,
         UNCHANGED <<plan, incident, expired, messages, sealed, effects>>,
         status' = status \/ (status # "PENDING" /\ status' = "CONSUMED"),
         wire' \in SUBSET Actions,
         wire' \subseteq wire \union Permitted,
         faults' \in 0..MaxFaults
  PROVE  ExecutionInv'
<1> USE DEF ExecutionInv
<1>1. TypeOK'
  <2>1. results' \in Seq({"applied", "failed", "duplicate"}) /\ Len(results') <= Len(plan)
    <3>1. results' = <<>> /\ plan \in Plans
      BY DEF Finish, Fresh, TypeOK
    <3> QED
      BY <3>1, PlanIndices
  <2>2. pc' = "poll" /\ offset' \in 0..messages
    BY DEF TypeOK, Finish, Fresh
  <2>3. expired' \in BOOLEAN
    BY Zenon DEF TypeOK
  <2> QED
    BY <2>1, <2>2, <2>3 DEF TypeOK
<1>2. RowsAgree' /\ EffectsOnce' /\ ConsumedFirst' /\ ExecutedInFull'
  BY PermittedFixed
     DEF RowsAgree, EffectsOnce, ConsumedFirst, ExecutedInFull, NoRepetition, Finish, Fresh
<1>3. NoEffectUnauthorized'
  BY PermittedFixed DEF NoEffectUnauthorized
<1>4. AppliedIsEffect' /\ AppliedOnce' /\ ConfirmsAll'
  BY DEF AppliedIsEffect, AppliedOnce, ConfirmsAll, Finish, Fresh
<1> QED
  BY <1>1, <1>2, <1>3, <1>4

LEMMA FaultBound == ASSUME TypeOK, Fault PROVE faults' \in 0..MaxFaults
BY ExecutionAssumption DEF TypeOK, Fault

\* The Gateway's steps change nothing the Operator has recorded.
LEMMA GatewayKeeps ==
  ASSUME ExecutionInv, PublishAuthorization \/ PostThenCrash \/ Expire
  PROVE  ExecutionInv'
<1> USE DEF ExecutionInv
<1>1. TypeOK'
  <2>1. CASE PublishAuthorization
    BY <2>1, ExecutionAssumption DEF TypeOK, PublishAuthorization, victimVars, operatorVars
  <2>2. CASE PostThenCrash
    BY <2>2, FaultBound, ExecutionAssumption DEF TypeOK, PostThenCrash, victimVars, operatorVars
  <2>3. CASE Expire
    BY <2>3 DEF TypeOK, Expire, victimVars, operatorVars
  <2> QED
    BY <2>1, <2>2, <2>3
<1> USE DEF PublishAuthorization, PostThenCrash, Expire, victimVars, operatorVars
<1>2. RowsAgree' /\ ConsumedFirst' /\ EffectsOnce'
  BY DEF RowsAgree, ConsumedFirst, EffectsOnce
<1>3. NoEffectUnauthorized'
  <2>1. Permitted = {} \/ Permitted' = Permitted
    BY DEF Permitted, Planned, EnvelopesOf, RowsAgree
  <2>2. wire' = wire /\ effects' = effects /\ Permitted \subseteq Permitted'
    BY <2>1
  <2> QED
    BY <2>2 DEF NoEffectUnauthorized
<1>4. AppliedIsEffect' /\ AppliedOnce' /\ ConfirmsAll'
  BY DEF AppliedIsEffect, AppliedOnce, ConfirmsAll, AllApplied
<1>5. ExecutedInFull'
  BY DEF ExecutedInFull, RowsAgree, NoRepetition, Planned, EnvelopesOf
<1> QED
  BY <1>1, <1>2, <1>3, <1>4, <1>5

\* The envelope in hand is of the plan, which may be carried out.
LEMMA EnvelopePermitted ==
  ASSUME ExecutionInv, Executing
  PROVE  /\ status = "CONSUMED" /\ incident # "PLANNED"
         /\ Envelope \in Actions => Envelope \in Permitted
<1>1. status = "CONSUMED" /\ incident # "PLANNED"
  BY DEF ExecutionInv, ConsumedFirst, RowsAgree, Executing
<1>2. Len(results) + 1 \in DOMAIN plan /\ plan \in Plans
  BY PlanIndices DEF ExecutionInv, TypeOK, Executing
<1>3. Envelope \in Actions => Envelope \in Planned
  BY <1>2, PlanIndices DEF Envelope
<1> QED
  BY <1>1, <1>3 DEF Permitted

LEMMA ConsumableStatus == ASSUME TypeOK, Consumable PROVE status \in {"PUBLISHED", "CONSUMED"}
BY DEF Consumable

\* The steps that end a message, short of the receipt's confirmation.
LEMMA GivingUpKeeps ==
  ASSUME ExecutionInv,
         \/ SkipCompleted \/ ConsumeRefused \/ ConsumeLost
         \/ RefuseReceipt \/ PrepareRefused \/ SubmissionFails
  PROVE  ExecutionInv'
<1> USE DEF gatewayVars, victimVars
<1>1. TypeOK /\ wire \in SUBSET Actions /\ faults \in 0..MaxFaults
  BY DEF ExecutionInv, TypeOK
<1>2. faults' \in 0..MaxFaults
  BY <1>1, FaultBound DEF SkipCompleted, ConsumeRefused, ConsumeLost, RefuseReceipt,
                          PrepareRefused, SubmissionFails
<1>3. Finish /\ (pc # "poll" \/ offset < messages)
  BY DEF SkipCompleted, ConsumeRefused, ConsumeLost, RefuseReceipt, PrepareRefused,
         SubmissionFails, Executed
<1>4. /\ UNCHANGED <<plan, incident, expired, messages, sealed, effects, wire>>
      /\ status' = status \/ (status # "PENDING" /\ status' = "CONSUMED")
  BY <1>1, ConsumableStatus
     DEF SkipCompleted, ConsumeRefused, ConsumeLost, RefuseReceipt, PrepareRefused,
         SubmissionFails
<1> QED
  BY <1>1, <1>2, <1>3, <1>4, FinishKeeps

LEMMA RestartKeeps == ASSUME ExecutionInv, Crash \/ Restart PROVE ExecutionInv'
<1> USE DEF gatewayVars, victimVars
<1>1. TypeOK /\ wire \in SUBSET Actions /\ faults \in 0..MaxFaults
  BY DEF ExecutionInv, TypeOK
<1>2. faults' \in 0..MaxFaults /\ Fresh
  BY <1>1, FaultBound DEF Crash, Restart
<1>3. UNCHANGED <<plan, incident, status, expired, messages, sealed, effects>>
  BY DEF Crash, Restart
<1>4. wire' \in SUBSET Actions /\ wire' \subseteq wire \union Permitted
  <2>1. CASE UNCHANGED wire
    BY <1>1, <2>1
  <2>2. CASE Executing /\ Envelope \in Actions /\ wire' = wire \union {Envelope}
    BY <1>1, <2>2, EnvelopePermitted DEF ExecutionInv
  <2> QED
    BY <2>1, <2>2 DEF Crash, Restart
<1> QED
  BY <1>1, <1>2, <1>3, <1>4, FinishKeeps

\* Taking a message and consuming the authorization.
LEMMA TakingKeeps == ASSUME ExecutionInv, TakeMessage \/ Consume PROVE ExecutionInv'
<1> USE DEF gatewayVars, victimVars
<1>1. TypeOK /\ wire \in SUBSET Actions /\ faults \in 0..MaxFaults
  BY DEF ExecutionInv, TypeOK
<1>2. faults' \in 0..MaxFaults
  BY <1>1, FaultBound DEF TakeMessage, Consume
<1>3. status' = status \/ (status # "PENDING" /\ status' = "CONSUMED")
  BY <1>1, ConsumableStatus DEF TakeMessage, Consume
<1>4. CASE Consume /\ Finish
  <2>1. UNCHANGED <<plan, incident, expired, messages, sealed, effects, wire>> /\ pc # "poll"
    BY <1>4 DEF Consume
  <2> QED
    BY <1>1, <1>2, <1>3, <1>4, <2>1, FinishKeeps
<1>5. CASE ~(Consume /\ Finish)
  <2>1. /\ UNCHANGED <<plan, incident, expired, messages, sealed, effects, wire, offset, results>>
        /\ pc' \in {"consume", "execute"}
        /\ offset < messages
        /\ pc' = "execute" => status' = "CONSUMED"
    BY <1>1, <1>5 DEF TakeMessage, Consume, TypeOK
  <2>2. TypeOK'
    <3>1. expired' \in BOOLEAN
      BY <1>1, <2>1, Zenon DEF TypeOK
    <3> QED
      BY <1>1, <1>2, <1>3, <2>1, <3>1 DEF TypeOK
  <2> USE DEF ExecutionInv
  <2>3. RowsAgree' /\ EffectsOnce' /\ ConsumedFirst' /\ ExecutedInFull'
    BY <1>1, <1>3, <2>1, PermittedFixed
       DEF TypeOK, RowsAgree, EffectsOnce, ConsumedFirst, ExecutedInFull, NoRepetition
  <2>4. NoEffectUnauthorized'
    BY <1>3, <2>1, PermittedFixed DEF NoEffectUnauthorized
  <2>5. AppliedIsEffect' /\ AppliedOnce' /\ ConfirmsAll'
    BY <2>1 DEF AppliedIsEffect, AppliedOnce, ConfirmsAll
  <2> QED
    BY <2>2, <2>3, <2>4, <2>5
<1> QED
  BY <1>4, <1>5

\* What executing one envelope, in hand or late, does to the victim's table.
LEMMA VictimKeeps ==
  ASSUME ExecutionInv, status = "CONSUMED", incident # "PLANNED",
         effects' = effects \/ \E a \in Actions \intersect Permitted : effects' = ApplyOnce(a),
         wire' \subseteq wire \union Permitted,
         UNCHANGED <<plan, incident, status>>
  PROVE  /\ effects' \in [Actions -> Nat]
         /\ EffectsOnce' /\ NoEffectUnauthorized' /\ ExecutedInFull'
         /\ \A a \in Actions : effects[a] = 1 => effects'[a] = 1
<1> USE DEF ExecutionInv
<1>1. \A a \in Actions : effects[a] = 0 \/ effects[a] = 1
  BY DEF EffectsOnce, TypeOK
<1>2. /\ effects' \in [Actions -> Nat]
      /\ \A a \in Actions : effects'[a] = effects[a] \/ (effects'[a] = 1 /\ a \in Permitted)
  <2>1. CASE effects' = effects
    BY <2>1 DEF TypeOK
  <2>2. CASE \E a \in Actions \intersect Permitted : effects' = ApplyOnce(a)
    <3>1. PICK a \in Actions \intersect Permitted : effects' = ApplyOnce(a)
      BY <2>2
    <3> QED
      BY <3>1, ApplyOnceSets DEF TypeOK
  <2> QED
    BY <2>1, <2>2
<1>3. EffectsOnce'
  BY <1>1, <1>2 DEF EffectsOnce
<1>4. Permitted' = Permitted /\ Planned' = Planned /\ Planned \subseteq Actions
  BY PermittedFixed, PlanIndices DEF TypeOK
<1>5. NoEffectUnauthorized'
  BY <1>2, <1>4 DEF NoEffectUnauthorized
<1>6. ExecutedInFull'
  BY <1>2, <1>4 DEF ExecutedInFull, NoRepetition
<1>7. \A a \in Actions : effects[a] = 1 => effects'[a] = 1
  BY <1>2
<1> QED
  BY <1>2, <1>3, <1>5, <1>6, <1>7

\* One more outcome: "applied" only for an envelope that took effect and is new.
LEMMA RecordingKeeps ==
  ASSUME ExecutionInv, RefuseDuplicate \/ Execute \/ ExecuteFails PROVE ExecutionInv'
<1> DEFINE n == Len(results) + 1
<1> USE DEF ExecutionInv, gatewayVars, victimVars
<1>1. PICK r \in {"applied", "failed", "duplicate"} :
        /\ results' = Append(results, r)
        /\ r = "applied" => Execute
  BY DEF RefuseDuplicate, Execute, ExecuteFails, UnknownOutcome
<1>2. Executing /\ status = "CONSUMED" /\ incident # "PLANNED" /\ pc = "execute"
  BY EnvelopePermitted DEF RefuseDuplicate, Execute, ExecuteFails, Executing
<1>3. /\ UNCHANGED <<plan, incident, status, expired, messages, sealed, pc, offset>>
      /\ effects' = effects \/ \E a \in Actions \intersect Permitted : effects' = ApplyOnce(a)
      /\ wire' \in SUBSET Actions /\ wire' \subseteq wire \union Permitted
      /\ faults' \in 0..MaxFaults
  <2>1. TypeOK /\ (Envelope \in Actions => Envelope \in Permitted)
    BY <1>2, EnvelopePermitted
  <2>2. CASE RefuseDuplicate
    BY <2>1, <2>2 DEF RefuseDuplicate, TypeOK
  <2>3. CASE Execute
    BY <2>1, <2>3 DEF Execute, TypeOK
  <2>4. CASE ExecuteFails
    <3>1. faults' \in 0..MaxFaults
      BY <2>4, FaultBound DEF ExecuteFails
    <3> QED
      BY <2>1, <2>4, <3>1 DEF ExecuteFails, TypeOK
  <2> QED
    BY <2>2, <2>3, <2>4
<1>4. /\ effects' \in [Actions -> Nat]
      /\ EffectsOnce' /\ NoEffectUnauthorized' /\ ExecutedInFull'
      /\ \A a \in Actions : effects[a] = 1 => effects'[a] = 1
  BY <1>2, <1>3, VictimKeeps
<1>5. /\ results' \in Seq({"applied", "failed", "duplicate"})
      /\ Len(results') = n /\ n <= Len(plan)
      /\ results'[n] = r
      /\ \A i \in DOMAIN results : results'[i] = results[i]
      /\ DOMAIN results' = DOMAIN results \union {n} /\ n \notin DOMAIN results
  BY <1>1, <1>2, AppendedResult
<1>6. TypeOK'
  <2>1. expired' \in BOOLEAN
    BY <1>3, Zenon DEF TypeOK
  <2> QED
    BY <1>2, <1>3, <1>4, <1>5, <2>1 DEF TypeOK
<1>7. RowsAgree' /\ ConsumedFirst' /\ ConfirmsAll'
  BY <1>2, <1>3 DEF RowsAgree, ConsumedFirst, ConfirmsAll
<1>8. AppliedIsEffect'
  <2>1. r = "applied" /\ plan[n] \in Actions => effects'[plan[n]] = 1
    BY <1>1, ApplyOnceSets DEF Execute, Envelope, TypeOK
  <2>2. SUFFICES ASSUME NEW i \in DOMAIN results', results'[i] = "applied", plan[i] \in Actions
                 PROVE  effects'[plan[i]] = 1
    BY <1>3 DEF AppliedIsEffect
  <2>3. CASE i = n
    BY <1>5, <2>1, <2>2, <2>3
  <2>4. CASE i \in DOMAIN results
    BY <1>4, <1>5, <2>2, <2>4 DEF AppliedIsEffect
  <2> QED
    BY <1>5, <2>3, <2>4
<1>9. AppliedOnce'
  <2>1. \A i \in DOMAIN results : results[i] = "applied" /\ r = "applied" => plan[i] # plan[n]
    BY <1>1 DEF Execute, AlreadyTaken, Envelope
  <2> QED
    BY <1>3, <1>5, <2>1 DEF AppliedOnce
<1> QED
  BY <1>4, <1>6, <1>7, <1>8, <1>9

\* A request that nobody waits for any more arrives.
LEMMA LateArrivalKeeps ==
  ASSUME ExecutionInv, NEW a \in Actions, LateArrival(a) PROVE ExecutionInv'
<1> USE DEF ExecutionInv, LateArrival, gatewayVars, operatorVars
<1>1. status = "CONSUMED" /\ incident # "PLANNED" /\ a \in Actions \intersect Permitted
  BY DEF NoEffectUnauthorized, Permitted
<1>2. /\ effects' \in [Actions -> Nat]
      /\ EffectsOnce' /\ NoEffectUnauthorized' /\ ExecutedInFull'
      /\ \A b \in Actions : effects[b] = 1 => effects'[b] = 1
  BY <1>1, VictimKeeps
<1>3. TypeOK'
  <2>1. expired' \in BOOLEAN
    BY Zenon DEF TypeOK
  <2> QED
    BY <1>2, <2>1 DEF TypeOK
<1>4. RowsAgree' /\ ConsumedFirst' /\ ConfirmsAll' /\ AppliedOnce'
  BY DEF RowsAgree, ConsumedFirst, ConfirmsAll, AllApplied, AppliedOnce
<1>5. AppliedIsEffect'
  BY <1>2 DEF AppliedIsEffect
<1> QED
  BY <1>2, <1>3, <1>4, <1>5

\* The receipt is sealed, with every envelope recorded as applied.
LEMMA PreparingKeeps == ASSUME ExecutionInv, PrepareReceipt PROVE ExecutionInv'
<1> USE DEF ExecutionInv, PrepareReceipt, victimVars
<1>1. TypeOK'
  <2>1. expired' \in BOOLEAN
    BY Zenon DEF TypeOK
  <2>2. Current \in 1..messages
    BY DEF Current, TypeOK, Executed
  <2> QED
    BY <2>1, <2>2 DEF TypeOK, Executed
<1>2. RowsAgree' /\ EffectsOnce' /\ ConsumedFirst' /\ NoEffectUnauthorized' /\ ExecutedInFull'
  BY PermittedFixed
     DEF RowsAgree, EffectsOnce, ConsumedFirst, NoEffectUnauthorized, ExecutedInFull,
         NoRepetition, Executed
<1>3. AppliedIsEffect' /\ AppliedOnce' /\ ConfirmsAll'
  BY DEF AppliedIsEffect, AppliedOnce, ConfirmsAll, AllApplied, Executed
<1> QED
  BY <1>1, <1>2, <1>3

\* A receipt under way speaks of every envelope of a plan without repetition.
LEMMA ReceiptInFull ==
  ASSUME ExecutionInv, pc = "confirm"
  PROVE  NoRepetition /\ \A a \in Planned : effects[a] = 1
<1> USE DEF ExecutionInv
<1>1. DOMAIN results = DOMAIN plan /\ AllApplied
  BY PlanIndices DEF ConfirmsAll, TypeOK
<1>2. NoRepetition
  BY <1>1 DEF NoRepetition, AppliedOnce, AllApplied
<1>3. \A a \in Planned : effects[a] = 1
  BY <1>1, PlanIndices DEF AppliedIsEffect, AllApplied, TypeOK
<1> QED
  BY <1>2, <1>3

LEMMA ConfirmingKeeps == ASSUME ExecutionInv, ConfirmReceipt PROVE ExecutionInv'
<1> USE DEF ExecutionInv, ConfirmReceipt, victimVars, Finish
<1>1. TypeOK'
  <2>1. expired' \in BOOLEAN
    BY Zenon DEF TypeOK
  <2>2. results' \in Seq({"applied", "failed", "duplicate"}) /\ Len(results') <= Len(plan)
    <3>1. results' = <<>> /\ plan \in Plans
      BY DEF TypeOK
    <3> QED
      BY <3>1, PlanIndices
  <2> QED
    BY <2>1, <2>2 DEF TypeOK
<1>2. status = "CONSUMED" /\ incident # "PLANNED"
  BY DEF ConsumedFirst, RowsAgree
<1>3. RowsAgree' /\ EffectsOnce' /\ ConsumedFirst' /\ NoEffectUnauthorized'
  <2>1. Permitted' = Permitted
    BY <1>2 DEF Permitted, Planned, EnvelopesOf
  <2> QED
    BY <1>2, <2>1 DEF RowsAgree, EffectsOnce, ConsumedFirst, NoEffectUnauthorized
<1>4. AppliedIsEffect' /\ AppliedOnce' /\ ConfirmsAll'
  BY DEF AppliedIsEffect, AppliedOnce, ConfirmsAll
<1>5. ExecutedInFull'
  BY ReceiptInFull DEF ExecutedInFull, NoRepetition, Planned, EnvelopesOf
<1> QED
  BY <1>1, <1>3, <1>4, <1>5

LEMMA StepKeeps == ASSUME ExecutionInv, [Next]_vars PROVE ExecutionInv'
<1>1. CASE PublishAuthorization \/ PostThenCrash \/ Expire
  BY <1>1, GatewayKeeps
<1>2. CASE OperatorStep
  BY <1>2, GivingUpKeeps, TakingKeeps, RecordingKeeps, PreparingKeeps, ConfirmingKeeps
     DEF OperatorStep
<1>3. CASE \E a \in Actions : LateArrival(a)
  BY <1>3, LateArrivalKeeps
<1>4. CASE Crash \/ Restart
  BY <1>4, RestartKeeps
<1>5. CASE UNCHANGED vars
  <2> USE <1>5 DEF ExecutionInv, vars, gatewayVars, victimVars, operatorVars
  <2>1. TypeOK'
    <3>1. expired' \in BOOLEAN
      BY Zenon DEF TypeOK
    <3> QED
      BY <3>1 DEF TypeOK
  <2>2. RowsAgree' /\ EffectsOnce' /\ ConsumedFirst' /\ NoEffectUnauthorized' /\ ExecutedInFull'
    BY PermittedFixed
       DEF RowsAgree, EffectsOnce, ConsumedFirst, NoEffectUnauthorized, ExecutedInFull, NoRepetition
  <2>3. AppliedIsEffect' /\ AppliedOnce' /\ ConfirmsAll'
    BY DEF AppliedIsEffect, AppliedOnce, ConfirmsAll, AllApplied
  <2> QED
    BY <2>1, <2>2, <2>3
<1> QED
  BY <1>1, <1>2, <1>3, <1>4, <1>5 DEF Next

-------------------------------------------------------------------------------
\* In every reachable state the rows agree and what is recorded has happened.
THEOREM ExecutionInvariance == Spec => []ExecutionInv
<1>1. Init => ExecutionInv
  BY InitInv
<1>2. ExecutionInv /\ [Next]_vars => ExecutionInv'
  BY StepKeeps
<1> QED
  BY <1>1, <1>2, PTL DEF Spec

\* The type invariant.
THEOREM ExecutionTypes == Spec => []TypeOK
<1>1. ExecutionInv => TypeOK
  BY DEF ExecutionInv
<1> QED
  BY <1>1, ExecutionInvariance, PTL

\* Nothing happens to the production system without a consumed authorization, and only
\* what the authorization is for, for every plan and any number of deliveries, crashes
\* and timeouts.
THEOREM EffectsAreAuthorized == Spec => []NoEffectUnauthorized
<1>1. ExecutionInv => NoEffectUnauthorized
  BY DEF ExecutionInv
<1> QED
  BY <1>1, ExecutionInvariance, PTL

\* Nothing happens to it twice.
THEOREM EffectsComeOnce == Spec => []EffectsOnce
<1>1. ExecutionInv => EffectsOnce
  BY DEF ExecutionInv
<1> QED
  BY <1>1, ExecutionInvariance, PTL

\* A confirmed receipt is the truth: each action took effect as often as approved.
THEOREM ReceiptsAreExact == Spec => []ReceiptIsExact
<1>1. ASSUME ExecutionInv PROVE ReceiptIsExact
  <2>1. SUFFICES ASSUME incident = "EXECUTED", NEW a \in Actions
                 PROVE  effects[a] = Cardinality({i \in DOMAIN plan : plan[i] = a})
    BY DEF ReceiptIsExact
  <2>2. CASE a \in Planned
    <3>1. NoRepetition /\ effects[a] = 1
      BY <1>1, <2>1, <2>2 DEF ExecutionInv, ExecutedInFull
    <3>2. PICK j \in DOMAIN plan : plan[j] = a
      BY <1>1, <2>2, PlanIndices DEF ExecutionInv, TypeOK
    <3>3. {i \in DOMAIN plan : plan[i] = a} = {j}
      BY <3>1, <3>2 DEF NoRepetition
    <3> QED
      BY <3>1, <3>3, FS_Singleton
  <2>3. CASE a \notin Planned
    <3>1. effects[a] = 0
      BY <1>1, <2>3 DEF ExecutionInv, NoEffectUnauthorized, Permitted
    <3>2. {i \in DOMAIN plan : plan[i] = a} = {}
      BY <1>1, <2>3, PlanIndices DEF ExecutionInv, TypeOK
    <3> QED
      BY <3>1, <3>2, FS_EmptySet
  <2> QED
    BY <2>2, <2>3
<1> QED
  BY <1>1, ExecutionInvariance, PTL

-------------------------------------------------------------------------------
(* The refinement.                                                             *)

LEMMA AbstractInit == Init => Abstract!RemediationInit
<1> SUFFICES ASSUME Init PROVE Abstract!RemediationInit
  OBVIOUS
<1>1. Planned \subseteq Actions
  BY PlanIndices DEF Init
<1> QED
  BY <1>1 DEF Init, Abstract!RemediationInit, Phase

\* Executing an envelope, in hand or late, is Apply or changes nothing.
LEMMA ApplyStep ==
  ASSUME ExecutionInv, UNCHANGED <<plan, incident>>,
         effects' = effects \/ \E a \in Actions \intersect Permitted : effects' = ApplyOnce(a)
  PROVE  [Abstract!RemediationNext]_(Abstract!remediationVars)
<1>1. Planned' = Planned /\ Phase' = Phase
  BY DEF Planned, EnvelopesOf, Phase
<1>2. CASE effects' = effects
  BY <1>1, <1>2 DEF Abstract!remediationVars
<1>3. CASE effects' # effects
  <2>1. PICK a \in Actions \intersect Permitted : effects' = ApplyOnce(a)
    BY <1>3
  <2>2. effects[a] = 0 /\ effects' = [effects EXCEPT ![a] = 1]
    BY <1>3, <2>1 DEF ApplyOnce
  <2>3. a \in Planned /\ incident \in {"AUTHORIZED", "EXECUTED"}
    BY <2>1 DEF Permitted, ExecutionInv, TypeOK
  <2>4. incident = "AUTHORIZED"
    BY <2>2, <2>3 DEF ExecutionInv, ExecutedInFull
  <2>5. Abstract!Apply(a)
    BY <1>1, <2>2, <2>3, <2>4 DEF Abstract!Apply, Phase
  <2> QED
    BY <2>5 DEF Abstract!RemediationNext
<1> QED
  BY <1>2, <1>3

LEMMA AbstractStep ==
  ASSUME ExecutionInv, [Next]_vars
  PROVE  [Abstract!RemediationNext]_(Abstract!remediationVars)
<1> USE DEF gatewayVars, victimVars, operatorVars
<1>0. UNCHANGED plan => Planned' = Planned
  BY DEF Planned, EnvelopesOf
<1>1. CASE PublishAuthorization
  <2>1. incident = "PLANNED"
    BY <1>1 DEF PublishAuthorization, ExecutionInv, RowsAgree
  <2>2. Abstract!Grant
    BY <1>0, <1>1, <2>1 DEF PublishAuthorization, Abstract!Grant, Phase
  <2> QED
    BY <2>2 DEF Abstract!RemediationNext
<1>2. CASE ConfirmReceipt
  <2>1. \A a \in Planned : effects[a] = 1
    BY <1>2, ReceiptInFull DEF ConfirmReceipt
  <2>2. incident \in {"AUTHORIZED", "EXECUTED"}
    BY <1>2 DEF ConfirmReceipt, ExecutionInv, TypeOK, ConsumedFirst, RowsAgree
  <2>3. CASE incident = "AUTHORIZED"
    <3>1. Abstract!Close
      BY <1>0, <1>2, <2>1, <2>3 DEF ConfirmReceipt, Abstract!Close, Phase
    <3> QED
      BY <3>1 DEF Abstract!RemediationNext
  <2>4. CASE incident = "EXECUTED"
    BY <1>0, <1>2, <2>4 DEF ConfirmReceipt, Abstract!remediationVars, Phase
  <2> QED
    BY <2>2, <2>3, <2>4
<1>3. CASE Execute \/ ExecuteFails \/ \E a \in Actions : LateArrival(a)
  <2>1. CASE Execute \/ ExecuteFails
    <3>1. Envelope \in Actions => Envelope \in Permitted
      BY <2>1, EnvelopePermitted DEF Execute, ExecuteFails
    <3> QED
      BY <2>1, <3>1, ApplyStep DEF Execute, ExecuteFails
  <2>2. CASE \E a \in Actions : LateArrival(a)
    <3>1. wire \subseteq Permitted
      BY DEF ExecutionInv, NoEffectUnauthorized
    <3> QED
      BY <2>2, <3>1, ApplyStep DEF LateArrival
  <2> QED
    BY <1>3, <2>1, <2>2
<1>4. CASE \/ PostThenCrash \/ Expire \/ Crash \/ Restart \/ UNCHANGED vars
          \/ SkipCompleted \/ TakeMessage \/ Consume \/ ConsumeRefused \/ ConsumeLost
          \/ RefuseDuplicate \/ RefuseReceipt \/ PrepareReceipt \/ PrepareRefused
          \/ SubmissionFails
  <2>1. UNCHANGED <<plan, incident, effects>>
    BY <1>4 DEF PostThenCrash, Expire, Crash, Restart, vars, SkipCompleted, TakeMessage, Consume,
                ConsumeRefused, ConsumeLost, RefuseDuplicate, RefuseReceipt, PrepareReceipt,
                PrepareRefused, SubmissionFails
  <2> QED
    BY <1>0, <2>1 DEF Abstract!remediationVars, Phase
<1> QED
  BY <1>1, <1>2, <1>3, <1>4 DEF Next, OperatorStep

\* The Operator implements the remediation: with any number of messages, crashes, lost
\* and late requests, what it does to production is grant, apply once, and close.
THEOREM RefinesRemediation == Spec => ImplementsRemediation
<1>1. Init => Abstract!RemediationInit
  BY AbstractInit
<1>2. ExecutionInv /\ [Next]_vars => [Abstract!RemediationNext]_(Abstract!remediationVars)
  BY AbstractStep
<1> QED
  BY <1>1, <1>2, ExecutionInvariance, PTL DEF Spec, ImplementsRemediation, Abstract!RemediationSpec
===============================================================================
