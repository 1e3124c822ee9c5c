--------------------------- MODULE SuppressionProofs ---------------------------
(***************************************************************************)
(* Proofs about Suppression, for any number of incidents and faults and    *)
(* any bound of a rule: a suppression that was charged to the rule is in   *)
(* its count, and no critical alert is suppressed.                         *)
(*                                                                         *)
(* The argument: an incident joins "charged" in the same step that adds to *)
(* the count, and the count never goes down; what Triage decides about a   *)
(* critical alert is "route" from the moment it takes the alert, and every *)
(* other change of the decision is to "route".                             *)
(***************************************************************************)
EXTENDS Suppression, FiniteSetTheorems, TLAPS

USE SuppressionAssumption

\* The charges keep within the count when neither moves, or the count alone goes up.
LEMMA ChargesKept ==
  ASSUME SuppressInv, TypeOK', charged' = charged, count <= count'
  PROVE  ChargesAreCounted' /\ IsFiniteSet(charged)'
<1>1. Cardinality(charged) \in Nat
  BY FS_CardinalityType DEF SuppressInv
<1>2. count \in Nat /\ count' \in Nat
  BY DEF SuppressInv, TypeOK
<1> QED
  BY <1>1, <1>2 DEF SuppressInv, ChargesAreCounted

\* A step that leaves the decisions alone, sealed or in hand, keeps what is said of them.
LEMMA DecisionsKept ==
  ASSUME SuppressInv, UNCHANGED sealed,
         \A i \in Critical : state'[i] = "SUPPRESSED" => state[i] = "SUPPRESSED",
         \/ UNCHANGED <<job, decision>>
         \/ decision' = "route"
  PROVE  CriticalIsRouted' /\ InHandIsGuarded'
BY DEF SuppressInv, CriticalIsRouted, InHandIsGuarded

\* Whatever Triage has in hand beyond its polling is a message of the rooms.
LEMMA MessageInHand ==
  ASSUME SuppressInv, pc # "poll"
  PROVE  job \in Incidents /\ InHand \in Messages
BY DEF SuppressInv, TypeOK

\* It is the same message as long as neither the incident nor what was heard changes, and
\* none when Triage is back at its polling.
LEMMA InHandKept ==
  ASSUME SuppressInv, UNCHANGED <<job, heard>> \/ job' = NoIncident
  PROVE  job' \in Incidents => InHand' \in Messages
BY DEF SuppressInv, TypeOK, InHand, Messages

\* A charged suppression is counted in the same step.
LEMMA IncrementKeeps ==
  ASSUME SuppressInv, Increment
  PROVE  SuppressInv'
<1>1. /\ pc = "increment" /\ rule /\ count < MaxSuppressions
      /\ count' = count + 1 /\ charged' = charged \union {InHand} /\ pc' = "submit"
      /\ UNCHANGED <<state, rule, wire, job, decision, heard, sealed, silenced, faults>>
  BY DEF Increment, IncrementAccepted
<1>2. TypeOK'
  BY <1>1, MessageInHand, InHandKept DEF SuppressInv, TypeOK
<1>3. IsFiniteSet(charged') /\ Cardinality(charged') <= Cardinality(charged) + 1
      /\ Cardinality(charged) \in Nat /\ Cardinality(charged') \in Nat
  <2>1. IsFiniteSet(charged)
    BY DEF SuppressInv
  <2>2. Cardinality(charged) \in Nat
    BY <2>1, FS_CardinalityType
  <2>3. /\ IsFiniteSet(charged \union {InHand})
        /\ Cardinality(charged \union {InHand})
             \in {Cardinality(charged), Cardinality(charged) + 1}
    BY <2>1, FS_AddElement
  <2> QED
    BY <1>1, <2>2, <2>3
<1>4. ChargesAreCounted'
  <2>1. count \in Nat /\ Cardinality(charged) <= count
    BY DEF SuppressInv, TypeOK, ChargesAreCounted
  <2> QED
    BY <1>1, <1>3, <2>1 DEF ChargesAreCounted
<1>5. CriticalIsRouted' /\ InHandIsGuarded'
  BY <1>1, DecisionsKept DEF SuppressInv
<1> QED
  BY <1>1, <1>2, <1>3, <1>4, <1>5 DEF SuppressInv

\* The Gateway's steps.
LEMMA GatewayKeeps ==
  ASSUME SuppressInv, LateIncrement \/ \E i \in Incidents : DismissAsFalseAlarm(i)
  PROVE  SuppressInv'
<1>1. CASE LateIncrement
  <2>1. /\ wire' = wire - 1 /\ wire > 0 /\ count' \in {count, count + 1}
        /\ count' <= MaxSuppressions /\ count <= count'
        /\ UNCHANGED <<state, rule, triageVars, sealed, ghosts, faults>>
    BY <1>1 DEF LateIncrement, IncrementAccepted, SuppressInv, TypeOK
  <2>2. TypeOK'
    BY <2>1, InHandKept DEF SuppressInv, TypeOK, triageVars, ghosts
  <2>3. wire' <= faults'
    BY <2>1 DEF SuppressInv, TypeOK
  <2> QED
    BY <2>1, <2>2, <2>3, ChargesKept, DecisionsKept DEF SuppressInv, triageVars, ghosts
<1>2. ASSUME NEW i \in Incidents, DismissAsFalseAlarm(i) PROVE SuppressInv'
  <2>1. /\ state' = [state EXCEPT ![i] = "CLOSED_FALSE_ALARM"] /\ rule' = TRUE
        /\ UNCHANGED <<count, wire, triageVars, sealed, ghosts, faults>>
    BY <1>2 DEF DismissAsFalseAlarm
  <2>2. TypeOK'
    BY <2>1, InHandKept DEF SuppressInv, TypeOK, triageVars, ghosts
  <2>3. count <= count' /\ wire' <= faults'
    BY <2>1 DEF SuppressInv, TypeOK
  <2>4. \A j \in Critical : state'[j] = "SUPPRESSED" => state[j] = "SUPPRESSED"
    BY <2>1 DEF SuppressInv, TypeOK
  <2> QED
    BY <2>1, <2>2, <2>3, <2>4, ChargesKept, DecisionsKept DEF SuppressInv, triageVars, ghosts
<1> QED
  BY <1>1, <1>2

\* Triage takes an alert, or passes over it, and looks up the rule.
LEMMA DecidingKeeps ==
  ASSUME SuppressInv,
         \/ LookUpRule \/ LookUpRefused \/ LookUpFails
         \/ IncrementRefused \/ IncrementUnanswered
         \/ \E i \in Incidents : PassOver(i) \/ TakeAlert(i)
  PROVE  SuppressInv'
<1>1. ASSUME NEW i \in Incidents, TakeAlert(i) PROVE SuppressInv'
  <2>1. /\ heard[i] < Copies /\ heard' = [heard EXCEPT ![i] = @ + 1] /\ job' = i
        /\ decision' \in {"route", "suppress"}
        /\ i \in Critical => decision' = "route"
        /\ pc' \in {"lookup", "submit"}
        /\ faults' \in 0..MaxFaults /\ faults <= faults'
        /\ UNCHANGED <<state, ruleVars, sealed, ghosts>>
    BY <1>1 DEF TakeAlert, Hear, Guarded, Fault, SuppressInv, TypeOK
  <2>2. heard' \in [Incidents -> 0..Copies] /\ heard'[i] \in 1..Copies
    BY <2>1 DEF SuppressInv, TypeOK
  <2>3. TypeOK'
    BY <2>1, <2>2 DEF SuppressInv, TypeOK, ruleVars, ghosts, InHand, Messages
  <2>4. CriticalIsRouted' /\ InHandIsGuarded'
    BY <2>1 DEF SuppressInv, CriticalIsRouted, InHandIsGuarded
  <2>5. count <= count' /\ wire' <= faults'
    BY <2>1 DEF SuppressInv, TypeOK, ruleVars
  <2> QED
    BY <2>1, <2>3, <2>4, <2>5, ChargesKept DEF SuppressInv, ghosts
<1>2. ASSUME NEW i \in Incidents, PassOver(i) PROVE SuppressInv'
  <2>1. /\ pc = "poll" /\ heard[i] < Copies /\ heard' = [heard EXCEPT ![i] = @ + 1]
        /\ UNCHANGED <<state, ruleVars, job, pc, decision, sealed, ghosts, faults>>
    BY <1>2 DEF PassOver, Hear
  <2>2. heard' \in [Incidents -> 0..Copies] /\ job' = NoIncident
    BY <2>1 DEF SuppressInv, TypeOK
  <2>3. TypeOK'
    BY <2>1, <2>2, InHandKept DEF SuppressInv, TypeOK, ruleVars, ghosts
  <2>4. count <= count' /\ wire' <= faults'
    BY <2>1 DEF SuppressInv, TypeOK, ruleVars
  <2> QED
    BY <2>1, <2>3, <2>4, ChargesKept, DecisionsKept DEF SuppressInv, ghosts
<1>3. CASE LookUpRule \/ LookUpRefused
  <2>1. /\ pc = "lookup" /\ pc' \in {"increment", "submit"}
        /\ faults' \in 0..MaxFaults /\ faults <= faults'
        /\ UNCHANGED <<state, ruleVars, job, decision, heard, sealed, ghosts>>
    BY <1>3 DEF LookUpRule, LookUpRefused, Fault, SuppressInv, TypeOK
  <2>2. TypeOK'
    BY <2>1, InHandKept DEF SuppressInv, TypeOK, ruleVars, ghosts
  <2>3. count <= count' /\ wire' <= faults'
    BY <2>1 DEF SuppressInv, TypeOK, ruleVars
  <2> QED
    BY <2>1, <2>2, <2>3, ChargesKept, DecisionsKept DEF SuppressInv, ghosts
<1>4. CASE LookUpFails \/ IncrementRefused \/ IncrementUnanswered
  <2>1. /\ pc \in {"lookup", "increment"} /\ pc' = "submit" /\ decision' = "route"
        /\ count' \in {count, count + 1} /\ count' <= MaxSuppressions
        /\ faults' \in 0..MaxFaults /\ faults <= faults'
        /\ UNCHANGED <<state, rule, wire, job, heard, sealed, ghosts>>
    BY <1>4 DEF LookUpFails, IncrementRefused, IncrementUnanswered, IncrementAccepted,
                RouteInstead, RouteUnanswered, Fault, SuppressInv, TypeOK, ruleVars, ghosts
  <2>2. TypeOK'
    BY <2>1, InHandKept DEF SuppressInv, TypeOK, ghosts
  <2>3. count <= count' /\ wire' <= faults'
    BY <2>1 DEF SuppressInv, TypeOK
  <2> QED
    BY <2>1, <2>2, <2>3, ChargesKept, DecisionsKept DEF SuppressInv, ghosts
<1> QED
  BY <1>1, <1>2, <1>3, <1>4

\* What Triage seals for the message in hand went through its guards.
LEMMA SealedGuarded ==
  ASSUME SuppressInv, pc = "submit",
         sealed' \in {sealed, [sealed EXCEPT ![InHand] = decision]}
  PROVE  \A i \in Critical : \A k \in 1..Copies : sealed'[<<i, k>>] # "suppress"
<1> SUFFICES ASSUME NEW i \in Critical, NEW k \in 1..Copies
             PROVE  sealed'[<<i, k>>] # "suppress"
  OBVIOUS
<1>1. <<i, k>> \in Messages /\ sealed[<<i, k>>] # "suppress"
  BY DEF SuppressInv, CriticalIsRouted, Messages
<1>2. <<i, k>> = InHand => job \in Critical
  BY DEF InHand
<1>3. sealed'[<<i, k>>] \in {sealed[<<i, k>>], IF <<i, k>> = InHand THEN decision ELSE sealed[<<i, k>>]}
  BY <1>1 DEF SuppressInv, TypeOK
<1> QED
  BY <1>1, <1>2, <1>3 DEF SuppressInv, InHandIsGuarded

\* Triage submits what it has decided, or starts again.
LEMMA SubmittingKeeps ==
  ASSUME SuppressInv, SubmitDecision \/ SubmitRefused \/ SubmitFails \/ Restart
  PROVE  SuppressInv'
<1>0. /\ job' = NoIncident /\ pc' = "poll" /\ decision' = "route"
      /\ UNCHANGED <<rule, count, charged>> /\ NoIncident \notin Critical
  BY DEF SubmitDecision, SubmitRefused, SubmitFails, Restart, Finish, ruleVars, ghosts
<1>1. CASE SubmitDecision
  <2>1. /\ pc = "submit"
        /\ sealed' = [sealed EXCEPT ![InHand] = decision]
        /\ state' = [state EXCEPT ![job] = IF decision = "suppress" THEN "SUPPRESSED"
                                                                     ELSE "TRIAGED"]
        /\ silenced' \in {silenced, silenced \union {job}}
        /\ UNCHANGED <<wire, heard, faults>>
    BY <1>1 DEF SubmitDecision, ruleVars
  <2>2. job \in Incidents /\ InHand \in Messages
    BY <2>1, MessageInHand
  <2>3. TypeOK'
    BY <1>0, <2>1, <2>2, InHandKept DEF SuppressInv, TypeOK
  <2>4. CriticalIsRouted' /\ InHandIsGuarded'
    <3>1. \A i \in Critical : state'[i] # "SUPPRESSED"
      BY <2>1, <2>2 DEF SuppressInv, TypeOK, CriticalIsRouted, InHandIsGuarded
    <3>2. \A i \in Critical : \A k \in 1..Copies : sealed'[<<i, k>>] # "suppress"
      BY <2>1, SealedGuarded
    <3> QED
      BY <1>0, <3>1, <3>2 DEF CriticalIsRouted, InHandIsGuarded
  <2>5. count <= count' /\ wire' <= faults'
    BY <1>0, <2>1 DEF SuppressInv, TypeOK
  <2> QED
    BY <1>0, <2>3, <2>4, <2>5, ChargesKept DEF SuppressInv
<1>2. CASE SubmitRefused \/ SubmitFails
  <2>1. /\ sealed' \in {sealed, [sealed EXCEPT ![InHand] = decision]}
        /\ pc = "submit"
        /\ faults' \in 0..MaxFaults /\ faults <= faults'
        /\ UNCHANGED <<state, wire, heard, silenced>>
    BY <1>2 DEF SubmitRefused, SubmitFails, Fault, SuppressInv, TypeOK, ruleVars, ghosts
  <2>2. job \in Incidents /\ InHand \in Messages
    BY <2>1, MessageInHand
  <2>3. TypeOK'
    BY <1>0, <2>1, <2>2, InHandKept DEF SuppressInv, TypeOK
  <2>4. CriticalIsRouted' /\ InHandIsGuarded'
    BY <1>0, <2>1, SealedGuarded DEF SuppressInv, CriticalIsRouted, InHandIsGuarded
  <2>5. count <= count' /\ wire' <= faults'
    BY <1>0, <2>1 DEF SuppressInv, TypeOK
  <2> QED
    BY <1>0, <2>3, <2>4, <2>5, ChargesKept DEF SuppressInv
<1>3. CASE Restart
  <2>1. /\ faults < MaxFaults /\ faults' = faults + 1 /\ heard' = [i \in Incidents |-> 0]
        /\ wire' \in {wire, wire + 1}
        /\ UNCHANGED <<state, sealed, ghosts>>
    BY <1>3 DEF Restart, Fault
  <2>2. TypeOK' /\ wire' <= faults' /\ count <= count'
    BY <1>0, <2>1, InHandKept DEF SuppressInv, TypeOK, ghosts
  <2> QED
    BY <1>0, <2>1, <2>2, ChargesKept, DecisionsKept DEF SuppressInv, ghosts
<1> QED
  BY <1>1, <1>2, <1>3

LEMMA SuppressStep == SuppressInv /\ [Next]_vars => SuppressInv'
<1> SUFFICES ASSUME SuppressInv, [Next]_vars PROVE SuppressInv'
  OBVIOUS
<1>1. CASE Increment
  BY <1>1, IncrementKeeps
<1>2. CASE LateIncrement \/ \E i \in Incidents : DismissAsFalseAlarm(i)
  BY <1>2, GatewayKeeps
<1>3. CASE \/ LookUpRule \/ LookUpRefused \/ LookUpFails
           \/ IncrementRefused \/ IncrementUnanswered
           \/ \E i \in Incidents : PassOver(i) \/ TakeAlert(i)
  BY <1>3, DecidingKeeps
<1>4. CASE SubmitDecision \/ SubmitRefused \/ SubmitFails \/ Restart
  BY <1>4, SubmittingKeeps
<1>5. CASE UNCHANGED vars
  BY <1>5 DEF vars, ruleVars, triageVars, ghosts, SuppressInv, TypeOK, ChargesAreCounted,
              CriticalIsRouted, InHandIsGuarded, InHand
<1> QED
  BY <1>1, <1>2, <1>3, <1>4, <1>5 DEF Next

-------------------------------------------------------------------------------
(* Theorems.                                                                   *)

\* The inductive invariant holds in every reachable state.
THEOREM SuppressionInvariant == Spec => []SuppressInv
<1>1. Init => SuppressInv
  <2> SUFFICES ASSUME Init PROVE SuppressInv
    OBVIOUS
  <2>1. TypeOK /\ wire <= faults
    <3>1. 0 \in 0..MaxSuppressions /\ 0 \in 0..MaxFaults
      BY DEF SuppressionAssumption
    <3>2. wire <= faults
      BY DEF Init
    <3>3. pc = "poll" <=> job = NoIncident
      BY DEF Init
    <3>4. rule \in BOOLEAN /\ count \in 0..MaxSuppressions /\ wire \in 0..MaxFaults /\ faults \in 0..MaxFaults
      BY <3>1 DEF Init
    <3>5. state \in [Incidents -> {"DETECTED", "TRIAGED", "SUPPRESSED", "CLOSED_FALSE_ALARM"}]
      BY DEF Init
    <3>6. heard \in [Incidents -> 0..Copies] /\ sealed \in [Messages -> {"none", "route", "suppress"}]
      BY DEF Init
    <3>7. job \notin Incidents
      BY DEF Init
    <3> QED
      BY <3>1, <3>2, <3>3, <3>4, <3>5, <3>6, <3>7 DEF Init, TypeOK
  <2>2. IsFiniteSet(charged) /\ Cardinality(charged) = 0
    BY FS_EmptySet DEF Init
  <2> QED
    BY <2>1, <2>2 DEF Init, SuppressInv, ChargesAreCounted, CriticalIsRouted, InHandIsGuarded,
                     Messages
<1> QED
  BY <1>1, SuppressStep, PTL DEF Spec

\* Types, and that the count of a rule keeps within its bound: the update has the bound
\* in its WHERE clause, and what a dead process sent is subject to it too.
THEOREM SuppressionTypes == Spec => []TypeOK
BY SuppressionInvariant, PTL DEF SuppressInv

\* triage, before it suppresses: each suppression on an answered increment is counted.
THEOREM ChargesHold == Spec => []ChargesAreCounted
BY SuppressionInvariant, PTL DEF SuppressInv

\* triage, guard 3: a P1 or security-relevant alert is neither suppressed nor has a
\* suppression sealed for it, whatever the LLM answers and whatever is looked up.
THEOREM CriticalStaysRouted == Spec => []CriticalIsRouted
BY SuppressionInvariant, PTL DEF SuppressInv
================================================================================
