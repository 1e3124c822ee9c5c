---------------------------- MODULE QwenBudgetProofs ----------------------------
(***************************************************************************)
(* Proofs about QwenBudget, for any finite set of calls, any estimates and *)
(* uses, limit and number of days: the meter file is exact on a day on     *)
(* which no update went wrong, and the limit is kept but for what answers  *)
(* used beyond their estimates, and once more for each update that did go  *)
(* wrong.                                                                  *)
(*                                                                         *)
(* What is used and reserved and the meter part ways by at most the limit  *)
(* with each update that goes wrong (LossBounded): a torn file loses at    *)
(* most all there is, and a second or late release at most one estimate.   *)
(*                                                                         *)
(* A sum over the calls would need induction; the reserved tokens are      *)
(* counted as a set instead, to which a reservation adds the tokens of its *)
(* call and from which a settlement takes them away.                       *)
(***************************************************************************)
EXTENDS QwenBudget, FiniteSetTheorems, TLAPS

-------------------------------------------------------------------------------
(* Counting tokens.                                                            *)

\* A call has as many tokens as its estimate says.
LEMMA TokensCounted ==
  ASSUME NEW c, NEW n \in Nat
  PROVE  IsFiniteSet(Tokens(c, n)) /\ Cardinality(Tokens(c, n)) = n
<1>1. IsFiniteSet({c}) /\ Cardinality({c}) = 1
  BY FS_Singleton
<1>2. IsFiniteSet(1..n) /\ Cardinality(1..n) = n
  BY FS_Interval
<1>3. IsFiniteSet({c} \X (1..n)) /\ Cardinality({c} \X (1..n)) = 1 * n
  BY <1>1, <1>2, FS_Product
<1> QED
  BY <1>3 DEF Tokens

\* Tokens of a call that has none among T are added one for one.
LEMMA TokensAdded ==
  ASSUME NEW T, IsFiniteSet(T), NEW c, NEW n \in Nat, \A t \in T : t[1] # c
  PROVE  /\ IsFiniteSet(T \union Tokens(c, n))
         /\ Cardinality(T \union Tokens(c, n)) = Cardinality(T) + n
         /\ Cardinality(T) \in Nat
<1>1. T \intersect Tokens(c, n) = {}
  BY DEF Tokens
<1>2. Cardinality({}) = 0 /\ Cardinality(T) \in Nat
  BY FS_EmptySet, FS_CardinalityType
<1>3. PICK S : S = Tokens(c, n)
  OBVIOUS
<1>4. IsFiniteSet(S) /\ Cardinality(S) = n
  BY <1>3, TokensCounted
<1>5. /\ IsFiniteSet(T \union S)
      /\ Cardinality(T \union S) = Cardinality(T) + Cardinality(S) - Cardinality(T \intersect S)
  BY <1>4, FS_Union
<1>6. Cardinality(T \intersect S) = 0
  BY <1>1, <1>2, <1>3
<1>7. Cardinality(T \union S) = Cardinality(T) + n
  BY <1>2, <1>4, <1>5, <1>6
<1> QED
  BY <1>2, <1>3, <1>5, <1>7

\* A token belongs to a call that holds it.
LEMMA TokenOwners ==
  \A t \in HeldTokens : t[1] \in Holding
BY DEF HeldTokens, Tokens

LEMMA HeldIsNat ==
  ASSUME IsFiniteSet(HeldTokens)
  PROVE  Outstanding \in Nat
BY FS_CardinalityType DEF Outstanding

-------------------------------------------------------------------------------
(* The steps.                                                                  *)

\* What a call is, by its type.
CallType == [step: {"new", "asked", "failed", "done", "leaked"},
             estimate: {0} \union Estimates, day: 0..Days]

\* The state as numbers.
LEMMA Typed ==
  ASSUME TypeOK
  PROVE  /\ today \in Nat /\ today \in 1..Days /\ Days \in Nat /\ Limit \in Nat
         /\ Meter \in [date : 0..Days, actual : Nat, reserved : Nat] /\ Meter.date = today
         /\ spent[today] \in Nat /\ over[today] \in Nat /\ mishaps[today] \in Nat
         /\ call \in [Calls -> CallType]
         /\ \A c \in Calls : call[c].estimate \in Nat /\ call[c].day \in Nat
<1>1. Days \in Nat /\ Limit \in Nat /\ Estimates \subseteq Nat
  BY BudgetAssumption
<1>2. call \in [Calls -> CallType]
  BY DEF TypeOK, CallType
<1>3. {0} \union Estimates \subseteq Nat /\ 0..Days \subseteq Nat
  BY <1>1
<1>4. ASSUME NEW c \in Calls PROVE call[c].estimate \in Nat /\ call[c].day \in Nat
  <2>1. call[c] \in CallType
    BY <1>2
  <2>2. call[c].estimate \in {0} \union Estimates /\ call[c].day \in 0..Days
    BY <2>1 DEF CallType
  <2> QED
    BY <1>3, <2>2
<1>5. /\ today \in Nat /\ today \in 1..Days
      /\ spent[today] \in Nat /\ over[today] \in Nat /\ mishaps[today] \in Nat
  BY <1>1 DEF TypeOK
<1>6. Meter \in [date : 0..Days, actual : Nat, reserved : Nat] /\ Meter.date = today
  BY <1>1, <1>5 DEF TypeOK, Meter, EmptyFile
<1> QED
  BY <1>1, <1>2, <1>4, <1>5, <1>6

\* The limit, once more for each mishap.
LEMMA LimitTimes ==
  ASSUME NEW k \in Nat
  PROVE  /\ Limit * k \in Nat /\ Limit * (1 + k) = Limit * k + Limit
         /\ Limit * (k + 1) = Limit * k + Limit
BY BudgetAssumption

\* A file that an update has written, or left empty, is of no day to come, and is what
\* the next update finds.
LEMMA Written ==
  ASSUME TypeOK, today' = today,
         \/ meter' = EmptyFile
         \/ meter' \in [date : 0..Days, actual : Nat, reserved : Nat] /\ meter'.date = today
  PROVE  /\ meter' \in [date : 0..Days, actual : Nat, reserved : Nat]
         /\ meter'.date <= today
         /\ IF meter' = EmptyFile THEN Meter'.actual = 0 /\ Meter'.reserved = 0
                                  ELSE Meter' = meter'
BY Typed DEF Meter, EmptyFile

\* A mishap is counted with today's.
LEMMA MishapCounted ==
  ASSUME TypeOK, Mishap
  PROVE  /\ mishaps' \in [1..Days -> Nat] /\ mishaps'[today] = mishaps[today] + 1
         /\ \A d \in 1..Days : d > today => mishaps'[d] = mishaps[d]
BY Typed DEF Mishap, TypeOK

LEMMA ReserveStep ==
  ASSUME QwenInv, NEW c \in Calls, NEW e \in Estimates, Reserve(c, e)
  PROVE  QwenInv'
<1>1. e \in Nat /\ e > 0 /\ Limit \in Nat
  BY BudgetAssumption
<1>2. /\ TypeOK /\ NothingAhead /\ IsFiniteSet(HeldTokens)
      /\ MeterIsExact /\ LossBounded /\ WithinBudget
  BY DEF QwenInv
<1>3. /\ today' = today /\ UNCHANGED <<spent, over, mishaps>> /\ call[c].step = "new" /\ Fits(e)
      /\ call' = [call EXCEPT ![c] = [step |-> "asked", estimate |-> e, day |-> today]]
      /\ meter' = [Meter EXCEPT !.reserved = @ + e]
  BY DEF Reserve, history
<1>4. PICK m \in [date : 0..Days, actual : Nat, reserved : Nat] : m = Meter /\ m.date = today
  BY <1>2, Typed
<1>5. PICK r \in Nat : r = m.reserved + e
  BY <1>1, <1>4
<1>6. /\ meter' = [m EXCEPT !.reserved = r] /\ meter' \in [date : 0..Days, actual : Nat, reserved : Nat]
      /\ meter'.date = today /\ meter'.actual = m.actual /\ meter'.reserved = r
  BY <1>3, <1>4, <1>5
<1>7. today \in 1..Days /\ today \in 0..Days /\ today \in Nat
  BY <1>2, Typed
<1>8. m.actual + m.reserved + e <= Limit
  BY <1>3, <1>4 DEF Fits
<1>9. TypeOK'
  BY <1>2, <1>3, <1>6, <1>7 DEF TypeOK
<1>10. NothingAhead'
  <2>1. e <= Limit
    BY <1>1, <1>4, <1>8
  <2>2. \A q \in Calls : call'[q].day <= today /\ call'[q].estimate <= Limit
    BY <1>2, <1>3, <1>7, <2>1 DEF NothingAhead, TypeOK
  <2> QED
    BY <1>2, <1>3, <1>6, <1>7, <2>2 DEF NothingAhead
<1>11. /\ c \notin Holding /\ Holding' = Holding \union {c}
       /\ \A x \in Holding : call'[x] = call[x]
       /\ call'[c].estimate = e
  BY <1>2, <1>3 DEF Holding, TypeOK
<1>12. HeldTokens' = HeldTokens \union Tokens(c, e)
  BY <1>11 DEF HeldTokens
<1>13. IsFiniteSet(HeldTokens') /\ Outstanding' = Outstanding + e /\ Outstanding \in Nat
  BY <1>1, <1>2, <1>11, <1>12, TokenOwners, TokensAdded DEF Outstanding
<1>14. Meter' = meter'
  BY <1>3, <1>6 DEF Meter
<1>15. PICK sp, ov, k, L \in Nat :
         /\ sp = spent[today] /\ ov = over[today] /\ k = mishaps[today] /\ L = Limit * k
         /\ Limit * (1 + k) = L + Limit
  <2>1. /\ spent[today] \in Nat /\ over[today] \in Nat /\ mishaps[today] \in Nat
        /\ Limit * mishaps[today] \in Nat
        /\ Limit * (1 + mishaps[today]) = Limit * mishaps[today] + Limit
    BY <1>2, Typed, LimitTimes
  <2> QED
    BY <2>1
<1>16. sp + Outstanding <= m.actual + m.reserved + L + ov
  BY <1>2, <1>4, <1>15 DEF LossBounded
<1>17. MeterIsExact'
  BY <1>1, <1>2, <1>3, <1>4, <1>5, <1>6, <1>13, <1>14 DEF MeterIsExact
<1>18. LossBounded'
  <2>1. sp + (Outstanding + e) <= m.actual + r + L + ov
    BY <1>1, <1>4, <1>5, <1>13, <1>16
  <2> QED
    BY <1>3, <1>6, <1>13, <1>14, <1>15, <2>1 DEF LossBounded
<1>19. WithinBudget'
  <2>1. sp + (Outstanding + e) <= (L + Limit) + ov
    BY <1>1, <1>4, <1>8, <1>13, <1>16
  <2> QED
    BY <1>3, <1>13, <1>15, <2>1 DEF WithinBudget
<1> QED
  BY <1>9, <1>10, <1>13, <1>17, <1>18, <1>19 DEF QwenInv

\* A call goes on with its step only: what it reserved, and when, stays.
LEMMA StepSet ==
  ASSUME TypeOK, NEW c \in Calls, NEW s \in {"done", "failed", "leaked"},
         call' = [call EXCEPT ![c].step = s], today' = today
  PROVE  /\ call' \in [Calls -> CallType] /\ call'[c].step = s
         /\ \A q \in Calls : /\ call'[q].estimate = call[q].estimate
                             /\ call'[q].day = call[q].day
                             /\ q # c => call'[q].step = call[q].step
<1>1. call \in [Calls -> CallType]
  BY Typed
<1>2. PICK y : y = [call[c] EXCEPT !.step = s]
  OBVIOUS
<1>3. y \in CallType /\ y.step = s /\ y.estimate = call[c].estimate /\ y.day = call[c].day
  BY <1>1, <1>2 DEF CallType
<1>4. call' = [call EXCEPT ![c] = y]
  BY <1>2
<1> QED
  BY <1>1, <1>3, <1>4

\* A call that is done with its reservation takes its tokens from the held ones, if it
\* was one that is under way today.
LEMMA HeldTaken ==
  ASSUME TypeOK, IsFiniteSet(HeldTokens), NEW c \in Calls, NEW s \in {"done", "failed"},
         call[c].step # "leaked",
         call' = [call EXCEPT ![c].step = s], today' = today
  PROVE  /\ IsFiniteSet(HeldTokens') /\ Outstanding' \in Nat
         /\ OnTime(c) => Outstanding = Outstanding' + call[c].estimate
         /\ ~OnTime(c) => Outstanding' = Outstanding
<1>1. /\ call'[c].step = s
      /\ \A q \in Calls : /\ call'[q].estimate = call[q].estimate
                          /\ call'[q].day = call[q].day
                          /\ q # c => call'[q].step = call[q].step
  BY StepSet
<1>2. Holding' = Holding \ {c} /\ (c \in Holding <=> OnTime(c))
  BY <1>1 DEF Holding, OnTime
<1>3. \A q \in Holding' : Tokens(q, call'[q].estimate) = Tokens(q, call[q].estimate)
  BY <1>1 DEF Holding
<1>4. HeldTokens' \subseteq HeldTokens
  <2>1. \A t \in HeldTokens' : \E q \in Holding' : t \in Tokens(q, call[q].estimate)
    BY <1>3 DEF HeldTokens
  <2> QED
    BY <1>2, <2>1 DEF HeldTokens
<1>5. IsFiniteSet(HeldTokens') /\ Outstanding' \in Nat
  <2>1. IsFiniteSet(HeldTokens')
    BY <1>4, FS_Subset
  <2> QED
    BY <2>1, FS_CardinalityType DEF Outstanding
<1>6. CASE OnTime(c)
  <2>1. PICK e \in Nat : e = call[c].estimate
    BY Typed
  <2>2. HeldTokens = HeldTokens' \union Tokens(c, e)
    BY <1>2, <1>3, <1>6, <2>1 DEF HeldTokens
  <2>3. \A t \in HeldTokens' : t[1] # c
    <3>1. \A t \in HeldTokens' : t[1] \in Holding'
      BY DEF HeldTokens, Tokens
    <3> QED
      BY <1>2, <3>1
  <2>4. Outstanding = Outstanding' + e
    BY <1>5, <2>2, <2>3, TokensAdded DEF Outstanding
  <2> QED
    BY <1>5, <1>6, <2>1, <2>4
<1>7. CASE ~OnTime(c)
  <2>1. Holding' = Holding
    BY <1>2, <1>7
  <2>2. HeldTokens' = HeldTokens
    BY <1>3, <2>1 DEF HeldTokens
  <2> QED
    BY <1>5, <1>7, <2>2 DEF Outstanding
<1> QED
  BY <1>6, <1>7

\* What a call used is of its day: of today's only if that is today.
LEMMA UsedCounted ==
  ASSUME TypeOK, NothingAhead, NEW c \in Calls, NEW used \in Nat, Used(c, used)
  PROVE  /\ spent' \in [1..Days -> Nat] /\ over' \in [1..Days -> Nat]
         /\ \A d \in 1..Days : d > today => spent'[d] = spent[d]
         /\ spent'[today] = IF call[c].day = today THEN spent[today] + used ELSE spent[today]
         /\ over'[today] = IF call[c].day = today
                           THEN over[today] + AtLeastZero(used - call[c].estimate)
                           ELSE over[today]
<1>1. PICK day \in Nat, e \in Nat : day = call[c].day /\ e = call[c].estimate
  BY Typed
<1>2. day <= today /\ today \in Nat /\ today \in 1..Days /\ Days \in Nat
  BY <1>1, Typed DEF NothingAhead
<1>3. PICK x \in Nat : x = AtLeastZero(used - e)
  BY <1>1 DEF AtLeastZero
<1>4. /\ spent \in [1..Days -> Nat] /\ over \in [1..Days -> Nat]
      /\ spent' = [spent EXCEPT ![day] = @ + used] /\ over' = [over EXCEPT ![day] = @ + x]
  BY <1>1, <1>3 DEF TypeOK, Used
<1>5. spent' \in [1..Days -> Nat] /\ over' \in [1..Days -> Nat]
  <2>1. CASE day \in 1..Days
    <3>1. PICK n, y \in Nat : n = spent[day] + used /\ y = over[day] + x
      BY <1>3, <1>4, <2>1
    <3>2. spent' = [spent EXCEPT ![day] = n] /\ over' = [over EXCEPT ![day] = y]
      BY <1>4, <3>1
    <3> QED
      BY <1>4, <3>2
  <2>2. CASE day \notin 1..Days
    BY <1>4, <2>2
  <2> QED
    BY <2>1, <2>2
<1>6. \A d \in 1..Days : d > today => spent'[d] = spent[d]
  BY <1>2, <1>4
<1>7. /\ spent'[today] = IF day = today THEN spent[today] + used ELSE spent[today]
      /\ over'[today] = IF day = today THEN over[today] + x ELSE over[today]
  BY <1>2, <1>4
<1> QED
  BY <1>1, <1>3, <1>5, <1>6, <1>7

\* A call settles, with what it used or with nothing; unless it does so for the first
\* time, on its day and in a file that is written, that is a mishap.
LEMMA SettleStep ==
  ASSUME QwenInv, NEW c \in Calls, NEW s \in {"done", "failed"},
         call[c].step \in {"asked", "failed"},
         call' = [call EXCEPT ![c].step = s], today' = today,
         NEW used \in Nat, Used(c, used), call[c].step = "failed" => used = 0,
         meter' \in {EmptyFile, Settle(call[c].estimate, used)},
         \/ Mishap
         \/ OnTime(c) /\ mishaps' = mishaps /\ meter' = Settle(call[c].estimate, used)
  PROVE  QwenInv'
<1>1. /\ TypeOK /\ NothingAhead /\ IsFiniteSet(HeldTokens)
      /\ MeterIsExact /\ LossBounded /\ WithinBudget
  BY DEF QwenInv
<1>2. PICK e \in Nat : e = call[c].estimate /\ e <= Limit
  BY <1>1, Typed DEF NothingAhead
<1>3. today \in Nat /\ today \in 1..Days /\ Days \in Nat /\ Limit \in Nat
  BY <1>1, Typed
<1>4. PICK m \in [date : 0..Days, actual : Nat, reserved : Nat] : m = Meter /\ m.date = today
  BY <1>1, Typed
<1>5. PICK r, a \in Nat : r = AtLeastZero(m.reserved - e) /\ a = m.actual + used
  BY <1>2, <1>4 DEF AtLeastZero
<1>6. PICK w \in [date : 0..Days, actual : Nat, reserved : Nat] :
        /\ w = Settle(e, used) /\ w.date = today /\ w.actual = a /\ w.reserved = r
  <2>1. Settle(e, used) = [m EXCEPT !.reserved = r, !.actual = a]
    BY <1>4, <1>5 DEF Settle
  <2> QED
    BY <1>4, <2>1
<1>7. /\ meter' \in [date : 0..Days, actual : Nat, reserved : Nat] /\ meter'.date <= today
      /\ \/ Meter'.actual = 0 /\ Meter'.reserved = 0 /\ Mishap
         \/ Meter'.actual = a /\ Meter'.reserved = r
  <2>1. meter' = EmptyFile \/ meter' = w
    BY <1>2, <1>6
  <2>2. w # EmptyFile
    BY <1>3, <1>6 DEF EmptyFile
  <2>3. meter' = EmptyFile => Mishap
    BY <1>2, <1>6, <2>2
  <2> QED
    BY <1>1, <1>6, <2>1, <2>2, <2>3, Written
<1>8. /\ call' \in [Calls -> CallType]
      /\ \A q \in Calls : call'[q].estimate = call[q].estimate /\ call'[q].day = call[q].day
  BY <1>1, StepSet
<1>9. /\ spent' \in [1..Days -> Nat] /\ over' \in [1..Days -> Nat]
      /\ \A d \in 1..Days : d > today => spent'[d] = spent[d]
      /\ spent'[today] = IF call[c].day = today THEN spent[today] + used ELSE spent[today]
      /\ over'[today] = IF call[c].day = today
                        THEN over[today] + AtLeastZero(used - e) ELSE over[today]
  BY <1>1, <1>2, UsedCounted
<1>10. /\ mishaps' \in [1..Days -> Nat]
       /\ \A d \in 1..Days : d > today => mishaps'[d] = mishaps[d]
       /\ \/ OnTime(c) /\ mishaps'[today] = mishaps[today]
          \/ mishaps'[today] = mishaps[today] + 1
       /\ Mishap => mishaps'[today] = mishaps[today] + 1
  BY <1>1, MishapCounted DEF TypeOK
<1>11. TypeOK'
  BY <1>3, <1>7, <1>8, <1>9, <1>10 DEF TypeOK, CallType
<1>12. NothingAhead'
  BY <1>1, <1>3, <1>7, <1>8, <1>9, <1>10 DEF NothingAhead
<1>13. /\ IsFiniteSet(HeldTokens') /\ Outstanding' \in Nat /\ Outstanding \in Nat
       /\ OnTime(c) => Outstanding = Outstanding' + e
       /\ ~OnTime(c) => Outstanding' = Outstanding
  <2>1. call[c].step # "leaked"
    OBVIOUS
  <2> QED
    BY <1>1, <1>2, <2>1, HeldTaken, HeldIsNat
<1>14. PICK sp, ov, k, L, o, oo \in Nat :
         /\ sp = spent[today] /\ ov = over[today] /\ k = mishaps[today] /\ L = Limit * k
         /\ Limit * (1 + k) = L + Limit /\ Limit * (k + 1) = L + Limit
         /\ o = Outstanding /\ oo = Outstanding'
  BY <1>1, <1>13, Typed, LimitTimes
<1>15. sp + o <= m.actual + m.reserved + L + ov /\ sp + o <= (L + Limit) + ov
  BY <1>1, <1>4, <1>14 DEF LossBounded, WithinBudget
<1>16. PICK x \in Nat : x = AtLeastZero(used - e) /\ used - e <= x
  BY <1>2 DEF AtLeastZero
<1>17. m.reserved - e <= r
  BY <1>2, <1>4, <1>5 DEF AtLeastZero
\* On time: the tokens leave the reservations, and what was used joins what is spent.
<1>18. CASE OnTime(c)
  <2>1. o = oo + e /\ spent'[today] = sp + used /\ over'[today] = ov + x
    BY <1>9, <1>13, <1>14, <1>16, <1>18 DEF OnTime
  <2>2. sp + used + oo <= (L + Limit) + (ov + x)
    BY <1>2, <1>3, <1>14, <1>15, <1>16, <2>1
  <2>3. sp + used + oo <= a + r + L + (ov + x)
    BY <1>2, <1>3, <1>4, <1>5, <1>14, <1>15, <1>16, <1>17, <2>1
  <2>4. CASE mishaps'[today] = k /\ Meter'.actual = a /\ Meter'.reserved = r
    <3>1. LossBounded'
      BY <1>14, <2>1, <2>3, <2>4 DEF LossBounded
    <3>2. WithinBudget'
      BY <1>14, <2>1, <2>2, <2>4 DEF WithinBudget
    <3>3. ASSUME k = 0 PROVE a = sp + used /\ r = oo
      <4>1. m.actual = sp /\ m.reserved = o
        BY <1>1, <1>4, <1>14, <3>3 DEF MeterIsExact
      <4> QED
        BY <1>2, <1>5, <1>14, <2>1, <4>1 DEF AtLeastZero
    <3>4. MeterIsExact'
      BY <1>14, <2>1, <2>4, <3>3 DEF MeterIsExact
    <3> QED
      BY <1>11, <1>12, <1>13, <3>1, <3>2, <3>4 DEF QwenInv
  <2>5. CASE mishaps'[today] = k + 1
    <3>1. sp + used + oo <= Meter'.actual + Meter'.reserved + (L + Limit) + (ov + x)
      BY <1>3, <1>5, <1>7, <1>14, <1>16, <2>2, <2>3
    <3>2. sp + used + oo <= (L + Limit) + Limit + (ov + x)
      BY <1>3, <1>14, <1>16, <2>2
    <3>3. Limit * (1 + (k + 1)) = (L + Limit) + Limit
      BY <1>14, LimitTimes
    <3>4. LossBounded' /\ WithinBudget'
      BY <1>14, <2>1, <2>5, <3>1, <3>2, <3>3 DEF LossBounded, WithinBudget
    <3>5. MeterIsExact'
      BY <1>14, <2>5 DEF MeterIsExact
    <3> QED
      BY <1>11, <1>12, <1>13, <3>4, <3>5 DEF QwenInv
  <2>6. CASE Mishap
    BY <1>10, <1>14, <2>5, <2>6
  <2>7. CASE ~Mishap
    BY <1>7, <1>10, <1>14, <2>4, <2>5, <2>7
  <2> QED
    BY <2>6, <2>7
\* Late, or once more: at most an estimate of another call is taken from the meter.
<1>19. CASE ~OnTime(c)
  <2>1. /\ oo = o /\ mishaps'[today] = k + 1
        /\ spent'[today] = sp /\ over'[today] = ov
    <3>1. call[c].day = today => used = 0
      BY <1>19 DEF OnTime
    <3>2. AtLeastZero(0 - e) = 0
      BY <1>2 DEF AtLeastZero
    <3> QED
      BY <1>9, <1>10, <1>13, <1>14, <1>19, <3>1, <3>2
  <2>2. sp + o <= a + r + (L + Limit) + ov
    BY <1>2, <1>3, <1>4, <1>5, <1>14, <1>15, <1>17
  <2>3. sp + o <= Meter'.actual + Meter'.reserved + (L + Limit) + ov
    BY <1>7, <1>15, <2>2, <1>3, <1>14
  <2>4. sp + o <= (L + Limit) + Limit + ov
    BY <1>3, <1>14, <1>15
  <2>5. Limit * (1 + (k + 1)) = (L + Limit) + Limit
    BY <1>14, LimitTimes
  <2>6. LossBounded' /\ WithinBudget'
    BY <1>14, <2>1, <2>3, <2>4, <2>5 DEF LossBounded, WithinBudget
  <2>7. MeterIsExact'
    BY <1>14, <2>1 DEF MeterIsExact
  <2> QED
    BY <1>11, <1>12, <1>13, <2>6, <2>7 DEF QwenInv
<1> QED
  BY <1>18, <1>19

\* Using nothing is no use.
LEMMA UsedNothing ==
  ASSUME TypeOK, NEW c \in Calls, UNCHANGED <<spent, over>>
  PROVE  Used(c, 0)
<1>1. AtLeastZero(0 - call[c].estimate) = 0
  BY Typed DEF AtLeastZero
<1>2. /\ spent = [spent EXCEPT ![call[c].day] = @ + 0]
      /\ over = [over EXCEPT ![call[c].day] = @ + 0]
  BY DEF TypeOK
<1> QED
  BY <1>1, <1>2 DEF Used

LEMMA CommitStep ==
  ASSUME QwenInv, NEW c \in Calls, Commit(c) \/ CommitFails(c)
  PROVE  QwenInv'
<1>1. TypeOK
  BY DEF QwenInv
<1>2. \A used \in Usages(c) : used \in Nat
  BY <1>1, Typed, BudgetAssumption DEF Usages
<1>3. call[c].step = "asked" /\ today' = today
  BY DEF Commit, CommitFails
<1>4. CASE Commit(c)
  <2>1. PICK used \in Usages(c) : meter' = Settle(call[c].estimate, used) /\ Used(c, used)
    BY <1>4 DEF Commit
  <2>2. call' = [call EXCEPT ![c].step = "done"] /\ (Mishap \/ (OnTime(c) /\ mishaps' = mishaps))
    BY <1>4 DEF Commit, MishapUnlessOnTime
  <2> QED
    BY <1>2, <1>3, <2>1, <2>2, SettleStep
<1>5. CASE CommitFails(c)
  <2>1. PICK used \in Usages(c) :
          meter' \in {EmptyFile, Settle(call[c].estimate, used)} /\ Used(c, used)
    BY <1>5 DEF CommitFails
  <2>2. call' = [call EXCEPT ![c].step = "failed"] /\ Mishap
    BY <1>5 DEF CommitFails
  <2> QED
    BY <1>2, <1>3, <2>1, <2>2, SettleStep
<1> QED
  BY <1>4, <1>5

LEMMA ReleaseStep ==
  ASSUME QwenInv, NEW c \in Calls, Release(c) \/ TornRelease(c)
  PROVE  QwenInv'
<1>1. /\ call[c].step \in {"asked", "failed"} /\ today' = today /\ UNCHANGED <<spent, over>>
      /\ call' = [call EXCEPT ![c].step = "done"]
      /\ meter' \in {EmptyFile, Settle(call[c].estimate, 0)}
      /\ Mishap \/ (OnTime(c) /\ mishaps' = mishaps /\ meter' = Settle(call[c].estimate, 0))
  BY DEF Release, TornRelease, MishapUnlessOnTime
<1>2. Used(c, 0)
  BY <1>1, UsedNothing DEF QwenInv
<1> QED
  BY <1>1, <1>2, SettleStep

\* A call that is not made reserves nothing; with the file, all the meter knew is lost.
LEMMA TornReserveStep ==
  ASSUME QwenInv, NEW c \in Calls, NEW e \in Estimates, TornReserve(c, e)
  PROVE  QwenInv'
<1>1. /\ TypeOK /\ NothingAhead /\ IsFiniteSet(HeldTokens)
      /\ MeterIsExact /\ LossBounded /\ WithinBudget
  BY DEF QwenInv
<1>2. /\ call[c].step = "new" /\ today' = today /\ UNCHANGED <<spent, over>>
      /\ call' = [call EXCEPT ![c].step = "done"] /\ meter' = EmptyFile /\ Mishap
  BY DEF TornReserve
<1>3. /\ meter' \in [date : 0..Days, actual : Nat, reserved : Nat] /\ meter'.date <= today
      /\ Meter'.actual = 0 /\ Meter'.reserved = 0
  BY <1>1, <1>2, Written
<1>4. /\ call' \in [Calls -> CallType]
      /\ \A q \in Calls : call'[q].estimate = call[q].estimate /\ call'[q].day = call[q].day
  BY <1>1, <1>2, StepSet
<1>5. /\ mishaps' \in [1..Days -> Nat] /\ mishaps'[today] = mishaps[today] + 1
      /\ \A d \in 1..Days : d > today => mishaps'[d] = mishaps[d]
  BY <1>1, <1>2, MishapCounted
<1>6. TypeOK'
  BY <1>1, <1>2, <1>3, <1>4, <1>5 DEF TypeOK, CallType
<1>7. NothingAhead'
  BY <1>1, <1>2, <1>3, <1>4, <1>5, Typed DEF NothingAhead
<1>8. IsFiniteSet(HeldTokens') /\ Outstanding' = Outstanding /\ Outstanding \in Nat
  BY <1>1, <1>2, HeldTaken, HeldIsNat DEF OnTime
<1>9. PICK sp, ov, k \in Nat : sp = spent[today] /\ ov = over[today] /\ k = mishaps[today]
  BY <1>1, Typed
<1>10. sp + Outstanding <= Limit * (1 + k) + ov /\ Limit \in Nat
  BY <1>1, <1>9, Typed DEF WithinBudget
<1>11. PICK L \in Nat : L = Limit * (1 + k) /\ Limit * (k + 1) = L /\ Limit * (1 + (k + 1)) = L + Limit
  BY <1>9, LimitTimes
<1>12. LossBounded' /\ WithinBudget'
  <2>1. /\ spent'[today'] = sp /\ over'[today'] = ov /\ mishaps'[today'] = k + 1
        /\ Meter'.actual = 0 /\ Meter'.reserved = 0 /\ Outstanding' = Outstanding
    BY <1>2, <1>3, <1>5, <1>8, <1>9
  <2>2. sp + Outstanding <= 0 + 0 + L + ov /\ sp + Outstanding <= (L + Limit) + ov
    BY <1>8, <1>9, <1>10, <1>11
  <2> QED
    BY <1>11, <2>1, <2>2 DEF LossBounded, WithinBudget
<1>13. MeterIsExact'
  BY <1>2, <1>5, <1>9 DEF MeterIsExact
<1> QED
  BY <1>6, <1>7, <1>8, <1>12, <1>13 DEF QwenInv

\* A leaked reservation stays in the meter.
LEMMA LeakStep ==
  ASSUME QwenInv, NEW c \in Calls, Leak(c)
  PROVE  QwenInv'
<1>1. /\ TypeOK /\ NothingAhead /\ IsFiniteSet(HeldTokens)
      /\ MeterIsExact /\ LossBounded /\ WithinBudget
  BY DEF QwenInv
<1>2. /\ call[c].step = "asked" /\ call' = [call EXCEPT ![c].step = "leaked"]
      /\ UNCHANGED <<today, meter, spent, over, mishaps>>
  BY DEF Leak, history
<1>3. /\ call' \in [Calls -> CallType] /\ call'[c].step = "leaked"
      /\ \A q \in Calls : /\ call'[q].estimate = call[q].estimate
                          /\ call'[q].day = call[q].day
                          /\ q # c => call'[q].step = call[q].step
  BY <1>1, <1>2, StepSet
<1>4. TypeOK'
  BY <1>1, <1>2, <1>3 DEF TypeOK, CallType
<1>5. Holding' = Holding
  BY <1>2, <1>3 DEF Holding
<1>6. HeldTokens' = HeldTokens
  <2>1. \A q \in Holding : Tokens(q, call'[q].estimate) = Tokens(q, call[q].estimate)
    BY <1>3 DEF Holding
  <2> QED
    BY <1>5, <2>1 DEF HeldTokens
<1>7. Meter' = Meter
  BY <1>2 DEF Meter
<1>8. MeterIsExact' /\ LossBounded' /\ WithinBudget' /\ IsFiniteSet(HeldTokens')
  BY <1>1, <1>2, <1>6, <1>7 DEF MeterIsExact, LossBounded, WithinBudget, Outstanding
<1>9. NothingAhead'
  BY <1>1, <1>2, <1>3 DEF NothingAhead
<1> QED
  BY <1>4, <1>8, <1>9 DEF QwenInv

\* A new day starts with nothing used and nothing held.
LEMMA MidnightStep ==
  ASSUME QwenInv, Midnight
  PROVE  QwenInv'
<1>1. TypeOK /\ NothingAhead
  BY DEF QwenInv
<1>2. today < Days /\ today' = today + 1 /\ UNCHANGED <<meter, call, spent, over, mishaps>>
  BY DEF Midnight, history
<1>3. today \in Nat /\ today \in 1..Days /\ Days \in Nat /\ Limit \in Nat
  BY <1>1, Typed
<1>4. TypeOK'
  BY <1>1, <1>2, <1>3 DEF TypeOK
<1>5. meter.date \in Nat /\ \A c \in Calls : call[c].day \in Nat
  BY <1>1, <1>3, Typed DEF TypeOK
<1>6. NothingAhead'
  BY <1>1, <1>2, <1>3, <1>5 DEF NothingAhead
<1>7. Holding' = {}
  BY <1>1, <1>2, <1>3, <1>5 DEF Holding, NothingAhead
<1>8. HeldTokens' = {}
  BY <1>7 DEF HeldTokens
<1>9. IsFiniteSet(HeldTokens') /\ Outstanding' = 0
  BY <1>8, FS_EmptySet DEF Outstanding
<1>10. Meter'.actual = 0 /\ Meter'.reserved = 0
  <2>1. meter'.date # today'
    BY <1>1, <1>2, <1>3, <1>5 DEF NothingAhead
  <2> QED
    BY <2>1 DEF Meter, EmptyFile
<1>11. /\ spent'[today'] = 0 /\ mishaps'[today'] = 0 /\ over'[today'] \in Nat
  <2>1. today' \in 1..Days /\ today' > today
    BY <1>2, <1>3
  <2> QED
    BY <1>1, <1>2, <2>1 DEF NothingAhead, TypeOK
<1>12. Limit * mishaps'[today'] = 0 /\ Limit * (1 + mishaps'[today']) = Limit
  BY <1>3, <1>11
<1>13. MeterIsExact' /\ LossBounded' /\ WithinBudget'
  BY <1>3, <1>9, <1>10, <1>11, <1>12 DEF MeterIsExact, LossBounded, WithinBudget
<1> QED
  BY <1>4, <1>6, <1>9, <1>13 DEF QwenInv

-------------------------------------------------------------------------------
(* The invariant, and what follows.                                            *)

LEMMA QwenInit == Init => QwenInv
<1> SUFFICES ASSUME Init PROVE QwenInv
  OBVIOUS
<1>1. Days \in Nat /\ Days # 0 /\ Limit \in Nat
  BY BudgetAssumption
<1>2. TypeOK /\ NothingAhead
  BY <1>1 DEF Init, TypeOK, NothingAhead, EmptyFile
<1>3. Holding = {}
  BY DEF Init, Holding
<1>4. HeldTokens = {}
  BY <1>3 DEF HeldTokens
<1>5. IsFiniteSet(HeldTokens) /\ Outstanding = 0
  BY <1>4, FS_EmptySet DEF Outstanding
<1>6. /\ Meter.actual = 0 /\ Meter.reserved = 0
      /\ spent[today] = 0 /\ over[today] = 0 /\ mishaps[today] = 0
  BY <1>1 DEF Init, Meter, EmptyFile
<1>7. Limit * mishaps[today] = 0 /\ Limit * (1 + mishaps[today]) = Limit
  BY <1>1, <1>6
<1>8. MeterIsExact /\ LossBounded /\ WithinBudget
  BY <1>1, <1>5, <1>6, <1>7 DEF MeterIsExact, LossBounded, WithinBudget
<1> QED
  BY <1>2, <1>5, <1>8 DEF QwenInv

LEMMA QwenStep == QwenInv /\ [Next]_vars => QwenInv'
<1> SUFFICES ASSUME QwenInv, [Next]_vars PROVE QwenInv'
  OBVIOUS
<1>1. ASSUME NEW c \in Calls, NEW e \in Estimates, Reserve(c, e) \/ TornReserve(c, e)
      PROVE  QwenInv'
  BY <1>1, ReserveStep, TornReserveStep
<1>2. ASSUME NEW c \in Calls, Commit(c) \/ CommitFails(c) PROVE QwenInv'
  BY <1>2, CommitStep
<1>3. ASSUME NEW c \in Calls, Release(c) \/ TornRelease(c) PROVE QwenInv'
  BY <1>3, ReleaseStep
<1>4. ASSUME NEW c \in Calls, Leak(c) PROVE QwenInv'
  BY <1>4, LeakStep
<1>5. CASE Midnight
  BY <1>5, MidnightStep
<1>6. CASE UNCHANGED vars
  BY <1>6 DEF vars, history, QwenInv, TypeOK, NothingAhead, MeterIsExact, LossBounded,
              WithinBudget, Meter, Outstanding, HeldTokens, Holding
<1> QED
  BY <1>1, <1>2, <1>3, <1>4, <1>5, <1>6 DEF Next

\* The processes' calls keep the invariant of the meter they share.
THEOREM QwenInvariance == Spec => []QwenInv
BY QwenInit, QwenStep, PTL DEF Spec

\* The meter, the calls and what happened have their types; no count goes below zero.
THEOREM QwenTypes == Spec => []TypeOK
<1>1. QwenInv => TypeOK
  BY DEF QwenInv
<1> QED
  BY <1>1, QwenInvariance, PTL

\* qwen_budget.py: on a day on which no update breaks off, comes twice or comes from the
\* day before, the file says what was used and what is reserved.
THEOREM MeterExact == Spec => []MeterIsExact
<1>1. QwenInv => MeterIsExact
  BY DEF QwenInv
<1> QED
  BY <1>1, QwenInvariance, PTL

\* What a day's calls used and have reserved is within the limit, but for what answers used
\* beyond their estimates, and with each such update once more.
THEOREM LimitHolds == Spec => []WithinBudget
<1>1. QwenInv => WithinBudget
  BY DEF QwenInv
<1> QED
  BY <1>1, QwenInvariance, PTL
================================================================================
