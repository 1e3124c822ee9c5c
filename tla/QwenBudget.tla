------------------------------- MODULE QwenBudget -------------------------------
(***************************************************************************)
(* The daily token budget of the LLM calls (shared/qwen_budget.py, used by *)
(* ask_qwen_json of shared/qwen_reasoning.py).  The agents' processes share*)
(* one meter in a file.  A call reserves its estimate before it is made    *)
(* and exchanges it afterwards for what it used; each of these is one      *)
(* update of the file under its lock.  The first update of a day starts    *)
(* the meter again.                                                        *)
(*                                                                         *)
(* An update truncates the file, writes it and syncs it.  Where it fails   *)
(* or its process dies on the way, it leaves an empty file (or a part of   *)
(* its line, which is read like an empty one); where only the sync fails,  *)
(* the whole line.                                                         *)
(***************************************************************************)
EXTENDS Integers, FiniteSets

CONSTANTS Calls,      \* the calls to the LLM, of all agents
          Estimates,  \* what a call may be estimated at
          Uses,       \* what an answer may say was used, below its estimate or above
          Limit,      \* YITING_DAILY_TOKEN_LIMIT
          Days        \* bound on the days looked at

ASSUME BudgetAssumption ==
  /\ IsFiniteSet(Calls)
  /\ Estimates \subseteq Nat \ {0} /\ Uses \subseteq Nat \ {0}
  /\ Limit \in Nat \ {0}
  /\ Days \in Nat \ {0}

VARIABLES today,   \* the date
          meter,   \* the file: date, actual_tokens and reserved_tokens
          call,    \* of each call: its step, its estimate, the day it reserved
          \* What happened, of each day; no code looks at it.
          spent,   \* the tokens used by the calls that reserved on it
          over,    \* how many of them were beyond the call's estimate
          mishaps  \* updates that broke off, gave a reservation back once more, or
                   \* settled a call of a day before

history == <<spent, over, mishaps>>
vars == <<today, meter, call, history>>

\* Fault: the meter takes whatever the subtraction gives.
Unclamped(n) == n

AtLeastZero(n) == IF n > 0 THEN n ELSE 0

\* _load of an empty file, or of one that is not a meter: of no day, with nothing in it.
EmptyFile == [date |-> 0, actual |-> 0, reserved |-> 0]

Init == /\ today = 1
        /\ meter = EmptyFile
        /\ call = [c \in Calls |-> [step |-> "new", estimate |-> 0, day |-> 0]]
        /\ spent = [d \in 1..Days |-> 0]
        /\ over = [d \in 1..Days |-> 0]
        /\ mishaps = [d \in 1..Days |-> 0]

-------------------------------------------------------------------------------
(* _mutate_meter.                                                              *)

\* The meter as an update finds it: a new one if the file is empty or of another day.
Meter == IF meter.date = today THEN meter ELSE [EmptyFile EXCEPT !.date = today]

\* Fault: only what was used counts, not what is reserved.
FitsUsed(e) == Meter.actual + e <= Limit

\* A reservation has to fit beside what was used and what is reserved.
Fits(e) == Meter.actual + Meter.reserved + e <= Limit

\* Fault: the reservation stays beside what was used.
KeepReservation(e, used) == [Meter EXCEPT !.actual = @ + used]

\* A call gives back its estimate and adds what it used, in whatever meter it finds.
Settle(e, used) ==
  [Meter EXCEPT !.reserved = AtLeastZero(@ - e), !.actual = @ + used]

-------------------------------------------------------------------------------
(* A call.                                                                     *)

\* Bookkeeping: an update goes wrong today ...
Mishap == mishaps' = [mishaps EXCEPT ![today] = @ + 1]

\* ... as one does that settles a call of a day before, or settles it again.
OnTime(c) == call[c].step = "asked" /\ call[c].day = today
MishapUnlessOnTime(c) == IF OnTime(c) THEN UNCHANGED mishaps ELSE Mishap

\* Bookkeeping: the call used this many tokens.
Used(c, used) ==
  /\ spent' = [spent EXCEPT ![call[c].day] = @ + used]
  /\ over' = [over EXCEPT ![call[c].day] = @ + AtLeastZero(used - call[c].estimate)]

Reserve(c, e) ==
  /\ call[c].step = "new"
  /\ Fits(e)
  /\ meter' = [Meter EXCEPT !.reserved = @ + e]
  /\ call' = [call EXCEPT ![c] = [step |-> "asked", estimate |-> e, day |-> today]]
  /\ UNCHANGED <<today, history>>

\* The call is not made.  (If only the sync fails, the reservation is made and leaks.)
TornReserve(c, e) ==
  /\ call[c].step = "new"
  /\ Fits(e)
  /\ meter' = EmptyFile
  /\ call' = [call EXCEPT ![c].step = "done"]
  /\ Mishap
  /\ UNCHANGED <<today, spent, over>>

\* What an answer used: what it says, or the estimate if it says nothing.
Usages(c) == Uses \union {call[c].estimate}

Commit(c) ==
  /\ call[c].step = "asked"
  /\ \E used \in Usages(c) : meter' = Settle(call[c].estimate, used) /\ Used(c, used)
  /\ call' = [call EXCEPT ![c].step = "done"]
  /\ MishapUnlessOnTime(c)
  /\ UNCHANGED today

\* The update fails: the exception handler of ask_qwen_json releases the reservation that
\* may be given back already, if the process has not died.
CommitFails(c) ==
  /\ call[c].step = "asked"
  /\ \E used \in Usages(c) :
       meter' \in {EmptyFile, Settle(call[c].estimate, used)} /\ Used(c, used)
  /\ call' = [call EXCEPT ![c].step = "failed"]
  /\ Mishap
  /\ UNCHANGED today

\* The call, or its commit, fails with an exception.
Release(c) ==
  /\ call[c].step \in {"asked", "failed"}
  /\ meter' = Settle(call[c].estimate, 0)
  /\ call' = [call EXCEPT ![c].step = "done"]
  /\ MishapUnlessOnTime(c)
  /\ UNCHANGED <<today, spent, over>>

TornRelease(c) ==
  /\ call[c].step \in {"asked", "failed"}
  /\ meter' = EmptyFile
  /\ call' = [call EXCEPT ![c].step = "done"]
  /\ Mishap
  /\ UNCHANGED <<today, spent, over>>

\* The call is cancelled or its process dies: nobody gives the reservation back.
Leak(c) ==
  /\ call[c].step = "asked"
  /\ call' = [call EXCEPT ![c].step = "leaked"]
  /\ UNCHANGED <<today, meter, history>>

Midnight ==
  /\ today < Days
  /\ today' = today + 1
  /\ UNCHANGED <<meter, call, history>>

Next == \/ \E c \in Calls : \/ \E e \in Estimates : Reserve(c, e) \/ TornReserve(c, e)
                            \/ Commit(c) \/ CommitFails(c) \/ Leak(c)
                            \/ Release(c) \/ TornRelease(c)
        \/ Midnight

Spec == Init /\ [][Next]_vars

-------------------------------------------------------------------------------
(* Properties.                                                                 *)

\* The calls of today whose reservation nobody has given back.
Holding == {c \in Calls : call[c].step \in {"asked", "leaked"} /\ call[c].day = today}

\* The tokens they have reserved, each by itself, and how many there are.
Tokens(c, n) == {c} \X (1..n)
HeldTokens == UNION {Tokens(c, call[c].estimate) : c \in Holding}
Outstanding == Cardinality(HeldTokens)

TypeOK ==
  /\ today \in 1..Days
  /\ meter \in [date: 0..Days, actual: Nat, reserved: Nat]
  /\ call \in [Calls -> [step: {"new", "asked", "failed", "done", "leaked"},
                         estimate: {0} \union Estimates, day: 0..Days]]
  /\ spent \in [1..Days -> Nat] /\ over \in [1..Days -> Nat] /\ mishaps \in [1..Days -> Nat]

\* On a day without a mishap the meter tells the truth, whoever wrote it last: the used
\* tokens, and exactly the reservations of the day that are not given back.
MeterIsExact ==
  mishaps[today] = 0 => Meter.actual = spent[today] /\ Meter.reserved = Outstanding

\* What the calls made on a day used, and what those of them that are under way have
\* reserved, stays within the limit, in whatever order the agents reserve, commit, fail
\* and die, but for what answers used beyond their estimates; and a mishap, a torn file
\* among them, costs at most the limit once more.
WithinBudget ==
  spent[today] + Outstanding <= Limit * (1 + mishaps[today]) + over[today]

-------------------------------------------------------------------------------
(* Why the safety properties hold: the inductive invariant of the proofs.      *)

\* No call and no update of the meter is of a day to come, on which nothing is spent, and
\* no estimate is beyond the limit.
NothingAhead ==
  /\ meter.date <= today
  /\ \A c \in Calls : call[c].day <= today /\ call[c].estimate <= Limit
  /\ \A d \in 1..Days : d > today => spent[d] = 0 /\ mishaps[d] = 0

\* What the meter has lost of the day's tokens.
LossBounded ==
  spent[today] + Outstanding
    <= Meter.actual + Meter.reserved + Limit * mishaps[today] + over[today]

QwenInv == /\ TypeOK /\ NothingAhead /\ IsFiniteSet(HeldTokens)
           /\ MeterIsExact /\ LossBounded /\ WithinBudget
===============================================================================
