------------------------------- MODULE RoomAgent -------------------------------
(***************************************************************************)
(* What the reasoning agents (agents/diagnosis, safety_reviewer, commander)*)
(* have in common.  An agent is a process that takes the messages of the   *)
(* incident room one after the other, decides whether to answer the card a *)
(* message carries, thinks about it (an LLM call), and has its answer      *)
(* sealed, posted and confirmed through the card ledger.                   *)
(*                                                                         *)
(* Everything an agent knows is in its memory: how far in the room it has  *)
(* got, and its context of the incident.  A restart has every message of   *)
(* the room delivered again to a process that knows nothing and finds out  *)
(* from the ledger what has been answered.  The key that makes a second    *)
(* submission harmless is the message it answers, not the card in it, and  *)
(* a card may be in the room more than once.                               *)
(*                                                                         *)
(* An agent passes over the messages that are not for it; they are left    *)
(* out here.  A fault is a crash, a lookup without an answer, or a         *)
(* submission that is broken off.                                          *)
(***************************************************************************)
EXTENDS CardLedger

CONSTANTS Reports,      \* what an investigation may come to
          MaxMessages,  \* bound on the messages of the room
          MaxFaults     \* bound on the faults

\* A report has a severity, the runbook its wording leads to, and whether the
\* Reviewer's cross-check finds blocking issues in it.
Severities == {"P1", "P2", "P3", "P4"}
Report == [severity : Severities, runbook : Bodies, weak : BOOLEAN]
NoReport == [severity |-> "P4", runbook |-> NoBody, weak |-> FALSE]

ASSUME AgentAssumption ==
  /\ Bodies = 1..6       \* RB-001 to RB-006
  /\ HumanOnly = {2, 5}  \* the Gateway's payment runbooks
  /\ Reports \subseteq Report
  /\ MaxMessages \in Nat \ {0} /\ MaxCards # 0 /\ MaxFaults \in Nat

VARIABLES messages,  \* the incident room: the number of the card in each message
          origin,    \* what each card answers, and the content the agents look at
          agent,     \* the memory of each agent
          faults     \* faults so far

roomVars == <<ledgerVars, messages, origin>>

DIAGNOSIS == "diagnosis"
REVIEWER  == "safety_reviewer"
COMMANDER == "commander"
Agents == {DIAGNOSIS, REVIEWER, COMMANDER}

\* "msg" is the message a card answers, its idempotency key; "rev" is the card's
\* revision, or that of the plan it refuses; "wish" is the runbook that the words of
\* a refusal ask for.  "older" is history and no part of a card: the report that
\* a plan is for was not that of the Assessment sealed last when it was looked up.
Origin == [msg : Nat, rev : Nat, report : Reports \union {NoReport},
           wish : Bodies \union {NoBody}, older : BOOLEAN]
NoOrigin == [msg |-> 0, rev |-> 0, report |-> NoReport, wish |-> NoBody, older |-> FALSE]

\* An agent's context of the incident, of which each uses its part.
NoContext == [known |-> FALSE, submitted |-> FALSE, revision |-> 0, challenges |-> 0,
              source |-> 0, report |-> NoReport, older |-> FALSE, rejected |-> NoBody,
              wish |-> NoBody]

Contexts == [known : BOOLEAN, submitted : BOOLEAN, revision : Nat, challenges : Nat,
             source : Nat, report : Reports \union {NoReport}, older : BOOLEAN,
             rejected : Bodies \union {NoBody}, wish : Bodies \union {NoBody}]

\* The memory of an agent: what it does next, how far in the room it is, the message and
\* the card in hand, and its context.
Memory == [pc : {"poll", "reason", "post", "confirm", "authorize"}, offset : Nat,
           msg : Nat, card : Nat, ctx : Contexts]

\* A process that has just started.
Fresh == [pc |-> "poll", offset |-> 0, msg |-> 0, card |-> 0, ctx |-> NoContext]

Context(r) == agent[r].ctx
Question(r) == messages[agent[r].msg]

Fault == faults < MaxFaults /\ faults' = faults + 1

-------------------------------------------------------------------------------
(* The poll loop.                                                              *)

IsConfirm(c) == c.type = "Verdict" /\ c.decision = "CONFIRM"
IsRejection(c) == c.type = "StructuredApproval" /\ c.decision = "REJECTED"

\* The cards an agent acts on: Diagnosis on the routing and on a challenge, ...
AsksDiagnosis(c) == c.type = "TriageDecision" \/ IsChallenge(c)

\* ... the Safety Reviewer on an Assessment, ...
AsksReviewer(c) == c.type = "Assessment"

\* ... and the Commander on a confirmation and on a human's refusal.
AsksCommander(c) == IsConfirm(c) \/ IsRejection(c)

Concerns(r, c) ==
  CASE r = DIAGNOSIS -> AsksDiagnosis(c)
    [] r = REVIEWER  -> AsksReviewer(c)
    [] r = COMMANDER -> AsksCommander(c)

Inbox(r) == {m \in agent[r].offset + 1 .. Len(messages) : Concerns(r, cards[messages[m]])}
NextMessage(r) == CHOOSE m \in Inbox(r) : \A k \in Inbox(r) : m <= k
NextCard(r) == messages[NextMessage(r)]

\* r is ready for its next message.
Receives(r) == agent[r].pc = "poll" /\ Inbox(r) # {}

\* Before it answers, an agent looks at the public page of the incident ("page") and
\* at the published cards ("ledger").  Either lookup, if it fails, is taken for an empty
\* answer.  "rest" says whether whatever else is looked up is answered.
LooksUp(page, ledger, rest) ==
  /\ page \in {published, {}} /\ ledger \in {published, {}}
  /\ IF page = published /\ ledger = published /\ rest THEN UNCHANGED faults ELSE Fault

\* should_skip_stale_card: a card with a higher sequence number is published.
StaleCard(page, i) == \E j \in page : j > i

\* should_skip_terminal_incident.
TerminalStates == {"EXECUTED", "CLOSED_FALSE_ALARM", "SUPPRESSED"}
TerminalIncident(page) == page # {} /\ state \in TerminalStates

\* count_challenge_verdicts.
ChallengesIn(ledger) == Cardinality({j \in ledger : IsChallenge(cards[j])})

\* The message is passed over.
Skip(r, ctx) ==
  /\ agent' = [agent EXCEPT ![r].offset = NextMessage(r), ![r].ctx = ctx]
  /\ UNCHANGED roomVars

\* It is lost: the offset moves although an exception ended the preprocessing.
Lost(r) == Receives(r) /\ Fault /\ Skip(r, Context(r))

\* It is taken, under the context given.
Accept(r, ctx) ==
  /\ agent' = [agent EXCEPT ![r].pc = "reason", ![r].msg = NextMessage(r), ![r].ctx = ctx]
  /\ UNCHANGED roomVars

\* The agent is done with the message, whatever came of it: the runtime moves the
\* offset in a finally clause.
Finished(r, ctx) ==
  agent' = [agent EXCEPT ![r] = [Fresh EXCEPT !.offset = agent[r].msg, !.ctx = ctx]]

-------------------------------------------------------------------------------
(* Submitting an answer: a card c with the origin o.                           *)

\* Fault: /prepare does not look the key up.
KeyForgotten(c, o) == {}

\* What is sealed under the key of the message, and what is the same payload.
SealedFor(c, o) == {i \in DOMAIN cards : cards[i].type = c.type /\ origin[i].msg = o.msg}
SamePayload(i, c, o) ==
  /\ [origin[i] EXCEPT !.older = o.older] = o
  /\ cards[i].decision = c.decision /\ cards[i].body = c.body

Prepare(r, c, o) ==
  /\ SealedFor(c, o) = {}
  /\ PrepareCard(c)
  /\ origin' = Append(origin, o)
  /\ agent' = [agent EXCEPT ![r].pc = "post", ![r].card = Len(cards) + 1]
  /\ UNCHANGED <<messages, faults>>

\* The key is known and the payload is the same: /prepare returns the card it has, in
\* any state of the incident.
PrepareAgain(r, c, o) ==
  /\ \E i \in SealedFor(c, o) :
       /\ SamePayload(i, c, o)
       /\ agent' = [agent EXCEPT ![r].pc = "post", ![r].card = i]
  /\ UNCHANGED <<roomVars, faults>>

\* The key is known and the payload is not the same: 409.  "reworded" says that the
\* wording, which the LLM chose, may be another one for the same content.
KeyConflict(r, c, o, reworded) ==
  /\ \E i \in SealedFor(c, o) : reworded \/ ~SamePayload(i, c, o)
  /\ Finished(r, Context(r))
  /\ UNCHANGED <<roomVars, faults>>

\* The card in the message is posted and its confirmation is under way.
ConfirmationUnderWay(i) ==
  /\ i \notin published
  /\ i = 1 \/ \E q \in Agents : agent[q].pc = "confirm" /\ agent[q].card = i

\* The state or the budget is against it: 409, four times.  The last time is later
\* than a confirmation under way, unless that takes longer than the retries.
PrepareRefused(r, c, o) ==
  /\ SealedFor(c, o) = {}
  /\ state \notin StatePrerequisites(c.type) \/ ~BudgetLeft(c)
  /\ IF ConfirmationUnderWay(Question(r)) THEN Fault ELSE UNCHANGED faults
  /\ Finished(r, Context(r))
  /\ UNCHANGED roomVars

Submit(r, c, o) == Prepare(r, c, o) \/ PrepareAgain(r, c, o) \/ PrepareRefused(r, c, o)

Post(r) ==
  /\ agent[r].pc = "post"
  /\ Len(messages) < MaxMessages
  /\ messages' = Append(messages, agent[r].card)
  /\ IF agent[r].card \in room THEN UNCHANGED ledgerVars ELSE PostCard(agent[r].card)
  /\ agent' = [agent EXCEPT ![r].pc = "confirm"]
  /\ UNCHANGED <<origin, faults>>

\* /confirm, with the message that was just posted.
Confirms(r) ==
  /\ agent[r].pc = "confirm"
  /\ ConfirmPublication(agent[r].card)
  /\ UNCHANGED <<messages, origin>>

\* It is confirmed, and the agent never hears of it.
ConfirmedUnheard(r) ==
  /\ Confirms(r)
  /\ Fault
  /\ Finished(r, Context(r))

\* 409: the card is outdated, or was confirmed before, with another message.
ConfirmRefused(r) ==
  /\ agent[r].pc = "confirm"
  /\ LET i == agent[r].card IN i \in published \/ ~StateAllows(i) \/ ~NotStale(i)
  /\ Finished(r, Context(r))
  /\ UNCHANGED <<roomVars, faults>>

\* The work on the message is broken off: the LLM, the post or a request fails, or the
\* answer to one that was served is lost.
BrokenOff(r) ==
  /\ agent[r].pc # "poll"
  /\ Fault
  /\ Finished(r, Context(r))
  /\ UNCHANGED roomVars

\* The agent dies in the middle of a message and is started again, ...
Crash(r) ==
  /\ agent[r].pc # "poll"
  /\ Fault
  /\ agent' = [agent EXCEPT ![r] = Fresh]
  /\ UNCHANGED roomVars

\* ... or between two messages, for any reason.
Restart(r) ==
  /\ agent[r].pc = "poll" /\ agent[r] # Fresh
  /\ agent' = [agent EXCEPT ![r] = Fresh]
  /\ UNCHANGED <<roomVars, faults>>

Submission(r) == Lost(r) \/ Post(r) \/ ConfirmedUnheard(r) \/ ConfirmRefused(r) \/ BrokenOff(r)
================================================================================
