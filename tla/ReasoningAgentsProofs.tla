------------------------- MODULE ReasoningAgentsProofs -------------------------
(***************************************************************************)
(* Proofs about ReasoningAgents, for any reports, any number of cards,     *)
(* messages and faults, any challenge budget and any restarts: weak        *)
(* evidence never passes, and a human is called in only when the           *)
(* challenges are used up.                                                 *)
(*                                                                         *)
(* The argument: every step of the agents is a step of the card ledger or  *)
(* leaves it alone, so what is proved of the ledger's steps holds here.    *)
(* Cards, their origins and messages are never taken back, so what was     *)
(* true of an answer when it was sealed stays true; and the Reviewer's     *)
(* count of the challenges, in memory or restored, is never higher than    *)
(* the published ones, which the budget bounds from above.                 *)
(***************************************************************************)
EXTENDS ReasoningAgents, CardLedgerProofs

-------------------------------------------------------------------------------
(* Sequences and sets.                                                         *)

\* What is appended to a sequence leaves the rest of it where it is.
LEMMA AppendKeeps ==
  ASSUME NEW S, NEW s \in Seq(S), NEW x \in S
  PROVE  /\ Append(s, x) \in Seq(S) /\ Len(Append(s, x)) = Len(s) + 1
         /\ DOMAIN s = 1..Len(s) /\ DOMAIN Append(s, x) = 1..(Len(s) + 1)
         /\ Append(s, x)[Len(s) + 1] = x
         /\ \A i \in 1..Len(s) : Append(s, x)[i] = s[i]
  OBVIOUS

\* A set of numbers with a bound has a greatest element ...
LEMMA Greatest ==
  ASSUME NEW n \in Nat, NEW S \in SUBSET (1..n), S # {}
  PROVE  \E m \in S : \A k \in S : k <= m
<1> DEFINE Above(j) == {k \in S : k > j}
           T == {Above(j) : j \in S}
<1>1. IsFiniteSet(S)
  <2>1. IsFiniteSet(1..n)
    BY FS_Interval
  <2> QED
    BY <2>1, FS_Subset
<1>2. T \subseteq FiniteSubsetsOf(S) /\ T # {}
  <2>1. \A j \in S : Above(j) \in SUBSET S
    OBVIOUS
  <2>2. T \subseteq SUBSET S
    BY <2>1
  <2>3. T # {}
    <3>1. PICK j \in S : TRUE
      OBVIOUS
    <3>2. Above(j) \in T
      BY <3>1
    <3> HIDE DEF T
    <3> QED
      BY <3>2
  <2> QED
    BY <1>1, <2>2, <2>3, FS_FiniteSubsetsOfFinite
<1>3. PICK x \in T : \A y \in T : <<y, x>> \notin StrictSubsetOrdering(S)
  BY <1>2, FS_StrictSubsetOrderingWellFounded, WFMin
<1>4. PICK m \in S : x = Above(m)
  BY <1>3
<1>5. ASSUME NEW k \in S, k > m PROVE FALSE
  <2>1. Above(k) \subseteq Above(m)
    <3> SUFFICES ASSUME NEW j \in S, j > k PROVE j > m
      OBVIOUS
    <3> QED
      BY <1>5
  <2>2. k \in Above(m) /\ k \notin Above(k)
    BY <1>5
  <2>3. <<Above(k), Above(m)>> \in StrictSubsetOrdering(S)
    BY <2>1, <2>2 DEF StrictSubsetOrdering
  <2> QED
    BY <1>3, <1>4, <2>3
<1> QED
  BY <1>5

\* ... and a least one.
LEMMA Least ==
  ASSUME NEW n \in Nat, NEW S \in SUBSET (1..n), S # {}
  PROVE  \E m \in S : \A k \in S : m <= k
<1> DEFINE T == {n + 1 - j : j \in S}
<1>1. T \in SUBSET (1..n) /\ T # {}
  <2>1. \A j \in S : n + 1 - j \in 1..n
    OBVIOUS
  <2> QED
    BY <2>1
<1>2. PICK t \in T : \A k \in T : k <= t
  BY <1>1, Greatest
<1>3. PICK m \in S : t = n + 1 - m
  BY <1>2
<1>4. ASSUME NEW k \in S PROVE m <= k
  <2>1. n + 1 - k <= n + 1 - m
    BY <1>2, <1>3
  <2>2. m \in Nat /\ k \in Nat
    OBVIOUS
  <2> QED
    BY <2>1, <2>2
<1> QED
  BY <1>4

\* Who answers what with what.
LEMMA Roles ==
  /\ DIAGNOSIS \in Agents /\ REVIEWER \in Agents /\ COMMANDER \in Agents
  /\ DIAGNOSIS # REVIEWER /\ REVIEWER # COMMANDER /\ DIAGNOSIS # COMMANDER
  /\ Answer(DIAGNOSIS) = "Assessment" /\ Answer(REVIEWER) = "Verdict"
  /\ Answer(COMMANDER) = "ResponsePlan"
  /\ \A c : Concerns(DIAGNOSIS, c) <=> AsksDiagnosis(c)
  /\ \A c : Concerns(REVIEWER, c) <=> c.type = "Assessment"
  /\ \A c : Concerns(COMMANDER, c) <=> AsksCommander(c)
<1>1. DIAGNOSIS \in Agents /\ REVIEWER \in Agents /\ COMMANDER \in Agents
  BY DEF Agents
<1>2. DIAGNOSIS # REVIEWER /\ REVIEWER # COMMANDER /\ DIAGNOSIS # COMMANDER
  BY DEF DIAGNOSIS, REVIEWER, COMMANDER
<1>3. Answer(DIAGNOSIS) = "Assessment"
  BY <1>2 DEF Answer
<1>4. Answer(REVIEWER) = "Verdict"
  BY <1>2 DEF Answer
<1>5. Answer(COMMANDER) = "ResponsePlan"
  BY <1>2 DEF Answer
<1>6. \A c : Concerns(DIAGNOSIS, c) <=> AsksDiagnosis(c)
  BY <1>2 DEF Concerns
<1>7. \A c : Concerns(REVIEWER, c) <=> c.type = "Assessment"
  BY <1>2 DEF Concerns, AsksReviewer
<1>8. \A c : Concerns(COMMANDER, c) <=> AsksCommander(c)
  BY <1>2 DEF Concerns
<1> QED
  BY <1>1, <1>2, <1>3, <1>4, <1>5, <1>6, <1>7, <1>8

-------------------------------------------------------------------------------
(* The parts of the invariant, and what keeps them.                            *)

\* What it says of the room and the chain, ...
RoomSound ==
  /\ BudgetInv
  /\ messages \in Seq(1..Len(cards)) /\ Len(messages) <= MaxMessages
  /\ room = {messages[m] : m \in DOMAIN messages} /\ RoutingIsPosted
  /\ origin \in Seq(Origin) /\ Len(origin) = Len(cards)
  /\ AnswersConcern /\ ReportsAreFound /\ AssessedFirst /\ PlansAreRunbooks
  /\ EscalationsAreLast /\ ConfirmsSoundEvidence

\* ... of the context of agent r, ...
SoundContext(r, ctx) ==
  /\ ctx \in Contexts
  /\ r = COMMANDER /\ ctx.known => ctx.report \in Reports
  /\ r = REVIEWER => ctx.challenges <= ChallengesSpent

\* ... and of its memory.
SoundMemory(r, m) ==
  /\ m \in Memory /\ SoundContext(r, m.ctx)
  /\ m.offset <= Len(messages) /\ m.msg <= Len(messages) /\ m.card <= Len(cards)
  /\ m.pc # "poll" => m.msg > 0 /\ Concerns(r, cards[messages[m.msg]])
  /\ r = COMMANDER /\ m.pc # "poll" => m.ctx.known
  /\ m.pc \in {"post", "confirm", "authorize"} => m.card > 0

LEMMA InvParts ==
  ASSUME AgentsInv
  PROVE  /\ RoomSound /\ agent \in [Agents -> Memory]
         /\ \A r \in Agents : SoundMemory(r, agent[r])
         /\ faults \in 0..MaxFaults /\ challenged \subseteq 1..Len(cards)
<1>1. RoomSound
  BY DEF AgentsInv, AgentsTypeOK, RoomSound
<1>2. agent \in [Agents -> Memory] /\ faults \in 0..MaxFaults /\ challenged \subseteq 1..Len(cards)
  BY DEF AgentsInv, AgentsTypeOK
<1>3. ASSUME NEW r \in Agents PROVE SoundMemory(r, agent[r])
  <2>1. agent[r] \in Memory
    BY <1>2
  <2>2. agent[r].ctx \in Contexts
    BY <2>1 DEF Memory
  <2>3. SoundContext(r, agent[r].ctx)
    BY <2>2 DEF AgentsInv, PlansForReport, ChallengesCounted, Context, SoundContext
  <2>4. /\ agent[r].offset \in 0..Len(messages) /\ agent[r].msg \in 0..Len(messages)
        /\ agent[r].card \in 0..Len(cards)
        /\ agent[r].pc # "poll" => agent[r].msg > 0
        /\ agent[r].pc \in {"post", "confirm", "authorize"} => agent[r].card > 0
    BY DEF AgentsInv, AgentsTypeOK
  <2>5. agent[r].pc # "poll" =>
          Concerns(r, cards[messages[agent[r].msg]]) /\ (r = COMMANDER => agent[r].ctx.known)
    BY DEF AgentsInv, QuestionsConcern, Context, Question
  <2> QED
    BY <2>1, <2>3, <2>4, <2>5 DEF SoundMemory
<1> QED
  BY <1>1, <1>2, <1>3

\* What the numbers of cards and messages stand for.
LEMMA InRange ==
  ASSUME RoomSound
  PROVE  /\ cards \in Seq(Card) /\ origin \in Seq(Origin) /\ messages \in Seq(1..Len(cards))
         /\ DOMAIN cards = 1..Len(cards) /\ Len(cards) \in Nat
         /\ DOMAIN origin = 1..Len(cards)
         /\ DOMAIN messages = 1..Len(messages) /\ Len(messages) \in Nat
         /\ \A i \in 1..Len(cards) : cards[i] \in Card /\ origin[i] \in Origin
         /\ \A m \in 1..Len(messages) : messages[m] \in 1..Len(cards)
         /\ published \subseteq room /\ room \subseteq 1..Len(cards)
<1>1. /\ cards \in Seq(Card) /\ origin \in Seq(Origin) /\ messages \in Seq(1..Len(cards))
      /\ Len(origin) = Len(cards)
      /\ published \subseteq room /\ room \subseteq 1..Len(cards)
  BY DEF RoomSound, BudgetInv, TypeOK
<1> QED
  BY <1>1

\* Cards, origins and messages stay, and so do spent challenges.
Grows ==
  /\ Len(cards) <= Len(cards') /\ \A i \in 1..Len(cards) : cards'[i] = cards[i]
  /\ \A i \in 1..Len(cards) : origin'[i] = origin[i]
  /\ Len(messages) <= Len(messages') /\ \A m \in 1..Len(messages) : messages'[m] = messages[m]
  /\ ChallengesSpent <= ChallengesSpent'

\* An agent's memory stays sound when the room grows.
LEMMA MemoryKept ==
  ASSUME RoomSound, RoomSound', Grows, NEW r \in Agents, NEW m, SoundMemory(r, m)
  PROVE  SoundMemory(r, m)'
<1>1. /\ Len(cards) \in Nat /\ Len(cards') \in Nat
      /\ Len(messages) \in Nat /\ Len(messages') \in Nat
  BY DEF RoomSound, BudgetInv, TypeOK
<1>2. ChallengesSpent \in Nat /\ ChallengesSpent' \in Nat
  <2>1. \A S : IsFiniteSet(S) => Cardinality(S) \in Nat
    BY FS_CardinalityType
  <2>2. IsFiniteSet(1..Len(cards)) /\ IsFiniteSet(1..Len(cards'))
    BY <1>1, FS_Interval
  <2>3. PublishedChallenges \subseteq 1..Len(cards) /\ PublishedChallenges' \subseteq 1..Len(cards')
    BY DEF RoomSound, BudgetInv, TypeOK, PublishedChallenges
  <2>4. IsFiniteSet(PublishedChallenges) /\ IsFiniteSet(PublishedChallenges')
    BY <2>2, <2>3, FS_Subset
  <2> QED
    BY <2>1, <2>4 DEF ChallengesSpent
<1>3. /\ m \in Memory /\ m.ctx \in Contexts /\ m.ctx.challenges \in Nat
      /\ m.offset \in Nat /\ m.msg \in Nat /\ m.card \in Nat
  BY DEF SoundMemory, Memory, Contexts
<1>4. SoundContext(r, m.ctx)'
  BY <1>2, <1>3 DEF SoundMemory, SoundContext, Grows
<1>5. m.offset <= Len(messages') /\ m.msg <= Len(messages') /\ m.card <= Len(cards')
  BY <1>1, <1>3 DEF SoundMemory, Grows
<1>6. m.pc # "poll" => Concerns(r, cards'[messages'[m.msg]])
  <2> SUFFICES ASSUME m.pc # "poll" PROVE Concerns(r, cards'[messages'[m.msg]])
    OBVIOUS
  <2>1. m.msg \in 1..Len(messages) /\ Concerns(r, cards[messages[m.msg]])
    BY <1>1, <1>3 DEF SoundMemory
  <2>2. messages'[m.msg] = messages[m.msg] /\ messages[m.msg] \in 1..Len(cards)
    BY <2>1, InRange DEF Grows
  <2> QED
    BY <2>1, <2>2 DEF Grows
<1> QED
  BY <1>3, <1>4, <1>5, <1>6 DEF SoundMemory

\* The invariant follows from its parts after a step in which one agent at most moves.
LEMMA Assembled ==
  ASSUME AgentsInv, RoomSound', Grows,
         NEW r \in Agents, NEW m, SoundMemory(r, m)',
         agent' = agent \/ agent' = [agent EXCEPT ![r] = m],
         faults' \in 0..MaxFaults, challenged' \subseteq 1..Len(cards')
  PROVE  AgentsInv'
<1>1. RoomSound /\ agent \in [Agents -> Memory]
  BY InvParts
<1>2. ASSUME NEW q \in Agents PROVE \E x \in Memory : agent'[q] = x /\ SoundMemory(q, x)'
  <2>1. PICK x : x = agent[q]
    OBVIOUS
  <2>2. SoundMemory(q, x)
    BY <2>1, InvParts
  <2>3. SoundMemory(q, x)'
    BY <1>1, <2>2, MemoryKept
  <2>4. agent'[q] = x \/ (q = r /\ agent'[q] = m)
    BY <1>1, <2>1
  <2>5. x \in Memory /\ m \in Memory
    BY <2>2 DEF SoundMemory
  <2> QED
    BY <2>3, <2>4, <2>5
<1>3. agent' \in [Agents -> Memory]
  BY <1>1, <1>2
<1>4. ASSUME NEW q \in Agents
      PROVE  /\ agent'[q].offset \in 0..Len(messages') /\ agent'[q].msg \in 0..Len(messages')
             /\ agent'[q].card \in 0..Len(cards')
             /\ agent'[q].pc # "poll" => agent'[q].msg > 0
             /\ agent'[q].pc \in {"post", "confirm", "authorize"} => agent'[q].card > 0
             /\ agent'[q].pc # "poll" =>
                  /\ Concerns(q, cards'[messages'[agent'[q].msg]])
                  /\ q = COMMANDER => agent'[q].ctx.known
             /\ q = COMMANDER /\ agent'[q].ctx.known => agent'[q].ctx.report \in Reports
             /\ q = REVIEWER => agent'[q].ctx.challenges <= ChallengesSpent'
  <2>1. PICK x \in Memory : agent'[q] = x /\ SoundMemory(q, x)'
    BY <1>2
  <2>2. SoundMemory(q, x)'
    BY <2>1
  <2>3. x.offset \in Nat /\ x.msg \in Nat /\ x.card \in Nat
    BY <2>2 DEF Memory
  <2>4. Len(messages') \in Nat /\ Len(cards') \in Nat
    BY DEF RoomSound, BudgetInv, TypeOK
  <2> QED
    BY <2>1, <2>2, <2>3, <2>4 DEF SoundMemory, SoundContext
<1>5. AgentsTypeOK'
  BY <1>3, <1>4 DEF RoomSound, BudgetInv, AgentsTypeOK
<1>6. QuestionsConcern' /\ PlansForReport' /\ ChallengesCounted'
  BY <1>4 DEF QuestionsConcern, PlansForReport, ChallengesCounted, Context, Question, Agents
<1> QED
  BY <1>5, <1>6 DEF AgentsInv, RoomSound

\* A step of the ledger takes nothing back.
LEMMA LedgerGrows ==
  ASSUME TypeOK, [LedgerNext]_ledgerVars
  PROVE  /\ TypeOK'
         /\ published \subseteq published' /\ PublishedChallenges \subseteq PublishedChallenges'
         /\ Len(cards) <= Len(cards') /\ \A i \in 1..Len(cards) : cards'[i] = cards[i]
         /\ IsFiniteSet(PublishedChallenges')
         /\ ChallengesSpent \in Nat /\ ChallengesSpent' \in Nat
         /\ ChallengesSpent <= ChallengesSpent'
<1>1. TypeOK'
  BY LedgerTypingStep
<1>2. Len(cards) \in Nat /\ Len(cards') \in Nat
  BY <1>1 DEF TypeOK
<1>3. Len(cards) <= Len(cards') /\ \A i \in 1..Len(cards) : cards'[i] = cards[i]
  <2>1. ASSUME NEW c \in Card, cards' = Append(cards, c)
        PROVE  Len(cards) <= Len(cards') /\ \A i \in 1..Len(cards) : cards'[i] = cards[i]
    BY <1>2, <2>1, SealKeepsCards DEF TypeOK
  <2>2. ASSUME NEW c \in AgentCards, PrepareCard(c)
        PROVE  Len(cards) <= Len(cards') /\ \A i \in 1..Len(cards) : cards'[i] = cards[i]
    BY <2>1, <2>2, SubmittedAreCards, RiskFloorKeepsCard DEF PrepareCard
  <2>3. ASSUME NEW c \in GatewayCards, SealDecision(c)
        PROVE  Len(cards) <= Len(cards') /\ \A i \in 1..Len(cards) : cards'[i] = cards[i]
    BY <2>1, <2>3, SubmittedAreCards DEF SealDecision
  <2>4. CASE cards' = cards
    BY <1>2, <2>4
  <2> QED
    BY <2>2, <2>3, <2>4
    DEF LedgerNext, CrashAfterUpsert, PostCard, ConfirmPublication, PublishAuthorization,
        PublishRefusal, ledgerVars
<1>4. published \subseteq published'
  BY DEF LedgerNext, PrepareCard, CrashAfterUpsert, SealDecision, PostCard, ConfirmPublication,
         PublishAuthorization, PublishRefusal, ledgerVars
<1>5. PublishedChallenges \subseteq PublishedChallenges'
  <2>1. published \subseteq 1..Len(cards)
    BY DEF TypeOK
  <2> QED
    BY <1>3, <1>4, <2>1 DEF PublishedChallenges
<1>6. IsFiniteSet(PublishedChallenges')
  <2>1. IsFiniteSet(1..Len(cards'))
    BY <1>2, FS_Interval
  <2>2. PublishedChallenges' \subseteq 1..Len(cards')
    BY <1>1 DEF TypeOK, PublishedChallenges
  <2> QED
    BY <2>1, <2>2, FS_Subset
<1>7. ChallengesSpent \in Nat /\ ChallengesSpent' \in Nat /\ ChallengesSpent <= ChallengesSpent'
  <2>1. ChallengesSpent \in Nat
    BY ChallengesFinite
  <2>2. Cardinality(PublishedChallenges') \in Nat
    BY <1>6, FS_CardinalityType
  <2>3. Cardinality(PublishedChallenges) <= Cardinality(PublishedChallenges')
    BY <1>5, <1>6, FS_Subset
  <2> QED
    BY <2>1, <2>2, <2>3 DEF ChallengesSpent
<1> QED
  BY <1>1, <1>3, <1>4, <1>5, <1>6, <1>7

\* Challenges that come after an escalation would be over the budget.
LEMMA EscalationKept ==
  ASSUME BudgetInv, BudgetInv', [LedgerNext]_ledgerVars, NEW i,
         Cardinality({j \in PublishedChallenges : j < i}) = MaxChallenges
  PROVE  Cardinality({j \in PublishedChallenges' : j < i}) = MaxChallenges
<1> DEFINE before == {j \in PublishedChallenges : j < i}
           after == {j \in PublishedChallenges' : j < i}
<1>1. PublishedChallenges \subseteq PublishedChallenges' /\ IsFiniteSet(PublishedChallenges')
  BY LedgerGrows DEF BudgetInv
<1>2. before \subseteq after /\ after \subseteq PublishedChallenges'
  BY <1>1
<1>3. IsFiniteSet(after) /\ Cardinality(after) <= Cardinality(PublishedChallenges')
  BY <1>1, <1>2, FS_Subset
<1>4. Cardinality(before) <= Cardinality(after)
  BY <1>2, <1>3, FS_Subset
<1>5. Cardinality(PublishedChallenges') <= MaxChallenges
  BY DEF BudgetInv, ChallengeBudget, ChallengesSpent
<1>6. Cardinality(after) \in Nat /\ Cardinality(PublishedChallenges') \in Nat
  BY <1>1, <1>3, FS_CardinalityType
<1> QED
  BY <1>3, <1>4, <1>5, <1>6, LedgerAssumption

\* The room is as it was, or has more messages.
MessagesGrow ==
  /\ messages' \in Seq(1..Len(cards)) /\ Len(messages') <= MaxMessages
  /\ Len(messages) <= Len(messages') /\ DOMAIN messages \subseteq DOMAIN messages'
  /\ \A m \in DOMAIN messages : messages'[m] = messages[m]
  /\ room' = {messages'[m] : m \in DOMAIN messages'}

LEMMA NoPost ==
  ASSUME RoomSound, UNCHANGED <<messages, room>>
  PROVE  MessagesGrow
BY InRange DEF RoomSound, MessagesGrow

LEMMA PostGrows ==
  ASSUME RoomSound, Len(messages) < MaxMessages, NEW i \in 1..Len(cards),
         messages' = Append(messages, i), room' = room \union {i}
  PROVE  MessagesGrow
<1> DEFINE n == Len(messages) + 1
<1>1. messages \in Seq(1..Len(cards)) /\ Len(messages) \in Nat
  BY InRange
<1>2. /\ messages' \in Seq(1..Len(cards)) /\ Len(messages') = n
      /\ DOMAIN messages = 1..Len(messages) /\ DOMAIN messages' = 1..n
      /\ messages'[n] = i
      /\ \A m \in 1..Len(messages) : messages'[m] = messages[m]
  BY <1>1, AppendKeeps
<1>3. 1..n = 1..Len(messages) \union {n} /\ n \notin 1..Len(messages)
  BY <1>1
<1>4. Len(messages') <= MaxMessages /\ Len(messages) <= Len(messages')
  BY <1>1, <1>2, AgentAssumption
<1> HIDE DEF n
<1>5. room' = {messages'[m] : m \in DOMAIN messages'}
  <2>1. room = {messages[m] : m \in 1..Len(messages)}
    BY <1>2 DEF RoomSound
  <2>2. ASSUME NEW x \in room' PROVE \E m \in 1..n : x = messages'[m]
    <3>1. CASE x \in room
      <4>1. PICK m \in 1..Len(messages) : x = messages[m]
        BY <2>1, <3>1
      <4> QED
        BY <1>2, <1>3, <4>1
    <3>2. CASE x = i
      BY <1>2, <1>3, <3>2
    <3> QED
      BY <3>1, <3>2
  <2>3. ASSUME NEW m \in 1..n PROVE messages'[m] \in room'
    BY <1>2, <1>3, <2>1
  <2> QED
    BY <1>2, <2>2, <2>3
<1> QED
  BY <1>2, <1>3, <1>4, <1>5 DEF MessagesGrow

\* Posting and publishing keep the room sound.
LEMMA RoomKept ==
  ASSUME RoomSound, [LedgerNext]_ledgerVars, cards' = cards, origin' = origin, MessagesGrow
  PROVE  RoomSound' /\ Grows
<1>1. TypeOK' /\ BudgetInv'
  BY LedgerTypingStep, BudgetStep DEF RoomSound, BudgetInv
<1>2. /\ messages' \in Seq(1..Len(cards)) /\ Len(messages') <= MaxMessages
      /\ Len(messages) <= Len(messages') /\ DOMAIN messages \subseteq DOMAIN messages'
      /\ \A m \in DOMAIN messages : messages'[m] = messages[m]
      /\ room' = {messages'[m] : m \in DOMAIN messages'}
  BY DEF MessagesGrow
<1>3. ChallengesSpent <= ChallengesSpent'
  BY LedgerGrows DEF RoomSound, BudgetInv
<1>4. Grows
  BY <1>2, <1>3, InRange DEF Grows
<1>5. RoutingIsPosted'
  <2>1. room \subseteq room'
    BY <1>2 DEF RoomSound
  <2> QED
    BY <2>1 DEF RoomSound, RoutingIsPosted
<1>6. ASSUME NEW i \in DOMAIN cards, NEW r \in Agents, cards[i].type = Answer(r)
      PROVE  /\ origin[i].msg \in DOMAIN messages'
             /\ messages'[origin[i].msg] = messages[origin[i].msg]
  <2>1. origin[i].msg \in DOMAIN messages
    BY <1>6 DEF RoomSound, AnswersConcern
  <2> QED
    BY <1>2, <2>1
<1>7. AnswersConcern'
  <2> SUFFICES ASSUME NEW i \in DOMAIN cards, NEW r \in Agents, cards[i].type = Answer(r)
               PROVE  /\ origin[i].msg \in DOMAIN messages'
                      /\ messages'[origin[i].msg] < i
                      /\ Concerns(r, cards[messages'[origin[i].msg]])
    BY DEF AnswersConcern
  <2> QED
    BY <1>6 DEF RoomSound, AnswersConcern
<1>8. ConfirmsSoundEvidence'
  <2> SUFFICES ASSUME NEW i \in DOMAIN cards, IsConfirm(cards[i])
               PROVE  ~origin[messages'[origin[i].msg]].report.weak
    BY DEF ConfirmsSoundEvidence
  <2>1. cards[i].type = Answer(REVIEWER) /\ REVIEWER \in Agents
    BY Roles DEF IsConfirm
  <2>2. messages'[origin[i].msg] = messages[origin[i].msg]
    BY <1>6, <2>1
  <2> QED
    BY <2>2 DEF RoomSound, ConfirmsSoundEvidence
<1>9. EscalationsAreLast'
  BY <1>1, EscalationKept DEF RoomSound, EscalationsAreLast
<1>10. ReportsAreFound' /\ AssessedFirst' /\ PlansAreRunbooks'
  BY DEF RoomSound, ReportsAreFound, AssessedFirst, PlansAreRunbooks
<1> QED
  BY <1>1, <1>2, <1>4, <1>5, <1>7, <1>8, <1>9, <1>10 DEF RoomSound

\* What a card d that answers with the origin o must be for the room to stay sound.
SoundCard(d, o) ==
  /\ d \in Card /\ o \in Origin /\ d.type # "TriageDecision"
  /\ d.type = "Assessment" => o.report \in Reports
  /\ d.type # "Assessment" => \E j \in DOMAIN cards : cards[j].type = "Assessment"
  /\ d.type = "ResponsePlan" => d.body \in Bodies
  /\ \A r \in Agents : d.type = Answer(r) =>
       o.msg \in DOMAIN messages /\ Concerns(r, cards[messages[o.msg]])
  /\ IsConfirm(d) => ~origin[messages[o.msg]].report.weak
  /\ d.type = "Verdict" /\ d.decision = "NEEDS_HUMAN" => ChallengesSpent >= MaxChallenges

\* Sealing one keeps the room sound.
LEMMA SealKept ==
  ASSUME RoomSound, [LedgerNext]_ledgerVars, NEW d, NEW o, SoundCard(d, o),
         cards' = Append(cards, d), origin' = Append(origin, o),
         UNCHANGED <<messages, room, published>>
  PROVE  RoomSound' /\ Grows
<1> DEFINE n == Len(cards) + 1
<1>1. TypeOK' /\ BudgetInv'
  BY LedgerTypingStep, BudgetStep DEF RoomSound, BudgetInv
<1>2. d \in Card /\ o \in Origin
  BY DEF SoundCard
<1>3. /\ cards' \in Seq(Card) /\ Len(cards') = n /\ DOMAIN cards' = 1..n /\ cards'[n] = d
      /\ \A i \in 1..Len(cards) : cards'[i] = cards[i]
  BY <1>2, InRange, AppendKeeps
<1>4. /\ origin' \in Seq(Origin) /\ Len(origin') = n /\ origin'[n] = o
      /\ \A i \in 1..Len(cards) : origin'[i] = origin[i]
  <2>1. Len(origin) = Len(cards)
    BY DEF RoomSound
  <2> QED
    BY <1>2, <2>1, InRange, AppendKeeps
<1>5. Len(cards) \in Nat /\ DOMAIN cards = 1..Len(cards) /\ \A i \in 1..n : i \in 1..Len(cards) \/ i = n
  BY InRange
<1> HIDE DEF n
<1>6. /\ DOMAIN messages = 1..Len(messages) /\ Len(messages) \in Nat
      /\ \A m \in DOMAIN messages : messages[m] \in 1..Len(cards)
      /\ \A m \in DOMAIN messages : cards'[messages[m]] = cards[messages[m]]
                                    /\ origin'[messages[m]] = origin[messages[m]]
                                    /\ messages[m] < n
  BY <1>3, <1>4, InRange DEF n
<1>7. messages' \in Seq(1..Len(cards')) /\ Len(messages') <= MaxMessages
  <2>1. 1..Len(cards) \subseteq 1..Len(cards')
    BY <1>3, <1>5 DEF n
  <2>2. messages \in Seq(1..Len(cards'))
    BY <2>1, InRange
  <2> QED
    BY <2>2 DEF RoomSound
<1>8. room' = {messages'[m] : m \in DOMAIN messages'} /\ RoutingIsPosted'
  BY DEF RoomSound, RoutingIsPosted
<1>9. PublishedChallenges' = PublishedChallenges /\ ChallengesSpent' = ChallengesSpent
  BY <1>2, SealSpendsNothing DEF RoomSound, BudgetInv
<1>10. Grows
  <2>1. ChallengesSpent <= ChallengesSpent'
    BY LedgerGrows DEF RoomSound, BudgetInv
  <2>2. Len(cards) <= Len(cards')
    BY <1>3, <1>5 DEF n
  <2> QED
    BY <1>3, <1>4, <1>6, <2>1, <2>2 DEF Grows
<1>11. AnswersConcern'
  <2> SUFFICES ASSUME NEW i \in 1..n, NEW r \in Agents, cards'[i].type = Answer(r)
               PROVE  /\ origin'[i].msg \in DOMAIN messages
                      /\ messages[origin'[i].msg] < i
                      /\ Concerns(r, cards'[messages[origin'[i].msg]])
    BY <1>3 DEF AnswersConcern
  <2>1. CASE i \in 1..Len(cards)
    BY <1>3, <1>4, <1>5, <1>6, <2>1 DEF RoomSound, AnswersConcern
  <2>2. CASE i = n
    BY <1>3, <1>4, <1>6, <2>2 DEF SoundCard
  <2> QED
    BY <1>5, <2>1, <2>2
<1>12. ConfirmsSoundEvidence'
  <2> SUFFICES ASSUME NEW i \in 1..n, IsConfirm(cards'[i])
               PROVE  ~origin'[messages[origin'[i].msg]].report.weak
    BY <1>3 DEF ConfirmsSoundEvidence
  <2>1. cards'[i].type = Answer(REVIEWER) /\ REVIEWER \in Agents
    BY Roles DEF IsConfirm
  <2>2. origin'[i].msg \in DOMAIN messages
    BY <1>3, <1>11, <2>1 DEF AnswersConcern
  <2>3. CASE i \in 1..Len(cards)
    BY <1>3, <1>4, <1>5, <1>6, <2>2, <2>3 DEF RoomSound, ConfirmsSoundEvidence
  <2>4. CASE i = n
    BY <1>3, <1>4, <1>6, <2>2, <2>4 DEF SoundCard
  <2> QED
    BY <1>5, <2>3, <2>4
<1>13. EscalationsAreLast'
  <2> SUFFICES ASSUME NEW i \in 1..n, cards'[i].type = "Verdict", cards'[i].decision = "NEEDS_HUMAN"
               PROVE  Cardinality({j \in PublishedChallenges' : j < i}) = MaxChallenges
    BY <1>3 DEF EscalationsAreLast
  <2>1. CASE i \in 1..Len(cards)
    BY <1>3, <1>5, <1>9, <2>1 DEF RoomSound, EscalationsAreLast
  <2>2. CASE i = n
    <3>1. PublishedChallenges \subseteq 1..Len(cards)
      BY DEF RoomSound, BudgetInv, TypeOK, PublishedChallenges
    <3>2. {j \in PublishedChallenges : j < n} = PublishedChallenges
      <4>1. \A j \in PublishedChallenges : j < n
        BY <1>5, <3>1 DEF n
      <4> QED
        BY <4>1
    <3>3. ChallengesSpent >= MaxChallenges
      BY <1>3, <2>2 DEF SoundCard
    <3>4. ChallengesSpent <= MaxChallenges /\ ChallengesSpent \in Nat
      BY LedgerGrows DEF RoomSound, BudgetInv, ChallengeBudget
    <3>5. Cardinality(PublishedChallenges) = MaxChallenges
      BY <3>3, <3>4, LedgerAssumption DEF ChallengesSpent
    <3>6. {j \in PublishedChallenges' : j < i} = PublishedChallenges
      BY <1>9, <2>2, <3>2
    <3> QED
      BY <3>5, <3>6
  <2> QED
    BY <1>5, <2>1, <2>2
<1>14. ReportsAreFound'
  BY <1>3, <1>4, <1>5 DEF RoomSound, ReportsAreFound, SoundCard
<1>15. PlansAreRunbooks'
  BY <1>3, <1>5 DEF RoomSound, PlansAreRunbooks, SoundCard
<1>16. AssessedFirst'
  <2> SUFFICES ASSUME NEW i \in 1..n, cards'[i].type # "TriageDecision"
               PROVE  \E j \in 1..n : cards'[j].type = "Assessment"
    BY <1>3 DEF AssessedFirst
  <2>1. CASE \E j \in 1..Len(cards) : cards[j].type = "Assessment"
    BY <1>3, <1>5, <2>1 DEF n
  <2>2. CASE i = n
    <3>1. n \in 1..n
      BY <1>5 DEF n
    <3> QED
      BY <1>3, <1>5, <2>1, <2>2, <3>1 DEF SoundCard
  <2> QED
    BY <1>3, <1>5, <2>1, <2>2 DEF RoomSound, AssessedFirst
<1> QED
  BY <1>1, <1>3, <1>4, <1>7, <1>8, <1>10, <1>11, <1>12, <1>13, <1>14, <1>15, <1>16
  DEF RoomSound

-------------------------------------------------------------------------------
(* What an agent does with a message.                                          *)

\* A new process remembers nothing, which is sound.
LEMMA FreshIsSound ==
  ASSUME RoomSound, NEW r
  PROVE  SoundMemory(r, Fresh) /\ SoundContext(r, NoContext) /\ Fresh \in Memory
<1>1. NoContext \in Contexts
  BY DEF NoContext, Contexts
<1>2. Fresh \in Memory
  BY <1>1 DEF Fresh, Memory
<1>3. SoundContext(r, NoContext)
  <2>1. ChallengesSpent \in Nat
    BY ChallengesFinite DEF RoomSound, BudgetInv
  <2> QED
    BY <1>1, <2>1 DEF SoundContext, NoContext
<1>4. Len(messages) \in Nat /\ Len(cards) \in Nat
  BY InRange
<1> QED
  BY <1>2, <1>3, <1>4 DEF SoundMemory, Fresh

\* Only the memory of one agent changes.
LEMMA MemoryStep ==
  ASSUME AgentsInv, NEW r \in Agents, NEW m, SoundMemory(r, m),
         agent' = [agent EXCEPT ![r] = m], UNCHANGED roomVars,
         faults' \in 0..MaxFaults, challenged' \subseteq 1..Len(cards)
  PROVE  AgentsInv'
<1>1. RoomSound
  BY InvParts
<1>2. UNCHANGED <<ledgerVars, cards, messages, room, origin>>
  BY DEF roomVars, ledgerVars
<1>3. MessagesGrow
  BY <1>1, <1>2, NoPost
<1>4. RoomSound' /\ Grows
  BY <1>1, <1>2, <1>3, RoomKept
<1>5. SoundMemory(r, m)'
  BY <1>1, <1>4, MemoryKept
<1>6. challenged' \subseteq 1..Len(cards')
  BY <1>2
<1> QED
  BY <1>4, <1>5, <1>6, Assembled

\* The next message is one that concerns the agent.
LEMMA NextConcerns ==
  ASSUME AgentsInv, NEW r \in Agents, Receives(r)
  PROVE  /\ NextMessage(r) \in 1..Len(messages) /\ NextMessage(r) \in Nat
         /\ NextCard(r) \in 1..Len(cards) /\ Concerns(r, cards[NextCard(r)])
<1>1. RoomSound /\ Inbox(r) # {}
  BY InvParts DEF Receives
<1>2. Len(messages) \in Nat /\ agent[r].offset \in Nat
  BY <1>1, InRange, InvParts DEF Memory
<1>3. Inbox(r) \in SUBSET (1..Len(messages))
  BY <1>2 DEF Inbox
<1>4. \E m \in Inbox(r) : \A k \in Inbox(r) : m <= k
  BY <1>1, <1>2, <1>3, Least
<1>5. NextMessage(r) \in Inbox(r)
  BY <1>4 DEF NextMessage
<1>6. NextMessage(r) \in 1..Len(messages) /\ Concerns(r, cards[messages[NextMessage(r)]])
  BY <1>3, <1>5 DEF Inbox
<1> QED
  BY <1>1, <1>2, <1>6, InRange DEF NextCard

\* A message is passed over, ...
LEMMA SkipStep ==
  ASSUME AgentsInv, NEW r \in Agents, Receives(r), NEW ctx, SoundContext(r, ctx), Skip(r, ctx),
         faults' \in 0..MaxFaults, challenged' \subseteq 1..Len(cards)
  PROVE  AgentsInv'
<1>1. agent \in [Agents -> Memory] /\ SoundMemory(r, agent[r])
  BY InvParts
<1>2. PICK m : m = [agent[r] EXCEPT !.offset = NextMessage(r), !.ctx = ctx]
  OBVIOUS
<1>3. agent' = [agent EXCEPT ![r] = m] /\ UNCHANGED roomVars
  BY <1>1, <1>2 DEF Skip
<1>4. /\ m \in Memory /\ m.pc = "poll" /\ m.offset = NextMessage(r) /\ m.ctx = ctx
      /\ m.msg = agent[r].msg /\ m.card = agent[r].card
  BY <1>1, <1>2, NextConcerns DEF Memory, Receives, SoundContext
<1>5. Len(messages) \in Nat
  BY InRange, InvParts
<1>6. SoundMemory(r, m)
  BY <1>1, <1>4, <1>5, NextConcerns DEF SoundMemory
<1> QED
  BY <1>3, <1>6, MemoryStep

\* ... or taken, ...
LEMMA AcceptStep ==
  ASSUME AgentsInv, NEW r \in Agents, Receives(r), NEW ctx, SoundContext(r, ctx),
         r = COMMANDER => ctx.known, Accept(r, ctx),
         faults' \in 0..MaxFaults, challenged' \subseteq 1..Len(cards)
  PROVE  AgentsInv'
<1>1. agent \in [Agents -> Memory] /\ SoundMemory(r, agent[r])
  BY InvParts
<1>2. PICK m : m = [agent[r] EXCEPT !.pc = "reason", !.msg = NextMessage(r), !.ctx = ctx]
  OBVIOUS
<1>3. agent' = [agent EXCEPT ![r] = m] /\ UNCHANGED roomVars
  BY <1>1, <1>2 DEF Accept
<1>4. /\ m \in Memory /\ m.pc = "reason" /\ m.msg = NextMessage(r) /\ m.ctx = ctx
      /\ m.offset = agent[r].offset /\ m.card = agent[r].card
  BY <1>1, <1>2, NextConcerns DEF Memory, SoundContext
<1>5. Len(messages) \in Nat
  BY InRange, InvParts
<1>6. Concerns(r, cards[messages[m.msg]])
  BY <1>4, NextConcerns DEF NextCard
<1>7. SoundMemory(r, m)
  BY <1>1, <1>4, <1>5, <1>6, NextConcerns DEF SoundMemory
<1> QED
  BY <1>3, <1>7, MemoryStep

\* ... and in the end done with.
LEMMA FinishedMemory ==
  ASSUME AgentsInv, NEW r \in Agents, NEW ctx \in Contexts, Finished(r, ctx)
  PROVE  \E m \in Memory : /\ agent' = [agent EXCEPT ![r] = m]
                           /\ m.pc = "poll" /\ m.ctx = ctx
                           /\ m.offset = agent[r].msg /\ m.msg = 0 /\ m.card = 0
<1>1. agent[r] \in Memory
  BY InvParts
<1>2. PICK m : m = [Fresh EXCEPT !.offset = agent[r].msg, !.ctx = ctx]
  OBVIOUS
<1>3. agent' = [agent EXCEPT ![r] = m]
  BY <1>2 DEF Finished
<1>4. /\ m \in Memory /\ m.pc = "poll" /\ m.ctx = ctx
      /\ m.offset = agent[r].msg /\ m.msg = 0 /\ m.card = 0
  <2>1. Fresh \in Memory /\ agent[r].msg \in Nat
    BY <1>1, InvParts, FreshIsSound DEF Memory
  <2> QED
    BY <1>2, <2>1 DEF Fresh, Memory
<1> QED
  BY <1>3, <1>4

LEMMA FinishStep ==
  ASSUME AgentsInv, NEW r \in Agents, NEW ctx, SoundContext(r, ctx), Finished(r, ctx),
         UNCHANGED roomVars, faults' \in 0..MaxFaults, challenged' \subseteq 1..Len(cards)
  PROVE  AgentsInv'
<1>1. ctx \in Contexts
  BY DEF SoundContext
<1>2. PICK m \in Memory : /\ agent' = [agent EXCEPT ![r] = m]
                          /\ m.pc = "poll" /\ m.ctx = ctx
                          /\ m.offset = agent[r].msg /\ m.msg = 0 /\ m.card = 0
  BY <1>1, FinishedMemory
<1>3. Len(messages) \in Nat /\ Len(cards) \in Nat /\ SoundMemory(r, agent[r])
  BY InRange, InvParts
<1>4. SoundMemory(r, m)
  BY <1>2, <1>3 DEF SoundMemory
<1> QED
  BY <1>2, <1>4, MemoryStep

-------------------------------------------------------------------------------
(* Submitting an answer.                                                       *)

\* An agent at work has a question before it.
LEMMA AtWork ==
  ASSUME AgentsInv, NEW r \in Agents, agent[r].pc # "poll"
  PROVE  /\ agent[r].msg \in DOMAIN messages /\ agent[r].msg \in Nat
         /\ Question(r) \in 1..Len(cards) /\ Concerns(r, cards[Question(r)])
         /\ r = COMMANDER => Context(r).known
         /\ SoundContext(r, Context(r))
<1>1. RoomSound /\ SoundMemory(r, agent[r]) /\ agent[r] \in Memory
  BY InvParts
<1>2. agent[r].msg \in 1..Len(messages) /\ agent[r].msg \in Nat
  BY <1>1, InRange DEF SoundMemory, Memory
<1> QED
  BY <1>1, <1>2, InRange DEF SoundMemory, Context, Question

\* The risk floor leaves a card what it is.
LEMMA FloorKeepsSound ==
  ASSUME NEW c, NEW o, SoundCard(c, o)
  PROVE  SoundCard(ApplyRiskFloor(c), o)
<1>1. c \in Card
  BY DEF SoundCard
<1>2. /\ ApplyRiskFloor(c) \in Card /\ ApplyRiskFloor(c).type = c.type
      /\ ApplyRiskFloor(c).decision = c.decision
  BY <1>1, RiskFloorKeepsCard
<1>3. ApplyRiskFloor(c).body = c.body
  BY <1>1 DEF ApplyRiskFloor, Card
<1> QED
  BY <1>2, <1>3 DEF SoundCard, IsConfirm

\* Its answer is sealed, ...
LEMMA PrepareStep ==
  ASSUME AgentsInv, NEW r \in Agents, agent[r].pc # "poll",
         NEW c \in AgentCards, NEW o, SoundCard(c, o), Prepare(r, c, o), UNCHANGED challenged
  PROVE  AgentsInv'
<1>1. /\ PrepareCard(c) /\ origin' = Append(origin, o) /\ UNCHANGED <<messages, faults>>
      /\ agent' = [agent EXCEPT ![r].pc = "post", ![r].card = Len(cards) + 1]
  BY DEF Prepare
<1>2. cards' = Append(cards, ApplyRiskFloor(c)) /\ UNCHANGED <<room, published>>
  BY <1>1 DEF PrepareCard
<1>3. [LedgerNext]_ledgerVars
  BY <1>1 DEF LedgerNext
<1>4. RoomSound
  BY InvParts
<1>5. RoomSound' /\ Grows
  BY <1>1, <1>2, <1>3, <1>4, FloorKeepsSound, SealKept
<1>6. PICK x : x = agent[r]
  OBVIOUS
<1>7. PICK m : m = [x EXCEPT !.pc = "post", !.card = Len(cards) + 1]
  OBVIOUS
<1>8. agent \in [Agents -> Memory] /\ x \in Memory /\ SoundMemory(r, x) /\ x.pc # "poll"
  BY <1>6, InvParts
<1>9. agent' = [agent EXCEPT ![r] = m]
  BY <1>1, <1>6, <1>7, <1>8
<1>10. Len(cards) \in Nat /\ Len(cards') = Len(cards) + 1
  <2>1. ApplyRiskFloor(c) \in Card
    BY FloorKeepsSound DEF SoundCard
  <2> QED
    BY <1>2, <1>4, <2>1, InRange, AppendKeeps
<1>11. /\ m \in Memory /\ m.pc = "post" /\ m.card = Len(cards) + 1 /\ m.ctx = x.ctx
       /\ m.msg = x.msg /\ m.offset = x.offset
  <2>1. PICK n \in Nat : n = Len(cards) + 1
    BY <1>10
  <2>2. m = [x EXCEPT !.pc = "post", !.card = n]
    BY <1>7, <2>1
  <2> QED
    BY <1>8, <2>1, <2>2 DEF Memory
<1>12. SoundMemory(r, x)'
  BY <1>4, <1>5, <1>8, MemoryKept
<1>13. SoundMemory(r, m)'
  BY <1>8, <1>10, <1>11, <1>12 DEF SoundMemory
<1>14. faults' \in 0..MaxFaults /\ challenged' \subseteq 1..Len(cards')
  BY <1>1, <1>10, InvParts
<1> QED
  BY <1>5, <1>9, <1>13, <1>14, Assembled

\* ... or was sealed before, or is refused, ...
LEMMA SubmitStep ==
  ASSUME AgentsInv, NEW r \in Agents, agent[r].pc # "poll",
         NEW c \in AgentCards, NEW o, SoundCard(c, o),
         Submit(r, c, o) \/ \E b \in BOOLEAN : KeyConflict(r, c, o, b), UNCHANGED challenged
  PROVE  AgentsInv'
<1>1. RoomSound /\ agent \in [Agents -> Memory] /\ SoundMemory(r, agent[r])
      /\ faults \in 0..MaxFaults /\ challenged' \subseteq 1..Len(cards)
  BY InvParts
<1>2. CASE Prepare(r, c, o)
  BY <1>2, PrepareStep
<1>3. CASE PrepareAgain(r, c, o)
  <2>1. PICK i \in DOMAIN cards : agent' = [agent EXCEPT ![r].pc = "post", ![r].card = i]
    BY <1>3 DEF PrepareAgain, SealedFor
  <2>2. UNCHANGED roomVars /\ faults' \in 0..MaxFaults
    BY <1>1, <1>3 DEF PrepareAgain
  <2>3. PICK m : m = [agent[r] EXCEPT !.pc = "post", !.card = i]
    OBVIOUS
  <2>4. agent' = [agent EXCEPT ![r] = m]
    BY <1>1, <2>1, <2>3
  <2>5. i \in 1..Len(cards) /\ Len(cards) \in Nat
    BY <1>1, InRange
  <2>6. /\ m \in Memory /\ m.pc = "post" /\ m.card = i /\ m.ctx = agent[r].ctx
        /\ m.msg = agent[r].msg /\ m.offset = agent[r].offset
    <3>1. agent[r] \in Memory /\ i \in Nat
      BY <1>1, <2>5
    <3> QED
      BY <2>3, <3>1 DEF Memory
  <2>7. SoundMemory(r, m)
    BY <1>1, <2>5, <2>6 DEF SoundMemory
  <2> QED
    BY <1>1, <2>2, <2>4, <2>7, MemoryStep
<1>4. CASE PrepareRefused(r, c, o) \/ \E b \in BOOLEAN : KeyConflict(r, c, o, b)
  <2>1. Finished(r, Context(r)) /\ UNCHANGED roomVars /\ (UNCHANGED faults \/ Fault)
    BY <1>4 DEF PrepareRefused, KeyConflict
  <2>2. faults' \in 0..MaxFaults
    BY <1>1, <2>1, AgentAssumption DEF Fault
  <2>3. PICK ctx : ctx = Context(r)
    OBVIOUS
  <2>4. SoundContext(r, ctx)
    BY <2>3, AtWork
  <2> QED
    BY <1>1, <2>1, <2>2, <2>3, <2>4, FinishStep
<1> QED
  BY <1>2, <1>3, <1>4 DEF Submit

\* ... then posted, ...
LEMMA PostStep ==
  ASSUME AgentsInv, NEW r \in Agents, Post(r), UNCHANGED challenged
  PROVE  AgentsInv'
<1>1. /\ agent[r].pc = "post" /\ Len(messages) < MaxMessages
      /\ messages' = Append(messages, agent[r].card)
      /\ agent' = [agent EXCEPT ![r].pc = "confirm"] /\ UNCHANGED <<origin, faults>>
      /\ IF agent[r].card \in room THEN UNCHANGED ledgerVars ELSE PostCard(agent[r].card)
  BY DEF Post
<1>2. RoomSound /\ agent \in [Agents -> Memory] /\ agent[r] \in Memory
  BY InvParts
<1>3. PICK x : x = agent[r]
  OBVIOUS
<1>4. SoundMemory(r, x) /\ x \in Memory /\ x.pc = "post"
  BY <1>1, <1>2, <1>3, InvParts
<1>5. x.card \in 1..Len(cards) /\ x.card \in DOMAIN cards
  <2>1. x.card \in Nat /\ x.card > 0 /\ x.card <= Len(cards) /\ Len(cards) \in Nat
    BY <1>2, <1>4, InRange DEF SoundMemory, Memory
  <2> QED
    BY <1>2, <2>1, InRange
<1>6. [LedgerNext]_ledgerVars
  BY <1>1, <1>3, <1>5 DEF LedgerNext
<1>7. cards' = cards /\ room' = room \union {x.card}
  BY <1>1, <1>3 DEF ledgerVars, PostCard
<1>8. MessagesGrow
  BY <1>1, <1>2, <1>3, <1>5, <1>7, PostGrows
<1>9. RoomSound' /\ Grows
  BY <1>1, <1>2, <1>6, <1>7, <1>8, RoomKept
<1>10. PICK m : m = [x EXCEPT !.pc = "confirm"]
  OBVIOUS
<1>11. agent' = [agent EXCEPT ![r] = m]
  BY <1>1, <1>2, <1>3, <1>10
<1>12. /\ m \in Memory /\ m.pc = "confirm" /\ m.card = x.card /\ m.ctx = x.ctx
       /\ m.msg = x.msg /\ m.offset = x.offset
  BY <1>4, <1>10 DEF Memory
<1>13. SoundMemory(r, x)'
  BY <1>2, <1>4, <1>9, MemoryKept
<1>14. SoundMemory(r, m)'
  BY <1>4, <1>12, <1>13 DEF SoundMemory
<1>15. faults' \in 0..MaxFaults /\ challenged' \subseteq 1..Len(cards')
  BY <1>1, <1>7, InvParts
<1> QED
  BY <1>9, <1>11, <1>14, <1>15, Assembled

\* ... and confirmed.
LEMMA ConfirmGrows ==
  ASSUME AgentsInv, NEW r \in Agents, Confirms(r)
  PROVE  /\ RoomSound' /\ Grows /\ cards' = cards
         /\ agent[r].card \in DOMAIN cards /\ agent[r].card \notin published
         /\ published' = published \union {agent[r].card}
<1>1. /\ agent[r].pc = "confirm" /\ ConfirmPublication(agent[r].card)
      /\ UNCHANGED <<messages, origin>>
  BY DEF Confirms
<1>2. RoomSound /\ SoundMemory(r, agent[r]) /\ agent[r] \in Memory
  BY InvParts
<1>3. agent[r].card \in DOMAIN cards
  <2>1. agent[r].card \in Nat /\ agent[r].card > 0 /\ agent[r].card <= Len(cards) /\ Len(cards) \in Nat
    BY <1>1, <1>2, InRange DEF SoundMemory, Memory
  <2> QED
    BY <1>2, <2>1, InRange
<1>4. [LedgerNext]_ledgerVars
  BY <1>1, <1>3 DEF LedgerNext
<1>5. /\ UNCHANGED <<cards, room>> /\ agent[r].card \notin published
      /\ published' = published \union {agent[r].card}
  BY <1>1 DEF ConfirmPublication
<1>6. MessagesGrow
  BY <1>1, <1>2, <1>5, NoPost
<1> QED
  BY <1>1, <1>2, <1>3, <1>4, <1>5, <1>6, RoomKept

LEMMA ConfirmStep ==
  ASSUME AgentsInv, NEW r \in Agents, Confirms(r), NEW ctx, SoundContext(r, ctx)',
         Finished(r, ctx), faults' \in 0..MaxFaults, UNCHANGED challenged
  PROVE  AgentsInv'
<1>1. RoomSound' /\ Grows /\ cards' = cards
  BY ConfirmGrows
<1>2. ctx \in Contexts
  BY DEF SoundContext
<1>3. PICK m \in Memory : /\ agent' = [agent EXCEPT ![r] = m]
                          /\ m.pc = "poll" /\ m.ctx = ctx
                          /\ m.offset = agent[r].msg /\ m.msg = 0 /\ m.card = 0
  BY <1>2, FinishedMemory
<1>4. RoomSound /\ SoundMemory(r, agent[r]) /\ agent[r] \in Memory /\ challenged' \subseteq 1..Len(cards')
  BY <1>1, InvParts
<1>5. Len(messages) \in Nat /\ Len(cards) \in Nat /\ Len(messages') \in Nat /\ agent[r].msg \in Nat
  <2>1. messages' \in Seq(1..Len(cards'))
    BY <1>1 DEF RoomSound
  <2> QED
    BY <1>4, <2>1, InRange DEF Memory
<1>6. m.offset <= Len(messages')
  BY <1>1, <1>3, <1>4, <1>5 DEF SoundMemory, Grows
<1>7. SoundMemory(r, m)'
  BY <1>1, <1>3, <1>5, <1>6 DEF SoundMemory
<1> QED
  BY <1>1, <1>3, <1>4, <1>7, Assembled

\* Whatever else becomes of a submission, and of the process.
LEMMA SubmissionStep ==
  ASSUME AgentsInv, NEW r \in Agents, Submission(r) \/ Crash(r) \/ Restart(r), UNCHANGED challenged
  PROVE  AgentsInv'
<1>1. /\ RoomSound /\ agent \in [Agents -> Memory] /\ SoundMemory(r, agent[r])
      /\ faults \in 0..MaxFaults /\ challenged' \subseteq 1..Len(cards)
  BY InvParts
<1>2. Fault => faults' \in 0..MaxFaults
  BY <1>1, AgentAssumption DEF Fault
<1>3. PICK ctx : ctx = Context(r)
  OBVIOUS
<1>4. SoundContext(r, ctx)
  BY <1>1, <1>3 DEF SoundMemory, Context
<1>5. CASE Lost(r)
  BY <1>1, <1>2, <1>3, <1>4, <1>5, SkipStep DEF Lost
<1>6. CASE Post(r)
  BY <1>6, PostStep
<1>7. CASE ConfirmedUnheard(r)
  <2>1. Confirms(r) /\ Finished(r, ctx) /\ faults' \in 0..MaxFaults
    BY <1>2, <1>3, <1>7 DEF ConfirmedUnheard
  <2>2. PICK x : x = agent[r]
    OBVIOUS
  <2>3. SoundMemory(r, x)' /\ x.ctx = ctx
    BY <1>1, <1>3, <2>1, <2>2, ConfirmGrows, MemoryKept DEF Context
  <2>4. SoundContext(r, ctx)'
    BY <2>3 DEF SoundMemory
  <2> QED
    BY <2>1, <2>4, ConfirmStep
<1>8. CASE ConfirmRefused(r) \/ BrokenOff(r)
  <2>1. Finished(r, ctx) /\ UNCHANGED roomVars /\ faults' \in 0..MaxFaults
    BY <1>1, <1>2, <1>3, <1>8 DEF ConfirmRefused, BrokenOff
  <2> QED
    BY <1>1, <1>4, <2>1, FinishStep
<1>9. CASE Crash(r) \/ Restart(r)
  <2>1. agent' = [agent EXCEPT ![r] = Fresh] /\ UNCHANGED roomVars /\ faults' \in 0..MaxFaults
    BY <1>1, <1>2, <1>9 DEF Crash, Restart
  <2> QED
    BY <1>1, <2>1, FreshIsSound, MemoryStep
<1> QED
  BY <1>5, <1>6, <1>7, <1>8, <1>9 DEF Submission

-------------------------------------------------------------------------------
(* The three agents.                                                           *)

\* A lookup may cost a fault.
LEMMA LookupFaults ==
  ASSUME AgentsInv, NEW page, NEW ledger, NEW rest, LooksUp(page, ledger, rest)
  PROVE  faults' \in 0..MaxFaults /\ ledger \in {published, {}}
<1>1. faults \in 0..MaxFaults /\ ledger \in {published, {}} /\ (UNCHANGED faults \/ Fault)
  BY InvParts DEF LooksUp
<1> QED
  BY <1>1, AgentAssumption DEF Fault

\* What is counted in the ledger was spent.
LEMMA CountedIsSpent ==
  ASSUME AgentsInv, NEW ledger \in {published, {}}
  PROVE  ChallengesIn(ledger) \in Nat /\ ChallengesIn(ledger) <= ChallengesSpent
<1>1. IsFiniteSet(PublishedChallenges)
  BY ChallengesFinite, InvParts DEF RoomSound, BudgetInv
<1>2. {j \in ledger : IsChallenge(cards[j])} \subseteq PublishedChallenges
  BY DEF PublishedChallenges
<1>3. /\ IsFiniteSet({j \in ledger : IsChallenge(cards[j])})
      /\ Cardinality({j \in ledger : IsChallenge(cards[j])}) <= Cardinality(PublishedChallenges)
  BY <1>1, <1>2, FS_Subset
<1> QED
  BY <1>3, FS_CardinalityType DEF ChallengesIn, ChallengesSpent

\* Only the agent whose card it is answers with it.
LEMMA OwnAnswer ==
  ASSUME NEW r \in Agents, NEW q \in Agents, Answer(q) = Answer(r)
  PROVE  q = r
BY Roles DEF Agents

\* Every step of Diagnosis keeps the invariant.
LEMMA DiagnosisKeeps ==
  ASSUME AgentsInv, DiagnosisStep, UNCHANGED challenged
  PROVE  AgentsInv'
<1> DEFINE r == DIAGNOSIS
<1>1. /\ r \in Agents /\ RoomSound /\ SoundMemory(r, agent[r])
      /\ challenged' \subseteq 1..Len(cards) /\ faults \in 0..MaxFaults
  BY InvParts, Roles
<1>2. \A ctx \in Contexts : SoundContext(r, ctx)
  BY Roles DEF SoundContext
<1>3. Context(r) \in Contexts
  BY <1>1 DEF SoundMemory, SoundContext, Context
<1> HIDE DEF r
<1>4. ASSUME NEW ctx \in Contexts, Receives(r), faults' \in 0..MaxFaults,
             Skip(r, ctx) \/ Accept(r, ctx)
      PROVE  AgentsInv'
  <2>1. r # COMMANDER
    BY Roles DEF r
  <2> QED
    BY <1>1, <1>2, <1>4, <2>1, SkipStep, AcceptStep
<1>5. ASSUME NEW page, TakeRouting(page) PROVE AgentsInv'
  <2>1. Receives(r) /\ faults' \in 0..MaxFaults
    BY <1>5, LookupFaults DEF TakeRouting, r
  <2>2. PICK ctx : ctx = [NoContext EXCEPT !.known = TRUE, !.revision = 1]
    OBVIOUS
  <2>3. ctx \in Contexts
    BY <2>2 DEF NoContext, Contexts
  <2>4. PICK old : old = Context(r)
    OBVIOUS
  <2>5. Skip(r, old) \/ Accept(r, ctx)
    BY <1>5, <2>2, <2>4 DEF TakeRouting, r
  <2> QED
    BY <1>3, <1>4, <2>1, <2>3, <2>4, <2>5
<1>6. ASSUME NEW page, NEW ledger, TakeChallenge(page, ledger) PROVE AgentsInv'
  <2>1. Receives(r) /\ faults' \in 0..MaxFaults /\ ledger \in {published, {}}
    BY <1>6, LookupFaults DEF TakeChallenge, r
  <2>2. PICK n \in Nat : n = ChallengesIn(ledger)
    BY <2>1, CountedIsSpent
  <2>3. RestoredDiagnosis(ledger) \in Contexts
    BY <2>2 DEF RestoredDiagnosis, NoContext, Contexts
  <2>4. PICK base \in Contexts : base = ChallengedContext(ledger)
    BY <1>3, <2>3 DEF ChallengedContext, r
  <2>5. PICK ctx : ctx = [base EXCEPT !.submitted = FALSE, !.revision = @ + 1]
    OBVIOUS
  <2>6. ctx \in Contexts
    <3>1. PICK n1 \in Nat : n1 = base.revision + 1
      BY <2>4 DEF Contexts
    <3>2. ctx = [base EXCEPT !.submitted = FALSE, !.revision = n1]
      BY <2>5, <3>1
    <3> QED
      BY <2>4, <3>1, <3>2 DEF Contexts
  <2>7. PICK old : old = Context(r)
    OBVIOUS
  <2>8. Skip(r, old) \/ Accept(r, ctx)
    BY <1>6, <2>4, <2>5, <2>7 DEF TakeChallenge, r
  <2> QED
    BY <1>3, <1>4, <2>1, <2>6, <2>7, <2>8
<1>7. CASE SubmitAssessment \/ AssessmentConflict
  <2>1. agent[r].pc # "poll"
    BY <1>7 DEF SubmitAssessment, AssessmentConflict, r
  <2>2. PICK report \in Reports :
          \/ Submit(r, AssessmentCard(report), DiagnosisOrigin(report))
          \/ KeyConflict(r, AssessmentCard(report), DiagnosisOrigin(report), TRUE)
    BY <1>7 DEF SubmitAssessment, AssessmentConflict, r
  <2>3. PICK c, o : c = AssessmentCard(report) /\ o = DiagnosisOrigin(report)
    OBVIOUS
  <2>4. c \in AgentCards /\ c.type = "Assessment" /\ c.decision = "none"
    BY <2>3 DEF AssessmentCard, AgentCards
  <2>5. agent[r].msg \in Nat /\ Context(r).revision \in Nat
    BY <1>1, <1>3, <2>1, AtWork DEF Contexts
  <2>6. o \in Origin /\ o.msg = agent[r].msg /\ o.report = report
    BY <2>3, <2>5 DEF DiagnosisOrigin, NoOrigin, Origin, r
  <2>7. \A q \in Agents : c.type = Answer(q) =>
          o.msg \in DOMAIN messages /\ Concerns(q, cards[messages[o.msg]])
    <3>1. c.type = Answer(r)
      BY <2>4, Roles DEF r
    <3>2. agent[r].msg \in DOMAIN messages /\ Concerns(r, cards[messages[agent[r].msg]])
      BY <1>1, <2>1, AtWork DEF Question
    <3> QED
      BY <1>1, <2>6, <3>1, <3>2, OwnAnswer
  <2>8. SoundCard(c, o)
    BY <2>4, <2>6, <2>7, SubmittedAreCards DEF SoundCard, IsConfirm
  <2> QED
    BY <1>1, <2>1, <2>2, <2>3, <2>4, <2>8, SubmitStep
<1>8. CASE AssessmentConfirmed
  <2>1. PICK ctx : ctx = [Context(r) EXCEPT !.submitted = TRUE]
    OBVIOUS
  <2>2. ctx \in Contexts
    BY <1>3, <2>1 DEF Contexts
  <2>3. Confirms(r) /\ Finished(r, ctx) /\ UNCHANGED faults
    BY <1>8, <2>1 DEF AssessmentConfirmed, r
  <2>4. SoundContext(r, ctx)'
    BY <2>2, Roles DEF SoundContext, r
  <2> QED
    BY <1>1, <2>3, <2>4, ConfirmStep
<1>9. CASE Submission(r)
  BY <1>1, <1>9, SubmissionStep
<1> QED
  BY <1>5, <1>6, <1>7, <1>8, <1>9 DEF DiagnosisStep, r

\* The verdict: a CONFIRM is never one of weak evidence, and a human is called in when
\* the challenges are used up.
LEMMA DecisionSound ==
  ASSUME NEW weak \in BOOLEAN, NEW n \in Nat
  PROVE  /\ FinalDecision(weak, n) \in Verdicts
         /\ FinalDecision(weak, n) = "CONFIRM" => ~weak
         /\ FinalDecision(weak, n) = "NEEDS_HUMAN" => n >= MaxChallenges
<1>1. CASE n >= MaxChallenges
  <2>1. ~(n < MaxChallenges)
    BY <1>1, LedgerAssumption
  <2>2. FinalDecision(weak, n) = "NEEDS_HUMAN"
    BY <1>1, <2>1, Zenon DEF FinalDecision
  <2> QED
    BY <1>1, <2>2 DEF Verdicts
<1>2. CASE ~(n >= MaxChallenges) /\ weak
  <2>1. n < MaxChallenges
    BY <1>2, LedgerAssumption
  <2>2. FinalDecision(weak, n) = "CHALLENGE"
    BY <1>2, <2>1, Zenon DEF FinalDecision
  <2> QED
    BY <2>2 DEF Verdicts
<1>3. CASE ~(n >= MaxChallenges) /\ ~weak
  <2>1. FinalDecision(weak, n) = LocalDecision(weak, n)
    BY <1>3, Zenon DEF FinalDecision
  <2>2. LocalDecision(weak, n) = "CONFIRM"
    BY <1>3 DEF LocalDecision
  <2> QED
    BY <1>3, <2>1, <2>2 DEF Verdicts
<1> QED
  BY <1>1, <1>2, <1>3

\* Every step of the Safety Reviewer keeps the invariant.
LEMMA ReviewerKeeps ==
  ASSUME AgentsInv, ReviewerStep, UNCHANGED challenged
  PROVE  AgentsInv'
<1> DEFINE r == REVIEWER
<1>1. /\ r \in Agents /\ RoomSound /\ SoundMemory(r, agent[r])
      /\ challenged' \subseteq 1..Len(cards) /\ faults \in 0..MaxFaults
  BY InvParts, Roles
<1>2. /\ Context(r) \in Contexts /\ Context(r).challenges \in Nat
      /\ Context(r).challenges <= ChallengesSpent
  BY <1>1 DEF SoundMemory, SoundContext, Context, Contexts
<1>3. \A ctx \in Contexts : ctx.challenges <= ChallengesSpent => SoundContext(r, ctx)
  BY Roles DEF SoundContext
<1>4. r # COMMANDER
  BY Roles
<1> HIDE DEF r
<1>5. ASSUME NEW page, NEW ledger, TakeAssessment(page, ledger) PROVE AgentsInv'
  <2>1. Receives(r) /\ faults' \in 0..MaxFaults /\ ledger \in {published, {}}
    BY <1>5, LookupFaults DEF TakeAssessment, r
  <2>2. PICK n \in Nat : n = ChallengesIssued(ledger) /\ n <= ChallengesSpent
    BY <1>2, <2>1, CountedIsSpent DEF ChallengesIssued, r
  <2>3. PICK rev \in Nat : rev = origin[NextCard(r)].rev
    <3>1. origin[NextCard(r)] \in Origin
      BY <1>1, <2>1, NextConcerns, InRange
    <3> QED
      BY <3>1 DEF Origin
  <2>4. PICK ctx : ctx = [NoContext EXCEPT !.known = TRUE, !.revision = rev, !.challenges = n]
    OBVIOUS
  <2>5. ctx \in Contexts /\ ctx.challenges = n
    BY <2>4 DEF NoContext, Contexts
  <2>6. PICK old : old = Context(r)
    OBVIOUS
  <2>7. Skip(r, old) \/ Accept(r, ctx)
    BY <1>5, <2>2, <2>3, <2>4, <2>6 DEF TakeAssessment, r
  <2>8. SoundContext(r, old) /\ SoundContext(r, ctx)
    BY <1>2, <1>3, <2>2, <2>5, <2>6
  <2> QED
    BY <1>1, <1>4, <2>1, <2>7, <2>8, SkipStep, AcceptStep
<1>6. CASE SubmitVerdict \/ VerdictConflict
  <2>1. agent[r].pc # "poll"
    BY <1>6 DEF SubmitVerdict, VerdictConflict, r
  <2>2. PICK weak, n : weak = origin[Question(r)].report.weak /\ n = Context(r).challenges
    OBVIOUS
  <2>3. weak \in BOOLEAN /\ n \in Nat /\ n <= ChallengesSpent
    <3>1. origin[Question(r)] \in Origin
      BY <1>1, <2>1, AtWork, InRange
    <3>2. PICK report \in Reports \union {NoReport} : report = origin[Question(r)].report
      BY <3>1 DEF Origin
    <3>3. report.weak \in BOOLEAN
      <4>1. CASE report \in Reports
        BY <4>1, AgentAssumption DEF Report
      <4>2. CASE report = NoReport
        BY <4>2 DEF NoReport
      <4> QED
        BY <3>2, <4>1, <4>2
    <3> QED
      BY <1>2, <2>2, <3>2, <3>3
  <2>4. PICK c, o : c = VerdictCard /\ o = ReviewerOrigin
    OBVIOUS
  <2>5. PICK d : d = FinalDecision(weak, n)
    OBVIOUS
  <2>6. d \in Verdicts /\ (d = "CONFIRM" => ~weak) /\ (d = "NEEDS_HUMAN" => n >= MaxChallenges)
    BY <2>3, <2>5, DecisionSound
  <2>7. c = [type |-> "Verdict", body |-> NoBody, risk |-> "low", decision |-> d]
    BY <2>2, <2>4, <2>5 DEF VerdictCard, r
  <2>8. c \in AgentCards /\ c.type = "Verdict" /\ c.decision = d
    BY <2>6, <2>7 DEF AgentCards
  <2>9. agent[r].msg \in DOMAIN messages /\ agent[r].msg \in Nat
    BY <1>1, <2>1, AtWork
  <2>10. o \in Origin /\ o.msg = agent[r].msg
    BY <2>4, <2>9 DEF ReviewerOrigin, NoOrigin, Origin, r
  <2>11. \A q \in Agents : c.type = Answer(q) =>
          o.msg \in DOMAIN messages /\ Concerns(q, cards[messages[o.msg]])
    <3>1. c.type = Answer(r)
      BY <2>8, Roles DEF r
    <3>2. Concerns(r, cards[messages[agent[r].msg]])
      BY <1>1, <2>1, AtWork DEF Question
    <3> QED
      BY <1>1, <2>9, <2>10, <3>1, <3>2, OwnAnswer
  <2>12. \E j \in DOMAIN cards : cards[j].type = "Assessment"
    <3>1. Question(r) \in DOMAIN cards /\ cards[Question(r)].type = "Assessment"
      BY <1>1, <2>1, AtWork, InRange, Roles DEF r
    <3> QED
      BY <3>1
  <2>13. ~origin[messages[o.msg]].report.weak \/ d # "CONFIRM"
    BY <2>2, <2>6, <2>10 DEF Question
  <2>14. d = "NEEDS_HUMAN" => ChallengesSpent >= MaxChallenges
    <3>1. ChallengesSpent \in Nat
      BY <1>1, ChallengesFinite DEF RoomSound, BudgetInv
    <3> QED
      BY <2>3, <2>6, <3>1, LedgerAssumption
  <2>15. SoundCard(c, o)
    BY <2>8, <2>10, <2>11, <2>12, <2>13, <2>14, SubmittedAreCards DEF SoundCard, IsConfirm
  <2>16. Submit(r, c, o) \/ \E b \in BOOLEAN : KeyConflict(r, c, o, b)
    <3>1. CASE SubmitVerdict
      BY <2>4, <3>1 DEF SubmitVerdict, r
    <3>2. CASE VerdictConflict
      <4>1. PICK b \in BOOLEAN : b = (VerdictCard.decision # "NEEDS_HUMAN")
        OBVIOUS
      <4>2. KeyConflict(r, c, o, b)
        BY <2>4, <3>2, <4>1 DEF VerdictConflict, KeyConflict, r
      <4> QED
        BY <4>2
    <3> QED
      BY <1>6, <3>1, <3>2
  <2> QED
    BY <1>1, <2>1, <2>8, <2>15, <2>16, SubmitStep
<1>7. CASE VerdictConfirmed
  <2>1. Confirms(r) /\ UNCHANGED faults
    BY <1>7 DEF VerdictConfirmed, r
  <2>2. PICK i : i = agent[r].card
    OBVIOUS
  <2>3. /\ RoomSound' /\ Grows /\ cards' = cards /\ i \in DOMAIN cards /\ i \notin published
        /\ published' = published \union {i}
    BY <1>1, <2>1, <2>2, ConfirmGrows
  <2>4. ChallengesSpent \in Nat
    BY <1>1, ChallengesFinite DEF RoomSound, BudgetInv
  <2>5. ChallengesSpent' = ChallengesSpent + (IF IsChallenge(cards[i]) THEN 1 ELSE 0)
    BY <1>1, <2>3, PublicationSpends DEF RoomSound, BudgetInv
  <2>6. PICK ctx : ctx = AfterVerdict(cards[i])
    OBVIOUS
  <2>7. Finished(r, ctx)
    BY <1>7, <2>2, <2>6 DEF VerdictConfirmed, r
  <2>8. ctx \in Contexts /\ ctx.challenges <= ChallengesSpent'
    <3>1. CASE IsChallenge(cards[i])
      <4>1. PICK n \in Nat : n = Context(r).challenges + 1
        BY <1>2
      <4>2. ctx = [Context(r) EXCEPT !.challenges = n]
        BY <2>6, <3>1, <4>1 DEF AfterVerdict, r
      <4>3. ctx \in Contexts /\ ctx.challenges = n
        BY <1>2, <4>2 DEF Contexts
      <4> QED
        BY <1>2, <2>4, <2>5, <3>1, <4>1, <4>3
    <3>2. CASE ~IsChallenge(cards[i])
      <4>1. ctx = [Context(r) EXCEPT !.submitted = TRUE]
        BY <2>6, <3>2 DEF AfterVerdict, r
      <4>2. ctx \in Contexts /\ ctx.challenges = Context(r).challenges
        BY <1>2, <4>1 DEF Contexts
      <4> QED
        BY <1>2, <2>4, <2>5, <3>2, <4>2
    <3> QED
      BY <3>1, <3>2
  <2>9. SoundContext(r, ctx)'
    BY <1>4, <2>8 DEF SoundContext
  <2> QED
    BY <1>1, <2>1, <2>7, <2>9, ConfirmStep
<1>8. CASE Submission(r)
  BY <1>1, <1>8, SubmissionStep
<1> QED
  BY <1>5, <1>6, <1>7, <1>8 DEF ReviewerStep, r

\* What the Commander plans is one of the runbooks.
LEMMA SelectedRunbook ==
  ASSUME NEW report \in Report
  PROVE  SelectRunbook(report) \in Bodies
<1>1. report.runbook \in Bodies /\ 4 \in Bodies /\ 6 \in Bodies /\ 3 # 5
  BY AgentAssumption DEF Report
<1>2. CASE LowSeverity(report) /\ report.runbook = 3
  <2>1. ~(LowSeverity(report) /\ report.runbook = 5)
    BY <1>1, <1>2
  <2>2. SelectRunbook(report) = 4
    BY <1>2, <2>1, Zenon DEF SelectRunbook
  <2> QED
    BY <1>1, <2>2
<1>3. CASE LowSeverity(report) /\ report.runbook = 5
  <2>1. ~(LowSeverity(report) /\ report.runbook = 3)
    BY <1>1, <1>3
  <2>2. SelectRunbook(report) = 6
    BY <1>3, <2>1, Zenon DEF SelectRunbook
  <2> QED
    BY <1>1, <2>2
<1>4. CASE ~(LowSeverity(report) /\ report.runbook = 3) /\ ~(LowSeverity(report) /\ report.runbook = 5)
  <2>1. SelectRunbook(report) = report.runbook
    BY <1>4, Zenon DEF SelectRunbook
  <2> QED
    BY <1>1, <2>1
<1> QED
  BY <1>2, <1>3, <1>4

\* A revision has one of the runbooks, and another one than was refused.
LEMMA RevisedRunbook ==
  ASSUME NEW report \in Report, NEW rejected, NEW wish
  PROVE  /\ ReviseRunbook(report, rejected, wish) \in Bodies
         /\ ReviseRunbook(report, rejected, wish) # rejected
<1> DEFINE allowed == AllowedRunbooks(report) \ {rejected}
<1>1. allowed \in SUBSET (1..6) /\ allowed # {} /\ Bodies = 1..6
  <2>1. 1 \in AllowedRunbooks(report) /\ 2 \in AllowedRunbooks(report)
    BY DEF AllowedRunbooks, Destructive
  <2>2. AllowedRunbooks(report) \subseteq 1..6
    BY DEF AllowedRunbooks
  <2>3. 1 # rejected \/ 2 # rejected
    OBVIOUS
  <2> QED
    BY <2>1, <2>2, <2>3, AgentAssumption
<1>2. (CHOOSE b \in allowed : \A x \in allowed : b <= x) \in allowed
  <2>1. \E b \in allowed : \A x \in allowed : b <= x
    BY <1>1, Least
  <2> QED
    BY <2>1
<1>3. CASE wish \in allowed
  BY <1>1, <1>3 DEF ReviseRunbook
<1>4. CASE wish \notin allowed /\ SelectRunbook(report) # rejected
  BY <1>4, SelectedRunbook DEF ReviseRunbook
<1>5. CASE wish \notin allowed /\ SelectRunbook(report) = rejected
  <2>1. ReviseRunbook(report, rejected, wish) =
          CHOOSE b \in allowed : \A x \in allowed : b <= x
    BY <1>5, Zenon DEF ReviseRunbook
  <2> QED
    BY <1>1, <1>2, <2>1
<1> QED
  BY <1>3, <1>4, <1>5

\* The card of a type that was sealed last, if there is one.
LEMMA LastSealedIsSealed ==
  ASSUME RoomSound, NEW t
  PROVE  /\ LastSealed(t) = 0 \/ (LastSealed(t) \in 1..Len(cards) /\ cards[LastSealed(t)].type = t)
         /\ LastSealed(t) = 0 => \A i \in DOMAIN cards : cards[i].type # t
<1> DEFINE found == {i \in DOMAIN cards : cards[i].type = t}
<1>1. found \in SUBSET (1..Len(cards)) /\ Len(cards) \in Nat
  BY InRange
<1>2. CASE found = {}
  BY <1>2 DEF LastSealed
<1>3. CASE found # {}
  <2>1. \E i \in found : \A j \in found : j <= i
    BY <1>1, <1>3, Greatest
  <2>2. LastSealed(t) \in found
    BY <1>3, <2>1 DEF LastSealed
  <2>3. LastSealed(t) \in 1..Len(cards) /\ cards[LastSealed(t)].type = t
    BY <1>1, <2>2
  <2>4. LastSealed(t) # 0
    BY <1>1, <2>3
  <2> QED
    BY <2>3, <2>4
<1> QED
  BY <1>2, <1>3

\* What the Commander finds is an Assessment, with a report to plan for.
LEMMA FoundIsAssessment ==
  ASSUME RoomSound, NEW found \in AssessmentsFound, found # 0
  PROVE  /\ found \in DOMAIN cards /\ cards[found].type = "Assessment"
         /\ origin[found].report \in Reports
<1>1. found \in DOMAIN cards /\ cards[found].type = "Assessment"
  <2>1. CASE found = LastSealed("Assessment")
    BY <2>1, LastSealedIsSealed, InRange
  <2>2. CASE found \in room /\ cards[found].type = "Assessment"
    <3>1. PICK m \in DOMAIN messages : found = messages[m]
      BY <2>2 DEF RoomSound
    <3> QED
      BY <2>2, <3>1, InRange
  <2> QED
    BY <2>1, <2>2 DEF AssessmentsFound
<1> QED
  BY <1>1 DEF RoomSound, ReportsAreFound

\* The plan of a Commander at work.
LEMMA PlanIsSound ==
  ASSUME AgentsInv, agent[COMMANDER].pc # "poll"
  PROVE  /\ PlanCard \in AgentCards /\ PlanCard.type = "ResponsePlan"
         /\ PlanCard.decision = "none" /\ PlanCard.body \in Bodies
         /\ PlanCard = [type |-> "ResponsePlan", decision |-> "none", body |-> ChosenRunbook,
                        risk |-> AskedRisk(Context(COMMANDER).report, ChosenRunbook)]
         /\ \E j \in DOMAIN cards : cards[j].type = "Assessment"
<1>1. /\ COMMANDER \in Agents /\ RoomSound /\ Context(COMMANDER).known
      /\ SoundContext(COMMANDER, Context(COMMANDER))
      /\ Question(COMMANDER) \in DOMAIN cards
      /\ AsksCommander(cards[Question(COMMANDER)])
  BY Roles, InvParts, InRange, AtWork
<1>2. Context(COMMANDER).report \in Reports /\ Context(COMMANDER).report \in Report
  BY <1>1, AgentAssumption DEF SoundContext
<1>3. ChosenRunbook \in Bodies
  <2>1. CASE Context(COMMANDER).source = 0
    BY <1>2, <2>1, SelectedRunbook DEF ChosenRunbook
  <2>2. CASE Context(COMMANDER).source # 0
    BY <1>2, <2>2, RevisedRunbook DEF ChosenRunbook
  <2> QED
    BY <2>1, <2>2
<1>4. AskedRisk(Context(COMMANDER).report, ChosenRunbook) \in {"low", "high"}
  BY DEF AskedRisk
<1>5. \E j \in DOMAIN cards : cards[j].type = "Assessment"
  <2>1. cards[Question(COMMANDER)].type # "TriageDecision"
    BY <1>1 DEF AsksCommander, IsConfirm, IsRejection
  <2> QED
    BY <1>1, <2>1 DEF RoomSound, AssessedFirst
<1> QED
  BY <1>3, <1>4, <1>5 DEF PlanCard, AgentCards

\* What comes of a refusal.
LEMMA RefusalCases ==
  ASSUME NEW page, NEW ledger, NEW anchor, NEW plan, NEW found,
         TakeRefusal(page, ledger, anchor, plan, found)
  PROVE  LET r    == COMMANDER
             base == RefusalContext(anchor, found)
         IN \/ Skip(r, Context(r))
            \/ /\ ~CannotRestore(found) /\ ~IgnoresRefusal(page, ledger)
               /\ Skip(r, base) \/ Accept(r, Revised(base, plan, NextCard(r)))
<1> DEFINE i == NextCard(COMMANDER)
           base == RefusalContext(anchor, found)
<1>1. CASE IgnoresRefusal(page, ledger) \/ CannotRestore(found)
  BY <1>1, Zenon DEF TakeRefusal
<1>2. CASE ~IgnoresRefusal(page, ledger) /\ ~CannotRestore(found) /\ RefusalDone(plan, base, i)
  BY <1>2, Zenon DEF TakeRefusal
<1>3. CASE ~IgnoresRefusal(page, ledger) /\ ~CannotRestore(found) /\ ~RefusalDone(plan, base, i)
  BY <1>3, Zenon DEF TakeRefusal
<1> QED
  BY <1>1, <1>2, <1>3

\* A confirmation or a refusal is taken, or passed over.
LEMMA CommanderTakes ==
  ASSUME AgentsInv, UNCHANGED challenged, NEW page, NEW ledger,
         Takes(page, ledger)
  PROVE  AgentsInv'
<1> DEFINE r == COMMANDER
           i == NextCard(r)
<1>1. r \in Agents /\ RoomSound /\ SoundMemory(r, agent[r]) /\ challenged' \subseteq 1..Len(cards)
  BY InvParts, Roles
<1>2. PICK old : old = Context(r)
  OBVIOUS
<1>3. SoundContext(r, old) /\ old \in Contexts
  BY <1>1, <1>2 DEF SoundMemory, SoundContext, Context
<1>4. \A ctx \in Contexts : ctx.report \in Reports => SoundContext(r, ctx)
  BY Roles DEF SoundContext
<1>5. Receives(r) /\ faults' \in 0..MaxFaults
  BY LookupFaults DEF Takes, TakeConfirm, TakeRefusal
<1>6. i \in DOMAIN cards /\ origin[i] \in Origin
  BY <1>1, <1>5, NextConcerns, InRange
<1>7. ASSUME NEW found \in AssessmentsFound, found # 0, NEW rev \in Nat, NEW ctx,
             ctx = [NoContext EXCEPT !.known = TRUE, !.revision = rev,
                               !.report = origin[found].report, !.older = IsOlder(found)]
      PROVE  ctx \in Contexts /\ ctx.known /\ ctx.report \in Reports
  <2>1. PICK report \in Reports : report = origin[found].report
    BY <1>1, <1>7, FoundIsAssessment
  <2>2. PICK older \in BOOLEAN : older = IsOlder(found)
    BY DEF IsOlder
  <2>3. ctx = [NoContext EXCEPT !.known = TRUE, !.revision = rev, !.report = report,
                                !.older = older]
    BY <1>7, <2>1, <2>2
  <2> QED
    BY <2>3 DEF NoContext, Contexts
<1>8. ASSUME NEW found \in AssessmentsFound, TakeConfirm(page, ledger, found) PROVE AgentsInv'
  <2>1. PICK ctx : ctx = [NoContext EXCEPT !.known = TRUE, !.revision = 1,
                                    !.report = origin[found].report, !.older = IsOlder(found)]
    OBVIOUS
  <2>2. found # 0 => ctx \in Contexts /\ ctx.known /\ SoundContext(r, ctx)
    BY <1>4, <1>7, <2>1
  <2>3. Skip(r, old) \/ (found # 0 /\ Accept(r, ctx))
    BY <1>2, <1>8, <2>1 DEF TakeConfirm
  <2> QED
    BY <1>1, <1>3, <1>5, <2>2, <2>3, SkipStep, AcceptStep
<1>9. ASSUME NEW found \in AssessmentsFound, NEW anchor \in PlansFound, NEW plan \in PlansFound,
             TakeRefusal(page, ledger, anchor, plan, found)
      PROVE  AgentsInv'
  <2>1. \A p \in PlansFound : p # 0 => origin[p] \in Origin /\ cards[p] \in Card
    <3>1. \A p \in PlansFound : p # 0 => p \in DOMAIN cards
      BY <1>1, LastSealedIsSealed, InRange DEF PlansFound
    <3> QED
      BY <1>1, <3>1, InRange
  <2>2. PICK rev \in Nat : rev = IF anchor = 0 THEN 1 ELSE origin[anchor].rev
    BY <2>1 DEF Origin
  <2>3. PICK base : base = RefusalContext(anchor, found)
    OBVIOUS
  <2>4. ~CannotRestore(found) => base \in Contexts /\ base.known /\ base.report \in Reports
    <3>1. CASE Context(r).known
      BY <1>2, <1>3, <2>3, <3>1 DEF RefusalContext, SoundContext
    <3>2. CASE ~Context(r).known /\ found # 0
      <4>1. base = [NoContext EXCEPT !.known = TRUE, !.revision = rev,
                               !.report = origin[found].report, !.older = IsOlder(found)]
        BY <2>2, <2>3, <3>2 DEF RefusalContext, RestoredCommander
      <4> QED
        BY <1>7, <3>2, <4>1
    <3> QED
      BY <3>1, <3>2 DEF CannotRestore
  <2>5. PICK rejected \in Bodies \union {NoBody} :
          rejected = IF plan = 0 THEN NoBody ELSE cards[plan].body
    BY <2>1 DEF Card
  <2>6. PICK wish \in Bodies \union {NoBody} : wish = origin[i].wish
    BY <1>6 DEF Origin
  <2>7. PICK s \in Nat : s = i
    BY <1>1, <1>6, InRange
  <2>8. PICK ctx : ctx = [base EXCEPT !.submitted = FALSE, !.revision = base.revision + 1,
                            !.source = s, !.rejected = rejected, !.wish = wish]
    OBVIOUS
  <2>9. ~CannotRestore(found) => ctx \in Contexts /\ ctx.known /\ ctx.report \in Reports
    <3>1. ASSUME ~CannotRestore(found) PROVE base.revision + 1 \in Nat
      BY <2>4, <3>1 DEF Contexts
    <3>2. PICK n : n = base.revision + 1
      OBVIOUS
    <3>3. ctx = [base EXCEPT !.submitted = FALSE, !.revision = n, !.source = s,
                             !.rejected = rejected, !.wish = wish]
      BY <2>8, <3>2
    <3> QED
      BY <2>4, <3>1, <3>2, <3>3 DEF Contexts
  <2>10. ~CannotRestore(found) => SoundContext(r, base) /\ SoundContext(r, ctx)
    BY <1>4, <2>4, <2>9
  <2>11. ctx = Revised(base, plan, i)
    BY <2>5, <2>6, <2>7, <2>8 DEF Revised
  <2>12. Skip(r, old) \/ (~CannotRestore(found) /\ (Skip(r, base) \/ Accept(r, ctx)))
    BY <1>2, <1>9, <2>3, <2>11, RefusalCases
  <2> QED
    BY <1>1, <1>3, <1>5, <2>9, <2>10, <2>12, SkipStep, AcceptStep
<1> QED
  BY <1>8, <1>9 DEF Takes

\* A step in which no agent moves.
LEMMA OthersStep ==
  ASSUME AgentsInv, RoomSound', Grows, UNCHANGED agent,
         faults' \in 0..MaxFaults, challenged' \subseteq 1..Len(cards')
  PROVE  AgentsInv'
<1>1. RoomSound /\ COMMANDER \in Agents
  BY InvParts, Roles
<1>2. PICK m : m = agent[COMMANDER]
  OBVIOUS
<1>3. SoundMemory(COMMANDER, m)
  BY <1>1, <1>2, InvParts
<1>4. SoundMemory(COMMANDER, m)'
  BY <1>1, <1>3, MemoryKept
<1> QED
  BY <1>1, <1>4, Assembled

\* Its plan is an answer that keeps the room sound.
LEMMA PlanStep ==
  ASSUME AgentsInv, SubmitPlan \/ PlanConflict
  PROVE  AgentsInv'
<1> DEFINE r == COMMANDER
<1>1. /\ agent[r].pc # "poll" /\ r \in Agents /\ RoomSound /\ UNCHANGED challenged
  BY InvParts, Roles DEF SubmitPlan, PlanConflict
<1>2. PICK c, o : c = PlanCard /\ o = PlanOrigin
  OBVIOUS
<1>3. /\ c \in AgentCards /\ c.type = "ResponsePlan" /\ c.decision = "none" /\ c.body \in Bodies
      /\ \E j \in DOMAIN cards : cards[j].type = "Assessment"
  BY <1>1, <1>2, PlanIsSound
<1>4. /\ agent[r].msg \in DOMAIN messages /\ agent[r].msg \in Nat
      /\ Concerns(r, cards[messages[agent[r].msg]]) /\ Context(r) \in Contexts
  BY <1>1, AtWork DEF Question, SoundContext
<1>5. /\ Context(r).revision \in Nat /\ Context(r).report \in Reports \union {NoReport}
      /\ Context(r).older \in BOOLEAN
  BY <1>4 DEF Contexts
<1>6. o \in Origin /\ o.msg = agent[r].msg
  BY <1>2, <1>4, <1>5 DEF PlanOrigin, NoOrigin, Origin
<1>7. \A q \in Agents : c.type = Answer(q) =>
        o.msg \in DOMAIN messages /\ Concerns(q, cards[messages[o.msg]])
  <2>1. c.type = Answer(r)
    BY <1>3, Roles
  <2> QED
    BY <1>1, <1>4, <1>6, <2>1, OwnAnswer
<1>8. SoundCard(c, o)
  BY <1>3, <1>6, <1>7, SubmittedAreCards DEF SoundCard, IsConfirm
<1>9. Submit(r, c, o) \/ \E b \in BOOLEAN : KeyConflict(r, c, o, b)
  BY <1>2 DEF SubmitPlan, PlanConflict
<1> QED
  BY <1>1, <1>3, <1>8, <1>9, SubmitStep

\* What the Gateway decides is sealed on a published plan.
LEMMA DecisionStep ==
  ASSUME AgentsInv, NEW c \in GatewayCards, SealDecision(c),
         NEW o \in Origin, origin' = Append(origin, o), UNCHANGED messages,
         \E j \in DOMAIN cards : cards[j].type = "Assessment"
  PROVE  RoomSound' /\ Grows /\ Len(cards') = Len(cards) + 1
<1>1. RoomSound
  BY InvParts
<1>2. c.type \in {"StructuredApproval", "PolicyAuthorization"} /\ c \in Card
  BY SubmittedAreCards DEF GatewayCards
<1>3. \A q \in Agents : c.type # Answer(q)
  BY <1>2, Roles DEF Agents
<1>4. SoundCard(c, o)
  BY <1>2, <1>3 DEF SoundCard, IsConfirm
<1>5. cards' = Append(cards, c) /\ UNCHANGED <<room, published>> /\ [LedgerNext]_ledgerVars
  BY DEF SealDecision, LedgerNext
<1>6. Len(cards') = Len(cards) + 1
  BY <1>1, <1>2, <1>5, InRange, AppendKeeps
<1> QED
  BY <1>1, <1>4, <1>5, <1>6, SealKept

\* The Commander's plan is confirmed, and the way to its authorization opened.
LEMMA AuthorizeStep ==
  ASSUME AgentsInv,
         PlanConfirmed \/ OpenChallenge \/ RequestAuthorization \/ AuthorizationRefused
  PROVE  AgentsInv'
<1> DEFINE r == COMMANDER
<1>1. /\ r \in Agents /\ RoomSound /\ SoundMemory(r, agent[r]) /\ agent \in [Agents -> Memory]
      /\ challenged \subseteq 1..Len(cards) /\ faults \in 0..MaxFaults
      /\ published \subseteq 1..Len(cards)
  BY InvParts, Roles, InRange
<1>2. PICK old : old = Context(r)
  OBVIOUS
<1>3. SoundContext(r, old) /\ old \in Contexts
  BY <1>1, <1>2 DEF SoundMemory, SoundContext, Context
<1>4. PICK done : done = [old EXCEPT !.submitted = TRUE]
  OBVIOUS
<1>5. done \in Contexts /\ SoundContext(r, done)
  BY <1>3, <1>4, Roles DEF Contexts, SoundContext
<1>6. CASE PlanConfirmed
  <2>1. Confirms(r) /\ agent' = [agent EXCEPT ![r].pc = "authorize"] /\ UNCHANGED <<faults, challenged>>
    BY <1>6 DEF PlanConfirmed
  <2>2. RoomSound' /\ Grows /\ cards' = cards
    BY <1>1, <2>1, ConfirmGrows
  <2>3. PICK x : x = agent[r]
    OBVIOUS
  <2>4. SoundMemory(r, x) /\ x \in Memory /\ x.pc = "confirm"
    BY <1>1, <2>1, <2>3 DEF Confirms
  <2>5. PICK m : m = [x EXCEPT !.pc = "authorize"]
    OBVIOUS
  <2>6. agent' = [agent EXCEPT ![r] = m]
    BY <1>1, <2>1, <2>3, <2>5
  <2>7. /\ m \in Memory /\ m.pc = "authorize" /\ m.card = x.card /\ m.ctx = x.ctx
        /\ m.msg = x.msg /\ m.offset = x.offset
    BY <2>4, <2>5 DEF Memory
  <2>8. SoundMemory(r, x)'
    BY <1>1, <2>2, <2>4, MemoryKept
  <2>9. SoundMemory(r, m)'
    BY <2>4, <2>7, <2>8 DEF SoundMemory
  <2>10. faults' \in 0..MaxFaults /\ challenged' \subseteq 1..Len(cards')
    BY <1>1, <2>1, <2>2
  <2> QED
    BY <1>1, <2>2, <2>6, <2>9, <2>10, Assembled
<1>7. CASE OpenChallenge
  <2>1. /\ Finished(r, done) /\ UNCHANGED <<roomVars, faults>>
        /\ challenged' = challenged \union {i \in published : PlanInForce(i)}
    BY <1>2, <1>4, <1>7 DEF OpenChallenge, PlanSubmitted
  <2>2. challenged' \subseteq 1..Len(cards) /\ faults' \in 0..MaxFaults
    BY <1>1, <2>1
  <2> QED
    BY <1>1, <1>5, <2>1, <2>2, FinishStep
<1>8. CASE RequestAuthorization
  <2>1. PICK c : c = [PlanCard EXCEPT !.type = "PolicyAuthorization", !.risk = "low"]
    OBVIOUS
  <2>2. /\ agent[r].pc = "authorize" /\ SealDecision(c) /\ origin' = Append(origin, NoOrigin)
        /\ Finished(r, done) /\ UNCHANGED <<messages, faults, challenged>>
    BY <1>2, <1>4, <1>8, <2>1 DEF RequestAuthorization, PlanSubmitted
  <2>3. /\ PlanCard.body \in Bodies /\ PlanCard.decision = "none"
        /\ PlanCard = [type |-> "ResponsePlan", decision |-> "none", body |-> ChosenRunbook,
                       risk |-> AskedRisk(Context(COMMANDER).report, ChosenRunbook)]
        /\ \E j \in DOMAIN cards : cards[j].type = "Assessment"
    BY <2>2, PlanIsSound
  <2>4. PICK body \in Bodies : body = ChosenRunbook
    BY <2>3
  <2>5. c = [type |-> "PolicyAuthorization", decision |-> "none", body |-> body, risk |-> "low"]
    BY <2>1, <2>3, <2>4
  <2>6. c \in GatewayCards /\ NoOrigin \in Origin
    BY <2>5 DEF GatewayCards, NoOrigin, Origin
  <2>7. RoomSound' /\ Grows /\ Len(cards') = Len(cards) + 1
    BY <2>2, <2>3, <2>6, DecisionStep
  <2>8. PICK m \in Memory : /\ agent' = [agent EXCEPT ![r] = m]
                            /\ m.pc = "poll" /\ m.ctx = done
                            /\ m.offset = agent[r].msg /\ m.msg = 0 /\ m.card = 0
    BY <1>1, <1>5, <2>2, FinishedMemory
  <2>9. Len(messages) \in Nat /\ Len(cards) \in Nat
    BY <1>1, InRange
  <2>10. SoundMemory(r, m)
    BY <1>1, <1>5, <2>8, <2>9 DEF SoundMemory
  <2>11. SoundMemory(r, m)'
    BY <1>1, <2>7, <2>10, MemoryKept
  <2>12. faults' \in 0..MaxFaults /\ challenged' \subseteq 1..Len(cards')
    BY <1>1, <2>2, <2>7, <2>9
  <2> QED
    BY <1>1, <2>7, <2>8, <2>11, <2>12, Assembled
<1>9. CASE AuthorizationRefused
  <2>1. Finished(r, old) /\ UNCHANGED <<roomVars, faults, challenged>>
    BY <1>2, <1>9 DEF AuthorizationRefused
  <2>2. challenged' \subseteq 1..Len(cards) /\ faults' \in 0..MaxFaults
    BY <1>1, <2>1
  <2> QED
    BY <1>1, <1>3, <2>1, <2>2, FinishStep
<1> QED
  BY <1>6, <1>7, <1>8, <1>9

\* Every step of the Commander keeps the invariant.
LEMMA CommanderKeeps ==
  ASSUME AgentsInv, CommanderStep
  PROVE  AgentsInv'
<1>1. COMMANDER \in Agents
  BY Roles
<1>2. CASE \E page, ledger \in {published, {}} :
             Takes(page, ledger) /\ UNCHANGED challenged
  BY <1>2, CommanderTakes
<1>3. CASE SubmitPlan \/ PlanConflict
  BY <1>3, PlanStep
<1>4. CASE PlanConfirmed \/ OpenChallenge \/ RequestAuthorization \/ AuthorizationRefused
  BY <1>4, AuthorizeStep
<1>5. CASE Submission(COMMANDER) /\ UNCHANGED challenged
  BY <1>1, <1>5, SubmissionStep
<1> QED
  BY <1>2, <1>3, <1>4, <1>5 DEF CommanderStep

-------------------------------------------------------------------------------
(* The human, the Gateway and Triage.                                          *)

LEMMA HumanKeeps ==
  ASSUME AgentsInv, HumanDecides
  PROVE  AgentsInv'
<1>1. /\ RoomSound /\ challenged \subseteq 1..Len(cards) /\ faults \in 0..MaxFaults
  BY InvParts
<1>2. PICK i \in challenged, d \in {"APPROVED", "REJECTED", "FALSE_ALARM"}, w \in Wishes :
        /\ PlanInForce(i)
        /\ SealDecision([type |-> "StructuredApproval", decision |-> d,
                         body |-> cards[i].body, risk |-> cards[i].risk])
        /\ origin' = Append(origin, [NoOrigin EXCEPT !.rev = origin[i].rev, !.wish = w])
        /\ challenged' = challenged \ {i}
        /\ UNCHANGED <<messages, agent, faults>>
  BY DEF HumanDecides
<1>3. i \in 1..Len(cards) /\ i \in DOMAIN cards /\ cards[i].type = "ResponsePlan"
  BY <1>1, <1>2, InRange DEF PlanInForce
<1>4. cards[i] \in Card /\ origin[i] \in Origin /\ cards[i].body \in Bodies
  BY <1>1, <1>3, InRange DEF RoomSound, PlansAreRunbooks
<1>5. PICK body \in Bodies, risk \in {"low", "high"}, rev \in Nat :
        body = cards[i].body /\ risk = cards[i].risk /\ rev = origin[i].rev
  BY <1>4 DEF Card, Origin
<1>6. PICK c : c = [type |-> "StructuredApproval", decision |-> d, body |-> body, risk |-> risk]
  OBVIOUS
<1>7. PICK o : o = [NoOrigin EXCEPT !.rev = rev, !.wish = w]
  OBVIOUS
<1>8. c \in GatewayCards
  BY <1>6 DEF GatewayCards
<1>9. o \in Origin
  <2>1. w \in Bodies \union {NoBody}
    BY CommanderAssumption
  <2> QED
    BY <1>5, <1>7, <2>1 DEF NoOrigin, Origin
<1>10. SealDecision(c) /\ origin' = Append(origin, o) /\ UNCHANGED messages
  BY <1>2, <1>5, <1>6, <1>7
<1>11. \E j \in DOMAIN cards : cards[j].type = "Assessment"
  BY <1>1, <1>3 DEF RoomSound, AssessedFirst
<1>12. RoomSound' /\ Grows /\ Len(cards') = Len(cards) + 1
  BY <1>8, <1>9, <1>10, <1>11, DecisionStep
<1>13. Len(cards) \in Nat
  BY <1>1, InRange
<1>14. challenged' \subseteq 1..Len(cards') /\ faults' \in 0..MaxFaults
  BY <1>1, <1>2, <1>12, <1>13
<1> QED
  BY <1>2, <1>12, <1>14, OthersStep

LEMMA GatewayKeeps ==
  ASSUME AgentsInv,
         \/ TriageConfirms \/ TriageRepeats
         \/ \E i \in DOMAIN cards : GatewayPosts(i) \/ GatewayPublishes(i)
  PROVE  AgentsInv'
<1>1. /\ RoomSound /\ challenged \subseteq 1..Len(cards) /\ faults \in 0..MaxFaults
  BY InvParts
<1>2. 1 \in 1..Len(cards) /\ 1 \in DOMAIN cards /\ 1 \in room
  <2>1. 1 \in room /\ room \subseteq 1..Len(cards)
    BY <1>1, InRange DEF RoomSound, RoutingIsPosted
  <2> QED
    BY <1>1, <2>1, InRange
<1>3. Fault => faults' \in 0..MaxFaults
  BY <1>1, AgentAssumption DEF Fault
<1>4. ASSUME [LedgerNext]_ledgerVars, cards' = cards, UNCHANGED <<origin, agent, challenged>>,
             MessagesGrow, faults' \in 0..MaxFaults
      PROVE  AgentsInv'
  <2>1. RoomSound' /\ Grows
    BY <1>1, <1>4, RoomKept
  <2>2. challenged' \subseteq 1..Len(cards')
    BY <1>1, <1>4
  <2> QED
    BY <1>4, <2>1, <2>2, OthersStep
<1>5. ASSUME NEW i \in DOMAIN cards, UNCHANGED <<messages, origin, agent, challenged, faults>>,
             ConfirmPublication(i) \/ PublishAuthorization(i) \/ PublishRefusal(i)
      PROVE  AgentsInv'
  <2>1. [LedgerNext]_ledgerVars /\ UNCHANGED <<cards, room>>
    BY <1>5 DEF LedgerNext, ConfirmPublication, PublishAuthorization, PublishRefusal
  <2>2. MessagesGrow
    BY <1>1, <1>5, <2>1, NoPost
  <2> QED
    BY <1>1, <1>4, <1>5, <2>1, <2>2
<1>6. CASE TriageConfirms
  BY <1>2, <1>5, <1>6 DEF TriageConfirms
<1>7. CASE TriageRepeats
  <2>1. /\ Fault /\ Len(messages) < MaxMessages /\ messages' = Append(messages, 1)
        /\ UNCHANGED <<ledgerVars, cards, room, origin, agent, challenged>>
    BY <1>7 DEF TriageRepeats, ledgerVars
  <2>2. room' = room \union {1}
    BY <1>2, <2>1
  <2>3. MessagesGrow
    BY <1>1, <1>2, <2>1, <2>2, PostGrows
  <2> QED
    BY <1>3, <1>4, <2>1, <2>3
<1>8. ASSUME NEW i \in DOMAIN cards, GatewayPosts(i) PROVE AgentsInv'
  <2>1. /\ Len(messages) < MaxMessages /\ messages' = Append(messages, i)
        /\ UNCHANGED <<origin, agent, challenged>>
        /\ IF i \in room THEN Fault /\ UNCHANGED ledgerVars ELSE PostCard(i) /\ UNCHANGED faults
    BY <1>8 DEF GatewayPosts
  <2>2. /\ [LedgerNext]_ledgerVars /\ cards' = cards /\ room' = room \union {i}
    <3>1. CASE i \in room
      BY <2>1, <3>1 DEF ledgerVars
    <3>2. CASE i \notin room
      BY <2>1, <3>2 DEF LedgerNext, PostCard
    <3> QED
      BY <3>1, <3>2
  <2>3. i \in 1..Len(cards)
    BY <1>1, InRange
  <2>4. MessagesGrow
    BY <1>1, <2>1, <2>2, <2>3, PostGrows
  <2>5. faults' \in 0..MaxFaults
    BY <1>1, <1>3, <2>1
  <2> QED
    BY <1>4, <2>1, <2>2, <2>4, <2>5
<1>9. ASSUME NEW i \in DOMAIN cards, GatewayPublishes(i) PROVE AgentsInv'
  BY <1>5, <1>9 DEF GatewayPublishes
<1> QED
  BY <1>6, <1>7, <1>8, <1>9

-------------------------------------------------------------------------------
(* The invariant, and what follows.                                            *)

\* Triage has routed the incident, and nobody has read it.
LEMMA InitSound == Init => AgentsInv
<1> SUFFICES ASSUME Init PROVE AgentsInv
  OBVIOUS
<1>1. PICK c : c = [type |-> "TriageDecision", decision |-> "route", body |-> NoBody, risk |-> "low"]
  OBVIOUS
<1>2. c \in Card /\ c.type = "TriageDecision" /\ c.decision = "route"
  BY <1>1 DEF Card, CardTypes, Decisions
<1>3. /\ state = "DETECTED" /\ cards = <<c>> /\ room = {1} /\ published = {}
      /\ messages = <<1>> /\ origin = <<NoOrigin>> /\ agent = [r \in Agents |-> Fresh]
      /\ faults = 0 /\ challenged = {}
  BY <1>1 DEF Init
<1>4. /\ cards \in Seq(Card) /\ Len(cards) = 1 /\ DOMAIN cards = {1} /\ cards[1] = c
      /\ 1..Len(cards) = {1}
  BY <1>2, <1>3
<1>5. NoOrigin \in Origin
  BY DEF NoOrigin, Origin
<1>6. /\ messages \in Seq(1..Len(cards)) /\ Len(messages) = 1 /\ DOMAIN messages = {1}
      /\ messages[1] = 1
      /\ origin \in Seq(Origin) /\ Len(origin) = 1
  BY <1>3, <1>4, <1>5
<1>7. PublishedChallenges = {} /\ ChallengesSpent = 0
  BY <1>3, FS_EmptySet DEF PublishedChallenges, ChallengesSpent
<1>8. MaxCards \in Nat /\ MaxCards # 0 /\ MaxChallenges \in Nat /\ MaxMessages \in Nat \ {0}
      /\ MaxFaults \in Nat
  BY LedgerAssumption, AgentAssumption
<1>9. BudgetInv
  <2>1. TypeOK
    BY <1>3, <1>4, <1>8 DEF TypeOK, States
  <2>2. ChallengeBudget
    BY <1>7, <1>8 DEF ChallengeBudget
  <2>3. NoEarlyVerdict /\ PendingChallengeFits /\ VerdictsAreNewer /\ AssessmentsAreNewer
    BY <1>2, <1>3, <1>4 DEF NoEarlyVerdict, PendingChallengeFits, VerdictsAreNewer, AssessmentsAreNewer
  <2> QED
    BY <2>1, <2>2, <2>3 DEF BudgetInv
<1>10. room = {messages[m] : m \in DOMAIN messages} /\ RoutingIsPosted
  BY <1>3, <1>6 DEF RoutingIsPosted
<1>11. \A r \in Agents : Answer(r) # "TriageDecision"
  BY Roles DEF Agents
<1>12. AnswersConcern
  BY <1>2, <1>4, <1>11 DEF AnswersConcern
<1>13. ReportsAreFound /\ AssessedFirst /\ PlansAreRunbooks /\ EscalationsAreLast
       /\ ConfirmsSoundEvidence
  BY <1>2, <1>4 DEF ReportsAreFound, AssessedFirst, PlansAreRunbooks, EscalationsAreLast,
                    ConfirmsSoundEvidence, IsConfirm
<1>14. RoomSound
  BY <1>4, <1>6, <1>8, <1>9, <1>10, <1>12, <1>13 DEF RoomSound
<1>15. \A r \in Agents : agent[r] = Fresh
  BY <1>3
<1>16. Fresh \in Memory /\ Fresh.pc = "poll" /\ Fresh.offset = 0 /\ Fresh.msg = 0 /\ Fresh.card = 0
       /\ Fresh.ctx = NoContext
  BY <1>14, FreshIsSound DEF Fresh
<1>17. AgentsTypeOK
  <2>1. agent \in [Agents -> Memory]
    BY <1>3, <1>16
  <2>2. ASSUME NEW r \in Agents
        PROVE  /\ agent[r].offset \in 0..Len(messages)
               /\ agent[r].msg \in 0..Len(messages) /\ (agent[r].pc # "poll" => agent[r].msg > 0)
               /\ agent[r].card \in 0..Len(cards)
               /\ agent[r].pc \in {"post", "confirm", "authorize"} => agent[r].card > 0
    BY <1>4, <1>6, <1>15, <1>16
  <2>3. faults \in 0..MaxFaults /\ challenged \subseteq 1..Len(cards)
    BY <1>3, <1>8
  <2> QED
    BY <1>14, <2>1, <2>2, <2>3 DEF AgentsTypeOK, RoomSound, BudgetInv
<1>18. QuestionsConcern
  BY <1>15, <1>16 DEF QuestionsConcern
<1>19. PlansForReport /\ ChallengesCounted
  <2>1. Context(COMMANDER) = NoContext /\ Context(REVIEWER) = NoContext
    BY <1>15, <1>16, Roles DEF Context
  <2> QED
    BY <1>7, <2>1 DEF PlansForReport, ChallengesCounted, NoContext
<1> QED
  BY <1>9, <1>14, <1>17, <1>18, <1>19 DEF AgentsInv, RoomSound

\* Every step keeps the invariant.
LEMMA AgentsInvStep == AgentsInv /\ [Next]_vars => AgentsInv'
<1> SUFFICES ASSUME AgentsInv, [Next]_vars PROVE AgentsInv'
  OBVIOUS
<1>1. CASE TriageConfirms \/ TriageRepeats
  BY <1>1, GatewayKeeps
<1>2. ASSUME NEW r \in Agents, AgentStep(r) PROVE AgentsInv'
  <2>1. CASE r = DIAGNOSIS
    <3>1. DiagnosisStep /\ UNCHANGED challenged
      BY <1>2, <2>1, Roles, Zenon DEF AgentStep
    <3> QED
      BY <3>1, DiagnosisKeeps
  <2>2. CASE r = REVIEWER
    <3>1. ReviewerStep /\ UNCHANGED challenged
      BY <1>2, <2>2, Roles, Zenon DEF AgentStep
    <3> QED
      BY <3>1, ReviewerKeeps
  <2>3. CASE r = COMMANDER
    <3>1. CommanderStep
      BY <1>2, <2>3, Roles, Zenon DEF AgentStep
    <3> QED
      BY <3>1, CommanderKeeps
  <2> QED
    BY <2>1, <2>2, <2>3 DEF Agents
<1>3. ASSUME NEW r \in Agents, (Crash(r) \/ Restart(r)) /\ UNCHANGED challenged PROVE AgentsInv'
  BY <1>3, SubmissionStep
<1>4. CASE HumanDecides
  BY <1>4, HumanKeeps
<1>5. ASSUME NEW i \in DOMAIN cards, GatewayPosts(i) \/ GatewayPublishes(i) PROVE AgentsInv'
  BY <1>5, GatewayKeeps
<1>6. CASE UNCHANGED vars
  <2>1. UNCHANGED <<messages, room, cards, ledgerVars, origin, agent, faults, challenged>>
    BY <1>6 DEF vars, roomVars, ledgerVars
  <2>2. RoomSound /\ faults \in 0..MaxFaults /\ challenged \subseteq 1..Len(cards)
    BY InvParts
  <2>3. RoomSound' /\ Grows
    BY <2>1, <2>2, NoPost, RoomKept
  <2> QED
    BY <2>1, <2>2, <2>3, OthersStep
<1> QED
  BY <1>1, <1>2, <1>3, <1>4, <1>5, <1>6 DEF Next

\* The agents, the human and the Gateway keep the invariant, whatever fails.
THEOREM AgentsInvariance == Spec => []AgentsInv
BY InitSound, AgentsInvStep, PTL DEF Spec

\* The agents' memories, the room and what their cards answer are what they should be.
THEOREM AgentsTypes == Spec => []AgentsTypeOK
<1>1. AgentsInv => AgentsTypeOK
  BY DEF AgentsInv
<1> QED
  BY <1>1, AgentsInvariance, PTL

\* safety_reviewer: an Assessment that the cross-check has something against never gets a
\* CONFIRM, whatever the LLM says, and whatever fails.
THEOREM SoundEvidence == Spec => []ConfirmsSoundEvidence
<1>1. AgentsInv => ConfirmsSoundEvidence
  BY DEF AgentsInv
<1> QED
  BY <1>1, AgentsInvariance, PTL

\* A published verdict that calls for a human has all the challenges published before it.
THEOREM EscalationHolds == Spec => []EscalatedWhenSpent
<1>1. AgentsInv => EscalatedWhenSpent
  <2> SUFFICES ASSUME AgentsInv PROVE EscalatedWhenSpent
    OBVIOUS
  <2>1. published \subseteq DOMAIN cards
    BY InvParts, InRange
  <2> QED
    BY <2>1 DEF AgentsInv, EscalationsAreLast, EscalatedWhenSpent
<1> QED
  BY <1>1, AgentsInvariance, PTL
================================================================================
