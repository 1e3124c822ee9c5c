------------------------------ MODULE RoomRuntime ------------------------------
(***************************************************************************)
(* How an agent gets its messages.  Its runtime (shared/local_room_runtime)*)
(* goes round the incident rooms the agent was recruited into, newest      *)
(* first, fetches the messages after its offset in each room and hands     *)
(* them to the preprocessor one after the other.  Its supervisor           *)
(* (shared/supervisor) creates the agent, again and again until it gives   *)
(* up.  The Gateway keeps rooms, participants and messages, which the      *)
(* clean-up of demo incidents deletes at any time.                         *)
(*                                                                         *)
(* An incident has one room: rooms are numbered, and messages are numbered *)
(* through all rooms, in the order they are created in.  The numbers are   *)
(* not used again (AUTOINCREMENT; a room's id is random).                  *)
(***************************************************************************)
EXTENDS Naturals, Sequences, FiniteSets

CONSTANTS ListLimit,    \* rooms in a listing: YITING_ROOM_POLL_LIMIT
          PageSize,     \* messages in an answer
          MaxFailures,  \* creations that may fail in a row
          MaxRooms,     \* bound on the rooms created
          MaxMessages,  \* bound on the messages posted
          MaxFaults     \* bound on requests without an answer, and crashes

ASSUME RuntimeAssumption ==
  /\ ListLimit \in Nat \ {0} /\ PageSize \in Nat \ {0} /\ MaxFailures \in Nat \ {0}
  /\ MaxRooms \in Nat /\ MaxMessages \in Nat /\ MaxFaults \in Nat

VARIABLES created,  \* how many rooms were created
          rooms,    \* those that are not deleted
          joined,   \* the rooms the agent was recruited into
          posted,   \* the room of each message
          proc,     \* what the process does next
          failures, \* creations that have failed in a row
          offsets,  \* how far it has got in each room
          round,    \* the rooms left in this round
          room,     \* the room in hand
          page,     \* the messages fetched and not yet handled
          heard,    \* the messages that this agent object was given
          faults    \* faults so far

gatewayVars == <<created, rooms, joined, posted>>
memory      == <<offsets, round, room, page, heard>>
vars        == <<gatewayVars, proc, failures, memory, faults>>

Rooms == 1..MaxRooms
NoOffsets == [r \in Rooms |-> 0]

Fault == faults < MaxFaults /\ faults' = faults + 1

Init ==
  /\ created = 0 /\ rooms = {} /\ joined = {} /\ posted = <<>>
  /\ proc = "create" /\ failures = 0
  /\ offsets = NoOffsets /\ round = {} /\ room = 0 /\ page = {} /\ heard = {}
  /\ faults = 0

-------------------------------------------------------------------------------
(* The rooms of the Gateway.                                                   *)

CreateRoom ==
  /\ created < MaxRooms
  /\ created' = created + 1
  /\ rooms' = rooms \union {created'}
  /\ UNCHANGED <<joined, posted, proc, failures, memory, faults>>

\* Another agent recruits this one, before or after it posts what it has to say.
AddParticipant(r) ==
  /\ r \in rooms \ joined
  /\ joined' = joined \union {r}
  /\ UNCHANGED <<created, rooms, posted, proc, failures, memory, faults>>

\* The room's updated_at stays as it was.
PostMessage(r) ==
  /\ r \in rooms
  /\ Len(posted) < MaxMessages
  /\ posted' = Append(posted, r)
  /\ UNCHANGED <<created, rooms, joined, proc, failures, memory, faults>>

\* remove_demo_incidents: any of the rooms may belong to a demo.
RemoveDemoIncidents(demo) ==
  /\ demo # {} /\ demo \subseteq rooms
  /\ rooms' = rooms \ demo
  /\ joined' = joined \ demo
  /\ UNCHANGED <<created, posted, proc, failures, memory, faults>>

Newest(rs, n) == {r \in rs : Cardinality({q \in rs : q > r}) < n}

\* GET /rooms, for this participant.
ListedRooms == Newest(joined, ListLimit)

MessagesAfter(r, offset) == {m \in DOMAIN posted : m > offset /\ posted[m] = r /\ r \in rooms}
Oldest(ms, n) == {m \in ms : Cardinality({k \in ms : k < m}) < n}

\* Fault: the page has the newest messages of the room.
NewestPage(r, offset) == Newest(MessagesAfter(r, offset), PageSize)

\* GET /rooms/{room_id}/messages.
MessagePage(r, offset) == Oldest(MessagesAfter(r, offset), PageSize)

-------------------------------------------------------------------------------
(* The supervisor.                                                             *)

Forget ==
  offsets' = NoOffsets /\ round' = {} /\ room' = 0 /\ page' = {} /\ heard' = {}

\* The agent is created, and its runtime started.
AgentCreated ==
  /\ proc = "create"
  /\ proc' = "list"
  /\ failures' = 0
  /\ Forget
  /\ UNCHANGED <<gatewayVars, faults>>

\* Fault: every attempt starts the count again.
OneFailure == 1

FailuresAfter == failures + 1

\* The creation fails: after MaxFailures in a row, or if the error is about
\* authorization, the process exits.
CreationFails ==
  /\ proc = "create"
  /\ \/ /\ failures' = FailuresAfter
        /\ proc' = IF failures' >= MaxFailures THEN "exited" ELSE "wait"
     \/ UNCHANGED failures /\ proc' = "exited"
  /\ UNCHANGED <<gatewayVars, memory, faults>>

TryAgain ==
  /\ proc = "wait"
  /\ proc' = "create"
  /\ UNCHANGED <<gatewayVars, failures, memory, faults>>

\* The process is killed; the container starts another one, as it does when one exits.
Crash ==
  /\ proc # "exited"
  /\ Fault
  /\ proc' = "exited"
  /\ UNCHANGED <<gatewayVars, failures, memory>>

NewProcess ==
  /\ proc = "exited"
  /\ proc' = "create"
  /\ failures' = 0
  /\ Forget
  /\ UNCHANGED <<gatewayVars, faults>>

-------------------------------------------------------------------------------
(* The runtime: run and _poll_once.                                            *)

ListRooms ==
  /\ proc = "list"
  /\ round' = ListedRooms
  /\ proc' = "fetch"
  /\ UNCHANGED <<gatewayVars, failures, offsets, room, page, heard, faults>>

\* The newest of the rooms comes first.
FetchMessages ==
  /\ proc = "fetch"
  /\ room' \in round
  /\ \A r \in round : r <= room'
  /\ round' = round \ {room'}
  /\ page' = MessagePage(room', offsets[room'])
  /\ proc' = "handle"
  /\ UNCHANGED <<gatewayVars, failures, offsets, heard, faults>>

\* Fault: an exception goes to the supervisor, which creates the agent anew.
EndedByException == "create"

\* An exception ends the round: run catches it, and sleeps before the next one.
AfterException == "sleep"

\* A request to the Gateway gets no answer, or an error.
PollFails ==
  /\ proc \in {"list", "fetch"}
  /\ Fault
  /\ proc' = AfterException
  /\ UNCHANGED <<gatewayVars, failures, memory>>

\* Fault: the offset moves only when the message was processed without an error.
MovedIfHandled(m, raised) ==
  IF raised THEN offsets ELSE [offsets EXCEPT ![posted[m]] = m]

\* Fault: it moves to the next message.
MovedBeyond(m, raised) == [offsets EXCEPT ![posted[m]] = m + 1]

\* The offset moves in a finally clause.
MovedPast(m, raised) == [offsets EXCEPT ![posted[m]] = IF m > @ THEN m ELSE @]

\* The oldest message in hand is handed over, and whatever comes of it, an exception
\* too, it counts as handled.  The exception drops the rest of the page and of the round.
HandleMessage(m, raised) ==
  /\ proc = "handle"
  /\ \A k \in page : m <= k
  /\ heard' = heard \union {m}
  /\ offsets' = MovedPast(m, raised)
  /\ IF raised THEN page' = {} /\ proc' = AfterException
               ELSE page' = page \ {m} /\ proc' = "handle"
  /\ UNCHANGED <<gatewayVars, failures, round, room, faults>>

RoomDone ==
  /\ proc = "handle" /\ page = {}
  /\ proc' = "fetch"
  /\ UNCHANGED <<gatewayVars, failures, memory, faults>>

RoundDone ==
  /\ proc = "fetch" /\ round = {}
  /\ proc' = "sleep"
  /\ UNCHANGED <<gatewayVars, failures, memory, faults>>

NextRound ==
  /\ proc = "sleep"
  /\ proc' = "list"
  /\ round' = {} /\ room' = 0 /\ page' = {}
  /\ UNCHANGED <<gatewayVars, failures, offsets, heard, faults>>

RuntimeStep ==
  \/ ListRooms \/ FetchMessages \/ RoomDone \/ RoundDone \/ NextRound
  \/ \E m \in page, raised \in BOOLEAN : HandleMessage(m, raised)

SupervisorStep == AgentCreated \/ CreationFails \/ TryAgain \/ NewProcess

Next ==
  \/ CreateRoom \/ \E r \in rooms : AddParticipant(r) \/ PostMessage(r)
  \/ \E demo \in SUBSET rooms : RemoveDemoIncidents(demo)
  \/ SupervisorStep \/ RuntimeStep \/ PollFails \/ Crash

Spec == Init /\ [][Next]_vars

\* The event loop of the process goes on, and the container starts another process.
FairSpec == Spec /\ WF_vars(RuntimeStep) /\ WF_vars(SupervisorStep)

-------------------------------------------------------------------------------
(* Properties.                                                                 *)

RuntimeTypeOK ==
  /\ created \in 0..MaxRooms /\ rooms \subseteq 1..created /\ joined \subseteq rooms
  /\ posted \in Seq(Rooms) /\ Len(posted) <= MaxMessages
  /\ proc \in {"create", "wait", "list", "fetch", "handle", "sleep", "exited"}
  /\ failures \in 0..MaxFailures
  /\ proc \in {"create", "wait"} => failures < MaxFailures
  /\ offsets \in [Rooms -> 0..Len(posted)]
  /\ round \subseteq 1..created /\ room \in 0..created
  /\ page \subseteq DOMAIN posted
  /\ heard \subseteq DOMAIN posted
  /\ faults \in 0..MaxFaults

\* An agent object is given a message once: what is in hand it has never been given,
\* though exceptions end rounds, rooms go and pages overlap with what is posted meanwhile.
HeardOnce == page \intersect heard = {}

\* No message is passed over: the offset in a room is behind nothing unheard.
NothingPassedOver ==
  \A m \in DOMAIN posted : m <= offsets[posted[m]] => m \in heard

\* Why: what is in hand is all that is new in the room, up to its last message, and the
\* offset is behind whatever was heard.
PageIsNew == \A m \in page : posted[m] = room /\ m > offsets[room]
PageIsComplete ==
  \A m \in page : \A k \in DOMAIN posted :
    posted[k] = room /\ k < m /\ k > offsets[room] => k \in page
OffsetsCoverHeard == \A m \in heard : m <= offsets[posted[m]]

RuntimeInv ==
  /\ RuntimeTypeOK /\ HeardOnce /\ NothingPassedOver
  /\ PageIsNew /\ PageIsComplete /\ OffsetsCoverHeard

\* A message to a room among the newest of the agent's is heard in the end, whatever the
\* messages before it and in the other rooms raise and wherever the process is started
\* again, if the agent can be created.  A room that newer ones push off the listing has no
\* such promise: it does not come back, however much is posted to it.
Served(m) == m \in DOMAIN posted /\ posted[m] \in Newest(joined, ListLimit)
MessagesAreHeard ==
  []<>(proc \in {"list", "fetch", "handle", "sleep"}) =>
    \A m \in 1..MaxMessages : Served(m) ~> (m \in heard \/ ~Served(m))

\* The supervisor does not go on for ever with an agent that cannot be created.
SupervisorGivesUp == []<>(proc \notin {"create", "wait"})
================================================================================
