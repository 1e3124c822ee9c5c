--------------------------- MODULE RoomRuntimeProofs ---------------------------
(***************************************************************************)
(* Proofs about RoomRuntime, for any number of rooms and messages, any     *)
(* limits and any number of faults: no message is passed over, and none is *)
(* given to an agent twice.                                                *)
(*                                                                         *)
(* The argument: a page is what is new in its room (PageIsNew) from the    *)
(* offset on, without a gap (PageIsComplete); so the offset may move to    *)
(* the oldest message of the page.  What was heard is behind the offset    *)
(* (OffsetsCoverHeard), and the next page begins after it.                 *)
(***************************************************************************)
EXTENDS RoomRuntime, FiniteSetTheorems, TLAPS

USE RuntimeAssumption

\* The room of a message is a room, with an offset.
LEMMA MessageRoom ==
  ASSUME RuntimeTypeOK
  PROVE  /\ \A m \in DOMAIN posted : m \in Nat /\ posted[m] \in Rooms
         /\ created \in Nat /\ Rooms \subseteq Nat
         /\ \A r \in Rooms : offsets[r] \in Nat
<1>1. posted \in Seq(Rooms) /\ created \in 0..MaxRooms
  BY DEF RuntimeTypeOK
<1>2. \A m \in DOMAIN posted : m \in Nat /\ posted[m] \in Rooms
  BY <1>1
<1>3. \A r \in Rooms : offsets[r] \in 0..Len(posted)
  BY DEF RuntimeTypeOK
<1>4. Len(posted) \in Nat
  BY <1>1
<1> QED
  BY <1>1, <1>2, <1>3, <1>4 DEF Rooms

\* The oldest messages of a set are without a gap: what is older than one of them is one.
LEMMA OldestWithoutGap ==
  ASSUME NEW S \in SUBSET Nat, IsFiniteSet(S), NEW n \in Nat,
         NEW m \in Oldest(S, n), NEW k \in S, k < m
  PROVE  k \in Oldest(S, n)
<1> DEFINE below(x) == {j \in S : j < x}
<1>1. below(k) \subseteq below(m)
  <2>1. m \in Nat /\ k \in Nat
    BY DEF Oldest
  <2>2. ASSUME NEW j \in S, j < k PROVE j < m
    BY <2>1, <2>2
  <2> QED
    BY <2>2
<1>2. IsFiniteSet(below(m))
  BY FS_Subset
<1>3. Cardinality(below(k)) <= Cardinality(below(m)) /\ IsFiniteSet(below(k))
  BY <1>1, <1>2, FS_Subset
<1>4. Cardinality(below(k)) \in Nat /\ Cardinality(below(m)) \in Nat
  BY <1>2, <1>3, FS_CardinalityType
<1>5. Cardinality(below(m)) < n
  BY DEF Oldest
<1>6. Cardinality(below(k)) < n
  BY <1>3, <1>4, <1>5
<1> QED
  BY <1>6 DEF Oldest

\* A page: messages of the room after the offset, and none of them left out in between.
LEMMA PageOfRoom ==
  ASSUME RuntimeTypeOK, NEW r \in Rooms
  PROVE  LET p == MessagePage(r, offsets[r])
         IN /\ p \subseteq DOMAIN posted
            /\ \A m \in p : posted[m] = r /\ m > offsets[r]
            /\ \A m \in p : \A k \in DOMAIN posted :
                 posted[k] = r /\ k < m /\ k > offsets[r] => k \in p
<1> DEFINE S == MessagesAfter(r, offsets[r])
<1>1. posted \in Seq(Rooms) /\ Len(posted) \in Nat /\ DOMAIN posted = 1..Len(posted)
  BY DEF RuntimeTypeOK
<1>2. S \in SUBSET Nat /\ S \subseteq DOMAIN posted
  BY <1>1 DEF MessagesAfter
<1>3. IsFiniteSet(S)
  <2>1. IsFiniteSet(1..Len(posted))
    BY <1>1, FS_Interval
  <2> QED
    BY <1>1, <1>2, <2>1, FS_Subset
<1>4. MessagePage(r, offsets[r]) = Oldest(S, PageSize) /\ Oldest(S, PageSize) \subseteq S
  BY DEF MessagePage, Oldest
<1>5. \A m \in S : posted[m] = r /\ m > offsets[r] /\ r \in rooms
  BY DEF MessagesAfter
<1>6. ASSUME NEW m \in Oldest(S, PageSize), NEW k \in DOMAIN posted,
             posted[k] = r, k < m, k > offsets[r]
      PROVE  k \in Oldest(S, PageSize)
  <2>1. r \in rooms
    BY <1>4, <1>5
  <2>2. k \in S
    BY <1>6, <2>1 DEF MessagesAfter
  <2> QED
    BY <1>2, <1>3, <1>6, <2>2, OldestWithoutGap
<1> QED
  BY <1>2, <1>4, <1>5, <1>6

-------------------------------------------------------------------------------
(* Preservation.                                                               *)

LEMMA InitEstablishes == Init => RuntimeInv
<1> SUFFICES ASSUME Init PROVE RuntimeInv
  OBVIOUS
<1> USE DEF Init
<1>1. posted = <<>> /\ Len(posted) = 0 /\ DOMAIN posted = {} /\ created = 0
  OBVIOUS
<1>2. offsets \in [Rooms -> 0..Len(posted)]
  BY <1>1 DEF NoOffsets
<1>3. RuntimeTypeOK
  BY <1>1, <1>2 DEF RuntimeTypeOK
<1> QED
  BY <1>1, <1>3 DEF RuntimeInv, HeardOnce, NothingPassedOver, PageIsNew, PageIsComplete,
                    OffsetsCoverHeard

\* All but the types concerns what is posted and the memory only.
LEMMA OthersKeep ==
  ASSUME RuntimeInv, RuntimeTypeOK', UNCHANGED <<posted, memory>>
  PROVE  RuntimeInv'
BY DEF RuntimeInv, HeardOnce, NothingPassedOver, PageIsNew, PageIsComplete,
       OffsetsCoverHeard, memory

\* A process that knows nothing keeps the invariant.
LEMMA ForgetKeeps ==
  ASSUME RuntimeInv, RuntimeTypeOK', Forget, UNCHANGED posted
  PROVE  RuntimeInv'
<1>1. \A m \in DOMAIN posted : m > 0 /\ m \in Nat /\ posted[m] \in Rooms
  <2>1. posted \in Seq(Rooms) /\ created \in 0..MaxRooms
    BY DEF RuntimeInv, RuntimeTypeOK
  <2> QED
    BY <2>1 DEF Rooms
<1>2. NothingPassedOver'
  BY <1>1 DEF NothingPassedOver, Forget, NoOffsets
<1> QED
  BY <1>2 DEF RuntimeInv, HeardOnce, PageIsNew, PageIsComplete, OffsetsCoverHeard, Forget

\* A posted message is newer than any offset.
LEMMA PostMessageKeeps ==
  ASSUME RuntimeInv, NEW r \in rooms, PostMessage(r)
  PROVE  RuntimeInv'
<1>1. posted \in Seq(Rooms) /\ Len(posted) \in Nat /\ DOMAIN posted = 1..Len(posted)
  BY DEF RuntimeInv, RuntimeTypeOK
<1>2. r \in Rooms
  BY DEF RuntimeInv, RuntimeTypeOK, Rooms
<1>3. /\ posted' = Append(posted, r) /\ posted' \in Seq(Rooms)
      /\ Len(posted') = Len(posted) + 1 /\ DOMAIN posted' = 1..(Len(posted) + 1)
      /\ posted'[Len(posted) + 1] = r
      /\ \A m \in DOMAIN posted : posted'[m] = posted[m]
  BY <1>1, <1>2 DEF PostMessage
<1>4. Len(posted) < MaxMessages
  BY DEF PostMessage
<1>5. UNCHANGED <<created, rooms, joined, proc, failures, memory, faults>>
  BY DEF PostMessage
<1>6. RuntimeTypeOK'
  <2>1. offsets' \in [Rooms -> 0..Len(posted')]
    BY <1>1, <1>3, <1>5 DEF RuntimeInv, RuntimeTypeOK, memory
  <2>2. DOMAIN posted \subseteq DOMAIN posted'
    BY <1>1, <1>3
  <2>3. Len(posted') <= MaxMessages
    BY <1>1, <1>3, <1>4
  <2> QED
    BY <1>3, <1>5, <2>1, <2>2, <2>3 DEF RuntimeInv, RuntimeTypeOK, memory
<1>7. \A x \in Rooms : offsets[x] \in 0..Len(posted)
  BY DEF RuntimeInv, RuntimeTypeOK
<1>8. NothingPassedOver'
  <2> SUFFICES ASSUME NEW m \in DOMAIN posted', m <= offsets[posted'[m]]
               PROVE  m \in heard
    BY <1>5 DEF NothingPassedOver, memory
  <2>1. m # Len(posted) + 1
    BY <1>1, <1>2, <1>3, <1>7
  <2>2. m \in DOMAIN posted
    BY <1>1, <1>3, <2>1
  <2> QED
    BY <1>3, <2>2 DEF RuntimeInv, NothingPassedOver
<1>10. page \subseteq DOMAIN posted /\ heard \subseteq DOMAIN posted
  BY DEF RuntimeInv, RuntimeTypeOK
<1>11. PageIsNew' /\ OffsetsCoverHeard' /\ HeardOnce'
  BY <1>3, <1>5, <1>10 DEF RuntimeInv, PageIsNew, OffsetsCoverHeard, HeardOnce, memory
<1>12. PageIsComplete'
  <2> SUFFICES ASSUME NEW m \in page, NEW k \in DOMAIN posted',
                      posted'[k] = room, k < m, k > offsets[room]
               PROVE  k \in page
    BY <1>5 DEF PageIsComplete, memory
  <2>1. k \in DOMAIN posted
    BY <1>1, <1>3, <1>10
  <2> QED
    BY <1>3, <2>1 DEF RuntimeInv, PageIsComplete
<1> QED
  BY <1>6, <1>8, <1>11, <1>12 DEF RuntimeInv

LEMMA FetchMessagesKeeps ==
  ASSUME RuntimeInv, FetchMessages
  PROVE  RuntimeInv'
<1>1. room' \in round /\ room' \in 1..created /\ room' \in Rooms
  BY DEF FetchMessages, RuntimeInv, RuntimeTypeOK, Rooms
<1> DEFINE p == MessagePage(room', offsets[room'])
<1>2. page' = p /\ UNCHANGED <<gatewayVars, failures, offsets, heard, faults>>
  BY DEF FetchMessages
<1>3. /\ p \subseteq DOMAIN posted
      /\ \A m \in p : posted[m] = room' /\ m > offsets[room']
      /\ \A m \in p : \A k \in DOMAIN posted :
           posted[k] = room' /\ k < m /\ k > offsets[room'] => k \in p
  BY <1>1, PageOfRoom DEF RuntimeInv
<1> HIDE DEF p
<1>4. RuntimeTypeOK'
  BY <1>1, <1>2, <1>3 DEF FetchMessages, RuntimeInv, RuntimeTypeOK, gatewayVars
<1>5. PageIsNew' /\ PageIsComplete'
  BY <1>2, <1>3 DEF PageIsNew, PageIsComplete, gatewayVars
<1>6. HeardOnce'
  <2>1. \A m \in p : m \notin heard
    <3> SUFFICES ASSUME NEW m \in p, m \in heard PROVE FALSE
      OBVIOUS
    <3>1. m <= offsets[room']
      BY <1>3 DEF RuntimeInv, OffsetsCoverHeard
    <3>2. m \in Nat /\ offsets[room'] \in Nat /\ m > offsets[room']
      BY <1>1, <1>3, MessageRoom DEF RuntimeInv
    <3> QED
      BY <3>1, <3>2
  <2> QED
    BY <1>2, <2>1 DEF HeardOnce
<1>7. NothingPassedOver' /\ OffsetsCoverHeard'
  BY <1>2 DEF RuntimeInv, NothingPassedOver, OffsetsCoverHeard, gatewayVars
<1> QED
  BY <1>4, <1>5, <1>6, <1>7 DEF RuntimeInv

\* The oldest message in hand is the next one of its room: the offset moves to it.
LEMMA HandleMessageKeeps ==
  ASSUME RuntimeInv, NEW m \in page, NEW raised \in BOOLEAN, HandleMessage(m, raised)
  PROVE  RuntimeInv'
<1>1. /\ m \in DOMAIN posted /\ m \in Nat /\ posted[m] = room /\ room \in Rooms
      /\ m > offsets[room] /\ offsets[room] \in Nat /\ m \in 0..Len(posted)
  <2>1. m \in DOMAIN posted /\ posted[m] = room /\ m > offsets[room]
    BY DEF RuntimeInv, RuntimeTypeOK, PageIsNew
  <2>2. m \in Nat /\ room \in Rooms /\ offsets[room] \in Nat
    BY <2>1, MessageRoom DEF RuntimeInv
  <2>3. m \in 0..Len(posted)
    BY <2>1 DEF RuntimeInv, RuntimeTypeOK
  <2> QED
    BY <2>1, <2>2, <2>3
<1>2. offsets' = [offsets EXCEPT ![room] = m]
  BY <1>1 DEF HandleMessage, MovedPast, RuntimeInv, RuntimeTypeOK
<1>3. offsets \in [Rooms -> 0..Len(posted)]
  BY DEF RuntimeInv, RuntimeTypeOK
<1>4. heard' = heard \union {m} /\ page' \subseteq page \ {m}
  BY DEF HandleMessage
<1>5. UNCHANGED <<gatewayVars, failures, round, room, faults>>
  BY DEF HandleMessage
<1>6. RuntimeTypeOK'
  <2>1. offsets' \in [Rooms -> 0..Len(posted)]
    BY <1>1, <1>2, <1>3
  <2>2. /\ proc' \in {"sleep", "handle"} /\ page' \subseteq DOMAIN posted
        /\ heard' \subseteq DOMAIN posted
    BY <1>1, <1>4 DEF HandleMessage, AfterException, RuntimeInv, RuntimeTypeOK
  <2> QED
    BY <1>5, <2>1, <2>2 DEF RuntimeInv, RuntimeTypeOK, gatewayVars
<1>7. HeardOnce'
  BY <1>4 DEF RuntimeInv, HeardOnce
<1>8. \A k \in DOMAIN posted : k \in Nat /\ posted[k] \in Rooms /\ offsets[posted[k]] \in Nat
  BY MessageRoom DEF RuntimeInv
<1>9. NothingPassedOver'
  <2> SUFFICES ASSUME NEW k \in DOMAIN posted, k <= offsets'[posted[k]]
               PROVE  k \in heard'
    BY <1>5 DEF NothingPassedOver, gatewayVars
  <2>1. CASE k = m \/ k <= offsets[posted[k]]
    BY <1>4, <2>1 DEF RuntimeInv, NothingPassedOver
  <2>2. CASE k # m /\ ~(k <= offsets[posted[k]])
    <3>1. posted[k] = room
      BY <1>2, <1>3, <1>8, <2>2
    <3>2. offsets'[room] = m
      BY <1>1, <1>2, <1>3
    <3>3. k < m /\ k > offsets[room]
      BY <1>1, <1>8, <2>2, <3>1, <3>2
    <3>4. k \in page
      BY <3>1, <3>3 DEF RuntimeInv, PageIsComplete
    <3>5. m <= k
      BY <3>4 DEF HandleMessage
    <3> QED
      BY <1>1, <1>8, <3>3, <3>5
  <2> QED
    BY <2>1, <2>2
<1>10. OffsetsCoverHeard'
  <2> SUFFICES ASSUME NEW k \in heard' PROVE k <= offsets'[posted[k]]
    BY <1>5 DEF OffsetsCoverHeard, gatewayVars
  <2>1. CASE k = m
    BY <1>1, <1>2, <1>3, <2>1
  <2>2. CASE k \in heard
    <3>1. k \in DOMAIN posted /\ k <= offsets[posted[k]]
      BY <2>2 DEF RuntimeInv, RuntimeTypeOK, OffsetsCoverHeard
    <3> QED
      BY <1>1, <1>2, <1>3, <1>8, <3>1
  <2> QED
    BY <1>4, <2>1, <2>2
<1>11. PageIsNew' /\ PageIsComplete'
  <2>1. \A k \in page : k \in DOMAIN posted /\ k \in Nat /\ m <= k
    BY <1>8 DEF HandleMessage, RuntimeInv, RuntimeTypeOK
  <2>2. offsets'[room] = m
    BY <1>1, <1>2, <1>3
  <2>3. PageIsNew'
    BY <1>1, <1>4, <1>5, <2>1, <2>2 DEF RuntimeInv, PageIsNew, gatewayVars
  <2>4. CASE raised
    BY <2>3, <2>4 DEF HandleMessage, PageIsComplete
  <2>5. CASE ~raised
    <3>1. page' = page \ {m}
      BY <2>5 DEF HandleMessage
    <3>2. ASSUME NEW i \in page', NEW k \in DOMAIN posted, posted[k] = room, k < i, k > m
          PROVE  k \in page'
      <4>1. k > offsets[room] /\ k # m
        BY <1>1, <1>8, <3>2
      <4>2. k \in page
        BY <1>4, <3>2, <4>1 DEF RuntimeInv, PageIsComplete
      <4> QED
        BY <3>1, <4>1, <4>2
    <3> QED
      BY <1>5, <2>2, <2>3, <3>2 DEF PageIsComplete, gatewayVars
  <2> QED
    BY <2>3, <2>4, <2>5
<1> QED
  BY <1>6, <1>7, <1>9, <1>10, <1>11 DEF RuntimeInv

\* The steps that leave what is posted and what is heard as they are.
LEMMA GatewayKeeps ==
  ASSUME RuntimeInv,
         \/ CreateRoom \/ \E r \in rooms : AddParticipant(r)
         \/ \E demo \in SUBSET rooms : RemoveDemoIncidents(demo)
  PROVE  RuntimeInv'
<1> USE DEF RuntimeInv
<1>1. CASE CreateRoom
  <2>1. created' = created + 1 /\ created' \in 0..MaxRooms /\ 1..created \subseteq 1..created'
    BY <1>1 DEF CreateRoom, RuntimeTypeOK
  <2>2. UNCHANGED <<posted, joined, proc, failures, memory, faults>> /\ rooms' \subseteq 1..created'
    BY <1>1, <2>1 DEF CreateRoom, RuntimeTypeOK
  <2>3. posted \in Seq(Rooms)
    BY DEF RuntimeTypeOK
  <2>4. RuntimeTypeOK'
    BY <1>1, <2>1, <2>2, <2>3 DEF CreateRoom, RuntimeTypeOK, memory
  <2> QED
    BY <2>2, <2>4, OthersKeep DEF memory
<1>2. ASSUME NEW r \in rooms, AddParticipant(r)
      PROVE  RuntimeInv'
  <2>1. RuntimeTypeOK'
    BY <1>2 DEF AddParticipant, RuntimeTypeOK, memory
  <2> QED
    BY <1>2, <2>1, OthersKeep DEF AddParticipant
<1>3. ASSUME NEW demo \in SUBSET rooms, RemoveDemoIncidents(demo)
      PROVE  RuntimeInv'
  <2>1. RuntimeTypeOK'
    BY <1>3 DEF RemoveDemoIncidents, RuntimeTypeOK, memory
  <2> QED
    BY <1>3, <2>1, OthersKeep DEF RemoveDemoIncidents
<1> QED
  BY <1>1, <1>2, <1>3

LEMMA SupervisorKeeps ==
  ASSUME RuntimeInv, SupervisorStep \/ Crash
  PROVE  RuntimeInv'
<1>1. CASE AgentCreated \/ NewProcess
  <2>1. Forget /\ UNCHANGED <<gatewayVars, faults>>
    BY <1>1 DEF AgentCreated, NewProcess
  <2>2. posted \in Seq(Rooms) /\ Len(posted) \in Nat
    BY DEF RuntimeInv, RuntimeTypeOK
  <2>3. offsets' \in [Rooms -> 0..Len(posted)]
    BY <2>1, <2>2 DEF Forget, NoOffsets
  <2>4. failures' = 0 /\ proc' \in {"list", "create"}
    BY <1>1 DEF AgentCreated, NewProcess
  <2>5. RuntimeTypeOK'
    BY <2>1, <2>2, <2>3, <2>4 DEF Forget, RuntimeInv, RuntimeTypeOK, gatewayVars
  <2> QED
    BY <2>1, <2>5, ForgetKeeps DEF gatewayVars
<1>2. CASE CreationFails
  <2>1. UNCHANGED <<gatewayVars, memory, faults>> /\ proc = "create"
    BY <1>2 DEF CreationFails
  <2>2. failures < MaxFailures /\ failures \in Nat
    BY <2>1 DEF RuntimeInv, RuntimeTypeOK
  <2>3. /\ failures' \in 0..MaxFailures /\ proc' \in {"wait", "exited"}
        /\ proc' = "wait" => failures' < MaxFailures
    BY <1>2, <2>2 DEF CreationFails, FailuresAfter
  <2>4. RuntimeTypeOK'
    BY <2>1, <2>3 DEF RuntimeInv, RuntimeTypeOK, gatewayVars, memory
  <2> QED
    BY <2>1, <2>4, OthersKeep DEF gatewayVars
<1>3. CASE TryAgain \/ Crash
  <2>1. UNCHANGED <<gatewayVars, failures, memory>> /\ faults' \in 0..MaxFaults
    BY <1>3 DEF TryAgain, Crash, Fault, RuntimeInv, RuntimeTypeOK
  <2>2. RuntimeTypeOK'
    BY <1>3, <2>1 DEF TryAgain, Crash, RuntimeInv, RuntimeTypeOK, gatewayVars, memory
  <2> QED
    BY <2>1, <2>2, OthersKeep DEF gatewayVars
<1> QED
  BY <1>1, <1>2, <1>3 DEF SupervisorStep

LEMMA RoundKeeps ==
  ASSUME RuntimeInv, ListRooms \/ RoomDone \/ RoundDone \/ NextRound \/ PollFails
  PROVE  RuntimeInv'
<1>1. CASE RoomDone \/ RoundDone \/ PollFails
  <2>1. UNCHANGED <<gatewayVars, failures, memory>> /\ faults' \in 0..MaxFaults
    BY <1>1 DEF RoomDone, RoundDone, PollFails, Fault, RuntimeInv, RuntimeTypeOK
  <2>2. proc' \in {"fetch", "sleep"}
    BY <1>1 DEF RoomDone, RoundDone, PollFails, AfterException
  <2>3. RuntimeTypeOK'
    BY <2>1, <2>2 DEF RuntimeInv, RuntimeTypeOK, gatewayVars, memory
  <2> QED
    BY <2>1, <2>3, OthersKeep DEF gatewayVars
<1>2. CASE ListRooms
  <2>1. /\ round' \subseteq joined
        /\ UNCHANGED <<gatewayVars, failures, offsets, room, page, heard, faults>>
    BY <1>2 DEF ListRooms, ListedRooms, Newest
  <2>2. RuntimeTypeOK'
    BY <1>2, <2>1 DEF ListRooms, RuntimeInv, RuntimeTypeOK, gatewayVars
  <2> QED
    BY <2>1, <2>2 DEF RuntimeInv, HeardOnce, NothingPassedOver, PageIsNew, PageIsComplete,
                      OffsetsCoverHeard, gatewayVars
<1>3. CASE NextRound
  <2>1. /\ proc' = "list" /\ round' = {} /\ room' = 0 /\ page' = {}
        /\ UNCHANGED <<gatewayVars, failures, offsets, heard, faults>>
    BY <1>3 DEF NextRound
  <2>2. RuntimeTypeOK'
    BY <2>1 DEF RuntimeInv, RuntimeTypeOK, gatewayVars
  <2> QED
    BY <2>1, <2>2 DEF RuntimeInv, HeardOnce, NothingPassedOver, PageIsNew, PageIsComplete,
                      OffsetsCoverHeard, gatewayVars
<1> QED
  BY <1>1, <1>2, <1>3

LEMMA StepKeeps == RuntimeInv /\ [Next]_vars => RuntimeInv'
<1> SUFFICES ASSUME RuntimeInv, [Next]_vars PROVE RuntimeInv'
  OBVIOUS
<1>1. CASE \/ CreateRoom \/ \E r \in rooms : AddParticipant(r)
           \/ \E demo \in SUBSET rooms : RemoveDemoIncidents(demo)
  BY <1>1, GatewayKeeps
<1>2. CASE \E r \in rooms : PostMessage(r)
  BY <1>2, PostMessageKeeps
<1>3. CASE SupervisorStep \/ Crash
  BY <1>3, SupervisorKeeps
<1>4. CASE ListRooms \/ RoomDone \/ RoundDone \/ NextRound \/ PollFails
  BY <1>4, RoundKeeps
<1>5. CASE FetchMessages
  BY <1>5, FetchMessagesKeeps
<1>6. CASE \E m \in page, raised \in BOOLEAN : HandleMessage(m, raised)
  BY <1>6, HandleMessageKeeps
<1>7. CASE UNCHANGED vars
  <2>1. RuntimeTypeOK'
    BY <1>7 DEF vars, gatewayVars, memory, RuntimeInv, RuntimeTypeOK
  <2> QED
    BY <1>7, <2>1, OthersKeep DEF vars, gatewayVars
<1> QED
  BY <1>1, <1>2, <1>3, <1>4, <1>5, <1>6, <1>7 DEF Next, RuntimeStep

-------------------------------------------------------------------------------
(* Theorems.                                                                   *)

\* The inductive invariant holds, from Init on, in every reachable state.
THEOREM RuntimeInvariant == Spec => []RuntimeInv
BY InitEstablishes, StepKeeps, PTL DEF Spec

\* The types of rooms, offsets, the round, the page and the counters.
THEOREM RuntimeTypes == Spec => []RuntimeTypeOK
BY RuntimeInvariant, PTL DEF RuntimeInv

\* local_room_runtime: an agent object is given a message at most once.
THEOREM MessageHeardOnce == Spec => []HeardOnce
BY RuntimeInvariant, PTL DEF RuntimeInv

\* local_room_runtime: an offset never moves over a message that was not handed over.
THEOREM NoMessagePassedOver == Spec => []NothingPassedOver
BY RuntimeInvariant, PTL DEF RuntimeInv
================================================================================
