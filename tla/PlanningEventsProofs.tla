------------------------ MODULE PlanningEventsProofs ------------------------
(***************************************************************************)
(* Proofs about module PlanningEvents, for every group and every bound:    *)
(* capacity, waitlist and promotion are right however registrations,       *)
(* withdrawals, edits and the close interleave.                            *)
(***************************************************************************)
EXTENDS PlanningEvents, Counting

-----------------------------------------------------------------------------
(***************************************************************************)
(* The waitlist's operators.                                               *)
(***************************************************************************)
Positions(S) == {responses[m].position : m \in S}

\* The shape of the records, without the sets they range over.
LEMMA ResponseShape ==
  ASSUME TypeOK, NEW m \in Members
  PROVE  /\ responses[m] \in Response
         /\ responses[m].position \in Nat /\ responses[m].position <= MaxPosition
BY PlanningAssumption DEF TypeOK, Response

\* Sets of members are finite.
LEMMA MembersCount ==
  ASSUME NEW S, S \subseteq Members
  PROVE  IsFiniteSet(S) /\ Cardinality(S) \in Nat
BY PlanningAssumption, FS_Subset, FS_CardinalityType

LEMMA FirstInLine ==
  ASSUME TypeOK, NEW S, S \subseteq Members, S # {}
  PROVE  /\ FirstWaiting(S) \in S
         /\ \A o \in S : responses[FirstWaiting(S)].position <= responses[o].position
<1>1. Positions(S) \subseteq Nat /\ Positions(S) # {}
  BY ResponseShape DEF Positions
<1>2. PICK x \in Positions(S) : \A y \in Positions(S) : x <= y
  BY <1>1, LeastNumber
<1>3. \E m \in S : \A o \in S : responses[m].position <= responses[o].position
  BY <1>2 DEF Positions
<1> QED BY <1>3, Zenon DEF FirstWaiting

LEMMA NextPositionIsNew ==
  ASSUME TypeOK, Members # {}
  PROVE  /\ NextPosition \in Nat /\ NextPosition > 0
         /\ \A m \in Members : responses[m].position < NextPosition
<1>1. Positions(Members) \subseteq 0 .. MaxPosition /\ Positions(Members) # {} /\ MaxPosition \in Nat
  BY ResponseShape, PlanningAssumption DEF Positions
<1>2. Max(Positions(Members)) \in Positions(Members)
      /\ \A y \in Positions(Members) : Max(Positions(Members)) >= y
  BY <1>1, GreatestNumber
<1>3. Max(Positions(Members)) \in Nat /\ NextPosition = Max(Positions(Members)) + 1
  BY <1>1, <1>2 DEF NextPosition, Positions
<1>4. \A m \in Members : responses[m].position \in Positions(Members)
  BY DEF Positions
<1> QED BY <1>1, <1>2, <1>3, <1>4
-----------------------------------------------------------------------------
(***************************************************************************)
(* The inductive invariant.                                                *)
(***************************************************************************)

\* An event that was not created has no audience, versions stay in their
\* bounds, and a waitlist goes with a capacity.
Shape ==
  /\ TypeOK
  /\ event.status = "NONE" => audience = {}
  /\ event.status # "NONE" => event.version >= 1
  /\ event.status = "PUBLISHED" => event.version <= MaxVersion
  /\ event.status = "CLOSED" => event.version <= MaxVersion + 1
  /\ event.waitlist => event.capacity # 0

QueueInv == Shape /\ CapacityRespected /\ WaitlistIsQueue /\ ClosedLeavesNoFreePlace

LEMMA EventShape ==
  ASSUME TypeOK
  PROVE  /\ event.capacity \in Nat /\ event.version \in Nat /\ event.version <= MaxVersion + 2
         /\ event.end \in Times /\ event.waitlist \in BOOLEAN /\ event.targets \subseteq Members
         /\ event.status \in Open \union Over \union {"NONE"}
<1>1. event \in Event
  BY DEF TypeOK
<1>2. /\ event.capacity \in Capacities \union {0} /\ event.version \in 0 .. MaxVersion + 2
      /\ event.end \in Times /\ event.waitlist \in BOOLEAN /\ event.targets \in SUBSET Members
      /\ event.status \in Open \union Over \union {"NONE"}
  BY <1>1, Zenon DEF Event
<1>3. event.version \in Nat /\ event.version <= MaxVersion + 2
  BY <1>2, PlanningAssumption
<1>4. Capacities \subseteq Nat
  BY PlanningAssumption, Zenon
<1>5. event.capacity \in Nat
  <2>1. CASE event.capacity \in Capacities
    BY <1>4, <2>1, Zenon
  <2>2. CASE event.capacity = 0
    BY <2>2
  <2> QED BY <1>2, <2>1, <2>2
<1> QED BY <1>2, <1>3, <1>5

\* Fresh tasks, and tasks that follow the version, are tasks.
LEMMA TaskShape ==
  ASSUME NEW S, S \subseteq Members, NEW type \in TaskTypes, NEW r \in 1 .. MaxVersion + 2
  PROVE  NewTasks(S, type, r) \subseteq Task
BY DEF NewTasks, Task

\* Who gets a place when the event is closed.
LEMMA SuccessorsPlaces ==
  ASSUME QueueInv
  PROVE  /\ Successors \subseteq Promotable /\ Promotable \subseteq Members
         /\ event.capacity = 0 => Successors = {}
         /\ event.capacity # 0 => Cardinality(Registered) + Cardinality(Successors) <= event.capacity
         /\ event.capacity # 0 /\ Promotable \ Successors # {} =>
              Cardinality(Registered) + Cardinality(Successors) = event.capacity
         /\ \A m \in Successors, o \in Promotable \ Successors :
              responses[m].position < responses[o].position
<1> DEFINE pos == [m \in Promotable |-> responses[m].position]
<1>0. TypeOK
  BY DEF QueueInv, Shape
<1>1. Promotable \subseteq Members /\ Registered \subseteq Members /\ Promotable \subseteq Waiting
  BY DEF Promotable, Waiting, Registered, InStatus
<1>2. /\ IsFiniteSet(Promotable) /\ Cardinality(Registered) \in Nat
      /\ event.capacity \in Nat /\ MaxPosition \in Nat
  BY <1>0, <1>1, MembersCount, EventShape, PlanningAssumption
<1>3. Available \in Nat
        /\ (event.capacity # 0 => Available = event.capacity - Cardinality(Registered))
        /\ (event.capacity = 0 => Available = 0)
  <2>1. event.capacity # 0 => Cardinality(Registered) <= event.capacity
    BY DEF QueueInv, CapacityRespected
  <2> QED BY <1>2, <2>1 DEF Available
<1>4. \A m \in Promotable : responses[m].position \in 0 .. MaxPosition
  BY <1>0, <1>1, ResponseShape
<1>5. pos \in [Promotable -> 0 .. MaxPosition]
  BY <1>4
<1>6. \A a, b \in Promotable : pos[a] = pos[b] => a = b
  BY <1>1 DEF QueueInv, WaitlistIsQueue
<1>7. Successors = Firsts(Promotable, pos, Available)
  <2>1. \A m \in Promotable : {o \in Promotable : pos[o] < pos[m]}
            = {o \in Promotable : responses[o].position < responses[m].position}
    OBVIOUS
  <2> QED BY <2>1 DEF Successors, Firsts
<1> HIDE DEF pos
<1>8. /\ Successors \subseteq Promotable
      /\ Cardinality(Successors) <= Available
      /\ Promotable \ Successors # {} => Cardinality(Successors) >= Available
      /\ \A m \in Successors, o \in Promotable \ Successors : pos[m] < pos[o]
  BY <1>2, <1>3, <1>5, <1>6, <1>7, FirstPlaces
<1>9. Cardinality(Successors) \in Nat /\ IsFiniteSet(Successors)
  BY <1>1, <1>8, MembersCount
<1>10. event.capacity = 0 => Successors = {}
  BY <1>3, <1>8, <1>9, FS_EmptySet
<1>11. \A m \in Promotable : pos[m] = responses[m].position
  BY DEF pos
<1> QED BY <1>1, <1>2, <1>3, <1>8, <1>9, <1>10, <1>11

LEMMA QueueInvInit == Init => QueueInv
<1> SUFFICES ASSUME Init PROVE QueueInv
  OBVIOUS
<1>1. TypeOK
  <2>1. event \in Event
    <3>1. 0 \in 0 .. MaxVersion + 2 /\ 0 \in Times
      BY PlanningAssumption DEF Times
    <3>2. PICK t \in EventTypes :
            event = [status |-> "NONE", type |-> t, version |-> 0, capacity |-> 0, waitlist |-> FALSE,
                     deadline |-> Never, end |-> 0, targets |-> {}]
      BY DEF Init
    <3> QED BY <3>1, <3>2 DEF Event
  <2>2. NoResponse \in Response /\ 0 \in Times
    BY PlanningAssumption DEF NoResponse, Response, Times
  <2> QED BY <2>1, <2>2 DEF Init, TypeOK
<1>2. Shape
  BY <1>1 DEF Init, Shape
<1>3. Registered = {} /\ Waiting = {}
  BY DEF Init, Registered, Waiting, InStatus, NoResponse
<1>4. \A m \in Members : responses[m].position = 0
  BY DEF Init, NoResponse
<1> QED BY <1>1, <1>2, <1>3, <1>4 DEF Init, QueueInv, CapacityRespected, WaitlistIsQueue,
           ClosedLeavesNoFreePlace

\* A step that leaves the responses, the capacity and the waitlist alone.
LEMMA QuietStep ==
  ASSUME QueueInv, Shape', responses' = responses, event'.capacity = event.capacity,
         event'.waitlist = event.waitlist,
         event'.status = "CLOSED" => event.status = "CLOSED"
  PROVE  QueueInv'
<1>1. Registered' = Registered /\ Waiting' = Waiting
  BY DEF Registered, Waiting, InStatus
<1> QED BY <1>1 DEF QueueInv, CapacityRespected, WaitlistIsQueue, ClosedLeavesNoFreePlace, Shape

-----------------------------------------------------------------------------
(***************************************************************************)
(* Editing.                                                                *)
(***************************************************************************)
LEMMA CreateKeepsQueueInv ==
  ASSUME QueueInv, NEW targets \in SUBSET Members, NEW capacity \in Capacities,
         NEW waitlist \in BOOLEAN, NEW deadline \in Times \union {Never}, NEW end \in Times,
         CreateEvent(targets, capacity, waitlist, deadline, end)
  PROVE  QueueInv'
<1>0. TypeOK /\ Shape
  BY DEF QueueInv, Shape
<1>1. /\ event.status = "NONE" /\ audience' \subseteq Members
      /\ event' = [event EXCEPT !.status = "PUBLISHED", !.version = 1, !.capacity = capacity,
                     !.waitlist = waitlist, !.deadline = deadline, !.end = end, !.targets = targets]
      /\ tasks' = NewTasks(audience', "PUBLISHED", 1)
      /\ UNCHANGED <<responses, eligible, enabled, now>>
      /\ waitlist => capacity # 0
  BY DEF CreateEvent, AudienceCandidates, Normalized
<1>2. \A m \in Members : responses[m] = NoResponse
  BY <1>0, <1>1 DEF Shape, TypeOK
<1>3. event' \in Event
  <2>1. 1 \in 0 .. MaxVersion + 2 /\ "PUBLISHED" \in Open \union Over \union {"NONE"}
    BY PlanningAssumption DEF Open
  <2>2. event \in Event /\ capacity \in Capacities \union {0}
    BY <1>0 DEF TypeOK
  <2> QED BY <1>1, <2>1, <2>2 DEF Event
<1>4. tasks' \subseteq Task
  <2>1. 1 \in 1 .. MaxVersion + 2
    BY PlanningAssumption
  <2> QED BY <1>1, <2>1, TaskShape DEF TaskTypes
<1>5. TypeOK'
  BY <1>0, <1>1, <1>2, <1>3, <1>4 DEF TypeOK
<1>6. Shape'
  BY <1>0, <1>1, <1>5, PlanningAssumption DEF Shape, TypeOK, Event
<1>7. Registered' = {} /\ Waiting' = {}
  BY <1>1, <1>2 DEF Registered, Waiting, InStatus, NoResponse
<1>8. capacity \in Nat /\ event'.status = "PUBLISHED"
  BY <1>0, <1>1, PlanningAssumption DEF TypeOK, Event
<1>9. CapacityRespected'
  <2>1. Cardinality(Registered') = 0
    BY <1>7, FS_EmptySet, Zenon
  <2>2. event'.capacity = capacity /\ capacity \in Nat
    BY <1>0, <1>1, PlanningAssumption DEF TypeOK, Event
  <2> QED BY <2>1, <2>2 DEF CapacityRespected
<1>10. WaitlistIsQueue'
  BY <1>1, <1>2, <1>5, <1>7 DEF WaitlistIsQueue, NoResponse
<1> QED BY <1>6, <1>8, <1>9, <1>10 DEF QueueInv, ClosedLeavesNoFreePlace

LEMMA UpdateKeepsQueueInv ==
  ASSUME QueueInv, NEW targets \in SUBSET Members, NEW capacity \in Capacities,
         NEW waitlist \in BOOLEAN, NEW deadline \in Times \union {Never}, NEW end \in Times,
         UpdateEvent(targets, capacity, waitlist, deadline, end)
  PROVE  QueueInv'
<1>0. TypeOK /\ Shape /\ WaitlistIsQueue
  BY DEF QueueInv, Shape
<1>1. /\ event.status = "PUBLISHED" /\ event.version < MaxVersion
      /\ audience \subseteq audience' /\ audience' \subseteq Members
      /\ event' = [event EXCEPT !.version = @ + 1, !.capacity = capacity, !.waitlist = waitlist,
                     !.deadline = deadline, !.end = end, !.targets = targets]
      /\ UNCHANGED <<responses, eligible, enabled, now>>
      /\ waitlist => capacity # 0
      /\ capacity # 0 => Cardinality(Registered) <= capacity
      /\ ~waitlist => Waiting = {}
  BY <1>0 DEF UpdateEvent, AudienceCandidates, Normalized, Invited, TypeOK,
     ValidateRegistrationStateChange
<1>2. event.version \in Nat /\ event.version >= 1 /\ event.version + 1 \in 1 .. MaxVersion + 2
  BY <1>0, <1>1, EventShape, PlanningAssumption DEF Shape
<1>3. event' \in Event
  <2>1. event.version + 1 \in 0 .. MaxVersion + 2
    BY <1>2
  <2>2. event \in Event /\ capacity \in Capacities \union {0}
    BY <1>0 DEF TypeOK
  <2> QED BY <1>1, <2>1, <2>2 DEF Event
<1>4. tasks' \subseteq Task
  <2>1. Concerned \subseteq Members /\ Invited(targets) \subseteq Members
    BY <1>0 DEF Concerned, Invited, AudienceCandidates, Registered, Waiting, InStatus, TypeOK
  <2>2. CarriedTasks \subseteq Task
    BY <1>0, <1>2 DEF CarriedTasks, TypeOK, Task
  <2>3. tasks' = CarriedTasks \union NewTasks(Concerned, "UPDATED", event.version + 1)
                    \union NewTasks(Invited(targets), "PUBLISHED", event.version + 1)
    BY DEF UpdateEvent
  <2> QED BY <1>2, <2>1, <2>2, <2>3, TaskShape DEF TaskTypes
<1>5. TypeOK'
  BY <1>0, <1>1, <1>3, <1>4 DEF TypeOK
<1>6. /\ event'.status = "PUBLISHED" /\ event'.version = event.version + 1
      /\ event'.capacity = capacity /\ event'.waitlist = waitlist
  BY <1>0, <1>1 DEF TypeOK, Event
<1>7. Shape'
  BY <1>1, <1>2, <1>5, <1>6, PlanningAssumption DEF Shape
<1>8. Registered' = Registered /\ Waiting' = Waiting
  BY <1>1 DEF Registered, Waiting, InStatus
<1>9. CapacityRespected'
  BY <1>1, <1>6, <1>8 DEF CapacityRespected
<1>10. WaitlistIsQueue'
  BY <1>0, <1>1, <1>5, <1>6, <1>8 DEF WaitlistIsQueue
<1> QED BY <1>6, <1>7, <1>9, <1>10 DEF QueueInv, ClosedLeavesNoFreePlace
-----------------------------------------------------------------------------
(***************************************************************************)
(* Responses.                                                              *)
(***************************************************************************)
LEMMA AnswerShape ==
  ASSUME NEW status \in Votes \union {"REGISTERED", "WITHDRAWN"}
  PROVE  /\ Answer(status) \in Response /\ Answer(status) # NoResponse
         /\ Answer(status).status = status /\ Answer(status).position = 0
BY PlanningAssumption DEF Answer, Response, NoResponse, Votes

\* A step that leaves everybody's place in line alone or takes it away.
LEMMA NobodyJoinsTheLine ==
  ASSUME WaitlistIsQueue, TypeOK', event'.waitlist = event.waitlist,
         \A m \in Members : responses'[m] = responses[m] \/
             (responses'[m].status # "WAITLISTED" /\ responses'[m].position = 0)
  PROVE  WaitlistIsQueue'
<1>1. \A m \in Members : m \in Waiting' => m \in Waiting /\ responses'[m] = responses[m]
  BY DEF Waiting, InStatus
<1>2. \A m \in Members : m \in Waiting' <=> responses'[m].position > 0
  BY DEF WaitlistIsQueue, Waiting, InStatus
<1>3. Waiting' \subseteq Members
  BY DEF Waiting, InStatus
<1> QED BY <1>1, <1>2, <1>3 DEF WaitlistIsQueue

\* The shape of the other tables when responses change.
LEMMA ResponsesChange ==
  ASSUME Shape, responses' \in [Members -> Response],
         \A m \in Members : responses'[m] # NoResponse => m \in audience,
         UNCHANGED <<event, audience, eligible, enabled, now>>, tasks' \subseteq Task
  PROVE  Shape'
<1>1. TypeOK'
  BY DEF Shape, TypeOK
<1> QED BY <1>1 DEF Shape

\* A vote, or a withdrawal that frees no place.
LEMMA LeavingKeepsQueueInv ==
  ASSUME QueueInv, NEW m \in audience, NEW status \in Votes \union {"WITHDRAWN"},
         event.status = "PUBLISHED", responses' = [responses EXCEPT ![m] = Answer(status)],
         UNCHANGED <<event, audience, tasks, eligible, enabled, now>>
  PROVE  QueueInv'
<1>0. TypeOK /\ Shape /\ WaitlistIsQueue /\ CapacityRespected /\ m \in Members
  BY DEF QueueInv, Shape, TypeOK
<1>1. /\ responses'[m] = Answer(status) /\ \A o \in Members \ {m} : responses'[o] = responses[o]
      /\ responses' \in [Members -> Response]
  BY <1>0, AnswerShape DEF TypeOK
<1>2. Shape'
  BY <1>0, <1>1, ResponsesChange DEF TypeOK
<1>3. WaitlistIsQueue'
  <2>1. responses'[m].status # "WAITLISTED" /\ responses'[m].position = 0
    BY <1>1, AnswerShape DEF Votes
  <2> QED BY <1>0, <1>1, <1>2, <2>1, NobodyJoinsTheLine DEF Shape
<1>4. CapacityRespected'
  <2>1. Registered' \subseteq Registered /\ Registered \subseteq Members
    BY <1>1, AnswerShape DEF Registered, InStatus, Votes
  <2>2. /\ Cardinality(Registered') <= Cardinality(Registered)
        /\ Cardinality(Registered') \in Nat /\ Cardinality(Registered) \in Nat
    BY <2>1, MembersCount, FS_Subset
  <2>3. event.capacity \in Nat
    BY <1>0, EventShape
  <2> QED BY <1>0, <2>2, <2>3 DEF CapacityRespected
<1> QED BY <1>2, <1>3, <1>4 DEF QueueInv, ClosedLeavesNoFreePlace

LEMMA RegisterKeepsQueueInv ==
  ASSUME QueueInv, NEW m \in Members, Register(m)
  PROVE  QueueInv'
<1>0. TypeOK /\ Shape /\ WaitlistIsQueue /\ CapacityRespected /\ event.capacity \in Nat
  BY EventShape DEF QueueInv, Shape
<1>1. /\ m \in audience /\ event.status = "PUBLISHED"
      /\ UNCHANGED <<event, audience, tasks, eligible, enabled, now>>
  BY DEF Register, MayRespond
<1>2. CASE /\ ~Full \/ m \in Registered
           /\ responses' = [responses EXCEPT ![m] = Answer("REGISTERED")]
  <2>1. /\ responses'[m] = Answer("REGISTERED") /\ \A o \in Members \ {m} : responses'[o] = responses[o]
        /\ responses' \in [Members -> Response]
    BY <1>0, <1>2, AnswerShape DEF TypeOK
  <2>2. Shape'
    BY <1>0, <1>1, <2>1, ResponsesChange DEF TypeOK
  <2>3. WaitlistIsQueue'
    <3>1. responses'[m].status # "WAITLISTED" /\ responses'[m].position = 0
      BY <2>1, AnswerShape
    <3> QED BY <1>0, <1>1, <2>1, <2>2, <3>1, NobodyJoinsTheLine DEF Shape
  <2>4. CapacityRespected'
    <3>1. Registered' = Registered \union {m} /\ Registered \subseteq Members
      BY <2>1, AnswerShape DEF Registered, InStatus
    <3>2. IsFiniteSet(Registered) /\ Cardinality(Registered) \in Nat
      BY <3>1, MembersCount
    <3>3. Cardinality(Registered') = IF m \in Registered THEN Cardinality(Registered)
                                                         ELSE Cardinality(Registered) + 1
      BY <3>1, <3>2, FS_AddElement
    <3> QED BY <1>0, <1>1, <1>2, <3>2, <3>3 DEF CapacityRespected, Full
  <2> QED BY <1>1, <2>2, <2>3, <2>4 DEF QueueInv, ClosedLeavesNoFreePlace
<1>3. CASE m \in Waiting /\ responses' = [responses EXCEPT ![m] = @]
  <2>1. responses' = responses
    BY <1>0, <1>3 DEF TypeOK
  <2>2. Shape'
    BY <1>0, <1>1, <2>1, ResponsesChange DEF TypeOK
  <2> QED BY <1>1, <2>1, <2>2, QuietStep
<1>4. CASE /\ m \notin Registered /\ m \notin Waiting /\ event.waitlist
           /\ NextPosition <= MaxPosition
           /\ responses' = [responses EXCEPT ![m] = Queued(NextPosition)]
  <2>0. /\ NextPosition \in Nat /\ NextPosition > 0
        /\ \A o \in Members : responses[o].position < NextPosition
    BY <1>0, NextPositionIsNew
  <2>1. /\ Queued(NextPosition) \in Response /\ Queued(NextPosition).status = "WAITLISTED"
        /\ Queued(NextPosition).position = NextPosition
    BY <1>4, <2>0, PlanningAssumption DEF Queued, Response
  <2>2. /\ responses'[m] = Queued(NextPosition) /\ \A o \in Members \ {m} : responses'[o] = responses[o]
        /\ responses' \in [Members -> Response]
    BY <1>0, <1>4, <2>1 DEF TypeOK
  <2>3. Shape'
    BY <1>0, <1>1, <2>2, ResponsesChange DEF TypeOK
  <2>4. Registered' = Registered /\ Waiting' = Waiting \union {m} /\ Waiting \subseteq Members
    BY <1>4, <2>1, <2>2 DEF Registered, Waiting, InStatus
  <2>5. WaitlistIsQueue'
    <3>1. \A o \in Members : o \in Waiting' <=> responses'[o].position > 0
      BY <1>0, <2>0, <2>1, <2>2, <2>4 DEF WaitlistIsQueue
    <3>2. ASSUME NEW o \in Waiting', NEW q \in Waiting', responses'[o].position = responses'[q].position
          PROVE  o = q
      <4>1. o \in Members /\ q \in Members
        BY <2>4
      <4>2. CASE o # m /\ q # m
        BY <1>0, <2>2, <2>4, <3>2, <4>2 DEF WaitlistIsQueue
      <4>3. CASE o = m /\ q # m
        <5>1. responses[q].position < NextPosition /\ responses[q].position \in Nat
          BY <1>0, <2>0, <4>1, ResponseShape
        <5> QED BY <2>0, <2>1, <2>2, <3>2, <4>1, <4>3, <5>1
      <4>4. CASE q = m /\ o # m
        <5>1. responses[o].position < NextPosition /\ responses[o].position \in Nat
          BY <1>0, <2>0, <4>1, ResponseShape
        <5> QED BY <2>0, <2>1, <2>2, <3>2, <4>1, <4>4, <5>1
      <4> QED BY <4>2, <4>3, <4>4
    <3> QED BY <1>1, <1>4, <2>3, <3>1, <3>2 DEF WaitlistIsQueue, Shape
  <2> QED BY <1>0, <1>1, <2>3, <2>4, <2>5 DEF QueueInv, CapacityRespected, ClosedLeavesNoFreePlace
<1> QED BY <1>2, <1>3, <1>4 DEF Register

\* What a withdrawal that frees a place does.
LEMMA PromotionStep ==
  ASSUME QueueInv, NEW m \in Members, Withdraw(m), m \in Registered, Promotable # {}
  PROVE  LET next == FirstWaiting(Promotable)
         IN  /\ next \in Promotable /\ next \in Waiting /\ next \in eligible
             /\ next \in Members /\ next # m
             /\ responses' \in [Members -> Response]
             /\ responses'[m] = Answer("WITHDRAWN") /\ responses'[next] = Answer("REGISTERED")
             /\ \A o \in Members \ {m, next} : responses'[o] = responses[o]
             /\ tasks' = tasks \union NewTasks({next}, "PROMOTED", event.version)
             /\ \A o \in Promotable : responses[next].position <= responses[o].position
<1> DEFINE next == FirstWaiting(Promotable)
<1>0. TypeOK
  BY DEF QueueInv, Shape
<1>1. Promotable \subseteq Members
  BY DEF Promotable, Waiting, InStatus
<1>2. next \in Promotable /\ \A o \in Promotable : responses[next].position <= responses[o].position
  BY <1>0, <1>1, FirstInLine
<1>3. next \in Members /\ next \in Waiting /\ next \in eligible /\ next # m
  BY <1>1, <1>2 DEF Promotable, Waiting, Registered, InStatus
<1>4. /\ responses' = [[responses EXCEPT ![m] = Answer("WITHDRAWN")] EXCEPT ![next] = Answer("REGISTERED")]
      /\ tasks' = tasks \union NewTasks({next}, "PROMOTED", event.version)
  BY DEF Withdraw
<1> HIDE DEF next
<1>5. /\ responses' \in [Members -> Response]
      /\ responses'[m] = Answer("WITHDRAWN") /\ responses'[next] = Answer("REGISTERED")
      /\ \A o \in Members \ {m, next} : responses'[o] = responses[o]
  BY <1>0, <1>3, <1>4, AnswerShape DEF TypeOK
<1> QED BY <1>2, <1>3, <1>4, <1>5 DEF next

LEMMA WithdrawKeepsQueueInv ==
  ASSUME QueueInv, NEW m \in Members, Withdraw(m)
  PROVE  QueueInv'
<1>0. TypeOK /\ Shape /\ WaitlistIsQueue /\ CapacityRespected /\ event.capacity \in Nat
  BY EventShape DEF QueueInv, Shape
<1>1. /\ m \in audience /\ event.status = "PUBLISHED"
      /\ UNCHANGED <<event, audience, eligible, enabled, now>>
  BY DEF Withdraw, MayRespond
<1>2. CASE m \in Registered /\ Promotable # {}
  <2>1. PICK next \in Members :
             /\ next \in Waiting /\ next # m
             /\ responses' \in [Members -> Response]
             /\ responses'[m] = Answer("WITHDRAWN") /\ responses'[next] = Answer("REGISTERED")
             /\ \A o \in Members \ {m, next} : responses'[o] = responses[o]
             /\ tasks' = tasks \union NewTasks({next}, "PROMOTED", event.version)
    BY <1>2, PromotionStep
  <2>2. responses[next] # NoResponse
    BY <2>1 DEF Waiting, InStatus, NoResponse
  <2>3. next \in audience
    BY <1>0, <2>2 DEF TypeOK
  <2>4. tasks' \subseteq Task
    <3>1. event.version \in 1 .. MaxVersion + 2
      BY <1>0, <1>1, EventShape, PlanningAssumption DEF Shape
    <3> QED BY <1>0, <2>1, <3>1, TaskShape DEF TaskTypes, TypeOK
  <2>5. Shape'
    BY <1>0, <1>1, <2>1, <2>3, <2>4, ResponsesChange DEF TypeOK
  <2>6. /\ responses'[m].status = "WITHDRAWN" /\ responses'[m].position = 0
        /\ responses'[next].status = "REGISTERED" /\ responses'[next].position = 0
    BY <2>1, AnswerShape
  <2>7. WaitlistIsQueue'
    BY <1>0, <1>1, <2>1, <2>5, <2>6, NobodyJoinsTheLine DEF Shape
  <2>8. CapacityRespected'
    <3>1. /\ Registered' = (Registered \ {m}) \union {next} /\ Registered \subseteq Members
          /\ next \notin Registered
      BY <2>1, <2>6 DEF Registered, Waiting, InStatus
    <3>2. IsFiniteSet(Registered) /\ Cardinality(Registered) \in Nat
      BY <3>1, MembersCount
    <3>3. IsFiniteSet(Registered \ {m}) /\ Cardinality(Registered \ {m}) = Cardinality(Registered) - 1
      BY <1>2, <3>2, FS_RemoveElement
    <3>4. Cardinality(Registered') = Cardinality(Registered \ {m}) + 1
      BY <3>1, <3>3, FS_AddElement
    <3> QED BY <1>0, <1>1, <3>2, <3>3, <3>4 DEF CapacityRespected
  <2> QED BY <1>1, <2>5, <2>7, <2>8 DEF QueueInv, ClosedLeavesNoFreePlace
<1>3. CASE ~(m \in Registered /\ Promotable # {})
  <2>1. responses' = [responses EXCEPT ![m] = Answer("WITHDRAWN")] /\ tasks' = tasks
    BY <1>3 DEF Withdraw
  <2> QED BY <1>1, <2>1, LeavingKeepsQueueInv
<1> QED BY <1>2, <1>3
-----------------------------------------------------------------------------
(***************************************************************************)
(* The lifecycle.                                                          *)
(***************************************************************************)

\* Closing: the successors get the places, waiters without access withdraw.
LEMMA CloseStep ==
  ASSUME QueueInv, ClosePublishedEvent
  PROVE  /\ Successors \subseteq Promotable /\ Promotable \subseteq Members
         /\ responses' \in [Members -> Response]
         /\ \A m \in Successors : responses'[m] = Answer("REGISTERED")
         /\ \A m \in Waiting \ eligible : responses'[m] = Answer("WITHDRAWN")
         /\ \A m \in Members \ (Successors \union (Waiting \ eligible)) : responses'[m] = responses[m]
         /\ Registered' = Registered \union Successors
         /\ Waiting' = Promotable \ Successors
<1>0. TypeOK
  BY DEF QueueInv, Shape
<1>1. Successors \subseteq Promotable /\ Promotable \subseteq Members
  BY SuccessorsPlaces
<1>2. Promotable = Waiting \intersect eligible /\ Waiting \subseteq Members
  BY DEF Promotable, Waiting, InStatus
<1>3. responses' = [m \in Members |->
           CASE m \in Successors         -> Answer("REGISTERED")
             [] m \in Waiting \ eligible -> Answer("WITHDRAWN")
             [] OTHER                    -> responses[m]]
  BY DEF ClosePublishedEvent
<1>4. ASSUME NEW m \in Successors PROVE responses'[m] = Answer("REGISTERED")
  <2>1. m \in Members /\ m \notin Waiting \ eligible
    BY <1>1, <1>2
  <2> QED BY <1>3, <1>4, <2>1
<1>5. ASSUME NEW m \in Waiting \ eligible PROVE responses'[m] = Answer("WITHDRAWN")
  <2>1. m \in Members /\ m \notin Successors
    BY <1>1, <1>2
  <2> QED BY <1>3, <1>5, <2>1
<1>6. ASSUME NEW m \in Members \ (Successors \union (Waiting \ eligible)) PROVE responses'[m] = responses[m]
  BY <1>3, <1>6
<1>7. responses' \in [Members -> Response]
  <2>1. \A m \in Members : responses'[m] \in Response
    BY <1>0, <1>4, <1>5, <1>6, AnswerShape DEF TypeOK
  <2>2. responses' = [m \in Members |-> responses'[m]]
    BY <1>3
  <2> QED BY <2>1, <2>2
<1>8. /\ \A m \in Successors : responses'[m].status = "REGISTERED"
      /\ \A m \in Waiting \ eligible : responses'[m].status = "WITHDRAWN"
  BY <1>4, <1>5, AnswerShape
<1>9. Registered' = Registered \union Successors
  BY <1>1, <1>2, <1>6, <1>8 DEF Registered, Waiting, InStatus
<1>10. Waiting' = Promotable \ Successors
  BY <1>1, <1>2, <1>6, <1>8 DEF Waiting, InStatus
<1> QED BY <1>1, <1>4, <1>5, <1>6, <1>7, <1>9, <1>10

LEMMA CloseKeepsQueueInv ==
  ASSUME QueueInv, ClosePublishedEvent
  PROVE  QueueInv'
<1>0. TypeOK /\ Shape /\ WaitlistIsQueue /\ CapacityRespected /\ event.capacity \in Nat
  BY EventShape DEF QueueInv, Shape
<1>1. /\ event.status = "PUBLISHED" /\ event.version \in Nat /\ event.version + 1 \in 1 .. MaxVersion + 1
      /\ event' = [event EXCEPT !.status = "CLOSED", !.version = @ + 1]
      /\ UNCHANGED <<audience, eligible, enabled, now>>
  BY <1>0, EventShape, PlanningAssumption DEF ClosePublishedEvent, Shape
<1>2. /\ event'.status = "CLOSED" /\ event'.version = event.version + 1
      /\ event'.capacity = event.capacity /\ event'.waitlist = event.waitlist
  BY <1>0, <1>1 DEF TypeOK, Event
<1>3. event' \in Event
  <2>1. event.version + 1 \in 0 .. MaxVersion + 2 /\ "CLOSED" \in Open \union Over \union {"NONE"}
    BY <1>1, PlanningAssumption DEF Open
  <2>2. event \in Event
    BY <1>0 DEF TypeOK
  <2> QED BY <1>1, <2>1, <2>2 DEF Event
<1>4. /\ Successors \subseteq Promotable /\ Promotable \subseteq Members /\ Promotable \subseteq Waiting
      /\ Waiting \subseteq Members /\ Registered \subseteq Members /\ Registered \intersect Successors = {}
  BY SuccessorsPlaces DEF Promotable, Waiting, Registered, InStatus
<1>5. \A m \in Members : \/ responses'[m] = responses[m]
                         \/ m \in Waiting /\ responses'[m] \in {Answer("REGISTERED"), Answer("WITHDRAWN")}
  BY <1>4, CloseStep
<1>6. TypeOK'
  <2>1. tasks' \subseteq Task
    <3>1. event.version + 1 \in 1 .. MaxVersion + 2 /\ Successors \subseteq Members
      BY <1>1, <1>4, PlanningAssumption
    <3>2. tasks' = tasks \union NewTasks(Successors, "PROMOTED", event.version + 1)
      BY DEF ClosePublishedEvent
    <3> QED BY <1>0, <3>1, <3>2, TaskShape DEF TaskTypes, TypeOK
  <2>2. \A m \in Waiting : m \in audience
    BY <1>0 DEF TypeOK, Waiting, InStatus, NoResponse
  <2>3. \A m \in Members : responses'[m] # NoResponse => m \in audience
    BY <1>0, <1>5, <2>2 DEF TypeOK
  <2> QED BY <1>0, <1>1, <1>3, <2>1, <2>3, CloseStep DEF TypeOK
<1>7. Shape'
  BY <1>0, <1>1, <1>2, <1>6, PlanningAssumption DEF Shape
<1>8. WaitlistIsQueue'
  <2>1. \A m \in Members : responses'[m] = responses[m] \/
             (responses'[m].status # "WAITLISTED" /\ responses'[m].position = 0)
    BY <1>5, AnswerShape
  <2> QED BY <1>0, <1>2, <1>6, <2>1, NobodyJoinsTheLine
<1>9. Cardinality(Registered') = Cardinality(Registered) + Cardinality(Successors)
      /\ Cardinality(Registered) \in Nat /\ Cardinality(Successors) \in Nat
  <2>1. IsFiniteSet(Registered) /\ IsFiniteSet(Successors) /\ Cardinality(Registered) \in Nat
          /\ Cardinality(Successors) \in Nat
    BY <1>4, MembersCount
  <2>2. Cardinality(Registered \intersect Successors) = 0
    BY <1>4, FS_EmptySet, Zenon
  <2>3. Registered' = Registered \union Successors
    BY CloseStep
  <2>4. Cardinality(Registered \union Successors) = Cardinality(Registered)
            + Cardinality(Successors) - Cardinality(Registered \intersect Successors)
    BY <2>1, FS_Union
  <2>5. Cardinality(Registered') = Cardinality(Registered \union Successors)
    BY <2>3
  <2> QED BY <2>1, <2>2, <2>4, <2>5
<1>10. CapacityRespected'
  BY <1>0, <1>2, <1>9, SuccessorsPlaces DEF CapacityRespected
<1>11. ClosedLeavesNoFreePlace'
  <2> SUFFICES ASSUME Waiting' # {} PROVE Cardinality(Registered') = event.capacity
    BY <1>2 DEF ClosedLeavesNoFreePlace
  <2>1. Promotable \ Successors # {} /\ Waiting # {}
    BY <1>4, CloseStep
  <2>2. event.capacity # 0
    BY <1>0, <2>1 DEF WaitlistIsQueue, Shape
  <2> QED BY <1>9, <2>1, <2>2, SuccessorsPlaces
<1> QED BY <1>7, <1>8, <1>10, <1>11 DEF QueueInv

LEMMA EndingKeepsQueueInv ==
  ASSUME QueueInv, Complete \/ Cancel
  PROVE  QueueInv'
<1>0. TypeOK /\ Shape
  BY DEF QueueInv, Shape
<1>1. PICK status \in Over :
        /\ event' = [event EXCEPT !.status = status, !.version = @ + 1]
        /\ event.status \in Open /\ UNCHANGED <<audience, responses, eligible, enabled, now>>
  BY DEF Complete, Cancel, Over
<1>2. event.version \in Nat /\ event.version + 1 \in 1 .. MaxVersion + 2
  <2>1. event.status = "PUBLISHED" \/ event.status = "CLOSED"
    BY <1>1 DEF Open
  <2> QED BY <1>0, <2>1, EventShape, PlanningAssumption DEF Shape
<1>3. /\ event'.status = status /\ event'.version = event.version + 1
      /\ event'.capacity = event.capacity /\ event'.waitlist = event.waitlist
  BY <1>0, <1>1 DEF TypeOK, Event
<1>4. event' \in Event
  <2>1. event.version + 1 \in 0 .. MaxVersion + 2
    BY <1>2
  <2>2. event \in Event /\ status \in Open \union Over \union {"NONE"}
    BY <1>0, <1>1 DEF TypeOK
  <2> QED BY <1>1, <2>1, <2>2 DEF Event
<1>5. tasks' \subseteq Task
  <2>1. Concerned \subseteq Members
    BY <1>0 DEF Concerned, TypeOK
  <2>2. tasks' = tasks \/ tasks' = NewTasks(Concerned, "CANCELLED", event.version + 1)
    BY DEF Complete, Cancel
  <2> QED BY <1>0, <1>2, <2>1, <2>2, TaskShape DEF TaskTypes, TypeOK
<1>6. TypeOK'
  BY <1>0, <1>1, <1>4, <1>5 DEF TypeOK
<1>7. status \notin {"NONE", "PUBLISHED", "CLOSED"}
  BY DEF Over
<1>8. Shape'
  BY <1>0, <1>2, <1>3, <1>6, <1>7 DEF Shape
<1> QED BY <1>1, <1>3, <1>7, <1>8, QuietStep

LEMMA QueueInvStep == QueueInv /\ [Next]_vars => QueueInv'
<1> SUFFICES ASSUME QueueInv, [Next]_vars PROVE QueueInv'
  OBVIOUS
<1>0. TypeOK /\ Shape
  BY DEF QueueInv, Shape
<1>1. CASE Edit
  BY <1>1, CreateKeepsQueueInv, UpdateKeepsQueueInv DEF Edit
<1>2. CASE Respond
  <2>1. ASSUME NEW m \in Members, NEW vote \in Votes, Vote(m, vote) PROVE QueueInv'
    BY <2>1, LeavingKeepsQueueInv DEF Vote, MayRespond
  <2> QED BY <1>2, <2>1, RegisterKeepsQueueInv, WithdrawKeepsQueueInv DEF Respond
<1>3. CASE Close \/ CloseDue
  BY <1>3, CloseKeepsQueueInv DEF Close, CloseDue
<1>4. CASE Complete \/ Cancel
  BY <1>4, EndingKeepsQueueInv
<1>5. CASE UNCHANGED <<event, audience, responses>> /\ TypeOK'
  <2>1. Shape'
    BY <1>0, <1>5 DEF Shape
  <2> QED BY <1>5, <2>1, QuietStep
<1>6. CASE Tick
  <2>1. now' \in Times
    BY <1>0, <1>6, PlanningAssumption DEF Tick, TypeOK, Times
  <2>2. TypeOK'
    BY <1>0, <1>6, <2>1 DEF Tick, TypeOK
  <2> QED BY <1>5, <1>6, <2>2 DEF Tick
<1>7. ASSUME NEW m \in Members, NEW type \in TaskTypes, Worker(m, type) PROVE QueueInv'
  BY <1>0, <1>5, <1>7 DEF Worker, Deliver, Drop, TypeOK
<1>8. ASSUME NEW on \in BOOLEAN, UpdateSettings(on) PROVE QueueInv'
  BY <1>0, <1>5, <1>8 DEF UpdateSettings, TypeOK
<1>9. ASSUME NEW m \in Members, NEW active \in BOOLEAN, SetMembership(m, active) PROVE QueueInv'
  BY <1>0, <1>5, <1>9 DEF SetMembership, TypeOK
<1>10. CASE UNCHANGED vars
  BY <1>0, <1>5, <1>10 DEF vars, TypeOK
<1> QED BY <1>1, <1>2, <1>3, <1>4, <1>6, <1>7, <1>8, <1>9, <1>10 DEF Next

LEMMA QueueInvAlways == Spec => []QueueInv
BY QueueInvInit, QueueInvStep, PTL DEF Spec

\* There are never more participants than places, whatever the order of
\* registrations, withdrawals, edits of the capacity, promotions and the
\* close, for every group and capacity.
THEOREM NeverOverbooked == Spec => []CapacityRespected
BY QueueInvAlways, PTL DEF QueueInv

\* The waitlist is a queue: exactly those who wait have a position, no two
\* the same, although positions are computed from what is left of the line
\* (register's next position, promote, edits that drop the waitlist).
THEOREM WaitlistStaysAQueue == Spec => []WaitlistIsQueue
BY QueueInvAlways, PTL DEF QueueInv

\* A closed event whose waitlist is not empty is full: closePublishedEventTx
\* gives away every place that somebody could take.
THEOREM CloseFillsThePlaces == Spec => []ClosedLeavesNoFreePlace
BY QueueInvAlways, PTL DEF QueueInv

-----------------------------------------------------------------------------
(***************************************************************************)
(* Steps.                                                                  *)
(***************************************************************************)
Promotes(m) ==
  /\ m \in eligible
  /\ event' # event \/ (\E o \in Members \ {m} : responses'[o] # responses[o]) =>
       \A o \in Promotable : responses'[o].status = "WAITLISTED" =>
           responses[m].position < responses[o].position

LEMMA PromotionOrder ==
  ASSUME QueueInv, [Next]_vars, NEW m \in Waiting, responses'[m].status = "REGISTERED"
  PROVE  Promotes(m)
<1>0. TypeOK /\ WaitlistIsQueue /\ m \in Members /\ responses[m].status = "WAITLISTED"
      /\ Promotable \subseteq Waiting /\ Waiting \subseteq Members
  BY DEF QueueInv, Shape, Waiting, InStatus, Promotable
<1>1. CASE responses' = responses
  BY <1>0, <1>1
<1>2. ASSUME NEW k \in Members, NEW vote \in Votes, Vote(k, vote) PROVE Promotes(m)
  <2>1. \A o \in Members : responses'[o] = responses[o] \/ responses'[o] = Answer(vote)
    BY <1>0, <1>2 DEF Vote, TypeOK
  <2>2. Answer(vote).status # "REGISTERED"
    BY AnswerShape DEF Votes
  <2> QED BY <1>0, <2>1, <2>2
<1>3. ASSUME NEW k \in Members, Register(k) PROVE Promotes(m)
  <2>1. event' = event /\ k \in eligible
    BY <1>3 DEF Register, MayRespond
  <2>2. \A o \in Members \ {k} : responses'[o] = responses[o]
    BY <1>0, <1>3 DEF Register, TypeOK
  <2>3. k = m
    BY <1>0, <2>2
  <2> QED BY <2>1, <2>2, <2>3 DEF Promotes
<1>4. ASSUME NEW k \in Members, Withdraw(k) PROVE Promotes(m)
  <2>1. CASE k \in Registered /\ Promotable # {}
    <3>1. PICK next \in Members :
             /\ next \in Waiting /\ next \in eligible /\ next # k
             /\ responses'[k] = Answer("WITHDRAWN") /\ responses'[next] = Answer("REGISTERED")
             /\ \A o \in Members \ {k, next} : responses'[o] = responses[o]
             /\ \A o \in Promotable : responses[next].position <= responses[o].position
      BY <1>4, <2>1, PromotionStep
    <3>2. m = next
      <4>1. m # k
        BY <3>1, AnswerShape
      <4> QED BY <1>0, <3>1, <4>1
    <3>3. ASSUME NEW o \in Promotable, responses'[o].status = "WAITLISTED"
          PROVE  responses[m].position < responses[o].position
      <4>1. o # m /\ o \in Waiting /\ o \in Members
        BY <1>0, <3>3
      <4>2. responses[m].position # responses[o].position
        BY <1>0, <4>1 DEF WaitlistIsQueue
      <4>3. responses[m].position \in Nat /\ responses[o].position \in Nat
        BY <1>0, <4>1, ResponseShape
      <4> QED BY <3>1, <3>2, <4>2, <4>3
    <3> QED BY <3>1, <3>2, <3>3 DEF Promotes
  <2>2. CASE ~(k \in Registered /\ Promotable # {})
    <3>1. responses' = [responses EXCEPT ![k] = Answer("WITHDRAWN")]
      BY <1>4, <2>2 DEF Withdraw
    <3>2. \A o \in Members : responses'[o] = responses[o] \/ responses'[o] = Answer("WITHDRAWN")
      BY <1>0, <3>1 DEF TypeOK
    <3>3. Answer("WITHDRAWN").status # "REGISTERED"
      BY AnswerShape
    <3> QED BY <1>0, <3>2, <3>3
  <2> QED BY <2>1, <2>2
<1>5. CASE ClosePublishedEvent
  <2>1. m \in Successors
    <3>1. CASE m \in Waiting \ eligible
      BY <1>5, <3>1, CloseStep, AnswerShape
    <3> QED BY <1>0, <1>5, <3>1, CloseStep
  <2>2. m \in eligible
    BY <2>1, SuccessorsPlaces DEF Promotable
  <2>3. ASSUME NEW o \in Promotable, responses'[o].status = "WAITLISTED"
        PROVE  responses[m].position < responses[o].position
    <3>1. o \notin Successors
      BY <1>5, <2>3, CloseStep, AnswerShape
    <3> QED BY <2>1, <3>1, SuccessorsPlaces
  <2> QED BY <2>2, <2>3 DEF Promotes
<1>6. CASE Edit
  BY <1>1, <1>6 DEF Edit, CreateEvent, UpdateEvent
<1>7. CASE Complete \/ Cancel \/ Tick \/ UNCHANGED vars
  BY <1>1, <1>7 DEF Complete, Cancel, Tick, vars
<1>8. CASE \/ \E k \in Members, type \in TaskTypes : Worker(k, type)
           \/ \E on \in BOOLEAN : UpdateSettings(on)
           \/ \E k \in Members, active \in BOOLEAN : SetMembership(k, active)
  BY <1>1, <1>8 DEF Worker, Deliver, Drop, UpdateSettings, SetMembership
<1> QED BY <1>2, <1>3, <1>4, <1>5, <1>6, <1>7, <1>8 DEF Next, Respond, Close, CloseDue

\* Promotion takes waiters in the order of their positions, and only those
\* who have access: nobody overtakes, by a withdrawal or at the close.
THEOREM NobodyOvertakes == Spec => PromotedInOrder
<1>1. QueueInv /\ [Next]_vars =>
        [\A m \in Waiting : responses'[m].status = "REGISTERED" =>
           /\ m \in eligible
           /\ event' # event \/ (\E o \in Members \ {m} : responses'[o] # responses[o]) =>
                  \A o \in Promotable : responses'[o].status = "WAITLISTED" =>
                      responses[m].position < responses[o].position]_vars
  BY PromotionOrder DEF Promotes
<1> QED BY <1>1, QueueInvAlways, PTL DEF Spec, PromotedInOrder

LEMMA EditCarriesTasks ==
  ASSUME QueueInv, [Next]_vars, event.status = "PUBLISHED", event'.status = "PUBLISHED",
         event'.version # event.version, NEW t \in tasks, t.type = "PROMOTED"
  PROVE  [t EXCEPT !.revision = event'.version] \in tasks'
<1>0. event \in Event
  BY DEF QueueInv, Shape, TypeOK
<1>1. CASE \E targets \in SUBSET Members, capacity \in Capacities, waitlist \in BOOLEAN,
              deadline \in Times \union {Never}, end \in Times :
             UpdateEvent(targets, capacity, waitlist, deadline, end)
  <2>1. event'.version = event.version + 1 /\ CarriedTasks \subseteq tasks'
    BY <1>0, <1>1 DEF UpdateEvent, Event
  <2>2. [t EXCEPT !.revision = event.version + 1] \in CarriedTasks
    BY DEF CarriedTasks
  <2> QED BY <2>1, <2>2
<1>2. CASE \E targets \in SUBSET Members, capacity \in Capacities, waitlist \in BOOLEAN,
              deadline \in Times \union {Never}, end \in Times :
             CreateEvent(targets, capacity, waitlist, deadline, end)
  BY <1>2 DEF CreateEvent
<1>3. CASE ClosePublishedEvent
  BY <1>0, <1>3 DEF ClosePublishedEvent, Event
<1>4. CASE Complete \/ Cancel
  BY <1>0, <1>4 DEF Complete, Cancel, Event
<1>5. CASE event' = event
  BY <1>5
<1>6. CASE Respond \/ Tick \/ UNCHANGED vars
  BY <1>5, <1>6 DEF Respond, Vote, Register, Withdraw, Tick, vars
<1>7. CASE \/ \E k \in Members, type \in TaskTypes : Worker(k, type)
           \/ \E on \in BOOLEAN : UpdateSettings(on)
           \/ \E k \in Members, active \in BOOLEAN : SetMembership(k, active)
  BY <1>5, <1>7 DEF Worker, Deliver, Drop, UpdateSettings, SetMembership
<1> QED BY <1>1, <1>2, <1>3, <1>4, <1>6, <1>7 DEF Next, Edit, Close, CloseDue

\* An edit does not lose the news of a place: the pending task follows the
\* event's version (UpdateEvent).
THEOREM EditsCarryPromotions == Spec => EditKeepsPromotions
<1>1. QueueInv /\ [Next]_vars =>
        [event.status = "PUBLISHED" /\ event'.status = "PUBLISHED" /\ event'.version # event.version =>
           \A t \in tasks : t.type = "PROMOTED" =>
               [t EXCEPT !.revision = event'.version] \in tasks']_vars
  BY EditCarriesTasks
<1> QED BY <1>1, QueueInvAlways, PTL DEF Spec, EditKeepsPromotions
=============================================================================
