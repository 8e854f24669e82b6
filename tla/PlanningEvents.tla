--------------------------- MODULE PlanningEvents ---------------------------
(***************************************************************************)
(* Package planning: one event with its audience, responses, capacity,     *)
(* waitlist and lifecycle, and the durable notification tasks that the     *)
(* planning worker of package notifications turns into notifications.      *)
(*                                                                         *)
(* Every command and every worker step is one immediate transaction and    *)
(* one action.  Events of a group do not share state, so one is enough.    *)
(* Editing commands carry the version their client read and are refused    *)
(* when it is not the current one: the actions are the accepted commands.  *)
(***************************************************************************)
EXTENDS Integers, FiniteSets, FiniteSetsExt

CONSTANTS
    Members,        \* memberships of the group
    EventTypes,     \* the types of event to consider
    Capacities,     \* capacities an editor may set; 0 stands for none
    MaxTime,        \* bound on the clock
    MaxVersion,     \* bound on the version of the event
    MaxPosition     \* bound on waitlist positions

Never == MaxTime + 1
Times == 0 .. MaxTime

ASSUME PlanningAssumption ==
    /\ IsFiniteSet(Members)
    /\ EventTypes \subseteq {"APPOINTMENT", "POLL", "REGISTRATION"}
    /\ Capacities \subseteq Nat
    /\ MaxTime \in Nat /\ MaxVersion \in Nat \ {0} /\ MaxPosition \in Nat

VARIABLES
    event,       \* the row in planning_events
    audience,    \* planning_event_audience
    responses,   \* planning_participations, per member
    tasks,       \* pending planning_notification_tasks; equal tasks count once
    eligible,    \* active memberships of users with credentials
    enabled,     \* group_planning_settings.enabled
    now          \* the clock

vars == <<event, audience, responses, tasks, eligible, enabled, now>>

-----------------------------------------------------------------------------
Open  == {"PUBLISHED", "CLOSED"}
Over  == {"COMPLETED", "CANCELLED"}
Votes == {"YES", "MAYBE", "NO"}

TaskTypes == {"PUBLISHED", "UPDATED", "CANCELLED", "PROMOTED"}

Event    == [status : Open \union Over \union {"NONE"}, type : EventTypes, version : 0 .. MaxVersion + 2,
             capacity : Capacities \union {0}, waitlist : BOOLEAN, deadline : Times \union {Never},
             end : Times, targets : SUBSET Members]
Response == [status : Votes \union {"NONE", "REGISTERED", "WAITLISTED", "WITHDRAWN"},
             position : 0 .. MaxPosition]
Task     == [member : Members, type : TaskTypes, revision : 1 .. MaxVersion + 2]

InStatus(status) == {m \in Members : responses[m].status = status}
Registered       == InStatus("REGISTERED")
Waiting          == InStatus("WAITLISTED")

NoResponse         == [status |-> "NONE", position |-> 0]
Answer(status)     == [status |-> status, position |-> 0]
Queued(position)   == [status |-> "WAITLISTED", position |-> position]

Init ==
    /\ event \in {[status |-> "NONE", type |-> t, version |-> 0, capacity |-> 0, waitlist |-> FALSE,
                   deadline |-> Never, end |-> 0, targets |-> {}] : t \in EventTypes}
    /\ audience = {} /\ tasks = {}
    /\ responses = [m \in Members |-> NoResponse]
    /\ eligible = Members
    /\ enabled = TRUE
    /\ now = 0

\* Tasks for a set of members about one version of the event.
NewTasks(members, type, revision) ==
    {[member |-> m, type |-> type, revision |-> revision] : m \in members}

\* normalizeEvent: only registrations have a capacity, appointments have no deadline,
\* a waitlist needs a capacity.
Normalized(type, capacity, waitlist, deadline, end) ==
    /\ type = "APPOINTMENT" => deadline = Never
    /\ type # "REGISTRATION" => capacity = 0 /\ ~waitlist
    /\ waitlist => capacity # 0
    /\ deadline = Never \/ deadline <= end

-----------------------------------------------------------------------------
(***************************************************************************)
(* Editing.  A selected role stands for its members, so targets are        *)
(* members; ALL_ACTIVE_MEMBERS is the target set Members.                  *)
(***************************************************************************)

\* Active members with an account, among the targets.
AudienceCandidates(targets) == targets \intersect eligible

CreateEvent(targets, capacity, waitlist, deadline, end) ==
    /\ enabled /\ event.status = "NONE"
    /\ Normalized(event.type, capacity, waitlist, deadline, end)
    /\ AudienceCandidates(targets) # {}
    /\ event' = [event EXCEPT !.status = "PUBLISHED", !.version = 1, !.capacity = capacity,
                     !.waitlist = waitlist, !.deadline = deadline, !.end = end, !.targets = targets]
    /\ audience' = AudienceCandidates(targets)
    /\ tasks' = NewTasks(audience', "PUBLISHED", 1)
    /\ UNCHANGED <<responses, eligible, enabled, now>>

\* Mutant of ValidateRegistrationStateChange: occupied places are not looked at.
RegistrationStateIgnored(capacity, waitlist) == TRUE

ValidateRegistrationStateChange(capacity, waitlist) ==
    /\ capacity # 0 => Cardinality(Registered) <= capacity
    /\ ~waitlist => Waiting = {}

\* Members who are told about a change or a cancellation: for a registration, the
\* participants and those on the waitlist.
Concerned == IF event.type = "REGISTRATION" THEN audience \intersect (Registered \union Waiting)
                                            ELSE audience

\* Mutant of CarriedTasks: an edit cancels every pending task.
CarriedNone == {}

\* An edit cancels the pending tasks, except that news of a place follows the version.
CarriedTasks ==
    {[t EXCEPT !.revision = event.version + 1] : t \in {u \in tasks : u.type = "PROMOTED"}}

\* Published targets stay; members among the new ones join the audience.
RetainsTargets(targets) == event.targets \subseteq targets
Invited(targets) == AudienceCandidates(targets \ event.targets) \ audience

UpdateEvent(targets, capacity, waitlist, deadline, end) ==
    /\ enabled /\ event.status = "PUBLISHED" /\ event.version < MaxVersion
    /\ Normalized(event.type, capacity, waitlist, deadline, end)
    /\ RetainsTargets(targets)
    /\ end # event.end /\ deadline # Never => deadline > now
    /\ ValidateRegistrationStateChange(capacity, waitlist)
    /\ event' = [event EXCEPT !.version = @ + 1, !.capacity = capacity, !.waitlist = waitlist,
                     !.deadline = deadline, !.end = end, !.targets = targets]
    /\ audience' = audience \union Invited(targets)
    /\ tasks' = CarriedTasks \union NewTasks(Concerned, "UPDATED", event.version + 1)
                    \union NewTasks(Invited(targets), "PUBLISHED", event.version + 1)
    /\ UNCHANGED <<responses, eligible, enabled, now>>

-----------------------------------------------------------------------------
(***************************************************************************)
(* Responses and the waitlist.                                             *)
(***************************************************************************)

FirstWaiting(S) == CHOOSE m \in S : \A o \in S : responses[m].position <= responses[o].position

\* Mutant of Promotable: people without access are taken as well.
PromotableAll == Waiting

Promotable == Waiting \intersect eligible

\* Mutant of NextPosition: the length of the queue is taken for its last position.
NextPositionByLength == Cardinality(Waiting) + 1

NextPosition == Max({responses[m].position : m \in Members}) + 1

\* A member of the audience may answer while the event is published and not over.
MayRespond(m) ==
    /\ enabled /\ m \in audience \intersect eligible
    /\ event.status = "PUBLISHED" /\ now < event.end

BeforeDeadline == event.deadline = Never \/ now < event.deadline

Vote(m, vote) ==
    /\ MayRespond(m) /\ event.type = "POLL" /\ BeforeDeadline
    /\ responses' = [responses EXCEPT ![m] = Answer(vote)]
    /\ UNCHANGED <<event, audience, tasks, eligible, enabled, now>>

Full == event.capacity # 0 /\ Cardinality(Registered) >= event.capacity

\* A full event puts newcomers on the waitlist, if it has one; who waits keeps the position.
Register(m) ==
    /\ MayRespond(m) /\ event.type = "REGISTRATION" /\ BeforeDeadline
    /\ \/ /\ ~Full \/ m \in Registered
          /\ responses' = [responses EXCEPT ![m] = Answer("REGISTERED")]
       \/ /\ Full /\ m \notin Registered /\ event.waitlist
          /\ m \in Waiting \/ NextPosition <= MaxPosition
          /\ responses' = [responses EXCEPT ![m] = IF m \in Waiting THEN @ ELSE Queued(NextPosition)]
    /\ UNCHANGED <<event, audience, tasks, eligible, enabled, now>>

\* A withdrawal after the deadline is allowed; the place goes to the first waiter.
Withdraw(m) ==
    /\ MayRespond(m) /\ event.type = "REGISTRATION"
    /\ LET withdrawn == [responses EXCEPT ![m] = Answer("WITHDRAWN")]
           next      == FirstWaiting(Promotable)
       IN  IF m \in Registered /\ Promotable # {}
           THEN /\ responses' = [withdrawn EXCEPT ![next] = Answer("REGISTERED")]
                /\ tasks' = tasks \union NewTasks({next}, "PROMOTED", event.version)
           ELSE responses' = withdrawn /\ UNCHANGED tasks
    /\ UNCHANGED <<event, audience, eligible, enabled, now>>

-----------------------------------------------------------------------------
(***************************************************************************)
(* The lifecycle, by command or by the lifecycle worker.                   *)
(***************************************************************************)

\* Mutant of Available: closing does not fill free places.
AvailableNone == 0

Available == IF event.capacity = 0 THEN 0 ELSE event.capacity - Cardinality(Registered)

\* The eligible waiters that get the free places, in the order of their positions.
Successors ==
    {m \in Promotable :
        Cardinality({o \in Promotable : responses[o].position < responses[m].position}) < Available}

\* closePublishedEventTx: waiters without access withdraw, then free places are filled.
ClosePublishedEvent ==
    /\ enabled /\ event.status = "PUBLISHED" /\ event.type # "APPOINTMENT"
    /\ responses' = [m \in Members |->
           CASE m \in Successors         -> Answer("REGISTERED")
             [] m \in Waiting \ eligible -> Answer("WITHDRAWN")
             [] OTHER                    -> responses[m]]
    /\ event' = [event EXCEPT !.status = "CLOSED", !.version = @ + 1]
    /\ tasks' = tasks \union NewTasks(Successors, "PROMOTED", event.version + 1)
    /\ UNCHANGED <<audience, eligible, enabled, now>>

\* By an editor at any time; by the worker once the deadline has passed.
Close    == ClosePublishedEvent
CloseDue == event.deadline # Never /\ event.deadline <= now /\ ClosePublishedEvent

\* Mutant of Complete: closed events are forgotten.
CompletePublished ==
    /\ enabled /\ event.status = "PUBLISHED" /\ event.end <= now
    /\ event' = [event EXCEPT !.status = "COMPLETED", !.version = @ + 1]
    /\ UNCHANGED <<audience, responses, tasks, eligible, enabled, now>>

\* Manual and automatic completion differ in the audit entry only.
Complete ==
    /\ enabled /\ event.status \in Open /\ event.end <= now
    /\ event' = [event EXCEPT !.status = "COMPLETED", !.version = @ + 1]
    /\ UNCHANGED <<audience, responses, tasks, eligible, enabled, now>>

Cancel ==
    /\ enabled /\ event.status \in Open
    /\ event' = [event EXCEPT !.status = "CANCELLED", !.version = @ + 1]
    /\ tasks' = NewTasks(Concerned, "CANCELLED", event.version + 1)
    /\ UNCHANGED <<audience, responses, eligible, enabled, now>>

-----------------------------------------------------------------------------
(***************************************************************************)
(* The planning worker of package notifications.                           *)
(***************************************************************************)

\* planningTaskEligible
TaskEligible(t) ==
    CASE t.type = "PUBLISHED" -> event.status = "PUBLISHED"
      [] t.type = "UPDATED"   -> event.status = "PUBLISHED"
                                 /\ (event.type # "REGISTRATION" \/ t.member \in Registered \union Waiting)
      [] t.type = "CANCELLED" -> event.status = "CANCELLED"
                                 /\ (event.type # "REGISTRATION" \/ t.member \in Registered \union Waiting)
      [] t.type = "PROMOTED"  -> event.status \in Open /\ t.member \in Registered

Deliverable(t) ==
    enabled /\ t.member \in eligible /\ t.revision = event.version /\ TaskEligible(t)

\* The notification is created and the task is done.
Deliver(t) ==
    /\ t \in tasks /\ Deliverable(t)
    /\ tasks' = tasks \ {t}
    /\ UNCHANGED <<event, audience, responses, eligible, enabled, now>>

\* Mutant of Drop: outdated tasks are skipped and stay.
DropOutdatedNever(t) ==
    /\ t \in tasks /\ ~Deliverable(t) /\ t.revision = event.version
    /\ tasks' = tasks \ {t}
    /\ UNCHANGED <<event, audience, responses, eligible, enabled, now>>

\* An obsolete task is cancelled.
Drop(t) ==
    /\ t \in tasks /\ ~Deliverable(t)
    /\ tasks' = tasks \ {t}
    /\ UNCHANGED <<event, audience, responses, eligible, enabled, now>>

\* Disabling planning cancels the pending tasks.
UpdateSettings(on) ==
    /\ enabled # on
    /\ enabled' = on
    /\ tasks' = IF on THEN tasks ELSE {}
    /\ UNCHANGED <<event, audience, responses, eligible, now>>

\* Membership commands of package groups: archiving and reactivation.
SetMembership(m, active) ==
    /\ eligible' = IF active THEN eligible \union {m} ELSE eligible \ {m}
    /\ eligible' # eligible
    /\ UNCHANGED <<event, audience, responses, tasks, enabled, now>>

Tick ==
    /\ now < MaxTime
    /\ now' = now + 1
    /\ UNCHANGED <<event, audience, responses, tasks, eligible, enabled>>

-----------------------------------------------------------------------------
Edit ==
    \E targets \in SUBSET Members, capacity \in Capacities, waitlist \in BOOLEAN,
       deadline \in Times \union {Never}, end \in Times :
        \/ CreateEvent(targets, capacity, waitlist, deadline, end)
        \/ UpdateEvent(targets, capacity, waitlist, deadline, end)

Respond ==
    \/ \E m \in Members, vote \in Votes : Vote(m, vote)
    \/ \E m \in Members : Register(m) \/ Withdraw(m)

Worker(m, type) == \E t \in tasks : t.member = m /\ t.type = type /\ (Deliver(t) \/ Drop(t))

Next ==
    \/ Edit \/ Respond \/ Close \/ CloseDue \/ Complete \/ Cancel \/ Tick
    \/ \E m \in Members, type \in TaskTypes : Worker(m, type)
    \/ \E on \in BOOLEAN : UpdateSettings(on)
    \/ \E m \in Members, active \in BOOLEAN : SetMembership(m, active)

\* The workers poll every minute; tasks are taken in the order in which they were scheduled.
Fairness ==
    /\ WF_vars(Tick) /\ WF_vars(CloseDue) /\ WF_vars(Complete)
    /\ \A m \in Members, type \in TaskTypes : WF_vars(Worker(m, type))

Spec     == Init /\ [][Next]_vars
FairSpec == Spec /\ Fairness

-----------------------------------------------------------------------------
\* Rows keep their shape, and nobody outside the audience has a response.
TypeOK ==
    /\ event \in Event /\ audience \subseteq Members /\ eligible \subseteq Members
    /\ responses \in [Members -> Response] /\ tasks \subseteq Task
    /\ enabled \in BOOLEAN /\ now \in Times
    /\ \A m \in Members : responses[m] # NoResponse => m \in audience

(***************************************************************************)
(* Never more participants than places, whatever order registrations,      *)
(* withdrawals, edits of the capacity, promotions and the close come in.   *)
(***************************************************************************)
CapacityRespected ==
    event.capacity # 0 => Cardinality(Registered) <= event.capacity

(***************************************************************************)
(* The waitlist is a queue: those who wait, and nobody else, have a        *)
(* position, no two the same, and only an event with a waitlist has one.   *)
(***************************************************************************)
WaitlistIsQueue ==
    /\ TypeOK
    /\ \A m \in Members : m \in Waiting <=> responses[m].position > 0
    /\ \A m, o \in Waiting : responses[m].position = responses[o].position => m = o
    /\ Waiting # {} => event.waitlist

(***************************************************************************)
(* Closing leaves no free place that somebody on the waitlist could have   *)
(* taken (closePublishedEventTx).                                          *)
(***************************************************************************)
ClosedLeavesNoFreePlace ==
    event.status = "CLOSED" /\ Waiting # {} => Cardinality(Registered) = event.capacity

(***************************************************************************)
(* Promotion takes waiters in the order of their positions and only those  *)
(* who can use the place and be told: nobody is promoted past an eligible  *)
(* member who keeps waiting, and nobody who has lost access is promoted    *)
(* (promote, closePublishedEventTx).                                       *)
(***************************************************************************)
PromotedInOrder ==
    [][\A m \in Waiting : responses'[m].status = "REGISTERED" =>
           /\ m \in eligible
           /\ event' # event \/ (\E o \in Members \ {m} : responses'[o] # responses[o]) =>
                  \A o \in Promotable : responses'[o].status = "WAITLISTED" =>
                      responses[m].position < responses[o].position]_vars

(***************************************************************************)
(* An edit does not lose the news of a place: its task stays pending and   *)
(* follows the new version (UpdateEvent).                                  *)
(***************************************************************************)
EditKeepsPromotions ==
    [][event.status = "PUBLISHED" /\ event'.status = "PUBLISHED" /\ event'.version # event.version =>
           \A t \in tasks : t.type = "PROMOTED" =>
               [t EXCEPT !.revision = event'.version] \in tasks']_vars

\* As long as planning stays enabled, every event is completed or cancelled in the end.
EventsEnd == <>[]enabled => (event.status \in Open ~> event.status \in Over)

\* Every task is delivered or dropped.
TasksSettle ==
    \A m \in Members, type \in TaskTypes :
        (\E t \in tasks : t.member = m /\ t.type = type)
            ~> ~(\E t \in tasks : t.member = m /\ t.type = type)

(***************************************************************************)
(* ARCHITECTURE.md: waitlist promotion uses "durable occurrence tasks":    *)
(* the news of a place is not outdated while its receiver has the place.   *)
(***************************************************************************)
PromotionsStayCurrent ==
    \A t \in tasks : t.type = "PROMOTED" /\ TaskEligible(t) => t.revision = event.version
=============================================================================
