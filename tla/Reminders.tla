------------------------------ MODULE Reminders ------------------------------
(***************************************************************************)
(* The settlement reminders of one statement: a worker that may be down    *)
(* for any time polls a local calendar while the amount is paid and        *)
(* charged again, the member's preference and the group's schedule change. *)
(* Time is counted in half days: 2 * d is day d before 09:00 local time,   *)
(* 2 * d + 1 the rest of it.                                               *)
(***************************************************************************)
EXTENDS Integers, Sequences, FiniteSets, FiniteSetsExt

CONSTANTS
  Due,          \* day the statement is due
  SoonDays,     \* settings: days before the due day, at least one
  RepeatDays,   \* settings: days between overdue reminders, 0 for one only
  Skews,        \* local date minus UTC date: the zone and the time of day
  Lookahead,    \* days ahead the worker selects statements, 31 in the code
  MaxHalf,      \* bound: last half day of the model
  MaxSettings   \* bound: changes of settings, amount and preference

ASSUME RemindersAssumption ==
  /\ {Due, Lookahead, MaxHalf, MaxSettings} \subseteq Nat
  /\ SoonDays \subseteq 1 .. Lookahead - 1 /\ RepeatDays \subseteq Nat /\ Skews \subseteq {-1, 0, 1}

VARIABLES
  half,         \* the present half day
  schedule,     \* settlement_due_soon_days and settlement_overdue_repeat_days
  skew,         \* local date minus UTC date
  outstanding,  \* something is left to pay
  wanted,       \* a notification would be created
  runs,         \* notification_reminder_runs
  reminders,    \* notifications created, in order
  changes       \* changes by members and administrators so far

reminderVars == <<half, schedule, skew, outstanding, wanted, runs, reminders, changes>>

RemindersInit ==
  /\ half = 0
  /\ schedule \in [soon : SoonDays, repeat : RepeatDays]
  /\ skew \in Skews
  /\ outstanding = TRUE
  /\ wanted = TRUE
  /\ runs = {}
  /\ reminders = <<>>
  /\ changes = 0

Today == half \div 2
AtNine(day) == 2 * day + 1
Nothing == [kind |-> "NONE", day |-> 0]
FirstOverdue == Due + 1

ReminderOccurrence(s) ==
  LET repeats  == IF s.repeat = 0 THEN 0 ELSE ((Today - FirstOverdue) \div s.repeat) * s.repeat
      overdue  == FirstOverdue + repeats
      previous == overdue - s.repeat
      dueSoon  == Due - s.soon
  IN  CASE Today >= FirstOverdue /\ half >= AtNine(overdue) -> [kind |-> "OVERDUE", day |-> overdue]
        [] Today >= FirstOverdue /\ half < AtNine(overdue) /\ s.repeat > 0 /\ previous >= FirstOverdue ->
             [kind |-> "OVERDUE", day |-> previous]
        [] Today >= dueSoon /\ Today <= Due /\ half >= AtNine(dueSoon) -> [kind |-> "DUE_SOON", day |-> dueSoon]
        [] OTHER -> Nothing

\* The worker looks only at statements due within its horizon, in UTC days.
Selected == Due <= Today - skew + Lookahead

\* Mutant of AlreadyCreated: every reminder is known by its day alone.
AlreadyCreatedThatDay(o) == o \in runs

\* A statement gets one due-soon reminder, whatever its day was then.
AlreadyCreated(o) ==
  IF o.kind = "DUE_SOON" THEN \E r \in runs : r.kind = "DUE_SOON" ELSE o \in runs

\* One transaction per statement; without a notification no run is kept.
ProcessStatement ==
  LET o == ReminderOccurrence(schedule)
  IN  /\ Selected
      /\ outstanding
      /\ o # Nothing
      /\ ~AlreadyCreated(o)
      /\ wanted
      /\ runs' = runs \cup {o}
      /\ reminders' = Append(reminders, [kind |-> o.kind, day |-> o.day, at |-> half])
      /\ UNCHANGED <<half, schedule, skew, outstanding, wanted, changes>>

Change == changes < MaxSettings /\ changes' = changes + 1

UpdateSchedule(s) ==
  /\ Change
  /\ s # schedule
  /\ schedule' = s
  /\ UNCHANGED <<half, skew, outstanding, wanted, runs, reminders>>

\* A payment, its reversal, or a correction.
SetOutstanding ==
  /\ Change
  /\ outstanding' = ~outstanding
  /\ UNCHANGED <<half, schedule, skew, wanted, runs, reminders>>

SetWanted ==
  /\ Change
  /\ wanted' = ~wanted
  /\ UNCHANGED <<half, schedule, skew, outstanding, runs, reminders>>

HalfDay ==
  /\ half < MaxHalf
  /\ half' = half + 1
  /\ UNCHANGED <<schedule, skew, outstanding, wanted, runs, reminders, changes>>

RemindersNext ==
  \/ ProcessStatement
  \/ \E s \in [soon : SoonDays, repeat : RepeatDays] : UpdateSchedule(s)
  \/ SetOutstanding
  \/ SetWanted
  \/ HalfDay

RemindersSpec == RemindersInit /\ [][RemindersNext]_reminderVars
-----------------------------------------------------------------------------
\* Every instant a reminder falls due under the present settings.
Scheduled ==
  {[kind |-> "DUE_SOON", day |-> Due - schedule.soon]}
    \cup {[kind |-> "OVERDUE", day |-> FirstOverdue + k * schedule.repeat] : k \in 0 .. MaxHalf}

\* Whenever the worker comes back, it sees the statement and selects the
\* last reminder that fell due, in any zone; one for a coming due day only
\* until that day has passed (ProcessDue's horizon, reminderOccurrence).
LatestReminderSelected ==
  LET past == {o \in Scheduled : AtNine(o.day) <= half /\ (o.kind = "DUE_SOON" => Today <= Due)}
      o == ReminderOccurrence(schedule)
  IN  IF past = {} THEN o = Nothing
      ELSE Selected /\ o \in past /\ \A p \in past : p.day <= o.day

\* No restart, poll or change of settings repeats a reminder: one due-soon
\* reminder per statement, one overdue reminder per day of the schedule, and
\* none is dated after it was sent; nor does an outage lose the last one.
RemindersFollowCalendar ==
  /\ LatestReminderSelected
  /\ \A i \in DOMAIN reminders :
       /\ AtNine(reminders[i].day) <= reminders[i].at
       /\ \A j \in DOMAIN reminders \ {i} :
            /\ reminders[i].kind = "DUE_SOON" => reminders[j].kind = "OVERDUE"
            /\ reminders[i].day # reminders[j].day
=============================================================================
