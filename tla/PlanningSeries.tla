--------------------------- MODULE PlanningSeries ---------------------------
(***************************************************************************)
(* A recurring planning series: its revisions, the occurrences the worker  *)
(* and calendar reads materialize, single-occurrence exceptions, series    *)
(* edits and cancellations, and the bundled notices.  One write            *)
(* transaction is one action.  A day is the unit of time: occurrence i of  *)
(* a rule lies at start + i * step.  Titles, zones and wall-clock times    *)
(* are left out, capacities too (see PlanningEvents).                      *)
(***************************************************************************)
EXTENDS Naturals, Sequences, FiniteSets, FiniteSetsExt

CONSTANTS
  Members,        \* memberships of the group
  Rules,          \* recurrences a client may send: [step, count]
  TargetSets,     \* audiences a client may select
  Horizon,        \* days materialized ahead, one year in the code
  MaxDay,         \* bound: the last day of the model
  MaxSeq,         \* bound: occurrences of the series
  MaxRevision,    \* bound: edits and cancellations of the series
  MaxTouches      \* bound: steps of members and editors on single occurrences

ASSUME SeriesAssumption ==
  /\ Rules \subseteq [step : Nat \ {0}, count : Nat \ {0}]
  /\ TargetSets \subseteq SUBSET Members
  /\ {Horizon, MaxDay, MaxSeq, MaxRevision, MaxTouches} \subseteq Nat

VARIABLES
  day,            \* the present
  active,         \* memberships that are active
  series,         \* status, current revision number and definition; targets of every revision
  ranges,         \* planning_series_cancelled_ranges: first cancelled sequences
  occ,            \* planning_events of the series by series_sequence
  recipients,     \* planning_series_recipients
  tasks,          \* pending series notices
  notices,        \* notices the worker has created
  touches         \* steps on single occurrences and memberships so far

seriesVars == <<day, active, series, ranges, occ, recipients, tasks, notices, touches>>

Seqs == 1 .. MaxSeq
Days == 0 .. MaxDay + Horizon

Notice(m, kind, revision) == [to |-> m, kind |-> kind, revision |-> revision]
Definition(from, start, rule, targets) ==
  [from |-> from, start |-> start, rule |-> rule, targets |-> targets]
Absent == [status |-> "NONE", starts |-> 0, exception |-> FALSE, revision |-> 0,
           audience |-> {}, answered |-> FALSE]

SeriesInit ==
  /\ day = 0
  /\ active = Members
  /\ series = [status |-> "NONE", revision |-> 0, targets |-> <<>>]
  /\ ranges = {}
  /\ occ = [s \in Seqs |-> Absent]
  /\ recipients = {}
  /\ tasks = {}
  /\ notices = {}
  /\ touches = 0

(***************************************************************************)
(* Schedules.                                                              *)
(***************************************************************************)
DateOf(d, s) == d.start + (s - d.from) * d.rule.step

\* The sequences a definition yields whose days lie in the given range.
SeriesRevisionOccurrences(d, first, last) ==
  {s \in Seqs : /\ s >= d.from
                /\ s < d.from + d.rule.count
                /\ DateOf(d, s) \in first .. last}

\* The bound: a definition is followed as far as the model's days reach.
Fits(d) == d.start + (MaxSeq + 1 - d.from) * d.rule.step > MaxDay + Horizon
             \/ d.from + d.rule.count <= MaxSeq + 1

CancelledRange(s) == \E from \in ranges : from <= s
Eligible(s) == occ[s].status # "NONE" /\ occ[s].starts > day
Resolved(targets) == targets \cap active

(***************************************************************************)
(* Materialization.                                                        *)
(***************************************************************************)
NewOccurrence(d, revision, s) ==
  [status |-> "PUBLISHED", starts |-> DateOf(d, s), exception |-> FALSE, revision |-> revision,
   audience |-> Resolved(d.targets), answered |-> FALSE]

\* Mutant of Materialized: the cancelled ranges are not consulted.
MaterializedEverywhere(d, revision, seqs) ==
  [s \in Seqs |-> IF s \in seqs /\ occ[s].status = "NONE"
                  THEN NewOccurrence(d, revision, s) ELSE occ[s]]

\* Rows are inserted for the sequences that have none.
Materialized(d, revision, seqs) ==
  [s \in Seqs |-> IF s \in seqs /\ ~CancelledRange(s) /\ occ[s].status = "NONE"
                  THEN NewOccurrence(d, revision, s) ELSE occ[s]]

\* An ordinary published occurrence nobody has answered follows its targets.
SyncUnansweredOccurrenceAudience(o, targets) ==
  IF o.status = "PUBLISHED" /\ ~o.exception /\ ~o.answered
  THEN [o EXCEPT !.audience = Resolved(targets)] ELSE o

\* Each future occurrence up to the horizon by the targets of its own revision.
SyncFutureSeriesAudiences(os) ==
  [s \in Seqs |->
     IF os[s].starts > day /\ os[s].starts <= day + Horizon
     THEN SyncUnansweredOccurrenceAudience(os[s], series.targets[os[s].revision]) ELSE os[s]]

\* Mutant of Told: a publication is announced to all recipients again.
ToldAgain(concerned, kind) == concerned

\* A publication is announced to new recipients only, an edit or a
\* cancellation to everybody it concerns.
Told(concerned, kind) == IF kind = "PUBLISHED" THEN concerned \ recipients ELSE concerned

\* New recipients are recorded, notices of earlier revisions that are still
\* pending are dropped, and those of this one are queued.
SyncSeriesRecipientsAndTask(concerned, kind, revision) ==
  /\ recipients' = recipients \cup concerned
  /\ tasks' = {t \in tasks : t.revision >= revision}
                \cup ({Notice(m, kind, revision) : m \in Told(concerned, kind)} \ notices)

Audience(os, seqs) == UNION {os[s].audience : s \in seqs}
Rows(os) == {s \in Seqs : os[s].status \in {"PUBLISHED", "CLOSED", "CANCELLED"}}

CreateSeries(rule, start, targets) ==
  LET d == Definition(1, start, rule, targets)
      horizon == Max({day + Horizon, start})
  IN  /\ series.status = "NONE"
      /\ start > day
      /\ Fits(d)
      /\ Resolved(targets) # {}
      /\ series' = [status |-> "PUBLISHED", revision |-> 1, targets |-> <<targets>>, definition |-> d]
      /\ occ' = Materialized(d, 1, SeriesRevisionOccurrences(d, start, horizon))
      /\ SyncSeriesRecipientsAndTask(Audience(occ', Rows(occ')), "PUBLISHED", 1)
      /\ UNCHANGED <<day, active, ranges, notices, touches>>

\* The worker extends the series to the horizon and refreshes the audiences
\* of future occurrences up to it.
MaterializeSeries ==
  LET d == series.definition
      seqs == SeriesRevisionOccurrences(d, d.start, day + Horizon)
  IN  /\ series.status = "PUBLISHED"
      /\ occ' = SyncFutureSeriesAudiences(Materialized(d, series.revision, seqs))
      /\ SyncSeriesRecipientsAndTask(Audience(occ', Rows(occ')), "PUBLISHED", series.revision)
      /\ UNCHANGED <<day, active, series, ranges, notices, touches>>

\* A calendar read fills the window it shows, however remote.
MaterializeSeriesRange(first, last) ==
  LET d == series.definition
      seqs == SeriesRevisionOccurrences(d, first, last)
      filled == Materialized(d, series.revision, seqs)
  IN  /\ series.status = "PUBLISHED"
      /\ occ' = [s \in Seqs |->
           IF s \in seqs /\ ~CancelledRange(s)
           THEN SyncUnansweredOccurrenceAudience(filled[s], d.targets) ELSE filled[s]]
      /\ SyncSeriesRecipientsAndTask(Audience(occ', Rows(occ')), "PUBLISHED", series.revision)
      /\ UNCHANGED <<day, active, series, ranges, notices, touches>>

(***************************************************************************)
(* Edits and cancellations of the series.                                  *)
(***************************************************************************)
\* Where a mutation begins: the addressed occurrence, or the first future
\* ordinary one.
SeriesMutationBoundary(scope, s) ==
  IF scope = "THIS_AND_FOLLOWING" THEN Eligible(s)
  ELSE LET future == {q \in Seqs : Eligible(q) /\ ~occ[q].exception /\ occ[q].status = "PUBLISHED"}
       IN  future # {} /\ s = Min(future)

\* What a new definition asks for and what it finds.
Desired(d) ==
  {s \in SeriesRevisionOccurrences(d, day + 1, day + Horizon) : ~CancelledRange(s)}
Existing(from) ==
  {s \in Seqs : s >= from /\ (occ[s].exception \/ (Eligible(s) /\ occ[s].status = "PUBLISHED"))}

\* Rows of the same sequence that are neither: the insertion fails and with
\* it the whole edit.
Collides(d) == \E s \in Desired(d) \ Existing(d.from) : occ[s].status # "NONE"

ApplySeriesRevision(d, revision) ==
  [s \in Seqs |->
     CASE s \in Desired(d) \ Existing(d.from) -> NewOccurrence(d, revision, s)
       [] s \in Desired(d) \cap Existing(d.from) /\ ~occ[s].exception ->
            SyncUnansweredOccurrenceAudience(
              [occ[s] EXCEPT !.starts = DateOf(d, s), !.revision = revision], d.targets)
       [] s \in Existing(d.from) \ Desired(d) /\ ~occ[s].exception ->
            [occ[s] EXCEPT !.status = "CANCELLED", !.revision = revision]
       [] OTHER -> occ[s]]

UpdateSeries(scope, s, rule, start, targets) ==
  LET unchanged == scope = "ALL" /\ rule = series.definition.rule
      d == Definition(s, IF unchanged THEN occ[s].starts ELSE start, rule, targets)
      next == series.revision + 1
      before == {q \in Seqs : q >= s /\ Eligible(q) /\ ~occ[q].exception /\ occ[q].status = "PUBLISHED"}
      after == {q \in Rows(occ') : q >= s /\ occ'[q].starts > day /\ ~occ'[q].exception
                                     /\ occ'[q].revision = next}
  IN  /\ series.status = "PUBLISHED"
      /\ series.revision < MaxRevision
      /\ start > day
      /\ Resolved(targets) # {}
      /\ SeriesMutationBoundary(scope, s)
      /\ Fits(d)
      /\ ~Collides(d)
      /\ series' = [series EXCEPT !.revision = next, !.targets = Append(@, targets), !.definition = d]
      /\ occ' = ApplySeriesRevision(d, next)
      /\ SyncSeriesRecipientsAndTask(Audience(occ', after) \cup Audience(occ, before), "UPDATED", next)
      /\ UNCHANGED <<day, active, ranges, notices, touches>>

CancelSeries(scope, s) ==
  LET next == series.revision + 1
      cancelled == {q \in Seqs : q >= s /\ Eligible(q) /\ occ[q].status = "PUBLISHED"}
      after == {q \in Rows(occ') : q >= s /\ occ'[q].starts > day /\ occ'[q].revision = next}
  IN  /\ series.status = "PUBLISHED"
      /\ series.revision < MaxRevision
      /\ SeriesMutationBoundary(scope, s)
      /\ ranges' = IF scope = "THIS_AND_FOLLOWING" THEN ranges \cup {s} ELSE ranges
      /\ occ' = [q \in Seqs |-> IF q \in cancelled
                   THEN [occ[q] EXCEPT !.status = "CANCELLED", !.revision = next] ELSE occ[q]]
      /\ series' = [series EXCEPT !.revision = next, !.targets = Append(@, series.definition.targets),
                      !.status = IF scope = "ALL" THEN "CANCELLED" ELSE @]
      /\ SyncSeriesRecipientsAndTask(Audience(occ', after), "CANCELLED", next)
      /\ UNCHANGED <<day, active, notices, touches>>

(***************************************************************************)
(* Single occurrences, members, the clock and the notice worker.           *)
(***************************************************************************)
Touch == touches < MaxTouches /\ touches' = touches + 1

UpdateEvent(s, start) ==
  /\ Touch
  /\ occ[s].status = "PUBLISHED"
  /\ Eligible(s)
  /\ start > day
  /\ occ' = [occ EXCEPT ![s].starts = start, ![s].exception = TRUE]
  /\ UNCHANGED <<day, active, series, ranges, recipients, tasks, notices>>

CancelEvent(s) ==
  /\ Touch
  /\ occ[s].status \in {"PUBLISHED", "CLOSED"}
  /\ Eligible(s)
  /\ occ' = [occ EXCEPT ![s].status = "CANCELLED", ![s].exception = TRUE]
  /\ UNCHANGED <<day, active, series, ranges, recipients, tasks, notices>>

\* By an editor, or by the response deadline.
CloseEvent(s) ==
  /\ Touch
  /\ occ[s].status = "PUBLISHED"
  /\ Eligible(s)
  /\ occ' = [occ EXCEPT ![s].status = "CLOSED"]
  /\ UNCHANGED <<day, active, series, ranges, recipients, tasks, notices>>

Respond(s, m) ==
  /\ Touch
  /\ occ[s].status = "PUBLISHED"
  /\ Eligible(s)
  /\ m \in occ[s].audience \cap active
  /\ ~occ[s].answered
  /\ occ' = [occ EXCEPT ![s].answered = TRUE]
  /\ UNCHANGED <<day, active, series, ranges, recipients, tasks, notices>>

SetActive(m) ==
  /\ Touch
  /\ active' = IF m \in active THEN active \ {m} ELSE active \cup {m}
  /\ UNCHANGED <<day, series, ranges, occ, recipients, tasks, notices>>

Tick ==
  /\ day < MaxDay
  /\ day' = day + 1
  /\ UNCHANGED <<active, series, ranges, occ, recipients, tasks, notices, touches>>

PlanningSeriesTaskEligible(t) ==
  /\ t.revision = series.revision
  /\ series.status = "PUBLISHED" \/ t.kind = "CANCELLED"

ProcessSeriesTask(t) ==
  /\ tasks' = tasks \ {t}
  /\ notices' = IF t.to \in active /\ PlanningSeriesTaskEligible(t)
                THEN notices \cup {t} ELSE notices
  /\ UNCHANGED <<day, active, series, ranges, occ, recipients, touches>>

SeriesNext ==
  \/ \E rule \in Rules, start \in 1 .. MaxDay, targets \in TargetSets :
       \/ CreateSeries(rule, start, targets)
       \/ \E scope \in {"ALL", "THIS_AND_FOLLOWING"}, s \in Seqs :
            UpdateSeries(scope, s, rule, start, targets)
  \/ \E scope \in {"ALL", "THIS_AND_FOLLOWING"}, s \in Seqs : CancelSeries(scope, s)
  \/ MaterializeSeries
  \/ \E first, last \in Days : first <= last /\ MaterializeSeriesRange(first, last)
  \/ \E s \in Seqs :
       \/ \E start \in 1 .. MaxDay : UpdateEvent(s, start)
       \/ CancelEvent(s)
       \/ CloseEvent(s)
       \/ \E m \in Members : Respond(s, m)
  \/ \E m \in Members : SetActive(m)
  \/ Tick
  \/ \E t \in tasks : ProcessSeriesTask(t)

SeriesSpec == SeriesInit /\ [][SeriesNext]_seriesVars
-----------------------------------------------------------------------------
\* Series edits and cancellations leave history alone: what has begun keeps
\* its day, status and audience, an edit keeps exceptions, answers and the
\* audience of answered occurrences, and neither the worker nor a calendar
\* read nor a later edit publishes an occurrence in a cancelled range
\* (applySeriesRevisionTx, materializeOccurrenceSchedulesTx).
HistorySpared ==
  [][/\ series.status # "NONE" /\ series'.revision # series.revision =>
          \A s \in Seqs :
            /\ occ[s].status # "NONE" /\ ~Eligible(s) => occ'[s] = occ[s]
            /\ series'.definition # series.definition /\ occ[s].exception => occ'[s] = occ[s]
            /\ occ[s].answered => occ'[s].answered /\ occ'[s].audience = occ[s].audience
     /\ \A s \in Seqs : CancelledRange(s) /\ occ'[s].status = "PUBLISHED"
                           => occ[s].status = "PUBLISHED"]_seriesVars

\* One bundled notice per recipient and revision, whether the worker, a
\* calendar read or an edit found the recipient.
OneNoticePerRevision ==
  \A t, u \in notices \cup tasks : t.to = u.to /\ t.revision = u.revision => t = u

\* "Series updates preserve existing individual exceptions, responses,
\* completed history, and cancellation ranges": an edit that leaves every
\* occurrence on its day cancels none of them.
EditCancelsNothing ==
  [][/\ series.status = "PUBLISHED"
     /\ series'.status = "PUBLISHED"
     /\ ranges' = ranges
     /\ series'.definition.rule = series.definition.rule
     /\ \A s \in Seqs : s >= series'.definition.from =>
          DateOf(series'.definition, s) = DateOf(series.definition, s)
     => \A s \in Seqs : occ[s].status = "PUBLISHED" => occ'[s].status # "CANCELLED" \/ occ'[s].exception]_seriesVars
=============================================================================
