------------------------ MODULE PlanningSeriesProofs ------------------------
(***************************************************************************)
(* Proofs about the two machines that follow a calendar, for every group,  *)
(* horizon, schedule and bound.  Module PlanningSeries: edits and          *)
(* cancellations of a series spare its history, and nobody gets two        *)
(* notices of one revision, whoever materializes the occurrences.  Module  *)
(* Reminders: whenever the worker comes back, the last reminder that fell  *)
(* due is the one it selects, and none is sent twice or too early.         *)
(***************************************************************************)
EXTENDS PlanningSeries, Reminders, TLAPS

-----------------------------------------------------------------------------
(***************************************************************************)
(* The inductive invariant.                                                *)
(***************************************************************************)
SeriesStatus == {"NONE", "PUBLISHED", "CLOSED", "CANCELLED"}
DefinitionRow == [from : Nat, start : Int, rule : Rules, targets : TargetSets]
OccurrenceRow ==
  [status : SeriesStatus, starts : Int, exception : BOOLEAN, revision : Nat, audience : SUBSET Members,
   answered : BOOLEAN]
SeriesRow ==
  [status : {"PUBLISHED", "CANCELLED"}, revision : Nat, targets : Seq(TargetSets), definition : DefinitionRow]
NoticeRow == [to : Members, kind : {"PUBLISHED", "UPDATED", "CANCELLED"}, revision : Nat]

SeriesTypes ==
  /\ day \in Nat
  /\ active \subseteq Members
  /\ IF series.status = "NONE" THEN series.revision = 0 ELSE series \in SeriesRow
  /\ ranges \subseteq Nat
  /\ recipients \subseteq Members
  /\ tasks \subseteq NoticeRow
  /\ notices \subseteq NoticeRow

\* Rows that do not exist carry no answer.
GoodOccurrences(os) ==
  /\ os \in [Seqs -> OccurrenceRow]
  /\ \A s \in Seqs : os[s].status = "NONE" => ~os[s].answered

\* Whoever was told is a recipient, and nothing was told of a later revision.
Recorded == \A t \in notices \cup tasks : t.to \in recipients /\ t.revision <= series.revision

SeriesInv == SeriesTypes /\ GoodOccurrences(occ) /\ Recorded /\ OneNoticePerRevision

-----------------------------------------------------------------------------
(***************************************************************************)
(* Occurrences.                                                            *)
(***************************************************************************)
LEMMA NewOccurrenceTyped ==
  ASSUME SeriesTypes, NEW d \in DefinitionRow, NEW revision \in Nat, NEW s \in Seqs
  PROVE  /\ NewOccurrence(d, revision, s) \in OccurrenceRow
         /\ NewOccurrence(d, revision, s).status = "PUBLISHED"
<1> DEFINE starts   == DateOf(d, s)
           audience == Resolved(d.targets)
<1>1. starts \in Int
  <2>1. d.start \in Int /\ s \in Int /\ d.from \in Int /\ d.rule \in Rules
    BY DEF DefinitionRow, Seqs
  <2>2. d.rule.step \in Int
    BY <2>1, SeriesAssumption
  <2> QED BY <2>1, <2>2 DEF DateOf
<1>2. audience \in SUBSET Members
  BY DEF Resolved, SeriesTypes
<1> HIDE DEF starts, audience
<1>3. [status |-> "PUBLISHED", starts |-> starts, exception |-> FALSE, revision |-> revision,
       audience |-> audience, answered |-> FALSE] \in OccurrenceRow
  BY <1>1, <1>2 DEF OccurrenceRow, SeriesStatus
<1> QED BY <1>3 DEF NewOccurrence, starts, audience

LEMMA Synchronized ==
  ASSUME SeriesTypes, NEW o \in OccurrenceRow, NEW targets
  PROVE  LET p == SyncUnansweredOccurrenceAudience(o, targets)
         IN  /\ p \in OccurrenceRow
             /\ p.status = o.status /\ p.answered = o.answered
             /\ o.exception \/ o.answered => p = o
<1>1. Resolved(targets) \in SUBSET Members
  BY DEF Resolved, SeriesTypes
<1> QED BY <1>1 DEF SyncUnansweredOccurrenceAudience, OccurrenceRow

\* os has grown from the stored rows, and not in a cancelled range.
Grown(os) ==
  /\ GoodOccurrences(os)
  /\ \A s \in Seqs : CancelledRange(s) /\ os[s].status = "PUBLISHED" => occ[s].status = "PUBLISHED"

LEMMA MaterializedGrows ==
  ASSUME SeriesInv, NEW d \in DefinitionRow, NEW revision \in Nat, NEW seqs
  PROVE  Grown(Materialized(d, revision, seqs))
<1> DEFINE os == Materialized(d, revision, seqs)
           New(s) == s \in seqs /\ ~CancelledRange(s) /\ occ[s].status = "NONE"
<1>1. os = [s \in Seqs |-> os[s]] /\ \A s \in Seqs : os[s] = IF New(s) THEN NewOccurrence(d, revision, s) ELSE occ[s]
  BY DEF Materialized
<1> HIDE DEF os
<1>2. \A s \in Seqs : /\ NewOccurrence(d, revision, s) \in OccurrenceRow
                      /\ NewOccurrence(d, revision, s).status = "PUBLISHED"
  BY NewOccurrenceTyped DEF SeriesInv
<1>3. \A s \in Seqs : os[s] \in OccurrenceRow
  BY <1>1, <1>2 DEF SeriesInv, GoodOccurrences
<1>4. os \in [Seqs -> OccurrenceRow]
  BY <1>1, <1>3
<1>5. \A s \in Seqs : os[s].status = "NONE" => ~os[s].answered
  BY <1>1, <1>2 DEF SeriesInv, GoodOccurrences
<1>6. \A s \in Seqs : CancelledRange(s) /\ os[s].status = "PUBLISHED" => occ[s].status = "PUBLISHED"
  BY <1>1
<1> QED BY <1>4, <1>5, <1>6 DEF Grown, GoodOccurrences, os

\* Some of the rows are synchronized.
LEMMA SynchronizedGrows ==
  ASSUME SeriesInv, NEW os, Grown(os), NEW next, next = [s \in Seqs |-> next[s]],
         \A s \in Seqs : next[s] = os[s] \/ \E targets : next[s] = SyncUnansweredOccurrenceAudience(os[s], targets)
  PROVE  Grown(next)
<1>1. ASSUME NEW s \in Seqs
      PROVE  next[s] \in OccurrenceRow /\ next[s].status = os[s].status /\ next[s].answered = os[s].answered
  <2>1. os[s] \in OccurrenceRow
    BY DEF Grown, GoodOccurrences
  <2> QED BY <2>1, Synchronized DEF SeriesInv
<1>2. next \in [Seqs -> OccurrenceRow]
  BY <1>1
<1> QED BY <1>1, <1>2 DEF Grown, GoodOccurrences

-----------------------------------------------------------------------------
(***************************************************************************)
(* Notices.                                                                *)
(***************************************************************************)
LEMMA AudienceTyped ==
  ASSUME NEW os \in [Seqs -> OccurrenceRow], NEW seqs, seqs \subseteq Seqs
  PROVE  Audience(os, seqs) \subseteq Members
BY DEF Audience, OccurrenceRow

\* A publication tells only new recipients, everything else has a revision of
\* its own: nobody hears twice of one revision.
LEMMA ToldOnce ==
  ASSUME SeriesInv, NEW concerned, concerned \subseteq Members,
         NEW kind \in {"PUBLISHED", "UPDATED", "CANCELLED"}, NEW revision \in Nat,
         kind = "PUBLISHED" \/ series.revision < revision, series.revision <= revision,
         SyncSeriesRecipientsAndTask(concerned, kind, revision), notices' = notices, series'.revision = revision
  PROVE  /\ recipients' \subseteq Members /\ tasks' \subseteq NoticeRow
         /\ Recorded' /\ OneNoticePerRevision'
<1> DEFINE new == {Notice(m, kind, revision) : m \in Told(concerned, kind)}
<1>1. recipients' = recipients \cup concerned /\ tasks' \subseteq tasks \cup new
  BY DEF SyncSeriesRecipientsAndTask
<1>2. ASSUME NEW t \in new
      PROVE  /\ t \in NoticeRow /\ t.to \in concerned /\ t.kind = kind /\ t.revision = revision
             /\ kind = "PUBLISHED" => t.to \notin recipients
  BY <1>2 DEF Notice, NoticeRow, Told
<1> HIDE DEF new
<1>3. series.revision \in Nat
  BY DEF SeriesInv, SeriesTypes, SeriesRow
<1>4. ASSUME NEW t \in notices \cup tasks
      PROVE  t \in NoticeRow /\ t.to \in recipients /\ t.revision \in Nat /\ t.revision <= series.revision
  BY DEF SeriesInv, SeriesTypes, Recorded, NoticeRow
<1>5. \A t \in notices' \cup tasks' : t.to \in recipients' /\ t.revision <= revision
  BY <1>1, <1>2, <1>3, <1>4
<1>6. OneNoticePerRevision'
  <2> SUFFICES ASSUME NEW t \in notices \cup tasks \cup new, NEW u \in notices \cup tasks \cup new,
                      t.to = u.to, t.revision = u.revision
               PROVE  t = u
    BY <1>1 DEF OneNoticePerRevision
  <2>1. CASE t \in new /\ u \in new
    BY <1>2, <2>1 DEF NoticeRow
  <2>2. CASE t \in notices \cup tasks /\ u \in notices \cup tasks
    BY <2>2 DEF SeriesInv, OneNoticePerRevision
  <2>3. CASE t \in new /\ u \in notices \cup tasks
    BY <1>2, <1>3, <1>4, <2>3
  <2>4. CASE t \in notices \cup tasks /\ u \in new
    BY <1>2, <1>3, <1>4, <2>4
  <2> QED BY <2>1, <2>2, <2>3, <2>4
<1>7. recipients' \subseteq Members
  BY <1>1 DEF SeriesInv, SeriesTypes
<1>8. tasks' \subseteq NoticeRow
  BY <1>1, <1>2, <1>4
<1> QED BY <1>5, <1>6, <1>7, <1>8 DEF Recorded
-----------------------------------------------------------------------------
(***************************************************************************)
(* Steps.                                                                  *)
(***************************************************************************)
\* What HistorySpared says of one step.
Spares ==
  /\ series.status # "NONE" /\ series'.revision # series.revision =>
       \A s \in Seqs :
         /\ occ[s].status # "NONE" /\ ~Eligible(s) => occ'[s] = occ[s]
         /\ series'.definition # series.definition /\ occ[s].exception => occ'[s] = occ[s]
         /\ occ[s].answered => occ'[s].answered /\ occ'[s].audience = occ[s].audience
  /\ \A s \in Seqs : CancelledRange(s) /\ occ'[s].status = "PUBLISHED" => occ[s].status = "PUBLISHED"

\* What every command on the whole series shares.
LEMMA SeriesCommand ==
  ASSUME SeriesInv, Grown(occ'), series' \in SeriesRow, UNCHANGED <<day, active, notices>>, ranges' \subseteq Nat,
         NEW concerned, concerned \subseteq Members, NEW kind \in {"PUBLISHED", "UPDATED", "CANCELLED"},
         kind = "PUBLISHED" \/ series.revision < series'.revision, series.revision <= series'.revision,
         SyncSeriesRecipientsAndTask(concerned, kind, series'.revision)
  PROVE  SeriesInv'
<1>1. series'.revision \in Nat /\ series'.status # "NONE"
  BY DEF SeriesRow
<1>2. recipients' \subseteq Members /\ tasks' \subseteq NoticeRow /\ Recorded' /\ OneNoticePerRevision'
  BY <1>1, ToldOnce
<1>3. SeriesTypes'
  BY <1>1, <1>2 DEF SeriesInv, SeriesTypes
<1> QED BY <1>2, <1>3 DEF SeriesInv, Grown, GoodOccurrences

LEMMA CreateStep ==
  ASSUME SeriesInv, NEW rule \in Rules, NEW start \in 1 .. MaxDay, NEW targets \in TargetSets,
         CreateSeries(rule, start, targets)
  PROVE  SeriesInv' /\ Spares
<1> DEFINE d       == Definition(1, start, rule, targets)
           horizon == Max({day + Horizon, start})
<1>1. d \in DefinitionRow
  BY SeriesAssumption DEF Definition, DefinitionRow
<1>2. /\ series.status = "NONE" /\ UNCHANGED <<day, active, ranges, notices>>
      /\ series' = [status |-> "PUBLISHED", revision |-> 1, targets |-> <<targets>>, definition |-> d]
      /\ occ' = Materialized(d, 1, SeriesRevisionOccurrences(d, start, horizon))
      /\ SyncSeriesRecipientsAndTask(Audience(occ', Rows(occ')), "PUBLISHED", 1)
  BY DEF CreateSeries
<1>3. series.revision = 0
  BY <1>2 DEF SeriesInv, SeriesTypes
<1>4. Grown(occ')
  BY <1>1, <1>2, MaterializedGrows
<1> HIDE DEF d, horizon
<1>5. <<targets>> \in Seq(TargetSets)
  OBVIOUS
<1>6. series' \in SeriesRow /\ series'.revision = 1
  BY <1>1, <1>2, <1>5 DEF SeriesRow
<1>7. Audience(occ', Rows(occ')) \subseteq Members
  BY <1>4, AudienceTyped DEF Grown, GoodOccurrences, Rows
<1>8. ranges' \subseteq Nat
  BY <1>2 DEF SeriesInv, SeriesTypes
<1>9. SeriesInv'
  BY <1>2, <1>3, <1>4, <1>6, <1>7, <1>8, SeriesCommand
<1> QED BY <1>2, <1>4, <1>9 DEF Spares, Grown

LEMMA MaterializeStep ==
  ASSUME SeriesInv,
         MaterializeSeries \/ \E first, last \in Days : first <= last /\ MaterializeSeriesRange(first, last)
  PROVE  SeriesInv' /\ Spares
<1> DEFINE d == series.definition
<1>1. /\ series.status = "PUBLISHED" /\ UNCHANGED <<day, active, series, ranges, notices>>
      /\ SyncSeriesRecipientsAndTask(Audience(occ', Rows(occ')), "PUBLISHED", series.revision)
  BY DEF MaterializeSeries, MaterializeSeriesRange
<1>2. series \in SeriesRow /\ d \in DefinitionRow /\ series.revision \in Nat /\ ranges \subseteq Nat
  BY <1>1 DEF SeriesInv, SeriesTypes, SeriesRow
<1>3. ASSUME MaterializeSeries PROVE Grown(occ')
  <2> DEFINE os == Materialized(d, series.revision, SeriesRevisionOccurrences(d, d.start, day + Horizon))
  <2>1. Grown(os)
    BY <1>2, MaterializedGrows
  <2>2. occ' = SyncFutureSeriesAudiences(os)
    BY <1>3 DEF MaterializeSeries
  <2> HIDE DEF os
  <2>3. occ' = [s \in Seqs |-> occ'[s]]
    BY <2>2 DEF SyncFutureSeriesAudiences
  <2>4. ASSUME NEW s \in Seqs
        PROVE  occ'[s] = os[s] \/ \E targets : occ'[s] = SyncUnansweredOccurrenceAudience(os[s], targets)
    BY <2>2 DEF SyncFutureSeriesAudiences
  <2> QED BY <2>1, <2>3, <2>4, SynchronizedGrows
<1>4. ASSUME NEW first, NEW last, MaterializeSeriesRange(first, last)
      PROVE  Grown(occ')
  <2> DEFINE seqs == SeriesRevisionOccurrences(d, first, last)
             os   == Materialized(d, series.revision, seqs)
  <2>1. Grown(os)
    BY <1>2, MaterializedGrows
  <2>2. occ' = [s \in Seqs |-> IF s \in seqs /\ ~CancelledRange(s)
                               THEN SyncUnansweredOccurrenceAudience(os[s], d.targets) ELSE os[s]]
    BY <1>4 DEF MaterializeSeriesRange
  <2> HIDE DEF os, seqs
  <2>3. occ' = [s \in Seqs |-> occ'[s]]
    BY <2>2
  <2>4. ASSUME NEW s \in Seqs
        PROVE  occ'[s] = os[s] \/ \E targets : occ'[s] = SyncUnansweredOccurrenceAudience(os[s], targets)
    BY <2>2
  <2> QED BY <2>1, <2>3, <2>4, SynchronizedGrows
<1>5. Grown(occ')
  BY <1>3, <1>4
<1>6. Audience(occ', Rows(occ')) \subseteq Members
  BY <1>5, AudienceTyped DEF Grown, GoodOccurrences, Rows
<1>7. series' = series /\ series'.revision = series.revision
  BY <1>1
<1>8. SeriesInv'
  BY <1>1, <1>2, <1>5, <1>6, <1>7, SeriesCommand
<1> QED BY <1>5, <1>7, <1>8 DEF Spares, Grown
\* The four cases of an edit, each with what it leaves alone.
LEMMA RevisionSpares ==
  ASSUME SeriesInv, NEW d \in DefinitionRow, NEW revision \in Nat, ~Collides(d), NEW s \in Seqs
  PROVE  LET o == ApplySeriesRevision(d, revision)[s]
         IN  /\ o \in OccurrenceRow
             /\ o.status = "NONE" => ~o.answered
             /\ CancelledRange(s) /\ o.status = "PUBLISHED" => occ[s].status = "PUBLISHED"
             /\ occ[s].status # "NONE" /\ ~Eligible(s) => o = occ[s]
             /\ occ[s].exception => o = occ[s]
             /\ occ[s].answered => o.answered /\ o.audience = occ[s].audience
<1> DEFINE o     == ApplySeriesRevision(d, revision)[s]
           moved == [occ[s] EXCEPT !.starts = DateOf(d, s), !.revision = revision]
           New   == s \in Desired(d) \ Existing(d.from)
           Moved == s \in Desired(d) \cap Existing(d.from) /\ ~occ[s].exception
           Fell  == s \in Existing(d.from) \ Desired(d) /\ ~occ[s].exception
<1>1. o = CASE New   -> NewOccurrence(d, revision, s)
            [] Moved -> SyncUnansweredOccurrenceAudience(moved, d.targets)
            [] Fell  -> [occ[s] EXCEPT !.status = "CANCELLED", !.revision = revision]
            [] OTHER -> occ[s]
  BY DEF ApplySeriesRevision
<1>2. occ[s] \in OccurrenceRow /\ (occ[s].status = "NONE" => ~occ[s].answered)
  BY DEF SeriesInv, GoodOccurrences
<1>3. s \in Desired(d) => ~CancelledRange(s) /\ s >= d.from
  BY DEF Desired, SeriesRevisionOccurrences
<1>4. s \in Existing(d.from) => occ[s].exception \/ (Eligible(s) /\ occ[s].status = "PUBLISHED")
  BY DEF Existing
<1>5. New => occ[s].status = "NONE" /\ ~occ[s].exception
  BY <1>3 DEF Collides, Existing
<1>6. DateOf(d, s) \in Int
  <2>1. d.start \in Int /\ s \in Int /\ d.from \in Int /\ d.rule \in Rules
    BY DEF DefinitionRow, Seqs
  <2>2. d.rule.step \in Int
    BY <2>1, SeriesAssumption
  <2> QED BY <2>1, <2>2 DEF DateOf
<1> DEFINE starts == DateOf(d, s)
<1>7. starts \in Int
  BY <1>6
<1> HIDE DEF starts
<1>8. [occ[s] EXCEPT !.starts = starts, !.revision = revision] \in OccurrenceRow
  BY <1>2, <1>7 DEF OccurrenceRow
<1>9. /\ moved \in OccurrenceRow /\ moved.status = occ[s].status /\ moved.exception = occ[s].exception
      /\ moved.answered = occ[s].answered /\ moved.audience = occ[s].audience
  BY <1>2, <1>8 DEF starts, OccurrenceRow
<1> HIDE DEF moved, o
<1>10. CASE New
  <2>1. o = NewOccurrence(d, revision, s)
    BY <1>1, <1>10
  <2>2. o \in OccurrenceRow /\ o.status = "PUBLISHED"
    BY <2>1, NewOccurrenceTyped DEF SeriesInv
  <2> QED BY <1>2, <1>3, <1>5, <1>10, <2>2 DEF o
<1>11. CASE Moved
  <2>1. o = SyncUnansweredOccurrenceAudience(moved, d.targets)
    BY <1>1, <1>11
  <2>2. /\ o \in OccurrenceRow /\ o.status = moved.status /\ o.answered = moved.answered
        /\ moved.answered => o = moved
    BY <1>9, <2>1, Synchronized DEF SeriesInv
  <2> QED BY <1>2, <1>3, <1>4, <1>9, <1>11, <2>2 DEF o
<1>12. CASE Fell
  <2>1. o = [occ[s] EXCEPT !.status = "CANCELLED", !.revision = revision]
    BY <1>1, <1>12
  <2>2. /\ o \in OccurrenceRow /\ o.status = "CANCELLED" /\ o.answered = occ[s].answered
        /\ o.audience = occ[s].audience
    BY <1>2, <2>1 DEF OccurrenceRow, SeriesStatus
  <2> QED BY <1>2, <1>4, <1>12, <2>2 DEF o
<1>13. CASE ~New /\ ~Moved /\ ~Fell
  <2>1. o = occ[s]
    BY <1>1, <1>13
  <2> QED BY <1>2, <2>1 DEF o
<1> QED BY <1>10, <1>11, <1>12, <1>13

LEMMA UpdateStep ==
  ASSUME SeriesInv, NEW scope, NEW s \in Seqs, NEW rule \in Rules, NEW start \in 1 .. MaxDay, NEW targets \in TargetSets,
         UpdateSeries(scope, s, rule, start, targets)
  PROVE  SeriesInv' /\ Spares
<1> DEFINE unchanged == scope = "ALL" /\ rule = series.definition.rule
           from  == IF unchanged THEN occ[s].starts ELSE start
           d     == Definition(s, from, rule, targets)
           next  == series.revision + 1
           before == {q \in Seqs : q >= s /\ Eligible(q) /\ ~occ[q].exception /\ occ[q].status = "PUBLISHED"}
           after == {q \in Rows(occ') : q >= s /\ occ'[q].starts > day /\ ~occ'[q].exception
                                          /\ occ'[q].revision = next}
           concerned == Audience(occ', after) \cup Audience(occ, before)
<1>1. /\ series.status = "PUBLISHED" /\ UNCHANGED <<day, active, ranges, notices>>
      /\ ~Collides(d)
      /\ series' = [series EXCEPT !.revision = next, !.targets = Append(@, targets), !.definition = d]
      /\ occ' = ApplySeriesRevision(d, next)
      /\ SyncSeriesRecipientsAndTask(concerned, "UPDATED", next)
  BY DEF UpdateSeries
<1>2. series \in SeriesRow /\ ranges' \subseteq Nat
  BY <1>1 DEF SeriesInv, SeriesTypes
<1>3. from \in Int
  BY DEF SeriesInv, GoodOccurrences, OccurrenceRow
<1> HIDE DEF from
<1>4. d \in DefinitionRow
  BY <1>3 DEF Definition, DefinitionRow, Seqs
<1>5. next \in Nat /\ series.revision < next /\ series.revision <= next
  BY <1>2 DEF SeriesRow
<1> HIDE DEF d, next
<1>6. Append(series.targets, targets) \in Seq(TargetSets)
  BY <1>2 DEF SeriesRow
<1>7. series' \in SeriesRow /\ series'.revision = next
  BY <1>1, <1>2, <1>4, <1>5, <1>6 DEF SeriesRow
<1>8. ASSUME NEW q \in Seqs
      PROVE  /\ occ'[q] \in OccurrenceRow /\ (occ'[q].status = "NONE" => ~occ'[q].answered)
             /\ CancelledRange(q) /\ occ'[q].status = "PUBLISHED" => occ[q].status = "PUBLISHED"
             /\ occ[q].status # "NONE" /\ ~Eligible(q) => occ'[q] = occ[q]
             /\ occ[q].exception => occ'[q] = occ[q]
             /\ occ[q].answered => occ'[q].answered /\ occ'[q].audience = occ[q].audience
  BY <1>1, <1>4, <1>5, RevisionSpares
<1>9. occ' = [q \in Seqs |-> occ'[q]]
  BY <1>1 DEF ApplySeriesRevision
<1>10. occ' \in [Seqs -> OccurrenceRow]
  BY <1>8, <1>9
<1>11. Grown(occ')
  BY <1>8, <1>10 DEF Grown, GoodOccurrences
<1>12. after \subseteq Seqs /\ before \subseteq Seqs /\ occ \in [Seqs -> OccurrenceRow]
  BY DEF Rows, SeriesInv, GoodOccurrences
<1> HIDE DEF after, before
<1>13. concerned \subseteq Members
  BY <1>10, <1>12, AudienceTyped
<1> HIDE DEF concerned
<1>14. SeriesInv'
  BY <1>1, <1>2, <1>5, <1>7, <1>11, <1>13, SeriesCommand
<1> QED BY <1>8, <1>14 DEF Spares

LEMMA CancelStep ==
  ASSUME SeriesInv, NEW scope, NEW s \in Seqs, CancelSeries(scope, s)
  PROVE  SeriesInv' /\ Spares
<1> DEFINE next == series.revision + 1
           cancelled == {q \in Seqs : q >= s /\ Eligible(q) /\ occ[q].status = "PUBLISHED"}
           after == {q \in Rows(occ') : q >= s /\ occ'[q].starts > day /\ occ'[q].revision = next}
           status == IF scope = "ALL" THEN "CANCELLED" ELSE series.status
           targets == series.definition.targets
<1>1. /\ series.status = "PUBLISHED" /\ UNCHANGED <<day, active, notices>>
      /\ ranges' = IF scope = "THIS_AND_FOLLOWING" THEN ranges \cup {s} ELSE ranges
      /\ series' = [series EXCEPT !.revision = next, !.targets = Append(@, targets), !.status = status]
      /\ occ' = [q \in Seqs |-> IF q \in cancelled
                   THEN [occ[q] EXCEPT !.status = "CANCELLED", !.revision = next] ELSE occ[q]]
      /\ SyncSeriesRecipientsAndTask(Audience(occ', after), "CANCELLED", next)
  BY DEF CancelSeries
<1>2. series \in SeriesRow /\ ranges' \subseteq Nat
  <2>1. series \in SeriesRow /\ ranges \subseteq Nat
    BY <1>1 DEF SeriesInv, SeriesTypes
  <2>2. s \in Nat
    BY DEF Seqs
  <2> QED BY <1>1, <2>1, <2>2
<1>3. next \in Nat /\ series.revision < next /\ series.revision <= next /\ targets \in TargetSets
  BY <1>2 DEF SeriesRow, DefinitionRow
<1>4. status \in {"PUBLISHED", "CANCELLED"}
  BY <1>1
<1> HIDE DEF next, status, targets
<1>5. Append(series.targets, targets) \in Seq(TargetSets)
  BY <1>2, <1>3 DEF SeriesRow
<1>6. series' \in SeriesRow /\ series'.revision = next /\ series'.definition = series.definition
  BY <1>1, <1>2, <1>3, <1>4, <1>5 DEF SeriesRow
<1>7. ASSUME NEW q \in Seqs
      PROVE  /\ occ'[q] \in OccurrenceRow /\ (occ'[q].status = "NONE" => ~occ'[q].answered)
             /\ occ'[q].status = "PUBLISHED" => occ[q].status = "PUBLISHED"
             /\ occ[q].status # "NONE" /\ ~Eligible(q) => occ'[q] = occ[q]
             /\ occ[q].answered => occ'[q].answered /\ occ'[q].audience = occ[q].audience
  <2>1. occ[q] \in OccurrenceRow /\ (occ[q].status = "NONE" => ~occ[q].answered)
    BY DEF SeriesInv, GoodOccurrences
  <2>2. CASE q \in cancelled
    <3>1. occ'[q] = [occ[q] EXCEPT !.status = "CANCELLED", !.revision = next] /\ Eligible(q)
      BY <1>1, <2>2
    <3>2. /\ occ'[q] \in OccurrenceRow /\ occ'[q].status = "CANCELLED" /\ occ'[q].answered = occ[q].answered
          /\ occ'[q].audience = occ[q].audience
      BY <1>3, <2>1, <3>1 DEF OccurrenceRow, SeriesStatus
    <3> QED BY <3>1, <3>2
  <2>3. CASE q \notin cancelled
    <3>1. occ'[q] = occ[q]
      BY <1>1, <2>3
    <3> QED BY <2>1, <3>1
  <2> QED BY <2>2, <2>3
<1>8. occ' \in [Seqs -> OccurrenceRow]
  BY <1>1, <1>7
<1>9. Grown(occ')
  BY <1>7, <1>8 DEF Grown, GoodOccurrences
<1>10. after \subseteq Seqs
  BY DEF Rows
<1> HIDE DEF after
<1>11. Audience(occ', after) \subseteq Members
  BY <1>8, <1>10, AudienceTyped
<1>12. SeriesInv'
  BY <1>1, <1>2, <1>3, <1>6, <1>9, <1>11, SeriesCommand
<1> QED BY <1>6, <1>7, <1>12 DEF Spares

\* Steps on one occurrence.
LEMMA SingleStep ==
  ASSUME SeriesInv, NEW s \in Seqs,
         \/ \E start \in 1 .. MaxDay : UpdateEvent(s, start)
         \/ CancelEvent(s) \/ CloseEvent(s)
         \/ \E m \in Members : Respond(s, m)
  PROVE  SeriesInv' /\ Spares
<1>1. occ \in [Seqs -> OccurrenceRow] /\ occ[s] \in OccurrenceRow
  BY DEF SeriesInv, GoodOccurrences
<1>2. UNCHANGED <<day, active, series, ranges, recipients, tasks, notices>> /\ occ[s].status # "NONE"
  BY DEF UpdateEvent, CancelEvent, CloseEvent, Respond
<1>3. ASSUME NEW row \in OccurrenceRow, occ' = [occ EXCEPT ![s] = row], row.status # "NONE",
             row.status = "PUBLISHED" => occ[s].status = "PUBLISHED"
      PROVE  SeriesInv' /\ Spares
  <2>1. occ' \in [Seqs -> OccurrenceRow] /\ \A q \in Seqs : occ'[q] = IF q = s THEN row ELSE occ[q]
    BY <1>1, <1>3
  <2>2. GoodOccurrences(occ')
    BY <1>3, <2>1 DEF SeriesInv, GoodOccurrences
  <2>3. \A q \in Seqs : occ'[q].status = "PUBLISHED" => occ[q].status = "PUBLISHED"
    BY <1>3, <2>1
  <2> QED BY <1>2, <2>2, <2>3 DEF SeriesInv, SeriesTypes, Recorded, OneNoticePerRevision, GoodOccurrences, Spares
<1>4. ASSUME NEW start \in 1 .. MaxDay, UpdateEvent(s, start) PROVE SeriesInv' /\ Spares
  <2> DEFINE row == [occ[s] EXCEPT !.starts = start, !.exception = TRUE]
  <2>0. start \in Int
    OBVIOUS
  <2>1. row \in OccurrenceRow /\ row.status = occ[s].status
    BY <1>1, <2>0 DEF OccurrenceRow
  <2>2. occ' = [occ EXCEPT ![s] = row]
    BY <1>1, <1>4 DEF UpdateEvent
  <2> QED BY <1>2, <1>3, <2>1, <2>2
<1>5. CASE CancelEvent(s)
  <2> DEFINE row == [occ[s] EXCEPT !.status = "CANCELLED", !.exception = TRUE]
  <2>1. row \in OccurrenceRow /\ row.status = "CANCELLED"
    BY <1>1 DEF OccurrenceRow, SeriesStatus
  <2>2. occ' = [occ EXCEPT ![s] = row]
    BY <1>1, <1>5 DEF CancelEvent
  <2> QED BY <1>3, <2>1, <2>2
<1>6. CASE CloseEvent(s)
  <2> DEFINE row == [occ[s] EXCEPT !.status = "CLOSED"]
  <2>1. row \in OccurrenceRow /\ row.status = "CLOSED"
    BY <1>1 DEF OccurrenceRow, SeriesStatus
  <2>2. occ' = [occ EXCEPT ![s] = row]
    BY <1>1, <1>6 DEF CloseEvent
  <2> QED BY <1>3, <2>1, <2>2
<1>7. ASSUME NEW m \in Members, Respond(s, m) PROVE SeriesInv' /\ Spares
  <2> DEFINE row == [occ[s] EXCEPT !.answered = TRUE]
  <2>1. row \in OccurrenceRow /\ row.status = occ[s].status
    BY <1>1 DEF OccurrenceRow
  <2>2. occ' = [occ EXCEPT ![s] = row]
    BY <1>1, <1>7 DEF Respond
  <2> QED BY <1>2, <1>3, <2>1, <2>2
<1> QED BY <1>4, <1>5, <1>6, <1>7

\* Members come and go, time passes, the worker sends; no occurrence changes.
LEMMA OtherStep ==
  ASSUME SeriesInv,
         \/ \E m \in Members : SetActive(m)
         \/ Tick
         \/ \E t \in tasks : ProcessSeriesTask(t)
         \/ UNCHANGED seriesVars
  PROVE  SeriesInv' /\ Spares
<1>1. UNCHANGED <<series, ranges, occ, recipients>>
  BY DEF SetActive, Tick, ProcessSeriesTask, seriesVars
<1>2. Spares
  BY <1>1 DEF Spares
<1>3. active' \subseteq Members
  BY DEF SetActive, Tick, ProcessSeriesTask, seriesVars, SeriesInv, SeriesTypes
<1>4. day' \in Nat
  BY DEF SetActive, Tick, ProcessSeriesTask, seriesVars, SeriesInv, SeriesTypes
<1>5. tasks' \subseteq tasks /\ notices' \subseteq notices \cup tasks
  BY DEF SetActive, Tick, ProcessSeriesTask, seriesVars
<1>6. SeriesTypes' /\ GoodOccurrences(occ)'
  BY <1>1, <1>3, <1>4, <1>5 DEF SeriesInv, SeriesTypes, GoodOccurrences
<1>7. notices' \cup tasks' \subseteq notices \cup tasks
  BY <1>5
<1>8. Recorded'
  BY <1>1, <1>7 DEF SeriesInv, Recorded
<1>9. OneNoticePerRevision'
  BY <1>7 DEF SeriesInv, OneNoticePerRevision
<1> QED BY <1>2, <1>6, <1>8, <1>9 DEF SeriesInv

LEMMA SeriesStep ==
  ASSUME SeriesInv, [SeriesNext]_seriesVars
  PROVE  SeriesInv' /\ Spares
BY CreateStep, MaterializeStep, UpdateStep, CancelStep, SingleStep, OtherStep DEF SeriesNext

LEMMA SeriesInvInit ==
  ASSUME SeriesInit
  PROVE  SeriesInv
<1>1. Absent \in OccurrenceRow /\ ~Absent.answered
  BY DEF Absent, OccurrenceRow, SeriesStatus
<1>2. GoodOccurrences(occ)
  BY <1>1 DEF SeriesInit, GoodOccurrences
<1> QED BY <1>2 DEF SeriesInit, SeriesInv, SeriesTypes, Recorded, OneNoticePerRevision

-----------------------------------------------------------------------------
\* The tables of a series keep their shape, whoever was told of a revision is
\* a recorded recipient, and no notice is ahead of the series
\* (syncSeriesRecipientsAndTaskTx).
THEOREM SeriesFits == SeriesSpec => []SeriesInv
BY SeriesInvInit, SeriesStep, PTL DEF SeriesSpec

\* Nobody has two notices of one revision, pending or created, whether the
\* worker, a calendar read or an edit found the recipient
\* (syncSeriesRecipientsAndTaskTx, processSeriesTask).
THEOREM ToldOncePerRevision == SeriesSpec => []OneNoticePerRevision
<1>1. SeriesInv => OneNoticePerRevision
  BY DEF SeriesInv
<1> QED BY <1>1, SeriesFits, PTL

\* Edits and cancellations leave what has begun, exceptions and answers alone,
\* and nothing publishes an occurrence in a cancelled range
\* (applySeriesRevisionTx, materializeOccurrenceSchedulesTx).
THEOREM HistoryStays == SeriesSpec => HistorySpared
<1>1. SeriesInv /\ [SeriesNext]_seriesVars => [Spares]_seriesVars
  BY SeriesStep
<1>2. [Spares]_seriesVars
      => [/\ series.status # "NONE" /\ series'.revision # series.revision =>
               \A s \in Seqs :
                 /\ occ[s].status # "NONE" /\ ~Eligible(s) => occ'[s] = occ[s]
                 /\ series'.definition # series.definition /\ occ[s].exception => occ'[s] = occ[s]
                 /\ occ[s].answered => occ'[s].answered /\ occ'[s].audience = occ[s].audience
          /\ \A s \in Seqs : CancelledRange(s) /\ occ'[s].status = "PUBLISHED"
                                => occ[s].status = "PUBLISHED"]_seriesVars
  BY DEF Spares
<1> QED BY <1>1, <1>2, SeriesFits, PTL DEF SeriesSpec, HistorySpared
-----------------------------------------------------------------------------
(***************************************************************************)
(* Settlement reminders: the calendar is one of multiples of the interval, *)
(* the present day lies between two of them, and the runs are exactly the  *)
(* reminders sent.                                                         *)
(***************************************************************************)
Schedules == [soon : SoonDays, repeat : RepeatDays]
ReminderRow == [kind : {"DUE_SOON", "OVERDUE"}, day : Int, at : Nat]

ReminderTypes ==
  /\ half \in 0 .. MaxHalf
  /\ schedule \in Schedules
  /\ skew \in Skews
  /\ reminders \in Seq(ReminderRow)

\* A reminder belongs to its side of the due day, and is not of the future.
Dated ==
  \A i \in DOMAIN reminders :
    /\ AtNine(reminders[i].day) <= reminders[i].at
    /\ IF reminders[i].kind = "DUE_SOON" THEN reminders[i].day < Due ELSE reminders[i].day > Due

RunsAreReminders == runs = {[kind |-> reminders[i].kind, day |-> reminders[i].day] : i \in DOMAIN reminders}

NoneTwice ==
  \A i \in DOMAIN reminders : \A j \in DOMAIN reminders \ {i} :
    /\ reminders[i].kind = "DUE_SOON" => reminders[j].kind = "OVERDUE"
    /\ reminders[i].day # reminders[j].day

RemindersInv == ReminderTypes /\ Dated /\ RunsAreReminders /\ NoneTwice

\* A day between two multiples of an interval.
LEMMA Multiples ==
  ASSUME NEW x \in Nat, NEW r \in Nat, r > 0
  PROVE  /\ x \div r \in Nat /\ x \div r <= x
         /\ (x \div r) * r <= x /\ x < (x \div r) * r + r
         /\ \A k \in Nat : k * r <= x => k * r <= (x \div r) * r
         /\ \A k \in Nat : k * r < (x \div r) * r => k * r <= (x \div r) * r - r
<1> DEFINE q == x \div r
<1>1. q \in Nat /\ q * r <= x /\ x < q * r + r
  OBVIOUS
<1> HIDE DEF q
<1>2. \A k \in Nat : k > q => k * r >= q * r + r
  BY <1>1
<1>3. \A k \in Nat : k < q => k * r <= q * r - r
  <2> SUFFICES ASSUME NEW k \in Nat, k < q PROVE k * r + r <= q * r
    BY <1>1
  <2> QED BY <1>1
<1>4. q <= q * r
  BY <1>1
<1>5. \A k \in Nat : k * r \in Nat
  OBVIOUS
<1>6. q * r \in Nat
  BY <1>1
<1>7. q <= x
  BY <1>1, <1>4, <1>6
<1>8. ASSUME NEW k \in Nat, k * r <= x PROVE k * r <= q * r
  <2>1. CASE k > q
    BY <1>1, <1>2, <1>5, <1>6, <1>8, <2>1
  <2>2. CASE k = q
    BY <1>6, <2>2
  <2>3. CASE k < q
    BY <1>3, <1>5, <1>6, <2>3
  <2> QED BY <1>1, <2>1, <2>2, <2>3
<1>9. ASSUME NEW k \in Nat, k * r < q * r PROVE k * r <= q * r - r
  <2>1. CASE k > q
    BY <1>1, <1>2, <1>5, <1>6, <1>9, <2>1
  <2>2. CASE k = q
    BY <1>6, <1>9, <2>2
  <2>3. CASE k < q
    BY <1>3, <2>3
  <2> QED BY <1>1, <2>1, <2>2, <2>3
<1> QED BY <1>1, <1>7, <1>8, <1>9 DEF q

\* What the settings and the clock say of the schedule.
LEMMA ScheduleFacts ==
  ASSUME ReminderTypes
  PROVE  /\ half \in Nat /\ half <= MaxHalf /\ MaxHalf \in Nat
         /\ Today \in Nat /\ 2 * Today <= half /\ half <= 2 * Today + 1
         /\ Due \in Nat /\ Lookahead \in Nat /\ skew \in Int /\ skew <= 1
         /\ schedule.soon \in Nat /\ 1 <= schedule.soon /\ schedule.soon < Lookahead
         /\ schedule.repeat \in Nat
<1>1. half \in Nat /\ half <= MaxHalf /\ MaxHalf \in Nat /\ Due \in Nat /\ Lookahead \in Nat
  BY RemindersAssumption DEF ReminderTypes
<1>2. Today \in Nat /\ 2 * Today <= half /\ half <= 2 * Today + 1
  BY <1>1 DEF Today
<1>3. schedule.soon \in SoonDays /\ schedule.repeat \in RepeatDays /\ skew \in Skews
  BY DEF ReminderTypes, Schedules
<1>4. schedule.soon \in 1 .. Lookahead - 1 /\ schedule.repeat \in Nat /\ skew \in {-1, 0, 1}
  BY <1>3, RemindersAssumption
<1> QED BY <1>1, <1>2, <1>4

\* The instants of the schedule, by their two kinds.
LEMMA ScheduledInstants ==
  ASSUME ReminderTypes
  PROVE  /\ \A o \in Scheduled :
              \/ o = [kind |-> "DUE_SOON", day |-> Due - schedule.soon]
              \/ \E k \in Nat : o = [kind |-> "OVERDUE", day |-> Due + 1 + k * schedule.repeat]
         /\ [kind |-> "DUE_SOON", day |-> Due - schedule.soon] \in Scheduled
         /\ \A k \in 0 .. MaxHalf : [kind |-> "OVERDUE", day |-> Due + 1 + k * schedule.repeat] \in Scheduled
  BY RemindersAssumption DEF Scheduled, FirstOverdue

\* The instants that have passed.
Past == {o \in Scheduled : AtNine(o.day) <= half /\ (o.kind = "DUE_SOON" => Today <= Due)}

LEMMA PastInstants ==
  ASSUME ReminderTypes
  PROVE  /\ \A o \in Past :
              \/ /\ o = [kind |-> "DUE_SOON", day |-> Due - schedule.soon]
                 /\ 2 * (Due - schedule.soon) + 1 <= half /\ Today <= Due
              \/ \E k \in Nat : /\ o = [kind |-> "OVERDUE", day |-> Due + 1 + k * schedule.repeat]
                                /\ 2 * (Due + 1 + k * schedule.repeat) + 1 <= half
         /\ 2 * (Due - schedule.soon) + 1 <= half /\ Today <= Due =>
              [kind |-> "DUE_SOON", day |-> Due - schedule.soon] \in Past
         /\ \A k \in 0 .. MaxHalf : 2 * (Due + 1 + k * schedule.repeat) + 1 <= half =>
              [kind |-> "OVERDUE", day |-> Due + 1 + k * schedule.repeat] \in Past
<1>1. ASSUME NEW o \in Past
      PROVE  \/ /\ o = [kind |-> "DUE_SOON", day |-> Due - schedule.soon]
                /\ 2 * (Due - schedule.soon) + 1 <= half /\ Today <= Due
             \/ \E k \in Nat : /\ o = [kind |-> "OVERDUE", day |-> Due + 1 + k * schedule.repeat]
                               /\ 2 * (Due + 1 + k * schedule.repeat) + 1 <= half
  <2>1. o \in Scheduled /\ 2 * o.day + 1 <= half /\ (o.kind = "DUE_SOON" => Today <= Due)
    BY DEF Past, AtNine
  <2>2. CASE o = [kind |-> "DUE_SOON", day |-> Due - schedule.soon]
    BY <2>1, <2>2
  <2>3. CASE \E k \in Nat : o = [kind |-> "OVERDUE", day |-> Due + 1 + k * schedule.repeat]
    BY <2>1, <2>3
  <2> QED BY <2>1, <2>2, <2>3, ScheduledInstants
<1>2. 2 * (Due - schedule.soon) + 1 <= half /\ Today <= Due =>
        [kind |-> "DUE_SOON", day |-> Due - schedule.soon] \in Past
  BY ScheduledInstants DEF Past, AtNine
<1>3. ASSUME NEW k \in 0 .. MaxHalf, 2 * (Due + 1 + k * schedule.repeat) + 1 <= half
      PROVE  [kind |-> "OVERDUE", day |-> Due + 1 + k * schedule.repeat] \in Past
  BY <1>3, ScheduledInstants DEF Past, AtNine
<1> QED BY <1>1, <1>2, <1>3

\* Which reminder falls due: before the due day only the one that announces
\* it, afterwards the last multiple of the interval whose hour has come.
LEMMA Announced ==
  ASSUME ReminderTypes, Today <= Due
  PROVE  ReminderOccurrence(schedule) =
           IF 2 * (Due - schedule.soon) + 1 <= half THEN [kind |-> "DUE_SOON", day |-> Due - schedule.soon]
           ELSE Nothing
<1>1. ~ (Today >= FirstOverdue)
  BY ScheduleFacts DEF FirstOverdue
<1>2. Today >= Due - schedule.soon /\ Today <= Due /\ half >= AtNine(Due - schedule.soon)
        <=> 2 * (Due - schedule.soon) + 1 <= half
  <2>1. half >= 2 * (Due - schedule.soon) + 1 => Today >= Due - schedule.soon
    BY ScheduleFacts
  <2>2. half >= 2 * (Due - schedule.soon) + 1 <=> 2 * (Due - schedule.soon) + 1 <= half
    BY ScheduleFacts
  <2> QED BY <2>1, <2>2 DEF AtNine
<1> QED BY <1>1, <1>2 DEF ReminderOccurrence

Last == Due + 1 + (IF schedule.repeat = 0 THEN 0 ELSE ((Today - (Due + 1)) \div schedule.repeat) * schedule.repeat)

LEMMA Demanded ==
  ASSUME ReminderTypes, Today > Due
  PROVE  ReminderOccurrence(schedule) =
           IF 2 * Last + 1 <= half THEN [kind |-> "OVERDUE", day |-> Last]
           ELSE IF schedule.repeat > 0 /\ Last - schedule.repeat >= Due + 1
                THEN [kind |-> "OVERDUE", day |-> Last - schedule.repeat]
                ELSE Nothing
<1>1. Today >= FirstOverdue /\ ~ (Today <= Due)
  BY ScheduleFacts DEF FirstOverdue
<1>2. Last \in Int
  <2>1. CASE schedule.repeat = 0
    BY <2>1, ScheduleFacts DEF Last
  <2>2. CASE schedule.repeat # 0
    <3>1. Today - (Due + 1) \in Nat
      BY ScheduleFacts
    <3>2. (Today - (Due + 1)) \div schedule.repeat \in Nat
      BY <2>2, <3>1, ScheduleFacts, Multiples
    <3> QED BY <2>2, <3>2, ScheduleFacts DEF Last
  <2> QED BY <2>1, <2>2
<1>3. PICK d : d = Last
  OBVIOUS
<1>4. /\ half >= AtNine(d) <=> 2 * d + 1 <= half
      /\ half < AtNine(d) <=> ~ (2 * d + 1 <= half)
  BY <1>2, <1>3, ScheduleFacts DEF AtNine
<1>5. ReminderOccurrence(schedule) =
        CASE Today >= FirstOverdue /\ half >= AtNine(d) -> [kind |-> "OVERDUE", day |-> d]
          [] Today >= FirstOverdue /\ half < AtNine(d) /\ schedule.repeat > 0 /\ d - schedule.repeat >= FirstOverdue ->
               [kind |-> "OVERDUE", day |-> d - schedule.repeat]
          [] Today >= Due - schedule.soon /\ Today <= Due /\ half >= AtNine(Due - schedule.soon) ->
               [kind |-> "DUE_SOON", day |-> Due - schedule.soon]
          [] OTHER -> Nothing
  BY <1>3, Zenon DEF ReminderOccurrence, Last, FirstOverdue
<1>6. FirstOverdue = Due + 1
  BY DEF FirstOverdue
<1>7. CASE 2 * d + 1 <= half
  BY <1>1, <1>3, <1>4, <1>5, <1>7
<1>8. CASE ~ (2 * d + 1 <= half)
  <2>1. CASE schedule.repeat > 0 /\ d - schedule.repeat >= Due + 1
    BY <1>1, <1>3, <1>4, <1>5, <1>6, <1>8, <2>1
  <2>2. CASE ~ (schedule.repeat > 0 /\ d - schedule.repeat >= Due + 1)
    BY <1>1, <1>3, <1>4, <1>5, <1>6, <1>8, <2>2
  <2> QED BY <2>1, <2>2
<1> QED BY <1>7, <1>8

\* The last reminder that fell due is the one selected.
LEMMA LatestIsSelected ==
  ASSUME ReminderTypes
  PROVE  LatestReminderSelected
<1> DEFINE o == ReminderOccurrence(schedule)
<1>0. SUFFICES IF Past = {} THEN o = Nothing
               ELSE Selected /\ o \in Past /\ \A p \in Past : p.day <= o.day
  BY DEF LatestReminderSelected, Past
<1> PICK r, s : r = schedule.repeat /\ s = schedule.soon
  OBVIOUS
<1>a. /\ half \in Nat /\ half <= MaxHalf /\ MaxHalf \in Nat
      /\ Today \in Nat /\ 2 * Today <= half /\ half <= 2 * Today + 1
      /\ Due \in Nat /\ Lookahead \in Nat /\ skew \in Int /\ skew <= 1
      /\ s \in Nat /\ 1 <= s /\ s < Lookahead /\ r \in Nat
  BY ScheduleFacts
<1>b. /\ \A p \in Past :
           \/ p = [kind |-> "DUE_SOON", day |-> Due - s] /\ 2 * (Due - s) + 1 <= half /\ Today <= Due
           \/ \E k \in Nat : p = [kind |-> "OVERDUE", day |-> Due + 1 + k * r] /\ 2 * (Due + 1 + k * r) + 1 <= half
      /\ 2 * (Due - s) + 1 <= half /\ Today <= Due => [kind |-> "DUE_SOON", day |-> Due - s] \in Past
      /\ \A k \in 0 .. MaxHalf : 2 * (Due + 1 + k * r) + 1 <= half =>
           [kind |-> "OVERDUE", day |-> Due + 1 + k * r] \in Past
  BY PastInstants
<1>c. \A k \in Nat : k * r \in Nat
  BY <1>a
<1>1. CASE Today <= Due
  <2>1. o = IF 2 * (Due - s) + 1 <= half THEN [kind |-> "DUE_SOON", day |-> Due - s] ELSE Nothing
    BY <1>1, Announced
  <2> HIDE DEF o
  <2>2. \A p \in Past : p = [kind |-> "DUE_SOON", day |-> Due - s] /\ 2 * (Due - s) + 1 <= half
    <3>1. \A k \in Nat : ~ (2 * (Due + 1 + k * r) + 1 <= half)
      <4> SUFFICES ASSUME NEW k \in Nat PROVE ~ (2 * (Due + 1 + k * r) + 1 <= half)
        OBVIOUS
      <4> PICK n \in Nat : n = k * r
        BY <1>c
      <4> QED BY <1>a, <1>1
    <3> QED BY <1>b, <3>1, Zenon
  <2>3. CASE 2 * (Due - s) + 1 <= half
    <3>1. o = [kind |-> "DUE_SOON", day |-> Due - s]
      BY <2>1, <2>3
    <3>2. o \in Past
      BY <1>1, <1>b, <2>3, <3>1
    <3>3. Selected
      BY <1>a, <2>3 DEF Selected
    <3>4. \A p \in Past : p.day <= o.day
      BY <1>a, <2>2, <3>1
    <3> QED BY <3>2, <3>3, <3>4
  <2>4. CASE ~ (2 * (Due - s) + 1 <= half)
    <3>1. Past = {}
      BY <2>2, <2>4
    <3> QED BY <2>1, <2>4, <3>1
  <2> QED BY <2>3, <2>4
<1>2. CASE Today > Due
  <2>1. o = IF 2 * Last + 1 <= half THEN [kind |-> "OVERDUE", day |-> Last]
            ELSE IF r > 0 /\ Last - r >= Due + 1 THEN [kind |-> "OVERDUE", day |-> Last - r] ELSE Nothing
    BY <1>2, Demanded
  <2> HIDE DEF o
  <2>2. \A p \in Past : \E k \in Nat :
          p = [kind |-> "OVERDUE", day |-> Due + 1 + k * r] /\ 2 * (Due + 1 + k * r) + 1 <= half
    <3>1. ~ (Today <= Due)
      BY <1>a, <1>2
    <3> QED BY <1>b, <3>1, Zenon
  <2>3. Selected
    BY <1>a, <1>2 DEF Selected
  <2> PICK x : x = Today - (Due + 1)
    OBVIOUS
  <2>4. x \in Nat /\ Today = Due + 1 + x /\ x <= MaxHalf
    BY <1>a, <1>2
  <2>5. CASE r = 0
    <3>0. \A k \in Nat : k * r = 0
      BY <2>5
    <3>1. Last = Due + 1
      BY <1>a, <2>5 DEF Last
    <3>2. \A p \in Past : p = [kind |-> "OVERDUE", day |-> Due + 1] /\ 2 * (Due + 1) + 1 <= half
      <4> SUFFICES ASSUME NEW p \in Past
                   PROVE  p = [kind |-> "OVERDUE", day |-> Due + 1] /\ 2 * (Due + 1) + 1 <= half
        OBVIOUS
      <4>1. PICK k \in Nat : p = [kind |-> "OVERDUE", day |-> Due + 1 + k * r] /\ 2 * (Due + 1 + k * r) + 1 <= half
        BY <2>2
      <4>2. Due + 1 + k * r = Due + 1
        BY <1>a, <3>0
      <4> QED BY <4>1, <4>2
    <3>3. CASE 2 * (Due + 1) + 1 <= half
      <4>1. o = [kind |-> "OVERDUE", day |-> Due + 1]
        BY <2>1, <3>1, <3>3
      <4>2. 0 \in 0 .. MaxHalf /\ Due + 1 + 0 * r = Due + 1
        BY <1>a, <2>5
      <4>3. o \in Past
        BY <1>b, <3>3, <4>1, <4>2
      <4>4. \A p \in Past : p.day <= o.day
        BY <1>a, <3>2, <4>1
      <4> QED BY <2>3, <4>3, <4>4
    <3>4. CASE ~ (2 * (Due + 1) + 1 <= half)
      <4>1. Past = {}
        BY <3>2, <3>4
      <4>2. ~ (r > 0)
        BY <2>5
      <4> QED BY <2>1, <3>1, <3>4, <4>1, <4>2
    <3> QED BY <3>3, <3>4
  <2>6. CASE r # 0
    <3>0. r > 0
      BY <1>a, <2>6
    <3> PICK q, m : q = x \div r /\ m = q * r
      OBVIOUS
    <3>1. /\ q \in Nat /\ q <= x /\ m \in Nat /\ m <= x /\ x < m + r
          /\ \A k \in Nat : k * r <= x => k * r <= m
          /\ \A k \in Nat : k * r < m => k * r <= m - r
      BY <1>a, <1>c, <2>4, <3>0, Multiples
    <3>2. Last = Due + 1 + m
      BY <2>6, <3>1 DEF Last
    <3>3. CASE 2 * (Due + 1 + m) + 1 <= half
      <4>1. o = [kind |-> "OVERDUE", day |-> Due + 1 + m]
        BY <2>1, <3>2, <3>3
      <4>2. q \in 0 .. MaxHalf
        BY <1>a, <2>4, <3>1
      <4>3. o \in Past
        BY <1>b, <3>3, <4>1, <4>2
      <4>4. ASSUME NEW p \in Past PROVE p.day <= o.day
        <5>1. PICK k \in Nat : p = [kind |-> "OVERDUE", day |-> Due + 1 + k * r] /\ 2 * (Due + 1 + k * r) + 1 <= half
          BY <2>2
        <5> PICK n \in Nat : n = k * r
          BY <1>c
        <5>2. n <= x
          BY <1>a, <2>4, <5>1
        <5>3. n <= m
          BY <3>1, <5>2
        <5>4. p.day = Due + 1 + n /\ o.day = Due + 1 + m
          BY <4>1, <5>1
        <5> QED BY <1>a, <3>1, <5>3, <5>4
      <4> QED BY <2>3, <4>3, <4>4
    <3>4. CASE ~ (2 * (Due + 1 + m) + 1 <= half)
      <4>1. m = x /\ half = 2 * (Due + 1 + x)
        <5>1. half <= 2 * (Due + 1 + m)
          BY ONLY <1>a, <3>1, <3>4
        <5>2. 2 * (Due + 1 + x) <= half
          BY ONLY <1>a, <2>4
        <5> QED BY ONLY <1>a, <2>4, <3>1, <5>1, <5>2
      <4>2. ASSUME NEW p \in Past
            PROVE  \E n \in Nat : p.day = Due + 1 + n /\ n < m /\ n <= m - r
        <5>1. PICK k \in Nat : p = [kind |-> "OVERDUE", day |-> Due + 1 + k * r] /\ 2 * (Due + 1 + k * r) + 1 <= half
          BY <2>2
        <5> PICK n \in Nat : n = k * r
          BY <1>c
        <5>2. n < m
          BY <1>a, <2>4, <4>1, <5>1
        <5>3. n <= m - r
          BY <3>1, <5>2
        <5> QED BY <5>1, <5>2, <5>3
      <4>3. CASE m = 0
        <5>1. o = Nothing
          BY <1>a, <2>1, <3>0, <3>1, <3>2, <3>4, <4>3
        <5>2. Past = {}
          BY <4>2, <4>3
        <5> QED BY <5>1, <5>2
      <4>4. CASE m # 0
        <5>1. q # 0 /\ q - 1 \in Nat
          <6>1. 0 * r = 0
            BY <1>a
          <6>2. q # 0
            BY <4>4, <6>1
          <6> QED BY ONLY <3>1, <6>2
        <5>2. PICK n : n = (q - 1) * r
          OBVIOUS
        <5>3. n = m - r /\ n \in Nat
          BY <1>a, <1>c, <3>1, <5>1, <5>2
        <5>4. Last - r >= Due + 1 /\ Last - r = Due + 1 + n
          BY <1>a, <3>1, <3>2, <5>3
        <5>5. o = [kind |-> "OVERDUE", day |-> Due + 1 + n]
          BY <2>1, <3>0, <3>2, <3>4, <5>4
        <5>6. 2 * (Due + 1 + n) + 1 <= half
          BY <1>a, <2>4, <3>0, <4>1, <5>3
        <5>7. q - 1 \in 0 .. MaxHalf
          BY <1>a, <2>4, <3>1, <5>1
        <5>8. o \in Past
          BY <1>b, <5>2, <5>5, <5>6, <5>7
        <5>9. ASSUME NEW p \in Past PROVE p.day <= o.day
          <6>1. PICK l \in Nat : p.day = Due + 1 + l /\ l <= m - r
            BY <4>2
          <6> QED BY <1>a, <3>1, <5>3, <5>5, <6>1
        <5> QED BY <2>3, <5>8, <5>9
      <4> QED BY <4>3, <4>4
    <3> QED BY <3>3, <3>4
  <2> QED BY <2>5, <2>6
<1> QED BY <1>1, <1>2, ScheduleFacts

-----------------------------------------------------------------------------
LEMMA OccurrenceDated ==
  ASSUME ReminderTypes, NEW o, o = ReminderOccurrence(schedule), o # Nothing
  PROVE  /\ o \in Past /\ o = [kind |-> o.kind, day |-> o.day]
         /\ \/ o.kind = "DUE_SOON" /\ o.day \in Int /\ o.day < Due
            \/ o.kind = "OVERDUE" /\ o.day \in Int /\ o.day > Due
         /\ AtNine(o.day) <= half
<1>1. o \in Past
  <2>1. LatestReminderSelected
    BY LatestIsSelected
  <2> QED BY <2>1 DEF LatestReminderSelected, Past
<1>2. AtNine(o.day) <= half
  BY <1>1 DEF Past
<1>3. CASE o = [kind |-> "DUE_SOON", day |-> Due - schedule.soon]
  BY <1>1, <1>2, <1>3, ScheduleFacts
<1>4. CASE \E k \in Nat : o = [kind |-> "OVERDUE", day |-> Due + 1 + k * schedule.repeat]
  <2>1. PICK k \in Nat : o = [kind |-> "OVERDUE", day |-> Due + 1 + k * schedule.repeat]
    BY <1>4
  <2> PICK n : n = k * schedule.repeat
    OBVIOUS
  <2>2. n \in Nat
    BY ScheduleFacts
  <2>3. o = [kind |-> "OVERDUE", day |-> Due + 1 + n]
    BY <2>1
  <2> QED BY <1>1, <1>2, <2>2, <2>3, ScheduleFacts
<1> QED BY <1>1, <1>3, <1>4, PastInstants

LEMMA RemindersInitInv == RemindersInit => RemindersInv
<1> SUFFICES ASSUME RemindersInit PROVE RemindersInv
  OBVIOUS
<1>1. ReminderTypes
  BY RemindersAssumption DEF RemindersInit, ReminderTypes, Schedules
<1>2. DOMAIN reminders = {} /\ runs = {}
  BY DEF RemindersInit
<1> QED BY <1>1, <1>2 DEF RemindersInv, Dated, RunsAreReminders, NoneTwice

LEMMA ProcessStatementInv ==
  ASSUME RemindersInv, ProcessStatement
  PROVE  RemindersInv'
<1> PICK o : o = ReminderOccurrence(schedule)
  OBVIOUS
<1> PICK row : row = [kind |-> o.kind, day |-> o.day, at |-> half]
  OBVIOUS
<1>1. /\ ReminderTypes /\ Dated /\ RunsAreReminders /\ NoneTwice
      /\ o # Nothing /\ ~AlreadyCreated(o)
      /\ runs' = runs \cup {o} /\ reminders' = Append(reminders, row)
      /\ half' = half /\ schedule' = schedule /\ skew' = skew
  BY DEF RemindersInv, ProcessStatement
<1>2. /\ o = [kind |-> o.kind, day |-> o.day]
      /\ \/ o.kind = "DUE_SOON" /\ o.day \in Int /\ o.day < Due
         \/ o.kind = "OVERDUE" /\ o.day \in Int /\ o.day > Due
      /\ AtNine(o.day) <= half
  BY <1>1, OccurrenceDated
<1>3. row \in ReminderRow /\ row.kind = o.kind /\ row.day = o.day /\ row.at = half
  BY <1>1, <1>2, ScheduleFacts DEF ReminderRow
<1> PICK n : n = Len(reminders)
  OBVIOUS
<1>4. /\ reminders \in Seq(ReminderRow) /\ reminders' \in Seq(ReminderRow)
      /\ n \in Nat /\ DOMAIN reminders = 1 .. n /\ DOMAIN reminders' = 1 .. n + 1
      /\ \A i \in 1 .. n : reminders'[i] = reminders[i]
      /\ reminders'[n + 1] = row
  BY <1>1, <1>3 DEF ReminderTypes
<1>5. \A i \in 1 .. n : reminders[i] \in ReminderRow
  BY <1>4
<1>6. ReminderTypes'
  BY <1>1, <1>4 DEF ReminderTypes
<1>7. Dated'
  BY <1>1, <1>2, <1>3, <1>4 DEF Dated
<1>8. RunsAreReminders'
  <2> DEFINE run(rs, i) == [kind |-> rs[i].kind, day |-> rs[i].day]
  <2>1. run(reminders', n + 1) = o
    BY <1>2, <1>3, <1>4
  <2>2. \A i \in 1 .. n : run(reminders', i) = run(reminders, i)
    BY <1>4
  <2>3. runs = {run(reminders, i) : i \in 1 .. n}
    BY <1>1, <1>4 DEF RunsAreReminders
  <2> HIDE DEF run
  <2>4. runs' = {run(reminders', i) : i \in 1 .. n + 1}
    BY <1>1, <1>4, <2>1, <2>2, <2>3
  <2> QED BY <1>4, <2>4 DEF RunsAreReminders, run
<1>9. \A i \in 1 .. n :
        /\ ~(row.kind = "DUE_SOON" /\ reminders[i].kind = "DUE_SOON")
        /\ row.day # reminders[i].day
  <2> SUFFICES ASSUME NEW i \in 1 .. n
               PROVE  /\ ~(row.kind = "DUE_SOON" /\ reminders[i].kind = "DUE_SOON")
                      /\ row.day # reminders[i].day
    OBVIOUS
  <2> PICK r : r = [kind |-> reminders[i].kind, day |-> reminders[i].day]
    OBVIOUS
  <2>1. r \in runs /\ reminders[i].kind \in {"DUE_SOON", "OVERDUE"} /\ reminders[i].day \in Int
    BY <1>1, <1>4, <1>5 DEF RunsAreReminders, ReminderRow
  <2>2. IF reminders[i].kind = "DUE_SOON" THEN reminders[i].day < Due ELSE reminders[i].day > Due
    BY <1>1, <1>4 DEF Dated
  <2>3. CASE o.kind = "DUE_SOON"
    <3>1. reminders[i].kind # "DUE_SOON"
      BY <1>1, <2>1, <2>3 DEF AlreadyCreated
    <3> QED BY <1>2, <1>3, <2>1, <2>2, <2>3, <3>1, ScheduleFacts, <1>1
  <2>4. CASE o.kind # "DUE_SOON"
    <3>1. o \notin runs
      BY <1>1, <2>4 DEF AlreadyCreated
    <3>2. r # o
      BY <2>1, <3>1
    <3>3. o.kind = "OVERDUE" /\ o.day > Due
      BY <1>2, <2>4
    <3>4. CASE reminders[i].kind = "DUE_SOON"
      BY <1>2, <1>3, <2>1, <2>2, <2>4, <3>3, <3>4, ScheduleFacts, <1>1
    <3>5. CASE reminders[i].kind = "OVERDUE"
      <4>1. r = [kind |-> "OVERDUE", day |-> reminders[i].day]
        BY <3>5
      <4> QED BY <1>2, <1>3, <3>2, <3>3, <4>1
    <3> QED BY <2>1, <3>4, <3>5
  <2> QED BY <2>3, <2>4
<1>10. NoneTwice'
  <2> SUFFICES ASSUME NEW i \in 1 .. n + 1, NEW j \in 1 .. n + 1, i # j
               PROVE  /\ reminders'[i].kind = "DUE_SOON" => reminders'[j].kind = "OVERDUE"
                      /\ reminders'[i].day # reminders'[j].day
    BY <1>4 DEF NoneTwice
  <2>1. CASE i # n + 1 /\ j # n + 1
    BY <1>1, <1>4, <2>1 DEF NoneTwice
  <2>2. CASE i = n + 1
    <3>1. j \in 1 .. n
      BY <1>4, <2>2
    <3>2. reminders[j].kind \in {"DUE_SOON", "OVERDUE"}
      BY <1>5, <3>1 DEF ReminderRow
    <3> QED BY <1>4, <1>9, <2>2, <3>1, <3>2
  <2>3. CASE j = n + 1
    <3>1. i \in 1 .. n
      BY <1>4, <2>3
    <3>2. row.kind \in {"DUE_SOON", "OVERDUE"}
      BY <1>3 DEF ReminderRow
    <3> QED BY <1>4, <1>9, <2>3, <3>1, <3>2
  <2> QED BY <2>1, <2>2, <2>3
<1> QED BY <1>6, <1>7, <1>8, <1>10 DEF RemindersInv

LEMMA RemindersStepInv == RemindersInv /\ [RemindersNext]_reminderVars => RemindersInv'
<1> SUFFICES ASSUME RemindersInv, [RemindersNext]_reminderVars PROVE RemindersInv'
  OBVIOUS
<1>0. ASSUME UNCHANGED <<runs, reminders>>, ReminderTypes'
      PROVE  RemindersInv'
  BY <1>0 DEF RemindersInv, Dated, RunsAreReminders, NoneTwice
<1>t. ReminderTypes
  BY DEF RemindersInv
<1>1. CASE ProcessStatement
  BY <1>1, ProcessStatementInv
<1>2. CASE \E s \in [soon : SoonDays, repeat : RepeatDays] : UpdateSchedule(s)
  BY <1>0, <1>t, <1>2 DEF UpdateSchedule, ReminderTypes, Schedules
<1>3. CASE SetOutstanding
  BY <1>0, <1>t, <1>3 DEF SetOutstanding, ReminderTypes
<1>4. CASE SetWanted
  BY <1>0, <1>t, <1>4 DEF SetWanted, ReminderTypes
<1>5. CASE HalfDay
  <2>1. half' \in 0 .. MaxHalf
    BY <1>t, <1>5, ScheduleFacts DEF HalfDay
  <2> QED BY <1>0, <1>t, <1>5, <2>1 DEF HalfDay, ReminderTypes
<1>6. CASE UNCHANGED reminderVars
  BY <1>0, <1>t, <1>6 DEF reminderVars, ReminderTypes
<1> QED BY <1>1, <1>2, <1>3, <1>4, <1>5, <1>6 DEF RemindersNext

LEMMA RemindersInvSuffices == RemindersInv => RemindersFollowCalendar
<1> SUFFICES ASSUME RemindersInv PROVE RemindersFollowCalendar
  OBVIOUS
<1>1. LatestReminderSelected
  BY LatestIsSelected DEF RemindersInv
<1> QED BY <1>1 DEF RemindersInv, Dated, NoneTwice, RemindersFollowCalendar

\* However long the worker was down and whatever members and administrators
\* change: the last reminder that fell due is the one selected, none is sent
\* twice or before its hour (reminderOccurrence, processStatement).
THEOREM RemindersFollowTheCalendar == RemindersSpec => []RemindersFollowCalendar
<1>1. RemindersSpec => []RemindersInv
  BY RemindersInitInv, RemindersStepInv, PTL DEF RemindersSpec
<1> QED BY <1>1, RemindersInvSuffices, PTL
=============================================================================
