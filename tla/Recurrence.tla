----------------------------- MODULE Recurrence -----------------------------
(***************************************************************************)
(* The recurrence arithmetic of planning series.  A date is the number of  *)
(* days since 1 January 1970.  A rule has a frequency, an interval, a set  *)
(* of weekday positions (Monday is 0), a monthly mode, and a count and a   *)
(* last day that are 0 when they do not apply.  The code seeks directly to *)
(* a window and numbers what it finds there without visiting what lies     *)
(* before.                                                                 *)
(***************************************************************************)
EXTENDS Integers, FiniteSets, FiniteSetsExt

(***************************************************************************)
(* The civil calendar.                                                     *)
(***************************************************************************)
CivilDayIndex(year, month, day) ==
  LET y   == IF month <= 2 THEN year - 1 ELSE year
      mp  == (month + 9) % 12
      doy == (153 * mp + 2) \div 5 + day - 1
      yoe == y % 400
  IN  (y \div 400) * 146097 + 365 * yoe + yoe \div 4 - yoe \div 100 + doy - 719468

\* By the era of 400 years, the year of the era, and its day and month
\* counted from March.
Civil(index) ==
  LET OfMonth(year, doy, mp) ==
        [year  |-> IF mp < 10 THEN year ELSE year + 1,
         month |-> IF mp < 10 THEN mp + 3 ELSE mp - 9,
         day   |-> doy - (153 * mp + 2) \div 5 + 1]
      OfDay(year, doy) == OfMonth(year, doy, (5 * doy + 2) \div 153)
      OfYear(era, yoe, doe) == OfDay(era * 400 + yoe, doe - (365 * yoe + yoe \div 4 - yoe \div 100))
      OfEra(era, doe) ==
        OfYear(era, (doe - doe \div 1460 + doe \div 36524 - doe \div 146096) \div 365, doe)
  IN  OfEra((index + 719468) \div 146097, (index + 719468) % 146097)

\* 1 January 1970 was a Thursday.
Weekday(index) == (index + 3) % 7

DaysInMonth(year, month) ==
  (IF month = 12 THEN CivilDayIndex(year + 1, 1, 1) ELSE CivilDayIndex(year, month + 1, 1))
    - CivilDayIndex(year, month, 1)

(***************************************************************************)
(* Rules a client may store for a series that begins on anchor.            *)
(***************************************************************************)
NormalizeRecurrence(rule, anchor) ==
  LET a == Civil(anchor)
  IN  /\ rule.interval \in 1 .. 99
      /\ CASE rule.frequency \in {"DAILY", "YEARLY"} -> TRUE
           [] rule.frequency = "WEEKLY" -> Weekday(anchor) \in rule.weekdays
           [] rule.frequency = "MONTHLY" ->
                rule.mode = "LAST_DAY" => a.day = DaysInMonth(a.year, a.month)
      /\ rule.count # 0 => rule.until = 0 /\ rule.count \in 2 .. 500
      /\ rule.until # 0 => rule.until >= anchor

(***************************************************************************)
(* The window: dates with their zero-based ordinals.                       *)
(***************************************************************************)
Allowed(rule, index, date) ==
  /\ rule.count = 0 \/ index < rule.count
  /\ rule.until = 0 \/ date <= rule.until

CeilDivision(value, divisor) ==
  IF value <= 0 THEN 0 ELSE (value + divisor - 1) \div divisor

DailyBetween(anchor, rule, from, to) ==
  LET first == CeilDivision(from - anchor, rule.interval)
  IN  {[date |-> anchor + i * rule.interval, index |-> i] :
         i \in {i \in first .. first + (to - from) :
                  /\ anchor + i * rule.interval <= to
                  /\ Allowed(rule, i, anchor + i * rule.interval)}}

\* Whole weeks are skipped; the first week may have lost the selected days
\* before the anchor, every later one has them all.
WeeklyBetween(anchor, rule, from, to) ==
  LET anchorMonday   == anchor - Weekday(anchor)
      fromMonday     == from - Weekday(from)
      weeks          == (fromMonday - anchorMonday) \div 7
      first          == IF weeks > 0 THEN weeks \div rule.interval ELSE 0
      firstWeekCount == Cardinality({p \in rule.weekdays : p >= Weekday(anchor)})
      selected       == Cardinality(rule.weekdays)
      Rank(p)        == Cardinality({q \in rule.weekdays : q < p})
      Date(b, p)     == anchorMonday + b * rule.interval * 7 + p
      Index(b, p)    == IF b = 0 THEN Rank(p) - (selected - firstWeekCount)
                        ELSE firstWeekCount + (b - 1) * selected + Rank(p)
      visited        == {<<b, p>> \in (first .. first + (to - from) \div 7 + 1) \X rule.weekdays :
                           Date(b, p) >= from /\ Date(b, p) >= anchor /\ Date(b, p) <= to}
  IN  {[date |-> Date(v[1], v[2]), index |-> Index(v[1], v[2])] :
         v \in {v \in visited : Allowed(rule, Index(v[1], v[2]), Date(v[1], v[2]))}}

(***************************************************************************)
(* Monthly and yearly rules count units, some of which lack the date.      *)
(***************************************************************************)
RecurrenceCadenceAtOrBefore(anchor, target, rule) ==
  LET a == Civil(anchor)
      t == Civil(target)
      units == IF rule.frequency = "MONTHLY" THEN (t.year - a.year) * 12 + t.month - a.month
               ELSE t.year - a.year
  IN  IF units <= 0 THEN 0 ELSE units \div rule.interval

MonthStart(anchor, rule, cadence) ==
  LET a == Civil(anchor)
      month == a.month - 1 + cadence * rule.interval
  IN  [year |-> a.year + month \div 12, month |-> (month % 12) + 1]

\* The date of a unit; one that does not exist is not valid.
RecurrenceUnitCandidate(anchor, rule, cadence) ==
  LET a     == Civil(anchor)
      unit  == IF rule.frequency = "MONTHLY" THEN MonthStart(anchor, rule, cadence)
               ELSE [year |-> a.year + cadence * rule.interval, month |-> a.month]
      days  == DaysInMonth(unit.year, unit.month)
      first == CivilDayIndex(unit.year, unit.month, 1)
      day   == CASE rule.frequency = "MONTHLY" /\ rule.mode = "LAST_DAY" -> days
                 [] rule.frequency = "MONTHLY" /\ rule.mode = "NTH_WEEKDAY" ->
                      1 + ((Weekday(anchor) - Weekday(first) + 7) % 7) + ((a.day - 1) \div 7) * 7
                 [] OTHER -> a.day
  IN  [valid |-> day <= days, date |-> first + day - 1]

RecurrenceUnitAfter(anchor, to, rule, cadence) ==
  IF rule.frequency = "MONTHLY"
  THEN LET m == MonthStart(anchor, rule, cadence) IN CivilDayIndex(m.year, m.month, 1) > to
  ELSE Civil(anchor).year + cadence * rule.interval > Civil(to).year

RecurrenceUnitAlwaysValid(anchor, rule) ==
  LET a == Civil(anchor)
  IN  CASE rule.frequency = "YEARLY" -> a.month # 2 \/ a.day # 29
        [] rule.mode = "LAST_DAY" -> TRUE
        [] rule.mode = "NTH_WEEKDAY" -> (a.day - 1) \div 7 + 1 <= 4
        [] OTHER -> a.day <= 28

\* The calendar repeats after 400 years, that is after this many units.
RecurrenceUnitPeriod(rule) ==
  LET base == IF rule.frequency = "YEARLY" THEN 400 ELSE 4800
  IN  base \div Max({d \in 1 .. rule.interval : base % d = 0 /\ rule.interval % d = 0})

ValidUnits(anchor, rule, n) ==
  Cardinality({i \in 0 .. n - 1 : RecurrenceUnitCandidate(anchor, rule, i).valid})

\* Mutant of ValidRecurrenceUnitsBefore: the dates a unit lacks are counted.
CadencesBefore(anchor, rule, cadence) == cadence

ValidRecurrenceUnitsBefore(anchor, rule, cadence) ==
  LET period == RecurrenceUnitPeriod(rule)
  IN  IF RecurrenceUnitAlwaysValid(anchor, rule) THEN cadence
      ELSE (IF cadence < period THEN 0
            ELSE (cadence \div period) * ValidUnits(anchor, rule, period))
             + ValidUnits(anchor, rule, cadence % period)

UnitsBetween(anchor, rule, from, to) ==
  LET first   == RecurrenceCadenceAtOrBefore(anchor, from, rule)
      last    == first + (to - from) \div 28 + 2
      Unit    == [c \in first .. last |-> RecurrenceUnitCandidate(anchor, rule, c)]
      Index   == [c \in first .. last |-> ValidRecurrenceUnitsBefore(anchor, rule, c)]
      Stops(c) == IF Unit[c].valid
                  THEN \/ Unit[c].date > to
                       \/ Unit[c].date >= from /\ ~Allowed(rule, Index[c], Unit[c].date)
                  ELSE RecurrenceUnitAfter(anchor, to, rule, c)
      visited == {c \in first .. last : \A b \in first .. c : ~Stops(b)}
  IN  {[date |-> Unit[c].date, index |-> Index[c]] :
         c \in {c \in visited : Unit[c].valid /\ Unit[c].date >= from}}

RecurrenceOccurrenceDatesBetween(anchor, rule, fromCivil, to) ==
  LET from == Max({fromCivil, anchor})
  IN  IF to < from \/ (rule.until # 0 /\ from > rule.until) THEN {}
      ELSE CASE rule.frequency = "DAILY"  -> DailyBetween(anchor, rule, from, to)
             [] rule.frequency = "WEEKLY" -> WeeklyBetween(anchor, rule, from, to)
             [] OTHER                     -> UnitsBetween(anchor, rule, from, to)

(***************************************************************************)
(* Wall-clock times.  A location maps instants (minutes) to local minutes  *)
(* by its standard offset and the shifts that apply from some instant on.  *)
(***************************************************************************)
ZoneOffset(location, instant) ==
  LET begun == {s \in location.shifts : s.at <= instant}
  IN  IF begun = {} THEN location.standard
      ELSE (CHOOSE s \in begun : \A t \in begun : t.at <= s.at).offset

Local(location, instant) == instant + ZoneOffset(location, instant)

\* Offsets seen every three hours around local noon of the wall time's day.
LocalOffsetsAroundDate(location, wall) ==
  LET noon   == (wall \div 1440) * 1440 + 720
      center == noon - ZoneOffset(location, noon - location.standard)
  IN  {ZoneOffset(location, center + 180 * h) : h \in -12 .. 12}

EarliestMatchingLocal(location, wall, offsets) ==
  {i \in {wall - o : o \in offsets} : Local(location, i) = wall}

\* The first instant of an ambiguous time; in a gap, the next valid time.
ResolveLocalTime(location, wall) ==
  LET offsets == LocalOffsetsAroundDate(location, wall)
      valid   == {d \in 0 .. 180 : EarliestMatchingLocal(location, wall + d, offsets) # {}}
  IN  Min(EarliestMatchingLocal(location, wall + Min(valid), offsets))
=============================================================================
