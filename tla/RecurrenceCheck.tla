-------------------------- MODULE RecurrenceCheck ---------------------------
(***************************************************************************)
(* Series and windows for the recurrence arithmetic, and the definitions   *)
(* it is checked against: a scan of every day and of every minute.         *)
(***************************************************************************)
EXTENDS Recurrence

CONSTANTS
  Queries,     \* first days of series, their rules and the windows asked for
  Locations,   \* time zones
  Walls        \* local minutes

VARIABLES
  seek,        \* the anchor, the rule and the window asked for
  clock        \* the location and the wall time to resolve

recurrenceVars == <<seek, clock>>

NoSeek == [anchor |-> 0]
NoClock == [wall |-> 0]

RecurrenceInit == seek = NoSeek /\ clock = NoClock

Seek(query) ==
  /\ NormalizeRecurrence(query.rule, query.anchor)
  /\ seek' = query
  /\ UNCHANGED clock

Resolve(location, wall) ==
  /\ clock' = [location |-> location, wall |-> wall]
  /\ UNCHANGED seek

RecurrenceNext ==
  /\ seek = NoSeek /\ clock = NoClock
  /\ \/ \E query \in Queries : Seek(query)
     \/ \E location \in Locations, wall \in Walls : Resolve(location, wall)

(***************************************************************************)
(* Reference.                                                              *)
(***************************************************************************)
\* Whether a rule that begins on anchor falls on a day.
RecurrenceDateMatches(anchor, rule, day) ==
  LET a == Civil(anchor)
      c == Civil(day)
      months == (c.year - a.year) * 12 + c.month - a.month
      weeks == (day - Weekday(day) - (anchor - Weekday(anchor))) \div 7
  IN  CASE rule.frequency = "DAILY" -> (day - anchor) % rule.interval = 0
        [] rule.frequency = "WEEKLY" -> weeks % rule.interval = 0 /\ Weekday(day) \in rule.weekdays
        [] rule.frequency = "MONTHLY" ->
             /\ months % rule.interval = 0
             /\ CASE rule.mode = "LAST_DAY" -> c.day = DaysInMonth(c.year, c.month)
                  [] rule.mode = "NTH_WEEKDAY" ->
                       Weekday(day) = Weekday(anchor) /\ (c.day - 1) \div 7 = (a.day - 1) \div 7
                  [] OTHER -> c.day = a.day
        [] OTHER -> /\ (c.year - a.year) % rule.interval = 0
                    /\ c.month = a.month /\ c.day = a.day

Scanned(s) ==
  LET days == {d \in s.anchor .. s.to : RecurrenceDateMatches(s.anchor, s.rule, d)}
      Index(d) == Cardinality({e \in days : e < d})
  IN  {[date |-> d, index |-> Index(d)] :
         d \in {d \in days : d >= s.from /\ Allowed(s.rule, Index(d), d)}}

\* Seeking to a window finds what a scan of all days since the anchor finds
\* there, with the same ordinals (the ordinals identify occurrences durably),
\* and a wall time is resolved to its first instant, or to the first instant
\* of the next wall time that exists (daylight-saving overlaps and gaps).
CalendarMatchesReference ==
  /\ seek # NoSeek =>
       RecurrenceOccurrenceDatesBetween(seek.anchor, seek.rule, seek.from, seek.to) = Scanned(seek)
  /\ clock # NoClock =>
       LET instants == clock.wall - 960 .. clock.wall + 960
           shown == {Local(clock.location, i) : i \in instants}
           wall == Min({w \in shown : w >= clock.wall})
       IN  ResolveLocalTime(clock.location, clock.wall)
             = Min({i \in instants : Local(clock.location, i) = wall})
=============================================================================
