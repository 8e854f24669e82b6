----------------------- MODULE MCAccountsAndCalendars -----------------------
(***************************************************************************)
(* Calendar and allocation algorithms, the two machines that follow a      *)
(* calendar and the external accounts, side by side: a behaviour exercises *)
(* one of them.                                                            *)
(***************************************************************************)
EXTENDS AllocationCheck, RecurrenceCheck, Reminders, PlanningSeries, ExternalAccounts, TLC

VARIABLE part

MCInit ==
  /\ part \in {"allocation", "recurrence", "reminders", "series", "audiences", "money", "views"}
  /\ AllocationInit /\ RecurrenceInit /\ RemindersInit /\ SeriesInit /\ Init
  /\ part = "reminders" \/ (schedule = [soon |-> 1, repeat |-> 0] /\ skew = 0)

\* Three revisions for one member; two revisions with two audiences.
SeriesStep ==
  /\ SeriesNext
  /\ IF part = "series" THEN "m2" \in active' /\ \A r \in DOMAIN series'.targets : series'.targets[r] = {"m1"}
     ELSE series'.revision <= 2

\* Money moves up to four times, and nobody looks; one view sees up to three
\* movements of one account or two of two.
CollectionStep ==
  /\ Next
  /\ IF part = "money" THEN UNCHANGED seen
     ELSE /\ Len(transactions') + Cardinality({a \in Accounts : Exists(a)'}) <= 4
          /\ UNCHANGED payments

calendarVars == <<recurrenceVars, reminderVars, seriesVars>>

MCNext ==
  /\ UNCHANGED part
  /\ \/ part = "allocation" /\ AllocationNext /\ UNCHANGED <<calendarVars, vars>>
     \/ part = "recurrence" /\ RecurrenceNext /\ UNCHANGED <<allocationVars, reminderVars, seriesVars, vars>>
     \/ part = "reminders" /\ RemindersNext /\ UNCHANGED <<allocationVars, recurrenceVars, seriesVars, vars>>
     \/ part \in {"series", "audiences"} /\ SeriesStep /\ UNCHANGED <<allocationVars, recurrenceVars, reminderVars, vars>>
     \/ part \in {"money", "views"} /\ CollectionStep /\ UNCHANGED <<allocationVars, calendarVars>>

MCSpec == MCInit /\ [][MCNext]_<<part, allocationVars, calendarVars, vars>>

\* Identifiers are random, so accounts and views are interchangeable.
Symmetry == Permutations(Accounts) \union Permutations(Views)

\* Corrections larger and smaller than a claim.
MCCharges == {-3, -1, 2, 3}

\* Series that begin on days not every month or year has, on a fifth
\* weekday and on a Monday; a window may begin at the anchor, in the middle
\* of a unit, or after the end.  The last queries lie a calendar cycle ahead.
Rule(f, i, w, m, c, u) ==
  [frequency |-> f, interval |-> i, weekdays |-> w, mode |-> m, count |-> c, until |-> u]
Query(anchor, rule, lead, span) ==
  [anchor |-> anchor, rule |-> rule, from |-> anchor + lead, to |-> anchor + lead + span]
MCAnchors ==
  {CivilDayIndex(2023, 1, 31), CivilDayIndex(2024, 2, 29), CivilDayIndex(2023, 11, 29), CivilDayIndex(2024, 1, 1)}
MCRules ==
  {Rule("DAILY", i, {}, "", c, u) : i \in {1, 3}, c \in {0, 4}, u \in {0, CivilDayIndex(2024, 3, 5)}}
    \cup {Rule("WEEKLY", i, w, "", c, 0) : i \in {1, 2}, w \in {{2}, {0, 2}, {1, 3, 6}}, c \in {0, 5}}
    \cup {Rule("MONTHLY", i, {}, m, c, 0) :
            i \in {1, 5}, m \in {"DAY_OF_MONTH", "NTH_WEEKDAY", "LAST_DAY"}, c \in {0, 3}}
    \cup {Rule("YEARLY", i, {}, "", c, 0) : i \in {1, 4}, c \in {0, 2}}
MCQueries ==
  {Query(a, r, l, s) : a \in MCAnchors, r \in MCRules, l \in {0, 1, 25, 800}, s \in {0, 40, 366}}
    \cup {Query(CivilDayIndex(2024, 2, 29), Rule("YEARLY", 80, {}, "", 0, 0), 146097, 366),
          Query(CivilDayIndex(2023, 1, 31), Rule("MONTHLY", 50, {}, "DAY_OF_MONTH", 0, 0), 146097, 3660)}

\* A zone with an hour of daylight saving and one with half an hour.
MCLocations ==
  {[standard |-> 60, shifts |-> {[at |-> 5000, offset |-> 120], [at |-> 9000, offset |-> 60]}],
   [standard |-> 630, shifts |-> {[at |-> 5000, offset |-> 660], [at |-> 9000, offset |-> 630]}]}
MCWalls == {w \in 4500 .. 9900 : w % 30 = 0}

MCSkews == {-1, 0, 1}

\* Series of two and of three daily occurrences.
MCSeriesRules == {[step |-> 1, count |-> 2], [step |-> 1, count |-> 3]}
MCTargetSets == {{"m1"}, {"m2"}}
=============================================================================
