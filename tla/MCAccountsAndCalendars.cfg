SPECIFICATION MCSpec
\* An input is complete when nothing is left to add to it, and a history when its bounds are used up.
CHECK_DEADLOCK FALSE
CONSTANTS
    Periods = {1, 2, 3}
    Charges <- MCCharges
    Receipts = {9, 10, 15}
    Deposits = {1, 4}
    MaxPayments = 2
    Queries <- MCQueries
    Locations <- MCLocations
    Walls <- MCWalls
    Due = 3
    SoonDays = {1, 2}
    RepeatDays = {0, 1, 2}
    Skews <- MCSkews
    Lookahead = 3
    MaxHalf = 15
    MaxSettings = 2
    Members = {"m1", "m2"}
    Rules <- MCSeriesRules
    TargetSets <- MCTargetSets
    Horizon = 1
    MaxDay = 2
    MaxSeq = 3
    MaxRevision = 3
    MaxTouches = 1
    Accounts = {a1, a2}
    Methods = {m1}
    Targets = {t1}
    PaymentIds = {p1}
    Amounts = {1}
    Views = {v1}
    MaxMinor = 1
    MaxTransactions = 3
    MaxVersion = 5
SYMMETRY Symmetry
INVARIANTS
    RebuildMatchesReference
    CalendarMatchesReference
    RemindersFollowCalendar
    OneNoticePerRevision
    ConfigurationConsistent
    MoneyConserved
    VersionIdentifiesConfiguration
PROPERTIES
    HistorySpared
