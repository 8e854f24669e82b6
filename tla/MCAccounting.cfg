SPECIFICATION MCSpec
\* No command is pending for ever: with every member deleted and the bounds used up nothing is left to do.
CHECK_DEADLOCK FALSE
CONSTANTS
    m1 = m1
    m2 = m2
    g1 = g1
    Members <- MCMembers
    Guests <- MCGuests
    Prices = {2}
    PaymentAmounts = {1, 3}
    AssetAccounts = {"GROUP_CASH", "EXTERNAL_ACCOUNT"}
    ReceivedDates = {10, 15}
    PaymentIds = {1, 2}
    MaxTargets = 2
    MaxItems = 2
    MaxBookings = 2
    MaxPeriods = 3
INVARIANTS
    TypeOK
    LedgerMatchesDocuments
    AllocationsCurrent
    DebtsReconcile
    StatementsMatchLedger
PROPERTIES
    ClosedPeriodsFrozen
    ClosedDueRisesOnlyByCorrection
