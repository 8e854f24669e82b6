CONSTANTS
    Members = {m1, m2, m3}
    EventTypes = {"REGISTRATION"}
    Capacities = {0, 1, 2}
    MaxTime = 1
    MaxVersion = 2
    MaxPosition = 3
SPECIFICATION Spec
SYMMETRY Symmetry
INVARIANTS CapacityRespected WaitlistIsQueue ClosedLeavesNoFreePlace
PROPERTIES PromotedInOrder EditKeepsPromotions
