CONSTANTS
    Members = {m1, m2}
    EventTypes = {"REGISTRATION"}
    Capacities = {0, 1}
    MaxTime = 1
    MaxVersion = 2
    MaxPosition = 2
SPECIFICATION Spec
SYMMETRY Symmetry
INVARIANT PromotionsStayCurrent
