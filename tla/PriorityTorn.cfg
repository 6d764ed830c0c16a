CONSTANTS
    None = None
    Prios <- RulePrios
    RtPrios = {99}
    Nices = {0}
SPECIFICATION Spec
INVARIANT BaselineAlwaysRestorable
CHECK_DEADLOCK FALSE
