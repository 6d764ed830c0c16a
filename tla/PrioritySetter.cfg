CONSTANTS
    None = None
    Prios <- RulePrios
    RtPrios = {99}
    Nices <- SystemNices
SPECIFICATION Spec
INVARIANTS TypeOK RestoreExactFair BaselineRestorable AppliedIsStable DriftIsNoticed
CHECK_DEADLOCK FALSE
