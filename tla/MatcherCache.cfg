CONSTANTS
    None = None Bad = Bad Inherited = Inherited Dead = "[dead]"
    CPU_SETSIZE = 8
    Language <- Found
    UnsafeNames = {"", "..", "a/b"}
    w1 = w1 w2 = w2
    Askers = {w1, w2}
    Files = {"early", "late", "plain"}
    Content <- Written
    Queries <- Asked
    kMaxProcessCacheEntriesPerBucket = 2
SYMMETRY AskerSymmetry
SPECIFICATION Spec
INVARIANTS TypeOK AnswerRight AnswerApplicable
