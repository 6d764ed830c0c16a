CONSTANTS
    t1 = t1 t2 = t2 p1 = p1 p2 = p2 w1 = w1 w2 = w2
    Big = Big Lim = Lim Off = Off c1 = c1 c2 = c2
    Main = Main Partial = Partial None = None NoEntry = NoEntry
    Pids = {p1}
    Threads = {t1}
    PidOf <- OneProcess
    Workers = {w1}
    WorkerOf <- OneWorker
    Labels = {"fg"}
    Results = {Big, Lim, Off}
    Needs <- RuleNeeds
    Configs = {c1}
    Match <- RuleMatch
    CaptureMisses <- FewRead
    ReadFaults = {}
    Monitored = TRUE
    Scanning = FALSE
    Drifting = {}
    Requests = {}
    MaxStart = 1
    kShutdownRestoreAttempts = 2
SPECIFICATION Spec
INVARIANTS StrictCustody
CHECK_DEADLOCK FALSE
