CONSTANTS
    Configs = {"A", "B"}
    Groups = {"big", "mid", "A1"}
    Plan <- PlanOf
    Kind <- KindOfGroup
    Want <- WantOf
    Outputs <- Lists
    KindOf <- Packages
    Default = "com.miui.home"
    kTermPolls = 1
    Contents = {"A", "B", "bad", "off", "missing"}
    SameSecond = FALSE
    BootWrites = FALSE
    InitialDelay = 1
    MaxDelay = 2
    MaxWrites = 2
    MaxFaults = 2
SPECIFICATION Spec
INVARIANTS InForce ChildHandled
PROPERTIES InitAtomic NotHeldUp FileWins
CHECK_DEADLOCK FALSE
