CONSTANTS
    Pids = {1, 2}
    Tids = {11, 21, 22}
    Owner <- OwnerOf
    Classes <- ClassesOf
    Rules <- RulesOf
    Budgets = {1, 2, 4}
    Capacity = 1
    Window = 2
    MaxTroubles = 1
SPECIFICATION Spec
INVARIANTS TaskGenuine
PROPERTIES CycleCovers Served Converges
