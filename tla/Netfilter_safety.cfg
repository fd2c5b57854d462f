CONSTANTS
    Families <- BothFamilies
    MayBreak = {"v4", "v6"}
    MaxUnhook = 3
    Interrupts = TRUE
    Contended = TRUE
    Prompt = FALSE
    MaxStarts = 3
SPECIFICATION Spec
INVARIANTS
    HookedChainsComplete
    RemoveLeavesNothing
    RunningMeansHooked
CHECK_DEADLOCK FALSE
