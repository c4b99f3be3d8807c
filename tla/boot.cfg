SPECIFICATION Spec
CONSTANTS
    Images <- Floppies
    Geometry <- Drives
    BootDrive = 0
    MaxFaults = 4
    StrayIds = {0, 1, 77, 128, 129}
    Scancodes = {30, 31}
INVARIANTS
    Stage2Whole
    KernelWhole
    FailsForACause
    GivenUpAfterThree
    SafeProtectedMode
PROPERTIES
    BootEnds
