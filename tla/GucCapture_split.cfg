CONSTANTS
    Engines <- MCEngines
    NumRegs <- MCNumRegs
    DepGroups <- MCDepGroups
    MaxGroups = 2
    AllocMayFail = FALSE
    UnknownRecords = TRUE
SPECIFICATION Spec
INVARIANT NodePerResetEngine
