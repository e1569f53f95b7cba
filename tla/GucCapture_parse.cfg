CONSTANTS
    Engines <- MCEngines
    NumRegs <- MCNumRegs
    DepGroups <- MCDepGroups
    MaxGroups = 2
    AllocMayFail = TRUE
    UnknownRecords = TRUE
SPECIFICATION Spec
INVARIANT TypeOK
INVARIANT InstanceDumpDeliveredOnce
INVARIANT GlobalDumpShared
PROPERTY GroupEventuallyConsumed
