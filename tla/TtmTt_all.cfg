\* A two-page bo, with or without a persistent swap file, created through
\* any of the three init functions, with every allocation and shmem page
\* read allowed to fail.
CONSTANTS
    NumPages = 2
    MaxWrites = 3
    Inits = {"tt", "dma", "sg"}
    MayFail = TRUE
SPECIFICATION Spec
INVARIANTS
    TypeOK
    ContentRecoverable
    NoLeak
    PersistentSwapKept
