\* Two adders, one remover and two stream users, with every allocation and
\* interruptible lock allowed to fail.
CONSTANTS
    Adders = {a1, a2}
    Removers = {r1}
    Users = {u1, u2}
    Uuids = {U1, U2}
    MaxId = 3
    TestConfig = TestConfig
    None = None
    MayFail = TRUE
SPECIFICATION Spec
SYMMETRY Symmetry
\* Every thread makes one call; after i915_perf_fini nothing is left to run.
CHECK_DEADLOCK FALSE
INVARIANTS
    TypeOK
    RefCountExact
    StreamResourcesBalanced
