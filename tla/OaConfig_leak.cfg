\* One adder whose idr_alloc may fail (-ENOMEM) after the sysfs group was
\* created, and one remover that can run between the adder's mutex_unlock
\* and its return; one stream user opening a single-context stream.
CONSTANTS
    Adders = {a1}
    Removers = {r1}
    Users = {u1}
    Uuids = {U1}
    MaxId = 3
    TestConfig = TestConfig
    None = None
    MayFail = TRUE
SPECIFICATION Spec
\* Every thread makes one call; after i915_perf_fini nothing is left to run.
CHECK_DEADLOCK FALSE
INVARIANT NoRegsLeak
