\* One user with one commit; drm_atomic_state_alloc may fail in the entry
\* work.
CONSTANTS
    Users = {u1}
    MaxCommits = 1
    MayFail = TRUE
SPECIFICATION Spec
INVARIANT NoEntryWorkOops
