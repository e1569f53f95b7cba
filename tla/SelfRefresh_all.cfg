\* Two users with two commits each against the entry work, with every
\* allocation and the entry commit allowed to fail.
CONSTANTS
    Users = {u1, u2}
    MaxCommits = 2
    MayFail = TRUE
SPECIFICATION Spec
INVARIANTS
    TypeOK
    SelfRefreshHidden
    NoHiddenRejection
PROPERTIES
    EntersSelfRefresh
