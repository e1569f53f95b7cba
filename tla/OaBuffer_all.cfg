\* Haswell and gen8+: a stream without a context filter on a 3-slot buffer;
\* the OA unit overflows and raises REPORT_LOST.
CONSTANTS
    N = 3
    MaxReports = 3
    Ctxs = {A}
    NoCtx = NoCtx
    Specific = NoCtx
    SwReasons = {FALSE}
    Count = 3
    StatusSize = 1
    SampleSize = 2
    LostReports = TRUE
    Gens = {7, 8}
SPECIFICATION Spec
INVARIANTS
    TypeOK
    ReadWindowLanded
    StreamFaithful
PROPERTIES
    BlockingReadSleepsOrReturns
    LossEventuallyReported
