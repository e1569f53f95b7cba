\* A stream without a context filter; the OA unit overflows but never
\* raises REPORT_LOST.
CONSTANTS
    N = 4
    MaxReports = 4
    Ctxs = {A}
    NoCtx = NoCtx
    Specific = NoCtx
    SwReasons = {FALSE}
    Count = 3
    StatusSize = 1
    SampleSize = 2
    LostReports = FALSE
    Gens = {8}
SPECIFICATION Spec
INVARIANT
    OaUnitOffWhileDisabled
