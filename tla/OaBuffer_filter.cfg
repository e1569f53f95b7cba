\* A stream filtering for context A among A and B, with context-switch
\* reports; the OA unit overflows and never raises REPORT_LOST.
CONSTANTS
    N = 4
    MaxReports = 4
    Ctxs = {A, B}
    NoCtx = NoCtx
    Specific = A
    SwReasons = {FALSE, TRUE}
    Count = 3
    StatusSize = 1
    SampleSize = 2
    LostReports = FALSE
    Gens = {8}
SPECIFICATION Spec
INVARIANT
    StreamFaithful
