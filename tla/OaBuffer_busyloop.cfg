\* A stream filtering for context A among A and B, without context-switch
\* reports or REPORT_LOST: a read meets reports of B only.
CONSTANTS
    N = 3
    MaxReports = 2
    Ctxs = {A, B}
    NoCtx = NoCtx
    Specific = A
    SwReasons = {FALSE}
    Count = 3
    StatusSize = 1
    SampleSize = 2
    LostReports = FALSE
    Gens = {8}
SPECIFICATION Spec
PROPERTY
    BlockingReadSleepsOrReturns
