\* Every platform family, two slice/subslice pairs, allocations that fail,
\* and a render, a video and a compute engine: lists with and without
\* steered entries, an empty list and a missing one.
CONSTANTS
    rcs0 = rcs0
    vcs0 = vcs0
    ccs0 = ccs0
    Platforms = {"gen9", "xe_lpd", "xehpsdv", "dg2"}
    NumDss = 2
    Classes <- MCClasses
    Engines <- MCEngines
    EngineClass <- MCEngineClass
    AllocMayFail = TRUE
SPECIFICATION Spec
INVARIANT TypeOK
INVARIANT NoLeak
PROPERTY CatalogRefinement
