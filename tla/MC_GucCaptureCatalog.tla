------------------------- MODULE MC_GucCaptureCatalog -------------------------
(* GucCaptureCatalog for TLC: three engines of three classes.              *)
EXTENDS GucCaptureCatalog, TLC

CONSTANTS rcs0, vcs0, ccs0

MCEngines == {rcs0, vcs0, ccs0}
MCEngineClass == (rcs0 :> RENDER) @@ (vcs0 :> VIDEO) @@ (ccs0 :> COMPUTE)
MCClasses == {RENDER, VIDEO, COMPUTE}

====
