--------------------------- MODULE MC_GucCapture ---------------------------
(***************************************************************************)
(* Model of GucCapture for TLC.  Engines use the GuC class numbering      *)
(* (GUC_RENDER_CLASS 0, GUC_VIDEO_CLASS 1, GUC_COMPUTE_CLASS 4); ctx      *)
(* stands for the guc_id/lrca of the context running on the engine.       *)
(***************************************************************************)
EXTENDS GucCapture

RCS0 == [cls |-> 0, inst |-> 0, ctx |-> 1]
CCS0 == [cls |-> 4, inst |-> 0, ctx |-> 2]
VCS0 == [cls |-> 1, inst |-> 0, ctx |-> 3]
VCS1 == [cls |-> 1, inst |-> 1, ctx |-> 4]

MCEngines == {RCS0, CCS0, VCS0, VCS1}

\* guc_cap_list_num_regs over xe_lpd_lists, a non-empty list counted as 1:
\* the render and video-enhance class lists are non-empty, the video and
\* blitter class lists are empty_regs_list, and compute has no list at all
\* (GuC was given the null header for it).
MCNumRegs(t, c) ==
    CASE t = TYPE_GLOBAL   -> 1
      [] t = TYPE_CLASS    -> IF c \in {0, 2} THEN 1 ELSE 0
      [] t = TYPE_INSTANCE -> IF c \in {0, 1, 2, 3} THEN 1 ELSE 0

\* Engines reset together share a reset domain: render with compute, or
\* engines of one class.
MCDepGroups == {<<RCS0>>, <<CCS0>>, <<VCS0>>, <<RCS0, CCS0>>, <<CCS0, RCS0>>,
                <<VCS0, VCS1>>}
=============================================================================
