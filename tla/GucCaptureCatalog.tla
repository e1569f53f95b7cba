--------------------------- MODULE GucCaptureCatalog ---------------------------
(***************************************************************************)
(* The register-list side of intel_guc_capture.c: the static tables and   *)
(* the steered extension list chosen at intel_guc_capture_init, the ADS   *)
(* cache that getlist and getlistsize answer from, the cached null header, *)
(* the output size estimate, and intel_guc_capture_destroy.               *)
(*                                                                         *)
(* The ADS code that calls getlist and getlistsize (intel_guc_ads.c) and  *)
(* the GuC log code that calls the estimate are not in this repository:   *)
(* they are reduced to calls in any order while the capture context is    *)
(* live. A register descriptor is named by where it comes from: <<"s", i>> *)
(* is entry i of the static list, <<"x", j>> entry j of the steered list.  *)
(***************************************************************************)
EXTENDS Naturals, Sequences, FiniteSetsExt

CONSTANTS
    Platforms,      \* subset of {"gen9", "xe_lpd", "xehpsdv", "dg2"}
    NumDss,         \* iterations of for_each_instdone_slice_subslice
    Classes,        \* GuC engine classes the ADS asks lists for
    Engines,        \* the engines for_each_engine visits
    EngineClass,    \* engine -> its class
    AllocMayFail    \* kzalloc / kcalloc may return NULL

\* enum guc_capture_owner, enum guc_capture_type, GuC engine classes
PF == 0
TYPE_GLOBAL   == 0
TYPE_CLASS    == 1
TYPE_INSTANCE == 2
RENDER == 0
VIDEO == 1
VIDEOENHANCE == 2
BLITTER == 3
COMPUTE == 4

ENODEV == -19
ENODATA == -61
ENOMEM == -12

\* Sizes in bytes: guc_debug_capture_list (a packed u32 header), and from
\* intel_guc_fwif.h, which is not here, guc_mmio_reg (four u32),
\* guc_state_capture_group_header_t (two u32) and guc_state_capture_header_t
\* (five u32).
PAGE_SIZE == 4096
SZ_LIST_HDR == 4
SZ_MMIO_REG == 16
SZ_GROUP_HDR == 8
SZ_DATA_HDR == 20
GUC_CAPTURE_OVERBUFFER_MULTIPLIER == 3

PAGE_ALIGN(n) == ((n + PAGE_SIZE - 1) \div PAGE_SIZE) * PAGE_SIZE

\* The cache slots the ADS fills: the global list under class 0, and the
\* class and instance lists of every class.
Keys == {<<PF, TYPE_GLOBAL, RENDER>>} \cup
        {<<PF, t, c>> : t \in {TYPE_CLASS, TYPE_INSTANCE}, c \in Classes}

NoList == -1

\* guc_capture_get_one_list over the table guc_capture_get_device_reglist
\* returns (xe_lpd_lists for GRAPHICS_VER > 11, default_lists before): the
\* ARRAY_SIZE of the list matched, or NoList. A global list matches any
\* class; empty_regs_list has no entries; compute has no list.
StaticRegs(p, k) ==
    LET xe == p # "gen9"
        t == k[2]
        c == k[3]
    IN  CASE k[1] # PF -> NoList
          [] t = TYPE_GLOBAL -> IF xe THEN 11 ELSE 6
          [] t = TYPE_INSTANCE /\ c \in {RENDER, VIDEO, VIDEOENHANCE, BLITTER} -> 32
          [] t = TYPE_CLASS /\ c = RENDER -> IF xe THEN 4 ELSE 2
          [] t = TYPE_CLASS /\ c = VIDEOENHANCE -> IF xe THEN 4 ELSE 0
          [] t = TYPE_CLASS /\ c \in {VIDEO, BLITTER} -> 0
          [] OTHER -> NoList

\* Steered registers per slice/subslice: xe_extregs, plus xehpg_extregs
\* from IP_VER(12, 55) (DG2); none before GRAPHICS_VER 12.
SteerRegs(p) ==
    CASE p = "gen9" -> 0
      [] p = "dg2" -> 3
      [] OTHER -> 2

\* The steered list belongs to the render class list of the PF.
RenderClassKey == <<PF, TYPE_CLASS, RENDER>>

VARIABLES
    plat,       \* the platform, fixed at probe
    capture,    \* guc->capture: "none", "live", "nomem" (init failed), "destroyed"
    extlists,   \* num_regs of extlists[0], 0 while extlists is NULL
    cache,      \* ads_cache[owner][type][class]
    nullCache,  \* ads_null_cache != NULL
    heap,       \* the module's allocations not yet freed
    ret         \* what the last call returned

vars == <<plat, capture, extlists, cache, nullCache, heap, ret>>

Invalid == [valid |-> FALSE, status |-> 0, size |-> 0, list |-> <<>>]

\* A call's result: its status, the size it reported and the list it
\* handed out (a cached list is the same buffer each time).
Ret(op, k, status, size, list) ==
    [op |-> op, key |-> k, status |-> status, size |-> size, list |-> list]

NoKey == <<PF, TYPE_GLOBAL, RENDER>>

\* An allocation: a cached list <<"list", k>>, or one of the context's own.
Obj(kind) == <<kind, NoKey>>

\* guc_capture_get_one_ext_list: the steered list matches only its own
\* owner, type and class.
ExtRegs(k) == IF k = RenderClassKey THEN extlists ELSE 0

\* guc_cap_list_num_regs
NumRegs(k) ==
    IF StaticRegs(plat, k) = NoList THEN 0 ELSE StaticRegs(plat, k) + ExtRegs(k)

(***************************************************************************)
(* intel_guc_capture_init                                                  *)
(***************************************************************************)
\* Mutant: __alloc_ext_regs failing returns without kfree(extlists).
AllocSteeredNoFree(p, h, groupsOk, regsOk) ==
    LET n == SteerRegs(p) * NumDss IN
    IF extlists # 0 \/ n = 0 \/ ~groupsOk THEN <<extlists, h>>
    ELSE IF ~regsOk THEN <<extlists, h \cup {Obj("extlists")}>>
    ELSE <<n, h \cup {Obj("extlists"), Obj("extarray")}>>

\* guc_capture_alloc_steered_lists_xe_lpd / _xe_hpg: skipped when
\* extlists is already set or no steered register exists; kcalloc of the
\* two groups or __alloc_ext_regs' kcalloc may fail, the second freeing the
\* first. The result is the new (extlists, heap).
AllocSteered(p, h, groupsOk, regsOk) ==
    LET n == SteerRegs(p) * NumDss IN
    IF extlists # 0 \/ n = 0 \/ ~groupsOk THEN <<extlists, h>>
    ELSE IF ~regsOk THEN <<extlists, h>>  \* kfree(extlists)
    ELSE <<n, h \cup {Obj("extlists"), Obj("extarray")}>>

Outcomes == IF AllocMayFail THEN BOOLEAN ELSE {TRUE}

\* guc_capture_get_device_reglist: on GRAPHICS_VER > 11 the steered list
\* of DG2 (IP 12.55), XEHPSDV (12.50) or Xe_LPD is allocated and
\* xe_lpd_lists returned; before, default_lists and nothing allocated.
guc_capture_get_device_reglist(p, h, groupsOk, regsOk) ==
    IF p = "gen9" THEN <<extlists, h>> ELSE AllocSteered(p, h, groupsOk, regsOk)

\* kzalloc of the context, then guc_capture_get_device_reglist, which
\* allocates the steered list on GRAPHICS_VER > 11.
intel_guc_capture_init ==
    /\ capture = "none"
    /\ \E ok, groupsOk, regsOk \in Outcomes :
         IF ~ok
           THEN /\ capture' = "nomem"
                /\ ret' = Ret("init", NoKey, ENOMEM, 0, <<>>)
                /\ UNCHANGED <<extlists, heap>>
           ELSE LET r == guc_capture_get_device_reglist(plat, {Obj("capture")}, groupsOk, regsOk) IN
                /\ capture' = "live"
                /\ extlists' = r[1]
                /\ heap' = r[2]
                /\ ret' = Ret("init", NoKey, 0, 0, <<>>)
    /\ UNCHANGED <<plat, cache, nullCache>>

(***************************************************************************)
(* intel_guc_capture_getlistsize and intel_guc_capture_getlist            *)
(***************************************************************************)
\* getlistsize's answer <<status, size>>: a valid cache slot is returned
\* as it is; otherwise -ENODATA for a missing or empty list (*size is left
\* alone, 0 here, and no caller reads it), else the page-aligned size of
\* the header and num_regs descriptors. reglists is never NULL once the
\* context is live, so -ENODEV does not arise.
GetListSize(k) ==
    IF cache[k].valid THEN <<cache[k].status, cache[k].size>>
    ELSE IF NumRegs(k) = 0 THEN <<ENODATA, 0>>
    ELSE <<0, PAGE_ALIGN(SZ_LIST_HDR + NumRegs(k) * SZ_MMIO_REG)>>

\* Mutant: the steered loop numbers its entries from j = 1.
ListInitExtFromOne(k, n) ==
    LET s == StaticRegs(plat, k)
        e == ExtRegs(k)
    IN  [i \in 1..n |-> IF i <= s THEN <<"s", i - 1>>
                        ELSE IF i <= s + e THEN <<"x", i - s>>
                        ELSE "zero"]

\* guc_capture_list_init into a zeroed buffer of n descriptors: the static
\* list's entries while i < n and i < match->num_regs, then, from
\* i = match->num_regs, the steered entries while i < n; the rest stays
\* zero.
ListInit(k, n) ==
    LET s == StaticRegs(plat, k)
        e == ExtRegs(k)
    IN  [i \in 1..n |-> IF i <= s THEN <<"s", i - 1>>
                        ELSE IF i <= s + e THEN <<"x", i - 1 - s>>
                        ELSE "zero"]

intel_guc_capture_getlistsize(k) ==
    /\ capture = "live"
    /\ ret' = Ret("size", k, GetListSize(k)[1], GetListSize(k)[2], <<>>)
    /\ UNCHANGED <<plat, capture, extlists, cache, nullCache, heap>>

\* Mutant: a kzalloc failure is cached like a lookup error.
GetListCachesNoMem(k) ==
    /\ capture = "live"
    /\ IF cache[k].valid
         THEN /\ ret' = Ret("list", k, cache[k].status, cache[k].size, cache[k].list)
              /\ UNCHANGED <<cache, heap>>
         ELSE LET r == GetListSize(k) IN
              \E ok \in Outcomes :
                LET st == IF r[1] # 0 THEN r[1] ELSE IF ok THEN 0 ELSE ENOMEM
                    l == IF st = 0 THEN ListInit(k, NumRegs(k)) ELSE <<>>
                IN  /\ cache' = [cache EXCEPT ![k] = [valid |-> TRUE, status |-> st,
                                                     size |-> IF st = 0 THEN r[2] ELSE 0,
                                                     list |-> l]]
                    /\ heap' = IF st = 0 THEN heap \cup {<<"list", k>>} ELSE heap
                    /\ ret' = Ret("list", k, st, IF st = 0 THEN r[2] ELSE 0, l)
    /\ UNCHANGED <<plat, capture, extlists, nullCache>>

\* A valid slot hands out the cached buffer and status. Otherwise an error
\* of getlistsize is cached for good, a kzalloc failure (-ENOMEM) is not,
\* and a list built by list_init is cached with its size.
intel_guc_capture_getlist(k) ==
    /\ capture = "live"
    /\ IF cache[k].valid
         THEN /\ ret' = Ret("list", k, cache[k].status, cache[k].size, cache[k].list)
              /\ UNCHANGED <<cache, heap>>
         ELSE LET r == GetListSize(k) IN
              IF r[1] # 0
                THEN /\ cache' = [cache EXCEPT ![k] = [valid |-> TRUE, status |-> r[1],
                                                      size |-> 0, list |-> <<>>]]
                     /\ ret' = Ret("list", k, r[1], 0, <<>>)
                     /\ UNCHANGED heap
                ELSE \E ok \in Outcomes :
                       IF ~ok
                         THEN /\ ret' = Ret("list", k, ENOMEM, 0, <<>>)
                              /\ UNCHANGED <<cache, heap>>
                         ELSE LET l == ListInit(k, NumRegs(k)) IN
                              /\ cache' = [cache EXCEPT ![k] = [valid |-> TRUE, status |-> 0,
                                                               size |-> r[2], list |-> l]]
                              /\ heap' = heap \cup {<<"list", k>>}
                              /\ ret' = Ret("list", k, 0, r[2], l)
    /\ UNCHANGED <<plat, capture, extlists, nullCache>>

\* intel_guc_capture_getnullheader: four zeroed u32, allocated once.
intel_guc_capture_getnullheader ==
    /\ capture = "live"
    /\ \/ /\ nullCache
          /\ ret' = Ret("null", NoKey, 0, 16, <<>>)
          /\ UNCHANGED <<nullCache, heap>>
       \/ /\ ~nullCache
          /\ \E ok \in Outcomes :
               IF ok THEN /\ nullCache' = TRUE
                         /\ heap' = heap \cup {Obj("null")}
                         /\ ret' = Ret("null", NoKey, 0, 16, <<>>)
                    ELSE /\ ret' = Ret("null", NoKey, ENOMEM, 0, <<>>)
                         /\ UNCHANGED <<nullCache, heap>>
    /\ UNCHANGED <<plat, capture, extlists, cache>>

(***************************************************************************)
(* intel_guc_capture_output_min_size_est                                   *)
(***************************************************************************)
\* The lists getlistsize is asked for on behalf of engine e: the global
\* list, and the class and instance lists of e's class.
EngineKeys(e) ==
    {<<PF, TYPE_GLOBAL, RENDER>>, <<PF, TYPE_CLASS, EngineClass[e]>>,
     <<PF, TYPE_INSTANCE, EngineClass[e]>>}

\* For every engine a group header and three data headers; num_regs sums
\* the byte size getlistsize reports for each list that succeeds, and is
\* then multiplied by the size of a register; the whole times three.
OutputMinSizeEst ==
    LET hdrs == Cardinality(Engines) * (SZ_GROUP_HDR + 3 * SZ_DATA_HDR)
        tmp(k) == IF GetListSize(k)[1] = 0 THEN GetListSize(k)[2] ELSE 0
        numRegs == MapThenSumSet(LAMBDA e : MapThenSumSet(tmp, EngineKeys(e)), Engines)
    IN  (hdrs + numRegs * SZ_MMIO_REG) * GUC_CAPTURE_OVERBUFFER_MULTIPLIER

\* -ENODEV without a capture context.
intel_guc_capture_output_min_size_est ==
    /\ ret' = IF capture = "live" THEN Ret("est", NoKey, 0, OutputMinSizeEst, <<>>)
                                  ELSE Ret("est", NoKey, ENODEV, 0, <<>>)
    /\ UNCHANGED <<plat, capture, extlists, cache, nullCache, heap>>

(***************************************************************************)
(* intel_guc_capture_destroy                                               *)
(***************************************************************************)
\* What destroy frees: guc_capture_free_ads_cache kfrees the buffer of
\* every valid slot (NULL for a cached error) and the null header;
\* guc_capture_free_extlists kfrees each group's extlist up to the end
\* marker; then extlists and the context are kfreed. The output nodes
\* (guc_capture_delete_nodes) are the node store of GucCapture.
DestroyFrees ==
    {<<"list", k>> : k \in {k2 \in Keys : cache[k2].valid}}
      \cup {Obj("null"), Obj("extlists"), Obj("capture")}
      \cup (IF extlists # 0 THEN {Obj("extarray")} ELSE {})

intel_guc_capture_destroy ==
    /\ capture = "live"
    /\ heap' = heap \ DestroyFrees
    /\ capture' = "destroyed"
    /\ ret' = Ret("destroy", NoKey, 0, 0, <<>>)
    /\ UNCHANGED <<plat, extlists, cache, nullCache>>

(***************************************************************************)
(* Specification                                                           *)
(***************************************************************************)
Init ==
    /\ plat \in Platforms
    /\ capture = "none"
    /\ extlists = 0
    /\ cache = [k \in Keys |-> Invalid]
    /\ nullCache = FALSE
    /\ heap = {}
    /\ ret = Ret("none", NoKey, 0, 0, <<>>)

Next ==
    \/ intel_guc_capture_init
    \/ \E k \in Keys : intel_guc_capture_getlistsize(k)
    \/ \E k \in Keys : intel_guc_capture_getlist(k)
    \/ intel_guc_capture_getnullheader
    \/ intel_guc_capture_output_min_size_est
    \/ intel_guc_capture_destroy

Spec == Init /\ [][Next]_vars

(***************************************************************************)
(* Properties                                                              *)
(***************************************************************************)
MaxExt == 3 * NumDss
Descr == ({"s"} \X (0..31)) \cup ({"x"} \X (0..MaxExt - 1)) \cup {"zero"}
Status == {0, ENODEV, ENODATA, ENOMEM}

TypeOK ==
    /\ plat \in Platforms
    /\ capture \in {"none", "live", "nomem", "destroyed"}
    /\ extlists \in 0..MaxExt
    /\ \A k \in Keys : cache[k].valid \in BOOLEAN /\ cache[k].status \in Status
                       /\ cache[k].list \in Seq(Descr)
    /\ nullCache \in BOOLEAN
    /\ ret.status \in Status /\ ret.list \in Seq(Descr)

\* The allocations that guc->capture still reaches.
Reachable ==
    {Obj("capture")}
      \cup (IF extlists # 0 THEN {Obj("extlists"), Obj("extarray")} ELSE {})
      \cup {<<"list", k>> : k \in {k2 \in Keys : cache[k2].valid /\ cache[k2].status = 0}}
      \cup (IF nullCache THEN {Obj("null")} ELSE {})

\* Nothing the capture code allocated is unreachable: while the context is
\* live every allocation hangs off it (the steered lists of
\* alloc_steered_lists' error path included), and once init failed or
\* intel_guc_capture_destroy ran nothing is left.
NoLeak ==
    /\ capture = "live" => heap = Reachable
    /\ capture \in {"nomem", "destroyed"} => heap = {}

Lists == INSTANCE GucCaptureLists
            WITH ext <- extlists,
                 ListRegs <- StaticRegs,
                 SteeredKey <- RenderClassKey,
                 SteeredRegs <- LAMBDA p : SteerRegs(p) * NumDss

\* The ADS cache is invisible to the callers of getlist, getlistsize and
\* the size estimate: every answer is the one the tables give (an error
\* cached by getlist included), the list handed out is the static list
\* followed by the steered one, only -ENOMEM is transient, and the estimate
\* covers a burst of full dumps of every engine.
CatalogRefinement == Lists!ASpec

====
