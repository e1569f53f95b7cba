-------------------------------- MODULE TtmTt --------------------------------
(***************************************************************************)
(* The page array of one TTM buffer object (ttm_tt.c): creation with one  *)
(* of the three page-directory layouts, the caching state, populate (with *)
(* the swap-in of a swapped-out array), swap-out to a shmem or to the     *)
(* bo's persistent swap file, and destruction.                             *)
(*                                                                         *)
(* The caller is the buffer-object code, which holds the bo's reservation  *)
(* across every call, so calls do not interleave. The page pool that       *)
(* allocates and frees the pages (ttm_pool_populate / _unpopulate) is not  *)
(* in this repository and is reduced to its contract: it allocates all     *)
(* pages with the tt's caching state or none, calls ttm_tt_swapin for a    *)
(* swapped-out tt and frees the pages again when that fails. The          *)
(* page->mapping updates of add/clear_mapping are compiled only on Linux,  *)
(* so they are no-ops here.                                                *)
(*                                                                         *)
(* Page contents are versions: 0 is the content of a fresh page, and each  *)
(* write stores the next version, so a lost or stale page is visible.     *)
(***************************************************************************)
EXTENDS Naturals

CONSTANTS
    NumPages,    \* ttm->num_pages
    MaxWrites,   \* bound on the writes to the bo's pages
    Inits,       \* the init functions the driver's ttm_tt_create may use
    MayFail      \* whether allocations and shmem page reads may fail

Pages    == 1..NumPages
Versions == 0..MaxWrites
Fresh    == [p \in Pages |-> 0]
Cachings == {"cached", "wc", "uncached"}
BoTypes  == {"device", "kernel", "sg"}
Outcomes == IF MayFail THEN BOOLEAN ELSE {TRUE}
\* how far a page loop gets before shmem_read_mapping_page_gfp fails
\* (NumPages: it does not fail)
Progress == IF MayFail THEN 0..NumPages ELSE {NumPages}

VARIABLES
    tt,          \* bo->ttm: "none", "live", "destroyed"
    sg,          \* TTM_PAGE_FLAG_SG
    init,        \* the init the driver used: "tt", "dma", "sg"
    allocs,      \* live page-directory allocations: "pages", "joint", "dma"
    caching,     \* ttm->caching_state
    pageCaching, \* the caching the pool gave the populated pages
    populated,   \* ttm_tt_is_populated
    pages,       \* contents of the populated pages
    swapped,     \* TTM_PAGE_FLAG_SWAPPED
    persistFlag, \* TTM_PAGE_FLAG_PERSISTENT_SWAP
    storage,     \* ttm->swap_storage: "none", "shmem", "persistent"
    shmOpen,     \* a shmem swap file is open (not yet fput)
    shm,         \* contents of the shmem swap file
    persistent,  \* bo->persistent_swap_storage is set (fixed for the bo)
    pfile,       \* contents of the persistent swap file
    pfileRef,    \* the driver's reference to the persistent swap file is held
    data,        \* history: the bo's contents as last written
    writes       \* writes made so far

vars == <<tt, sg, init, allocs, caching, pageCaching, populated, pages,
          swapped, persistFlag, storage, shmOpen, shm, persistent, pfile, pfileRef,
          data, writes>>
swapVars == <<swapped, persistFlag, storage, shmOpen, shm, pfile, pfileRef>>

\* The contents the swap storage holds.
SwapContents == IF storage = "persistent" THEN pfile ELSE shm

(***************************************************************************)
(* ttm_tt_create and the three init functions                             *)
(***************************************************************************)
\* The allocation the page directory lives in: ttm_tt_alloc_page_directory
\* (pages), ttm_dma_tt_alloc_page_directory (pages and dma_address in one
\* block) or ttm_sg_tt_alloc_page_directory (dma_address only, for SG).
DirAlloc(how, isSg) ==
    CASE how = "tt"           -> "pages"
      [] how = "dma"          -> "joint"
      [] how = "sg" /\ isSg   -> "dma"
      [] how = "sg" /\ ~isSg  -> "joint"

\* page_flags from the bo type (DMA32, NO_RETRY and ZERO_ALLOC only change
\* allocation flags); the driver's ttm_tt_create allocates the tt and calls
\* an init, which sets the fields and allocates the directory. Either
\* allocation failing returns -ENOMEM with bo->ttm still NULL. A bo of
\* type sg is only created by drivers using ttm_sg_tt_init.
ttm_tt_create ==
    /\ tt = "none"
    /\ \E type \in BoTypes, how \in Inits, ok \in Outcomes :
         /\ type = "sg" => how = "sg"
         /\ IF ok
              THEN /\ tt' = "live"
                   /\ sg' = (type = "sg")
                   /\ init' = how
                   /\ allocs' = {DirAlloc(how, type = "sg")}
              ELSE UNCHANGED <<tt, sg, init, allocs>>
    /\ UNCHANGED <<caching, pageCaching, populated, pages, swapVars,
                   persistent, data, writes>>

(***************************************************************************)
(* ttm_tt_set_placement_caching / ttm_tt_set_caching                       *)
(***************************************************************************)
\* The same state returns 0 and a populated tt -EINVAL, both without a
\* change; otherwise the caching state is set.
ttm_tt_set_caching(c) ==
    /\ c # caching
    /\ ~populated
    /\ caching' = c

ttm_tt_set_placement_caching ==
    /\ tt = "live"
    /\ \E c \in Cachings : ttm_tt_set_caching(c)
    /\ UNCHANGED <<tt, sg, init, allocs, pageCaching, populated, pages,
                   swapVars, persistent, data, writes>>

(***************************************************************************)
(* ttm_tt_populate, with ttm_tt_swapin                                     *)
(***************************************************************************)
\* Mutant: the TTM_PAGE_FLAG_PERSISTENT_SWAP test before fput is dropped.
PutSwapStorageNoFlagCheck ==
    /\ shmOpen' = (shmOpen /\ storage # "shmem")
    /\ pfileRef' = (pfileRef /\ storage # "persistent")

\* fput(ttm->swap_storage) unless it is the bo's persistent swap file
\* (TTM_PAGE_FLAG_PERSISTENT_SWAP); nothing for a NULL swap_storage.
PutSwapStorage ==
    /\ shmOpen' = (shmOpen /\ (persistFlag \/ storage # "shmem"))
    /\ pfileRef' = (pfileRef /\ (persistFlag \/ storage # "persistent"))

\* ttm_tt_swapin copying pages 1..k before a shmem read fails (k <
\* NumPages, out_err with ret set) or all of them: on success the swap file
\* is fput unless it is the persistent one, swap_storage is cleared and
\* SWAPPED dropped, and the pool marks the tt populated. On failure the
\* pool frees the pages again and the tt stays swapped out.
ttm_tt_swapin(k) ==
    IF k < NumPages
      THEN UNCHANGED <<populated, pages, pageCaching, swapVars>>
      ELSE /\ populated' = TRUE
           /\ pageCaching' = caching
           /\ pages' = SwapContents
           /\ PutSwapStorage
           /\ storage' = "none"
           /\ swapped' = FALSE
           /\ UNCHANGED <<persistFlag, shm, pfile>>

\* An unpopulated tt is populated by the driver (from the sg table for SG)
\* or the pool: fresh pages, or the swapped-out contents through swapin.
\* A pool allocation failure frees what it got and changes nothing.
ttm_tt_populate ==
    /\ tt = "live"
    /\ ~populated
    /\ \/ /\ ~swapped
          /\ populated' = TRUE
          /\ pageCaching' = caching
          /\ pages' = Fresh
          /\ UNCHANGED swapVars
       \/ /\ swapped
          /\ \E k \in Progress : ttm_tt_swapin(k)
    /\ UNCHANGED <<tt, sg, init, allocs, caching, persistent, data, writes>>

\* The GPU or CPU writes a page of a populated, non-SG tt.
WritePage ==
    /\ tt = "live" /\ populated /\ ~sg
    /\ writes < MaxWrites
    /\ \E p \in Pages :
         /\ pages' = [pages EXCEPT ![p] = writes + 1]
         /\ data' = [data EXCEPT ![p] = writes + 1]
    /\ writes' = writes + 1
    /\ UNCHANGED <<tt, sg, init, allocs, caching, pageCaching, populated,
                   swapVars, persistent>>

\* ttm_tt_unpopulate of a populated tt (an unpopulated one returns early):
\* the driver's or the pool's unpopulate frees the pages. The bo code calls
\* it when the contents are given up (moved to another placement first, or
\* discarded), so the content the tt must preserve is fresh again.
ttm_tt_unpopulate ==
    /\ tt = "live" /\ populated
    /\ populated' = FALSE
    /\ data' = Fresh
    /\ UNCHANGED <<tt, sg, init, allocs, caching, pageCaching, pages,
                   swapVars, persistent, writes>>

(***************************************************************************)
(* ttm_tt_swapout                                                          *)
(***************************************************************************)
\* Mutant: the copy loop runs one page past the end (i <= num_pages).
CopyPagesPastEnd(src, before, k) ==
    [p \in 1..(k + 1) |-> IF p <= k THEN src[p] ELSE 0]

\* The swap file after the copy loop stopped with pages 1..k copied.
CopyPages(src, before, k) ==
    [p \in Pages |-> IF p <= k THEN src[p] ELSE before[p]]

\* Mutant: a failed shmem read breaks out of the copy loop instead of
\* jumping to out_err, so the tt is unpopulated over a partial copy.
SwapoutBreakOnError(copied, k) ==
    /\ populated' = FALSE
    /\ storage' = IF persistent THEN "persistent" ELSE "shmem"
    /\ shm' = IF persistent THEN shm ELSE copied
    /\ pfile' = IF persistent THEN copied ELSE pfile
    /\ shmOpen' = (shmOpen \/ ~persistent)
    /\ swapped' = TRUE
    /\ persistFlag' = (persistFlag \/ persistent)
    /\ UNCHANGED pfileRef

\* Mutant: out_err returns without the fput of the shmem file.
SwapoutErrNoPut(copied, k) ==
    IF k < NumPages
      THEN /\ pfile' = IF persistent THEN copied ELSE pfile
           /\ shmOpen' = (shmOpen \/ ~persistent)
           /\ UNCHANGED <<populated, storage, shm, swapped, persistFlag, pfileRef>>
      ELSE SwapoutBreakOnError(copied, k)

\* The end of the copy loop after pages 1..k: out_err (k < NumPages) puts a
\* shmem file and leaves a persistent one partly rewritten; success
\* unpopulates, records the storage and sets SWAPPED (and
\* PERSISTENT_SWAP for the persistent file).
SwapoutEnd(copied, k) ==
    IF k < NumPages
      THEN /\ pfile' = IF persistent THEN copied ELSE pfile
           /\ UNCHANGED <<populated, storage, shm, shmOpen, swapped, persistFlag,
                          pfileRef>>
      ELSE /\ populated' = FALSE
           /\ storage' = IF persistent THEN "persistent" ELSE "shmem"
           /\ shm' = IF persistent THEN shm ELSE copied
           /\ pfile' = IF persistent THEN copied ELSE pfile
           /\ shmOpen' = (shmOpen \/ ~persistent)
           /\ swapped' = TRUE
           /\ persistFlag' = (persistFlag \/ persistent)
           /\ UNCHANGED pfileRef

\* The bo code swaps out a populated, cached, non-SG tt that is not already
\* swapped. Without a persistent file a shmem file is set up (which may
\* fail); each page is copied in turn until a read fails.
ttm_tt_swapout ==
    /\ tt = "live" /\ populated /\ ~sg /\ ~swapped /\ caching = "cached"
    /\ \E setupOk \in Outcomes, k \in Progress :
         LET before == IF persistent THEN pfile ELSE Fresh
             copied == CopyPages(pages, before, k)
         IN  IF ~persistent /\ ~setupOk
               THEN UNCHANGED <<populated, swapVars>>
               ELSE SwapoutEnd(copied, k)
    /\ UNCHANGED <<tt, sg, init, allocs, caching, pageCaching, pages,
                   persistent, data, writes>>

(***************************************************************************)
(* ttm_tt_destroy: destroy_common, then the fini matching the init        *)
(***************************************************************************)
\* ttm_tt_fini frees ttm->pages; ttm_dma_tt_fini frees ttm->pages when set
\* (for the joint block that also frees dma_address), else dma_address.
Fini ==
    IF init = "tt" THEN allocs \ {"pages"}
    ELSE IF allocs \cap {"pages", "joint"} # {} THEN allocs \ {"pages", "joint"}
    ELSE allocs \ {"dma"}

\* ttm_tt_destroy_common unpopulates, fputs a swap file that is not the
\* persistent one and clears swap_storage; the driver's destroy then runs
\* its fini.
ttm_tt_destroy ==
    /\ tt = "live"
    /\ tt' = "destroyed"
    /\ populated' = FALSE
    /\ PutSwapStorage
    /\ storage' = "none"
    /\ allocs' = Fini
    /\ UNCHANGED <<sg, init, caching, pageCaching, pages, swapped, persistFlag,
                   shm, persistent, pfile, data, writes>>

(***************************************************************************)
(* Specification                                                           *)
(***************************************************************************)
Init ==
    /\ tt = "none"
    /\ sg = FALSE
    /\ init = "tt"
    /\ allocs = {}
    /\ caching = "cached"
    /\ pageCaching = "cached"
    /\ populated = FALSE
    /\ pages = Fresh
    /\ swapped = FALSE
    /\ persistFlag = FALSE
    /\ storage = "none"
    /\ shmOpen = FALSE
    /\ shm = Fresh
    /\ persistent \in BOOLEAN
    /\ pfile = Fresh
    /\ pfileRef = persistent
    /\ data = Fresh
    /\ writes = 0

\* After the tt is destroyed nothing more happens to it.
Destroyed == tt = "destroyed" /\ UNCHANGED vars

Next ==
    \/ ttm_tt_create
    \/ ttm_tt_unpopulate
    \/ ttm_tt_set_placement_caching
    \/ ttm_tt_populate
    \/ WritePage
    \/ ttm_tt_swapout
    \/ ttm_tt_destroy
    \/ Destroyed

Spec == Init /\ [][Next]_vars

(***************************************************************************)
(* Properties                                                              *)
(***************************************************************************)
TypeOK ==
    /\ tt \in {"none", "live", "destroyed"}
    /\ sg \in BOOLEAN /\ init \in {"tt", "dma", "sg"}
    /\ allocs \subseteq {"pages", "joint", "dma"}
    /\ caching \in Cachings /\ pageCaching \in Cachings
    /\ populated \in BOOLEAN /\ swapped \in BOOLEAN /\ persistFlag \in BOOLEAN
    /\ storage \in {"none", "shmem", "persistent"}
    /\ shmOpen \in BOOLEAN /\ persistent \in BOOLEAN /\ pfileRef \in BOOLEAN
    /\ {pages, shm, pfile, data} \subseteq [Pages -> Versions]
    /\ writes \in 0..MaxWrites

\* Where the bo's contents live now: the populated pages, else the swap
\* storage of a swapped-out tt, else nowhere yet (fresh pages on populate).
Backing == IF populated THEN pages ELSE IF swapped THEN SwapContents ELSE Fresh

\* The bo's contents are never lost or made stale: the backing of a live,
\* non-SG tt holds exactly what was last written. ttm_tt_swapout must
\* only unpopulate after every page reached the swap file, and a swap-in
\* that fails partway must leave the tt swapped out with its storage.
ContentRecoverable == tt = "live" /\ ~sg => Backing = data

\* Nothing is leaked: an open shmem swap file is the tt's swap storage
\* (out_err of ttm_tt_swapout, swapin and destroy_common put it), and a
\* destroyed tt has freed its page directory through the fini matching its
\* init.
NoLeak ==
    /\ shmOpen => storage = "shmem"
    /\ tt = "destroyed" => allocs = {} /\ ~shmOpen

\* The persistent swap file belongs to the driver, which passed it to
\* ttm_tt_swapout: no swapout, swapin or destroy of the tt drops the
\* driver's reference, however often the bo is swapped out and in again.
PersistentSwapKept == persistent => pfileRef

====
