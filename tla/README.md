# TLA+ models of drm-kmod: GuC error capture, i915 perf, DRM self refresh and TTM page arrays

This directory holds TLA+ specifications of parts of `src/`, checked with TLC.
Four parts of the DRM drivers are modelled:
- the GuC error-capture path,
  `src/drivers/gpu/drm/i915/gt/uc/intel_guc_capture.c`, where firmware writes
  register dumps into a ring and the driver parses them into a list of nodes
  for the crash dump, and the register-list catalog and ADS cache that
  decide what GuC dumps;
- the OA (observation architecture) unit of `src/drivers/gpu/drm/i915/i915_perf.c`,
  where hardware writes counter reports into a ring that a timer and
  `read()` consume, and the registry of OA configs that perf streams hold;
- the self-refresh helper, `src/drivers/gpu/drm/drm_self_refresh_helper.c`,
  whose delayed work puts an idle crtc into panel self refresh against
  concurrent atomic commits;
- the page array of a TTM buffer object, `src/drivers/gpu/drm/ttm/ttm_tt.c`:
  its creation, caching state, populate with swap-in, swap-out to shmem or
  a persistent swap file, and destruction.

## 1. Inventory

### The system's parts

| Part | Source | State | Operations | Hard behaviour |
|---|---|---|---|---|
| Register-list catalog | capture.c 192-552 | static lists; `extlists` allocated once | get_one_list, alloc_steered_lists (xe_lpd, xe_hpg), list_init, num_regs | idempotent allocation that may fail; empty lists (`empty_regs_list`) |
| ADS cache | capture.c 554-666, 1269-1285 | `ads_cache[owner][type][class]` {is_valid, ptr, size, status}, `ads_null_cache` | getlistsize, getlist, getnullheader, free | errors cached, -ENOMEM not cached |
| Output size estimate | capture.c 670-718 | none | output_min_size_est | units mixed (bytes added to a register count) |
| Ring reader | capture.c 751-891 | `__guc_capture_bufstate` {rd, wr, size} | buf_cnt, buf_cnt_to_end, remove_dw, data_extracted, get_group_hdr, get_data_hdr, get_register | records straddling the end of the ring, rd reaching size |
| Capture-group parser | capture.c 1001-1189 | node being built, outlist | extract_reglists | node split / clone / alloc decisions, -ENOMEM and -EIO mid-group, unknown types |
| Notification handler | capture.c 1201-1267 | read_ptr, sampled write_ptr, reset_in_progress | process_output | GuC writes concurrently; reset skip; overflow reread |
| Output node store | capture.c 893-932, 1287-1314 | `outlist` | add, delete_nodes, destroy, init | drained by the crash-dump code (not in this repository) |
| OA buffer reader | i915_perf.c | head, tails[2], aged_tail_idx, pollin | tail check (hrtimer), append reports, read, poll, enable/disable | timer racing the reader under `ptr_lock`, tail aging, filtered reports |
| OA config registry, stream open/close | i915_perf.c 357-418, 1204-1328, 1472-1525, 2126-2773, 2797-2981, 3186-3477, 3643-3665 | `perf->metrics_idr`, config refcounts, sysfs groups, `perf->exclusive_stream`, `stream->pinned_ctx` | add_config, remove_config, open (property parsing, context pin, stream init with every error label), release, fini | unlock-then-use in add_config; partial failure unwinding; refcount across ioctls; a NULL pin result taken for success |
| Self-refresh helper | drm_self_refresh_helper.c | sr_data, entry_work | entry_work, alter_state, init, cleanup | -EDEADLK backoff retry; inverted check in cleanup |
| TTM page array | ttm_tt.c | page_flags, pages, swap_storage | create, init/fini, set_caching, populate/unpopulate, swapin/swapout | partial failure in swapin/swapout |
| amdgpu SDMA, DCN 3.2.1 resources, display power map, headers | | tables, firmware plumbing | | none that TLC can use |

GuC (the firmware) and the notification handler run concurrently.
GuC appends groups to the ring at any time.
The handler runs once per `STATE_CAPTURE_NOTIFICATION` and reads only up to
the write offset it sampled.
It then sets `read_ptr := write_offset`, whatever it managed to parse.
The parser reads through the ring reader.
The catalog and ADS cache decide which lists GuC dumps, and so how many
registers each record carries.

`PROJECT.json` lists every component with its status and every hazard at its
line.

## 2. Modules

| Module | Models | Variables |
|---|---|---|
| `GucCapture` | process_output + extract_reglists + the node store | `log` (groups GuC wrote), `pending` (notifications), `rdPtr` (read_ptr), `resetting` (reset_in_progress), `pc`/`snap`/`cur`/`ri` (the handler's position, sampled write offset, buf.rd in groups, records consumed), `node`, `outlist`, history `parsed`/`dropped`/`unclone` |
| `GucCaptureRing` | the ring reader, dword level | `ring` (dword -> <<record, field>>), `wr`, `rd`, `sizes`, `got` |
| `CaptureFifo` | abstract: what the region promises the reader | `queue`, `out` |
| `GucCaptureCatalog`, `MC_GucCaptureCatalog` | the static lists, the steered list, the ADS cache, the null header, the size estimate, init and destroy | `plat`, `capture` (guc->capture), `extlists` (steered registers allocated), `cache` (ads_cache slots), `nullCache`, `heap` (allocations not freed), `ret` (the last call's result) |
| `GucCaptureLists` | abstract: what getlist, getlistsize and the estimate promise, with no cache | `plat`, `capture`, `ext`, `ret` |
| `MC_GucCapture`, `MC_GucCaptureRing` | the model values for TLC | |
| `OaConfig`, `MC_OaConfig` | the OA config registry and the stream lifecycle that holds configs | per config `alive`, `ref`, `uuid`, `cid`, `regs`; `regsLive` (register lists allocated and not freed), `idr`, `sysfs`; thread positions `apc`, `rpc`, `upc`; per stream `props`, `held` (resources held), `scfg`; `enabled`, `excl` (exclusive stream), `metric`, `perfLock`, `fini` |
| `SelfRefresh` | entry_work, alter_state, init and cleanup for one crtc | `sr`, `drv`, `aware`, `crtc` {enable, active, srActive}, `owner` (of the crtc and connection locks), `pending`, the work's `wpc`/`wstate`/`contended`/`wret`, users' `upc`/`ncommits`, `uview` (what userspace last committed), history `hiddenRej` |
| `TtmTt` | one bo's ttm_tt: create, caching, populate/swapin, unpopulate, swapout, destroy | `tt`, `sg`, `init` (which init ran), `allocs` (directories allocated), `caching`, `pageCaching` (caching of the pages present), `populated`, `pages` (page contents as versions), the swap state `swapped`, `persistFlag`, `storage`, `shmOpen`, `shm`, `persistent`, `pfile`, `pfileRef` (the driver's reference to the persistent file); history `data` (what the bo must hold), `writes` |
| `OaBuffer` | the OA buffer on Haswell (gen7) and gen8+: hrtimer tail check, `read()`, enable/disable ioctls, the OA unit | hardware `hwOn`, `hwTail`, `flight` (reports the tail covers that are not yet in memory), `mem`, `status` (OASTATUS bits), `gen`; driver `head`, `tails`, `agedIdx`, `pollin`, `enabled`, `lastCtx`, `latched` (`gen7_latched_oastatus1`); the reader's `rpc`, `off`, `rh`, `rt`; history `out`, `skipped`, `dropped`, `unreported`, `announced`, `trampled` |

### GucCapture

Offsets are counted in groups here, and the byte level is `GucCaptureRing`.
A group is built the way the comment in extract_reglists draws it:
- GLOBAL first;
- optionally a record of unknown type;
- a CLASS record and an INSTANCE record per engine reset together.

A record carries `NumRegs(type, class)` registers.
A node slot records the id `<<group, record>>` of the record whose registers
it holds.
This lets the properties say which dump ended up where.

The actions and the code they come from:

| Action | Code |
|---|---|
| `ProcessStart` | the snapshot and the `reset_in_progress` test of process_output |
| `ExtractEmpty` | the `-ENODATA` return that ends the do/while |
| `ExtractGroupHeader` | the group header |
| `SkipUnknownRecord` | the `datatype > ENGINE_INSTANCE` branch |
| `ExtractRecord` | one iteration of `while (numlists--)` for a known type |
| `ExtractGroupEnd` | bailout after the loop |

`ExtractRecord` runs, in one step:
- the split (`StartsNewNode`), with an append to the outlist;
- `CloneNode`, or a fresh `ZeroNode`;
- `Stamp`, which sets the engine fields;
- the register list.

Each of the three allocations may fail when `AllocMayFail` is set.
A failed clone is recorded in the history variable `unclone`.
On `-ENOMEM` the step also runs the bailout and the end of the pass
(`FinishPass`: `read_ptr := write_offset`).

Two details taken from the code:
- `kcalloc(0)` is non-NULL, so a cloned empty list counts as present.
- A kzalloc'd node names class 0 (render), instance 0 and context 0.

`FwCapture` (GuC writes a group and notifies) and `ResetToggle` are the
environment.

### GucCaptureCatalog and GucCaptureLists

`intel_guc_capture_init` picks the platform's table and, from
GRAPHICS_VER 12, allocates the steered render-class list (two kcallocs,
either may fail). The ADS code (`intel_guc_ads.c`, not in this repository)
then asks `getlistsize` and `getlist` for each (owner, type, class), and the
GuC log code asks for `output_min_size_est`; the model lets them call in
any order while the context is live. A register descriptor is named by its
origin (`<<"s", i>>` static, `<<"x", j>>` steered), not its value.

| Definition | Code (intel_guc_capture.c) |
|---|---|
| `StaticRegs` | the register arrays, `default_lists`/`xe_lpd_lists`, `guc_capture_get_one_list` (91-208) |
| `AllocSteered`, `intel_guc_capture_init` | `__alloc_ext_regs`, `alloc_steered_lists_xe_lpd`/`_xe_hpg` (259-394), init (1303-1314) |
| `guc_capture_get_device_reglist` | the platform dispatch: steered lists and `xe_lpd_lists` from GRAPHICS_VER 12, `default_lists` before (395-418) |
| `ExtRegs`, `NumRegs`, `ListInit` | `get_one_ext_list` (210-226), `num_regs` (534-552), `list_init` (488-532) |
| `GetListSize`, `intel_guc_capture_getlist`, `intel_guc_capture_getnullheader` | 554-666 |
| `OutputMinSizeEst` | 668-718 |
| `DestroyFrees`, `intel_guc_capture_destroy` | `free_ads_cache`, destroy (1269-1301) |

`GucCaptureLists` is the same interface without a cache: every answer comes
from the tables, `-ENOMEM` may occur only where an allocation happens, and
the estimate must cover a burst in which every engine dumps all its lists.
`CatalogRefinement` checks `GucCaptureCatalog` against it, mapping the
variables one to one and hiding `cache`, `nullCache` and `heap`.

The repository's `guc_capture_fwif.h` does not declare the `extlists`,
`extlist` and `outlist` fields the .c file uses; the model follows the .c.

### GucCaptureRing and CaptureFifo

GuC writes records of 2 (group header), 5 (data header) and 4 (register)
dwords with no padding into a region of `RingDwords` dwords.
It never writes over unread bytes.

`ReadRecord` reads the next record with `GetRecord`:
- the size check;
- the contiguous `guc_capture_data_extracted` path;
- otherwise `ReadDws`, i.e. `guc_capture_log_remove_dw` per field, which
  wraps rd to 0 with `tries = 2`.

A failed read ends the pass with `rd := wr`, which loses the record.

The refinement mapping takes the unread dwords `[rd, wr)` that start a
record as the abstract `queue`, and the records read (`got`) as `out`.

### OaBuffer

Offsets count reports, not bytes, and the buffer starts at GTT offset 0, so
`OA_TAKEN(t, h) = (t - h) % N` and `INVALID_TAIL_PTR` is `N`.
A report is a record {id, ctx, sw}: the history id, the context id of the
report, and whether the reason field marks it as a context switch.

The tail register can run ahead of the data in memory.
`HwWrite` advances `hwTail` and puts the report in `flight`; `HwLand` copies the
oldest in-flight report to `mem`.
`MarginElapses` marks the aging tail ripe, but only when every report before it
has landed. This is the timing assumption behind `OA_TAIL_MARGIN_NSEC`.
On a full buffer the OA unit sets OVERFLOW and either suppresses the
report (`HwOverflow`, which drops it) or, as the comments of `gen8_oa_read`
and `gen7_append_oa_reports` concede some gens do, writes it past the head
over unread reports (`HwWrite` with `Full`). The history flag `trampled`
records the second case until the buffer is re-initialised, and every sample
copied meanwhile carries `sus` (suspect). `HwReportLost` sets REPORT_LOST.

`gen` is fixed at Init from `Gens`, as `i915_perf_init` picks the ops:
`oa_enable`, `oa_disable` and `ReportLostAck` dispatch to the Haswell or
the gen8 function. On Haswell the OA unit filters by context itself
(`GEN7_OACONTROL_PER_CTX_ENABLE`), so `HwWrite` writes only the stream's
context and `Filters` turns the CPU filter and `last_ctx_id` off. The status
bits cannot be cleared while the unit runs: `StatusRead` masks those in
`latched`, `gen7_report_lost_ack` latches REPORT_LOST instead of writing
the register back, and `gen7_init_oa_buffer` forgets the latch.

| Action | Code (i915_perf.c) |
|---|---|
| `TimerCheck` | `oa_poll_check_timer_cb` with `oa_buffer_check_unlocked` (459-549) |
| `IoctlEnable`, `IoctlDisable` | `i915_perf_enable_locked` / `_disable_locked` through `i915_oa_stream_enable` / `_disable` to `gen7_oa_enable`/`gen8_oa_enable` (buffer reinit) / `gen7_oa_disable`/`gen8_oa_disable` |
| `ReadStart`, `ReadWait` | `i915_perf_read` and `i915_oa_wait_unlocked`: the enabled test before `perf->lock`, the blocking wait |
| `ReadStatus`, `ReadReportLost` | `gen8_oa_read` / `gen7_oa_read`: OVERFLOW gives a BUFFER_LOST record and a restart; REPORT_LOST gives a record and the status write-back (gen8) or the latch (Haswell) |
| `ReadSnapshot`, `ReadReport`, `ReadLoopEnd`, `ReadWriteBack` | `gen8_append_oa_reports` / `gen7_append_oa_reports`: the snapshot under `ptr_lock`, one loop iteration per report (context filter on gen8, `-ENOSPC`, the slot zeroed), and the head written back only when something was copied |
| `ReadResult`, `ReadReturn` | `i915_perf_read`'s result, and the blocking loop on `-EAGAIN` |

The `-ENOSPC` branches of the status records are left out. They need a user
buffer smaller than one header, and `Count` is at least that size.

### OaConfig

A config is identified by the adder thread that created it (plus
`TestConfig`, the built-in test config held by `perf->test_config`).
Every `metrics_lock` critical section is one step, and `perf->lock` is the
variable `perfLock`. Each thread makes one call.

| Action | Code (i915_perf.c) |
|---|---|
| `i915_perf_add_config_ioctl`, `AddReturn` | add_config (3282-3412): the register lists (`alloc_oa_regs`, an error pointer ends the list), `metrics_lock`, the uuid scan, `create_dynamic_oa_sysfs_entry`, `idr_alloc`; the error labels; `mutex_unlock`, then `return oa_config->id` |
| `i915_perf_remove_config_ioctl` | remove_config (3433-3477): lookup, sysfs removal, `idr_remove`, `i915_oa_config_put` |
| `read_properties_unlocked`, `ReadProperty`, `Parsed` | the property list (2797-2926) folded pair by pair over `NoProps` (`struct perf_open_properties`); `i915_perf_open_ioctl` (2953-2981) goes on only with what it accepted |
| `i915_perf_open_ioctl` | a rejection before `perf->lock`, or `i915_perf_open_ioctl_locked` up to `i915_oa_stream_init` under it |
| `i915_oa_stream_init`, `OaStreamInitBuffer` | the SAMPLE_OA, exclusive-stream and OA_FORMAT tests, `oa_pin_context` and `oa_get_render_ctx_id` (1204-1308), `get_oa_config`, `alloc_oa_buffer` (1472-1525), `enable_metric_set`; each failure unwinds from its label (`Releases`, `FromLabel`, `oa_put_render_ctx_id`) |
| `OpenFd`, `i915_perf_release` | `anon_inode_getfd` and the stream destroy on its failure; release destroys the stream |
| `i915_perf_fini` | the idr walk putting every config |

`free_oa_config` frees a register list only when `!PTR_ERR(ptr)`, which is
true only for NULL (`Kfreed`); the model keeps that test.

A property list is a sequence of `<<id, value>>` pairs, where a value is the
class of values the code tells apart: a metrics set 0, 1 or an idr id; an
OA format out of range, without a size, or supported; an exponent over
`OA_EXPONENT_MAX`, over the unprivileged sampling rate, or allowed. The
lists are those of up to `MaxProps` = 4 pairs and one of `PROP_MAX` pairs,
so that every rejection of `read_properties_unlocked` happens. The stream
keeps only what `i915_oa_stream_init` reads: the context flag, whether both
SAMPLE_OA and OA_FORMAT were given (all three of its early `-EINVAL`/`-EBUSY`
returns unwind alike), the metrics set and the DISABLED flag. They live on
the ioctl's stack, so the model resets them when the ioctl returns.

`oa_pin_context` returns NULL when the context has no engine of the
stream's class or `intel_context_pin` fails. `oa_get_render_ctx_id` tests
only `IS_ERR(ce)` and then dereferences `ce`. The model ends that thread in
`"oops"`, still holding `perf->lock`, as a kernel oops in a locked section
does.

### SelfRefresh

One crtc, one connector and two ww-mutexes: the crtc lock and the
connection_mutex. A user takes connection then crtc; the entry work takes
crtc (`drm_atomic_get_crtc_state`) then connection
(`drm_atomic_add_affected_connectors`). When the lock it wants is held by a
user, the work gets `-EDEADLK`: `Deadlock` clears its atomic state and drops
its locks, and `EntryWorkBackoff` sleeps until the contended lock is free,
takes it and retries. The user side of the ioctl is outside this repository
and is reduced to its contract: a duplicated crtc state has
`self_refresh_active = false`, and `drm_atomic_check_only` rejects with
`-EINVAL` a commit that needs a modeset without `allow_modeset`, after
`alter_state` ran.

| Action | Code (drm_self_refresh_helper.c) |
|---|---|
| `EntryWorkStart` | the timer firing and `drm_atomic_state_alloc` (74-80); on failure `goto out` puts a NULL state (118) and the work oopses |
| `EntryWorkGetCrtc` | `retry:` `drm_atomic_get_crtc_state` and the `enable` test (82-92) |
| `EntryWorkAddConnectors` | connectors and the `self_refresh_aware` test (94-101) |
| `EntryWorkCommit` | `active = false`, `self_refresh_active = true`, `drm_atomic_commit` (103-108) |
| `Deadlock`, `EntryWorkBackoff`, `Out` | `out:` (110-121) |
| `AllowModeset`, `ArmsEntryWork` | `alter_state` (142-165), used by `UserCommit` and by the work's own commit |
| `drm_self_refresh_helper_init`, `drm_self_refresh_helper_cleanup` | init (176-196), cleanup (203-209) |

Cleanup's test is inverted (`if (sr_data) return;` at line 208): with the
helper initialised it returns at once, so the model's cleanup step changes
nothing but the driver's position, and entry work queued before it still
runs.

When `drm_atomic_state_alloc` fails, `goto out` reaches
`drm_atomic_state_put(state)` (line 118) with `state` NULL, and `kref_put`
dereferences it. The model ends the work in `wpc = "oops"`, holding no
lock, and it never runs again. `NoEntryWorkOops` states that this never
happens; `SelfRefresh_oops.cfg` (one user, one commit) shows TLC's trace:
init, a commit that arms the work, and the failed allocation.

### TtmTt

The buffer-object code calls into `ttm_tt.c` with the bo reserved, so the
calls of one tt do not interleave and each is one action. The page pool
(`ttm_pool_populate`/`_unpopulate`) is not in this repository; it is
reduced to its contract: all pages with the tt's caching, or none, with
`ttm_tt_swapin` for a swapped tt and the pages freed again when swapin
fails. `add_mapping`/`clear_mapping` are Linux-only and do nothing here.
Page contents are versions; `WritePage` stands for the CPU or GPU writing a
page, and `data` records what the bo must still hold.

| Action or operator | Code (ttm_tt.c) |
|---|---|
| `ttm_tt_create`, `DirAlloc` | create (45-81), the three page-directory allocations (86-115) |
| `ttm_tt_set_placement_caching`, `ttm_tt_set_caching` | 117-144 |
| `ttm_tt_populate`, `ttm_tt_swapin` | populate (383-401), swapin with `out_err` (246-298) |
| `ttm_tt_unpopulate` | 420-431 |
| `ttm_tt_swapout`, `CopyPages`, `SwapoutEnd` | setup (300-331), the copy loop (332-354), success and `out_err` (355-367) |
| `ttm_tt_destroy`, `Fini` | destroy_common and destroy (147-162), `ttm_tt_fini`/`ttm_dma_tt_fini` (189-243) |

`k` in swapin and swapout is the number of pages copied before a shmem read
fails; `k = NumPages` is success.

## 3. Runs

| Run | Result | Checks |
|---|---|---|
| `guc_parse` (`GucCapture_parse.cfg`) | pass, 34k states | `TypeOK`, `InstanceDumpDeliveredOnce`, `GlobalDumpShared`, `GroupEventuallyConsumed`, with allocation failures |
| `guc_split` (`GucCapture_split.cfg`) | violation | `NodePerResetEngine` |
| `ring_fifo` (`GucCaptureRing_fifo.cfg`) | pass, 70k states | `TypeOK`, `FifoRefinement`, `EveryRecordRead` |
| `guc_catalog` (`GucCaptureCatalog_all.cfg`, `MC_GucCaptureCatalog`) | pass, 30k states | `TypeOK`, `NoLeak`, `CatalogRefinement` |
| `oa_all` (`OaBuffer_all.cfg`) | pass, 419k states | `TypeOK`, `ReadWindowLanded`, `StreamFaithful`, `BlockingReadSleepsOrReturns`, `LossEventuallyReported`; Haswell and gen8+, no context filter, with REPORT_LOST |
| `oa_filter` (`OaBuffer_filter.cfg`) | pass, 6.9M states | `StreamFaithful`, with a context filter, two contexts and context-switch reports |
| `oa_busyloop` (`OaBuffer_busyloop.cfg`) | violation | `BlockingReadSleepsOrReturns` under a context filter |
| `oa_disable` (`OaBuffer_disable.cfg`) | violation | `OaUnitOffWhileDisabled` |
| `cfg_all` (`OaConfig_all.cfg`, `MC_OaConfig`) | pass, 1.0M states | `TypeOK`, `RefCountExact`, `StreamResourcesBalanced` |
| `cfg_freed` (`OaConfig_freed.cfg`) | violation | `NoUseAfterFree` |
| `sr_all` (`SelfRefresh_all.cfg`) | pass, 2.7k states | `TypeOK`, `SelfRefreshHidden`, `NoHiddenRejection`, `EntersSelfRefresh` |
| `ttm_all` (`TtmTt_all.cfg`) | pass, 14k states | `TypeOK`, `ContentRecoverable`, `NoLeak`, `PersistentSwapKept`, with failing setup and page reads |

### What the properties say

- **`InstanceDumpDeliveredOnce`**: every engine-instance dump lands in at
  most one node. Once its group is parsed, it lands in exactly one, and that
  node names its engine and context.
- **`GlobalDumpShared`**: a node with an instance dump also carries the
  global dump of the same group, unless the clone of that dump failed with
  `-ENOMEM` in that group.
- **`GroupEventuallyConsumed`**: every group is eventually parsed or passed
  over by `read_ptr := write_offset`.
- **`FifoRefinement`**: the reader is a FIFO of whole records.
- **`EveryRecordRead`**: every record written is eventually read.
- **`NoLeak`** (catalog): while the context is live every allocation hangs
  off it (a cached list, the steered list, the null header), and after
  destroy, or a failed init, nothing is left.
- **`CatalogRefinement`**: the ADS cache is invisible. getlistsize and
  getlist answer as the tables do. The list handed out is the static list
  followed by the steered one. Only `-ENOMEM` is transient. The estimate
  covers a worst-case burst.
- **`ReadWindowLanded`**: until the OA unit writes past the head, the aged
  tail, and the window a read copies, cover only reports that are already
  in memory.
- **`StreamFaithful`**: the samples a reader gets before the OA unit writes
  past the head have increasing ids. Every id skipped between two of them
  was filtered out, suppressed by the hardware, or discarded by a
  re-enable. Samples copied from a buffer being overwritten are exempt: the
  code itself assumes such reports are "trampled over" and answers with a
  BUFFER_LOST record and a restart on the next read.
- **`BlockingReadSleepsOrReturns`**: a blocking read eventually returns or
  sleeps on the wait queue with nothing to read.
- **`LossEventuallyReported`**: a report the hardware dropped is eventually
  reported by a BUFFER_LOST or REPORT_LOST record, unless the stream is
  disabled or the reader sleeps. On Haswell a REPORT_LOST record covers
  every loss after it until the buffer is re-initialised, as the comment in
  `gen7_oa_read` says. The latch must then be forgotten, or every later loss
  would be masked.
- **`RefCountExact`**: every config's reference count equals the test
  config's reference, plus one for its idr entry, plus one per stream that
  holds it; a freed config is in neither.
- **`StreamResourcesBalanced`**: a user whose open failed, or whose stream
  is closed, holds nothing; an open stream holds everything its open took
  and is the exclusive stream; the metric set is programmed exactly while an
  exclusive stream exists.
- **`SelfRefreshHidden`**: the crtc is enabled exactly when userspace last
  enabled it, and active exactly when userspace made it active and it is
  not in self refresh; self refresh only happens on an enabled crtc. This
  needs the work to re-read the crtc after every backoff.
- **`NoHiddenRejection`**: no user commit is rejected for a modeset that
  only self refresh made necessary.
- **`EntersSelfRefresh`**: after the users' last commit, the entry work
  stops for good, with the crtc in self refresh unless it is off, its
  connector is not aware, or the work failed. A work that oopsed on a
  failed state allocation also counts as stopped.
- **`ContentRecoverable`**: a live non-SG tt holds what was last written to
  it, in its pages when populated and in its swap storage when swapped out,
  across every failed or partial swapin and swapout.
- **`NoLeak`**: a shmem swap file is open only while it is the swap
  storage, and a destroyed tt holds no page directory and no shmem file.
- **`PersistentSwapKept`**: no swapin, swapout or destroy drops the
  driver's reference to its persistent swap file. Only the
  PERSISTENT_SWAP flag set by a successful swapout keeps swapin (line 290)
  and destroy (line 151) from `fput`ting it, so a violation takes a
  swapout followed by a swapin or destroy.

### What the violations show

- **`guc_split`**: the split tests `regs != NULL`, so records with empty
  lists never split a node. Under the xe_lpd lists (compute has none), a
  compute+render reset yields a single node naming render, and compute gets
  no node. The code comment and the design describe one node per dependent
  engine.
- **`oa_busyloop`**: with a context filter, a read whose window holds only
  filtered reports copies nothing. So the head is not written back (line
  825), the tail check keeps reporting data, and a blocking read spins on
  `-EAGAIN` without sleeping.
- **`oa_disable`**: `i915_perf_read` tests `stream->enabled` before it takes
  `perf->lock` (line 2354). A disable ioctl can run in between, and then the
  OVERFLOW path of `gen8_oa_read` calls `oa_enable` (line 902). This restarts
  the OA unit for a disabled stream.
- **`cfg_freed`**: add_config reads `oa_config->id` for its return value
  after `mutex_unlock(&perf->metrics_lock)` (line 3410). A remove_config
  that runs in between drops the idr's reference, the last one, and frees
  the config, so `NoUseAfterFree` fails.

Three more bugs of `i915_perf.c` have a property of their own and a cfg
with the bounds of `cfg_freed`, under which TLC finds them; they are not
among the listed runs:
  - `SysfsGroupsLive` (`OaConfig_sysfs.cfg`): when `idr_alloc` fails
    (line 3399), add_config puts the config, freeing it, but leaves the
    sysfs group that `create_dynamic_oa_sysfs_entry` registered.
  - `NoRegsLeak` (`OaConfig_leak.cfg`): `free_oa_config` frees a register
    list only if `!PTR_ERR(ptr)` (line 376), that is, only if it is NULL,
    so every list that was allocated leaks.
  - `NoNullDeref` (`OaConfig_nullctx.cfg`): an open of a single-context
    stream whose `oa_pin_context` finds no pinnable engine gets NULL back,
    and `oa_get_render_ctx_id` dereferences it after testing only `IS_ERR`
    (line 1245), an oops with `perf->lock` held.

`SelfRefresh_oops.cfg` likewise shows the entry work's NULL
`drm_atomic_state_put` (see SelfRefresh above).

Every property of a passing run has a mutant in `PROJECT.json`: a variant of
a mapped definition (a dropped branch, a missing reset, a wrong count) under
which TLC reports that property violated.

### Bounds

- **`MC_GucCapture`**:
  - four engines: RCS0, CCS0, VCS0 and VCS1;
  - dependent groups within one reset domain: render with compute, or two
    video engines;
  - at most 2 groups.

  Two groups are enough for a second notification to meet a group written
  after the first snapshot, and for a reset to fall between them.
  `MCNumRegs` abstracts xe_lpd to "list empty or not": video and blitter
  class lists are empty, and compute has no list.
- **`MC_GucCaptureCatalog`**: all four platform families (gen9 without
  steering, xe_lpd, XEHPSDV, DG2 with the extra steered register), two
  slice/subslice pairs, and a render, a video and a compute engine. That
  gives a list with steered entries, plain lists, an empty list (video
  class) and a missing one (compute), each answered, cached and destroyed
  with any allocation failing.
- **`MC_GucCaptureRing`**: 7 dwords and 9 records. 7 is prime to 2, 4 and 5,
  so each record size starts at every offset and straddles the end in every
  way. 9 records wrap the offsets several times.

- **`OaBuffer`**: `oa_all` has a 3-slot buffer and 3 reports with
  REPORT_LOST, on both generations; with 3 reports a loss, a re-enable and a
  second loss happen in one behaviour. `oa_filter` has 4 slots and 4 reports without it. Either way
  the buffer fills and overflows, with the report suppressed or written
  over unread ones, and the ids wrap the offsets. A user
  buffer of 3 units, with headers of 1 and samples of 2, gives `-ENOSPC`
  after one sample. The filter run has two contexts, so both a filtered
  report and a context switch happen.
  `oa_busyloop` needs only a buffer of reports of the other context: 3
  slots, 2 reports, no context switches.
- **`MC_OaConfig`**: two adders, one remover, two stream users, two uuids
  and ids up to 3, so two configs can share a uuid, the idr can fill, and a
  remove can race both an add and an open. Adders, users and uuids are
  symmetric. The violation run uses one of each.
- **`SelfRefresh`**: two users with two commits each. That is enough for a
  user to hold the connection lock while the work holds the crtc lock, for
  a second commit to land while the work sleeps in the backoff, and for a
  commit to meet a crtc already in self refresh.

- **`TtmTt`**: 2 pages, 3 writes, all three inits, failures allowed. Two
  pages let a copy stop after the first page with the second one stale,
  and three writes let a tt be written, swapped out, swapped in, written
  and swapped out again, to the persistent file whose old contents a
  partial copy would otherwise expose. The persistent file is chosen in
  Init.

### Fairness

The driver's steps are weakly fair: the G2H handler runs for every
notification, and the parse loop runs to its end without blocking.
GuC's writes and resets get no fairness.

`GucCaptureCatalog` checks safety only. The estimate can always be asked
for, so the model never deadlocks.

In `GucCaptureRing`, the weak fairness of `ReadRecord` is written out as
`[]<>~ReadGuard \/ []<><<ReadRecord>>_vars`, where `ReadGuard` is the
enabling condition of `ReadRecord`. TLC evaluates `ENABLED` of the
recursive readers lazily, at exponential cost.

Deadlock checking is off in the ring runs only: once GuC has written its
`MaxRecs` records and all are read, nothing is left to happen.
The GuC runs keep it on.

In `OaBuffer`, the hrtimer callback, the margin elapsing, reports landing in
memory and every step of the reader are weakly fair.
The hrtimer is periodic while the stream is enabled. Landing and the margin
are the hardware timing. The reader steps run under locks that are always
released.
`ReadStart` is fair too, which says that userspace keeps reading.
Hardware writes and the ioctls get no fairness.

`OaConfig` checks safety only. Every thread makes one call, so the runs end,
and deadlock checking is off for that reason.

In `SelfRefresh`, init, cleanup and every step of the entry work are weakly
fair: the workqueue runs queued work, the timer fires, and a ww-mutex
waiter is woken when the lock is released. A user that has taken the
connection lock finishes its commit. Starting a commit is not fair. The
model stutters in `Terminated` once every thread has returned, so deadlock
checking stays on.

`TtmTt` checks safety only. A destroyed tt stutters in `Destroyed`, so
deadlock checking stays on.

## 4. Not modelled, and the plan

Order of the next modules:

1. **Overflow and reread** in `GucCapture`: `new_overflow` and invalid
   offsets reread the whole region (line 1234). Which groups the reread
   finds depends on where GuC resumes writing after an overflow, which is
   firmware behaviour this repository does not define. A model would have
   to guess it, so the overflow path is left out.
2. **Parser over the byte ring**: reads failing mid-group (`-EIO` inside
   the unknown-type skip at 1093, partial register lists at 1166) need a
   region that ends inside a group. That happens only after an overflow,
   so this waits on item 1 for the same reason.
3. **`GucCaptureCatalog`**: the VF owner, for which no list exists, and
   the composition with `GucCapture`, where what getlist returned would
   fix the register counts GuC dumps (`NumRegs`, now a constant).
4. **`OaBuffer`**: `-EFAULT` from `copy_to_user`, and `poll`. Streams opened
   without OA_EXPONENT are not periodic: no hrtimer runs and a blocking
   read returns `-EIO`; every modelled stream is periodic. Haswell with
   a context filter (only `Gens = {8}` runs have one).
5. **`OaConfig`**: the privilege checks of `i915_perf_open_ioctl_locked`
   (a nondeterministic rejection now), and what `gen8_configure_all_contexts`
   writes into each context image, which needs the context list of the GEM
   code outside this repository.
   **`SelfRefresh`**: the crtc's destruction after cleanup, to show the
   entry work outliving it.
6. **`TtmTt`**: the bo code that drives it (`ttm_bo.c`, not in this
   repository) and the pool, beyond their contracts.

Not modelled at all:
- the DCN 3.2.1 resource tables, the display power map and the SDMA firmware
  helpers, which are tables and plumbing with no behaviour over time. The
  one check in the power map, the `drm_WARN_ON`s of `__set_power_wells` on
  duplicate or too large well ids, depends on the values of
  `enum i915_power_well_id`, declared in a header this repository lacks;
- the headers, which hold declarations only;
- register values, vfid and `is_partial`, which no property tells apart.
