------------------------------ MODULE OaConfig ------------------------------
(***************************************************************************)
(* The OA configurations of i915 perf and the life of an OA stream        *)
(* (i915_perf.c).                                                          *)
(*                                                                         *)
(* Userspace adds a configuration with DRM_IOCTL_I915_PERF_ADD_CONFIG: the *)
(* driver allocates an i915_oa_config with ref_count 1, copies the         *)
(* register lists, and under metrics_lock registers a sysfs group named   *)
(* by the uuid and an idr id.  REMOVE_CONFIG takes it out of sysfs and the *)
(* idr and drops that reference.  Opening a stream takes a reference on   *)
(* the configuration of its metrics set (id 1 is the built-in test        *)
(* configuration) and, under perf->lock, the exclusive OA stream with its  *)
(* context pin, wakeref, forcewake, OA buffer and metric set; every       *)
(* failure unwinds through the labels of i915_oa_stream_init.              *)
(*                                                                         *)
(* Add and remove take metrics_lock only, so they run concurrently with   *)
(* opens and closes, which hold perf->lock.  Each critical section under  *)
(* metrics_lock is one step here.                                         *)
(***************************************************************************)
EXTENDS Naturals, FiniteSets, Sequences, SequencesExt

CONSTANTS
    Adders,      \* threads calling ADD_CONFIG once; the config each one
                 \* kzallocs is named after it
    Removers,    \* threads calling REMOVE_CONFIG once
    Users,       \* threads opening one stream and then closing it
    Uuids,       \* the uuids userspace passes
    MaxId,       \* idr ids 2..MaxId
    TestConfig,  \* &perf->test_config, metrics set 1
    None,
    MayFail      \* allocations and interruptible locks may fail

ASSUME None \notin Adders \cup Users \cup {TestConfig}

Ids == 2..MaxId
Configs == Adders \cup {TestConfig}
\* the register lists in the order add_config allocates them
RegKinds == <<"mux", "b_counter", "flex">>
\* a register pointer: NULL, an array, or an ERR_PTR
Ptrs == {"null", "array", "err"}
\* what one stream holds: the context reference, the stream allocation,
\* the context pin, the config reference, wakeref, forcewake, OA buffer
Holdings == {"ctx", "stream", "pin", "cfg", "wakeref", "forcewake", "buf"}
\* the open parameters: single context, SAMPLE_OA and OA_FORMAT both given,
\* metrics set, I915_PERF_FLAG_DISABLED; they live on the ioctl's stack
Props == [ctx : BOOLEAN, valid : BOOLEAN, set : {0, 1} \cup Ids, disabled : BOOLEAN]
NoOpen == [ctx |-> FALSE, valid |-> FALSE, set |-> 0, disabled |-> FALSE]

\* DRM_I915_PERF_PROP_MAX of include/uapi/drm/i915_drm.h (not in this
\* repository): the property ids are 1..5
PROP_MAX == 6
\* the longest property list enumerated besides one of PROP_MAX pairs
MaxProps == 4

\* The <<id, value>> pairs read_properties_unlocked tells apart: an id 0 or
\* >= PROP_MAX, and per known id the classes of value it checks.
\* OA_FORMAT: 0 or >= I915_OA_FORMAT_MAX ("range"), a format without a
\* size on this platform ("nosize"), a supported one.  OA_EXPONENT: over
\* OA_EXPONENT_MAX ("max"), a sampling frequency over
\* i915_oa_max_sample_rate ("rate", see oa_exponent_to_ns), an allowed one.
UProps ==
    {<<"UNKNOWN", 0>>, <<"CTX_HANDLE", 0>>}
    \cup {<<"SAMPLE_OA", v>> : v \in {0, 1}}
    \cup {<<"OA_METRICS_SET", v>> : v \in {0, 1} \cup Ids}
    \cup {<<"OA_FORMAT", v>> : v \in {"range", "nosize", "ok"}}
    \cup {<<"OA_EXPONENT", v>> : v \in {"max", "rate", "ok"}}

PropLists ==
    UNION {[1..n -> UProps] : n \in 0..MaxProps}
      \cup {[i \in 1..PROP_MAX |-> <<"SAMPLE_OA", 1>>]}

\* struct perf_open_properties after the memset, and an error return
NoProps == [err |-> FALSE, ctx |-> FALSE, sample |-> FALSE, set |-> 0, format |-> FALSE]
Rejected == [NoProps EXCEPT !.err = TRUE]

\* One pass of the loop of read_properties_unlocked; admin stands for
\* capable(CAP_SYS_ADMIN).  SAMPLE_OA 0 leaves an earlier SAMPLE_OA 1 set.
ReadProperty(pr, up, admin) ==
    LET id == up[1]
        v  == up[2]
    IN  IF pr.err THEN pr
        ELSE CASE id = "CTX_HANDLE"     -> [pr EXCEPT !.ctx = TRUE]
               [] id = "SAMPLE_OA"      -> IF v # 0 THEN [pr EXCEPT !.sample = TRUE] ELSE pr
               [] id = "OA_METRICS_SET" -> IF v = 0 THEN Rejected ELSE [pr EXCEPT !.set = v]
               [] id = "OA_FORMAT"      -> IF v = "ok" THEN [pr EXCEPT !.format = TRUE]
                                           ELSE Rejected
               [] id = "OA_EXPONENT"    -> IF v = "max" \/ (v = "rate" /\ ~admin)
                                           THEN Rejected ELSE pr
               [] OTHER                 -> Rejected

read_properties_unlocked(l, admin) ==
    IF Len(l) = 0 \/ Len(l) >= PROP_MAX THEN Rejected
    ELSE FoldLeft(LAMBDA pr, up : ReadProperty(pr, up, admin), NoProps, l)

\* The properties an open can go on with
Parsed == {read_properties_unlocked(l, a) : l \in PropLists, a \in BOOLEAN} \ {Rejected}

VARIABLES
    alive,     \* configs allocated and not freed
    ref,       \* ref_count of each config
    uuid,      \* oa_config->uuid
    cid,       \* oa_config->id
    regs,      \* oa_config->{mux,b_counter,flex}_regs
    regsLive,  \* register arrays allocated and not freed, <<config, kind>>
    idr,       \* perf->metrics_idr: id -> config
    sysfs,     \* groups under the metrics kobject: uuid -> config
    apc,       \* adder: "start", "ret" (after mutex_unlock), "done"
    rpc,       \* remover: "start", "done"
    upc,       \* user: "idle", "init", "buf", "fd", "open", "done", "oops"
    props,     \* the open parameters of each user
    held,      \* what each user's stream holds
    scfg,      \* stream->oa_config
    enabled,   \* stream->enabled
    excl,      \* perf->exclusive_stream
    metric,    \* the metric set is programmed (enable_metric_set)
    perfLock,  \* holder of perf->lock
    fini       \* i915_perf_fini has run

cfgVars == <<alive, ref, uuid, cid, regs, regsLive, idr, sysfs>>
streamVars == <<upc, props, held, scfg, enabled, excl, metric, perfLock>>
vars == <<cfgVars, apc, rpc, streamVars, fini>>

(***************************************************************************)
(* Reference counting                                                      *)
(***************************************************************************)
\* free_oa_config calls kfree(ptr) only "if (!PTR_ERR(ptr))".  PTR_ERR of a
\* pointer is its address, so the test holds for NULL alone: an array is
\* never handed to kfree.
Kfreed(o, r) == {<<o, k>> : k \in {k2 \in Range(RegKinds) : r[k2] = "null"}}

free_oa_config(o) ==
    /\ alive' = alive \ {o}
    /\ regsLive' = regsLive \ Kfreed(o, regs[o])

\* atomic_dec_and_test: the last reference frees the config
put_oa_config(o) ==
    /\ ref' = [ref EXCEPT ![o] = @ - 1]
    /\ IF ref[o] = 1 THEN free_oa_config(o) ELSE UNCHANGED <<alive, regsLive>>

(***************************************************************************)
(* DRM_IOCTL_I915_PERF_ADD_CONFIG                                          *)
(***************************************************************************)
\* The pointers alloc_oa_regs leaves in the three lists: NULL for an empty
\* list, an array, or an ERR_PTR (-EFAULT, -EINVAL on a register that is
\* not valid, -ENOMEM) that stops the ioctl, leaving the later lists NULL
\* as kzalloc made them.  "No OA registers given" rejects all-empty lists.
RegOutcomes ==
    {r \in [Range(RegKinds) -> Ptrs] :
        /\ \E k \in Range(RegKinds) : r[k] # "null"
        /\ \A i, j \in 1..3 : i < j /\ r[RegKinds[i]] = "err" => r[RegKinds[j]] = "null"}

Arrays(o, r) == {<<o, k>> : k \in {k2 \in Range(RegKinds) : r[k2] = "array"}}

\* the idr_for_each_entry scan for a config of the same uuid
UuidInUse(u) == \E id \in Ids : idr[id] # None /\ uuid[idr[id]] = u

FreeIds == {id \in Ids : idr[id] = None}

\* An error after kzalloc: reg_err puts the only reference, which frees
\* the config with the register lists r; sysfs' is the group table the
\* error leaves behind.  Nothing reads the freed config's fields again.
AddFails(a, r, groups) ==
    /\ regsLive' = (regsLive \cup Arrays(a, r)) \ Kfreed(a, r)
    /\ sysfs' = groups
    /\ UNCHANGED <<alive, ref, uuid, cid, regs, idr>>

\* i915_perf_add_config_ioctl up to its mutex_unlock.  The checks before
\* kzalloc, kzalloc itself and uuid_is_valid fail with nothing allocated
\* or with the config freed before anything saw it.
i915_perf_add_config_ioctl(a) ==
    /\ apc[a] = "start"
    /\ \/ /\ apc' = [apc EXCEPT ![a] = "done"]
          /\ UNCHANGED cfgVars
       \/ \E u \in Uuids, r \in RegOutcomes :
            \/ /\ \E k \in Range(RegKinds) : r[k] = "err"
               /\ AddFails(a, r, sysfs)
               /\ apc' = [apc EXCEPT ![a] = "done"]
            \/ /\ \A k \in Range(RegKinds) : r[k] # "err"
               /\ \/ /\ MayFail \/ UuidInUse(u) \/ sysfs[u] # None
                     \* -EINTR from mutex_lock_interruptible, -EADDRINUSE,
                     \* or sysfs_create_group failing (-EEXIST, -ENOMEM)
                     /\ AddFails(a, r, sysfs)
                     /\ apc' = [apc EXCEPT ![a] = "done"]
                  \/ /\ ~UuidInUse(u) /\ sysfs[u] = None
                     /\ FreeIds = {} \/ MayFail
                     \* idr_alloc fails after the group was created
                     /\ AddFails(a, r, [sysfs EXCEPT ![u] = a])
                     /\ apc' = [apc EXCEPT ![a] = "done"]
                  \/ /\ ~UuidInUse(u) /\ sysfs[u] = None /\ FreeIds # {}
                     /\ LET id == Min(FreeIds) IN
                          /\ idr' = [idr EXCEPT ![id] = a]
                          /\ cid' = [cid EXCEPT ![a] = id]
                     /\ alive' = alive \cup {a}
                     /\ ref' = [ref EXCEPT ![a] = 1]
                     /\ regs' = [regs EXCEPT ![a] = r]
                     /\ uuid' = [uuid EXCEPT ![a] = u]
                     /\ regsLive' = regsLive \cup Arrays(a, r)
                     /\ sysfs' = [sysfs EXCEPT ![u] = a]
                     /\ apc' = [apc EXCEPT ![a] = "ret"]
    /\ UNCHANGED <<rpc, streamVars, fini>>

\* After mutex_unlock: DRM_DEBUG of oa_config->uuid and oa_config->id,
\* then "return oa_config->id".
AddReturn(a) ==
    /\ apc[a] = "ret"
    /\ apc' = [apc EXCEPT ![a] = "done"]
    /\ UNCHANGED <<cfgVars, rpc, streamVars, fini>>

(***************************************************************************)
(* DRM_IOCTL_I915_PERF_REMOVE_CONFIG                                       *)
(***************************************************************************)
\* Faulty variant: the config stays in the idr after its reference is put
RemoveNoIdrRemove(r) ==
    /\ rpc[r] = "start"
    /\ rpc' = [rpc EXCEPT ![r] = "done"]
    /\ \/ UNCHANGED cfgVars
       \/ \E id \in Ids :
            \/ idr[id] = None /\ UNCHANGED cfgVars
            \/ LET o == idr[id] IN
                 /\ o # None
                 /\ sysfs' = [sysfs EXCEPT ![uuid[o]] = None]
                 /\ put_oa_config(o)
                 /\ UNCHANGED <<uuid, cid, regs, idr>>
    /\ UNCHANGED <<apc, streamVars, fini>>

i915_perf_remove_config_ioctl(r) ==
    /\ rpc[r] = "start"
    /\ rpc' = [rpc EXCEPT ![r] = "done"]
    /\ \/ UNCHANGED cfgVars      \* -ENOTSUPP, -EACCES, -EINTR
       \/ \E id \in Ids :
            \/ /\ idr[id] = None  \* -ENOENT
               /\ UNCHANGED cfgVars
            \/ LET o == idr[id] IN
                 /\ o # None
                 /\ sysfs' = [sysfs EXCEPT ![uuid[o]] = None]
                 /\ idr' = [idr EXCEPT ![id] = None]
                 /\ put_oa_config(o)
                 /\ UNCHANGED <<uuid, cid, regs>>
    /\ UNCHANGED <<apc, streamVars, fini>>

(***************************************************************************)
(* Opening and closing the exclusive OA stream                             *)
(***************************************************************************)
\* What each error label of i915_oa_stream_init and of
\* i915_perf_open_ioctl_locked releases; control falls through to the
\* labels after it.  "excl" and "metric" stand for perf->exclusive_stream
\* = NULL and disable_metric_set.
\* oa_put_render_ctx_id: fetch_and_zero of stream->pinned_ctx, unpinned
\* when set; what it gives back is the pin of oa_get_render_ctx_id
oa_put_render_ctx_id == {"pin"}

ErrLabels == <<"err_enable", "err_oa_buf_alloc", "err_config", "err_alloc", "err_ctx">>
\* Faulty variant: err_oa_buf_alloc without put_oa_config
ReleasesNoPut == [err_enable       |-> {"excl", "metric", "buf"},
                  err_oa_buf_alloc |-> {"forcewake", "wakeref"},
                  err_config       |-> oa_put_render_ctx_id,
                  err_alloc        |-> {"stream"},
                  err_ctx          |-> {"ctx"}]
Releases == [err_enable       |-> {"excl", "metric", "buf"},
             err_oa_buf_alloc |-> {"cfg", "forcewake", "wakeref"},
             err_config       |-> oa_put_render_ctx_id,
             err_alloc        |-> {"stream"},
             err_ctx          |-> {"ctx"}]
FromLabel(i) == UNION {Releases[ErrLabels[j]] : j \in i..Len(ErrLabels)}

\* i915_oa_stream_destroy: exclusive_stream = NULL, disable_metric_set,
\* free_oa_buffer, forcewake and runtime pm put, oa_put_render_ctx_id
\* (for a context stream), put_oa_config
StreamDestroyed == {"excl", "metric", "buf", "forcewake", "wakeref", "cfg"} \cup oa_put_render_ctx_id

\* The stream of user u holds what it held and what the failing step took,
\* less the set R it releases; a config reference among R is put.
Release(u, taken, R) ==
    /\ held' = [held EXCEPT ![u] = (@ \cup taken) \ R]
    /\ excl' = IF "excl" \in R THEN None ELSE excl
    /\ metric' = IF "metric" \in R THEN FALSE ELSE metric
    /\ IF "cfg" \in R /\ "cfg" \in held[u] \cup taken
         THEN /\ put_oa_config(scfg[u])
              /\ scfg' = [scfg EXCEPT ![u] = None]
         ELSE UNCHANGED <<ref, alive, regsLive, scfg>>

\* An open failing: release, return the error, mutex_unlock(&perf->lock)
OpenFails(u, taken, R) ==
    /\ Release(u, taken, R)
    /\ upc' = [upc EXCEPT ![u] = "done"]
    /\ perfLock' = None
    /\ props' = [props EXCEPT ![u] = NoOpen]
    /\ UNCHANGED <<enabled, uuid, cid, regs, idr, sysfs, apc, rpc, fini>>

\* i915_perf_open_ioctl: -ENOTSUPP, unknown flags and read_properties_unlocked
\* return before mutex_lock(&perf->lock); i915_perf_open_ioctl_locked then
\* looks the context up (-ENOENT), checks privileges (-EACCES) and kzallocs
\* the stream (-ENOMEM), releasing the context on error.
i915_perf_open_ioctl(u) ==
    /\ upc[u] = "idle"
    /\ \/ /\ upc' = [upc EXCEPT ![u] = "done"]
          /\ UNCHANGED <<props, held, perfLock>>
       \/ /\ perfLock = None
          /\ \E r \in Parsed, d \in BOOLEAN :
               /\ upc' = [upc EXCEPT ![u] = "init"]
               /\ props' = [props EXCEPT ![u] = [ctx |-> r.ctx, valid |-> r.sample /\ r.format,
                                                 set |-> r.set, disabled |-> d]]
               /\ held' = [held EXCEPT ![u] = {"stream"} \cup IF r.ctx THEN {"ctx"} ELSE {}]
               /\ perfLock' = u
    /\ UNCHANGED <<cfgVars, scfg, enabled, excl, metric, apc, rpc, fini>>

\* The exclusive-access check of i915_oa_stream_init
\* Faulty variant: no -EBUSY check
BusyNever == FALSE

Busy == excl # None

\* get_oa_config: the test config for metrics set 1, else the idr entry
\* (idr ids start at 2, so set 0 is not found)
ConfigOf(m) == CASE m = 1 -> TestConfig [] m = 0 -> None [] OTHER -> idr[m]

\* oa_pin_context: the intel_context of the stream's engine among the
\* context's engines, pinned; NULL when the engine map has no such engine
\* or intel_context_pin fails, its error being dropped.
oa_pin_context == {"ce"} \cup IF MayFail THEN {"null"} ELSE {}

\* oa_get_render_ctx_id: IS_ERR() is false for NULL, so a NULL ce reaches
\* the switch on INTEL_GEN(ce->engine->i915) and the ioctl oopses
oa_get_render_ctx_id(ce) == IF ce = "null" THEN "oops" ELSE "ok"

\* i915_oa_stream_init up to get_oa_config.  The checks on the properties
\* (-EINVAL, -ENODEV) end like the rejections of i915_perf_open_ioctl.  A
\* NULL from oa_pin_context oopses with perf->lock held: the thread stops.
i915_oa_stream_init(u) ==
    /\ upc[u] = "init"
    /\ LET p == props[u]
           c == ConfigOf(p.set)
           ok == p.valid /\ ~Busy
       IN \/ /\ ~ok                        \* no SAMPLE_OA, -EBUSY, no OA_FORMAT
             /\ OpenFails(u, {}, FromLabel(4))
          \/ /\ ok /\ p.ctx
             /\ \E ce \in oa_pin_context : oa_get_render_ctx_id(ce) = "oops"
             /\ upc' = [upc EXCEPT ![u] = "oops"]
             /\ UNCHANGED <<cfgVars, apc, rpc, props, held, scfg, enabled, excl, metric,
                            perfLock, fini>>
          \/ /\ ok
             /\ c = None \/ (p.set # 1 /\ MayFail)   \* -EINVAL, -EINTR
             /\ OpenFails(u, IF p.ctx THEN {"pin"} ELSE {}, FromLabel(3))
          \/ /\ ok /\ c # None
             /\ held' = [held EXCEPT ![u] = @ \cup {"cfg"} \cup IF p.ctx THEN {"pin"} ELSE {}]
             /\ scfg' = [scfg EXCEPT ![u] = c]
             /\ ref' = [ref EXCEPT ![c] = @ + 1]
             /\ upc' = [upc EXCEPT ![u] = "buf"]
             /\ UNCHANGED <<alive, uuid, cid, regs, regsLive, idr, sysfs, apc, rpc,
                            props, enabled, excl, metric, perfLock, fini>>

\* alloc_oa_buffer: i915_gem_object_create_shmem, i915_gem_object_ggtt_pin
\* and i915_gem_object_pin_map may each fail; err_unpin and err_unref undo
\* the steps before, so a failure leaves no part of the buffer held.
alloc_oa_buffer == {"ok"} \cup IF MayFail THEN {"shmem", "ggtt_pin", "pin_map"} ELSE {}

\* The rest of i915_oa_stream_init: runtime pm and forcewake get,
\* alloc_oa_buffer, exclusive_stream = stream, enable_metric_set.
OaStreamInitBuffer(u) ==
    /\ upc[u] = "buf"
    /\ \/ /\ \E r \in alloc_oa_buffer : r # "ok"
          /\ OpenFails(u, {"wakeref", "forcewake"}, FromLabel(2))
       \/ /\ MayFail                       \* enable_metric_set
          /\ OpenFails(u, {"wakeref", "forcewake", "buf"}, FromLabel(1))
       \/ /\ held' = [held EXCEPT ![u] = @ \cup {"wakeref", "forcewake", "buf"}]
          /\ excl' = u
          /\ metric' = TRUE
          /\ upc' = [upc EXCEPT ![u] = "fd"]
          /\ UNCHANGED <<cfgVars, apc, rpc, props, scfg, enabled, perfLock, fini>>

\* The rest of i915_perf_open_ioctl_locked: anon_inode_getfd, whose failure
\* goes to err_flags (ops->destroy, then err_alloc and err_ctx); then
\* i915_perf_enable_locked unless I915_PERF_FLAG_DISABLED, and the unlock.
OpenFd(u) ==
    /\ upc[u] = "fd"
    /\ \/ /\ MayFail
          /\ OpenFails(u, {}, StreamDestroyed \cup FromLabel(4))
       \/ /\ enabled' = [enabled EXCEPT ![u] = ~props[u].disabled]
          /\ upc' = [upc EXCEPT ![u] = "open"]
          /\ perfLock' = None
          /\ UNCHANGED <<cfgVars, apc, rpc, props, held, scfg, excl, metric, fini>>

\* i915_perf_release: under perf->lock, i915_perf_destroy_locked disables an
\* enabled stream, runs i915_oa_stream_destroy, puts the context and frees
\* the stream.
i915_perf_release(u) ==
    /\ upc[u] = "open"
    /\ perfLock = None
    /\ enabled' = [enabled EXCEPT ![u] = FALSE]
    /\ Release(u, {}, StreamDestroyed \cup {"ctx", "stream"})
    /\ upc' = [upc EXCEPT ![u] = "done"]
    /\ props' = [props EXCEPT ![u] = NoOpen]
    /\ UNCHANGED <<perfLock, uuid, cid, regs, idr, sysfs, apc, rpc, fini>>

\* i915_perf_fini at driver unload, after every ioctl and every stream file
\* (which holds a drm_dev reference): destroy_config puts every config in
\* the idr, then idr_destroy.
i915_perf_fini ==
    /\ ~fini
    /\ \A a \in Adders : apc[a] = "done"
    /\ \A r \in Removers : rpc[r] = "done"
    /\ \A u \in Users : upc[u] = "done"
    /\ LET R == {idr[id] : id \in Ids \ FreeIds}
           freed == {o \in R : ref[o] = 1}
       IN /\ ref' = [o \in Configs |-> IF o \in R THEN ref[o] - 1 ELSE ref[o]]
          /\ alive' = alive \ freed
          /\ regsLive' = regsLive \ UNION {Kfreed(o, regs[o]) : o \in freed}
    /\ idr' = [id \in Ids |-> None]
    /\ fini' = TRUE
    /\ UNCHANGED <<uuid, cid, regs, sysfs, apc, rpc, streamVars>>

(***************************************************************************)
(* The specification                                                       *)
(***************************************************************************)
Init ==
    /\ alive = {TestConfig}
    /\ ref = [o \in Configs |-> IF o = TestConfig THEN 1 ELSE 0]
    /\ uuid = [o \in Configs |-> None]
    /\ cid = [o \in Configs |-> IF o = TestConfig THEN 1 ELSE 0]
    /\ regs = [o \in Configs |-> [k \in Range(RegKinds) |-> "null"]]
    /\ regsLive = {}
    /\ idr = [id \in Ids |-> None]
    /\ sysfs = [u \in Uuids |-> None]
    /\ apc = [a \in Adders |-> "start"]
    /\ rpc = [r \in Removers |-> "start"]
    /\ upc = [u \in Users |-> "idle"]
    /\ props = [u \in Users |-> NoOpen]
    /\ held = [u \in Users |-> {}]
    /\ scfg = [u \in Users |-> None]
    /\ enabled = [u \in Users |-> FALSE]
    /\ excl = None
    /\ metric = FALSE
    /\ perfLock = None
    /\ fini = FALSE

Next ==
    \/ \E a \in Adders : i915_perf_add_config_ioctl(a) \/ AddReturn(a)
    \/ \E r \in Removers : i915_perf_remove_config_ioctl(r)
    \/ \E u \in Users : \/ i915_perf_open_ioctl(u)
                        \/ i915_oa_stream_init(u)
                        \/ OaStreamInitBuffer(u)
                        \/ OpenFd(u)
                        \/ i915_perf_release(u)
    \/ i915_perf_fini

Spec == Init /\ [][Next]_vars

(***************************************************************************)
(* Properties                                                              *)
(***************************************************************************)
TypeOK ==
    /\ alive \subseteq Configs
    /\ ref \in [Configs -> 0..Cardinality(Users) + 2]
    /\ idr \in [Ids -> Adders \cup {None}]
    /\ sysfs \in [Uuids -> Adders \cup {None}]
    /\ regs \in [Configs -> [Range(RegKinds) -> Ptrs]]
    /\ regsLive \subseteq Adders \X Range(RegKinds)
    /\ upc \in [Users -> {"idle", "init", "buf", "fd", "open", "done", "oops"}]
    /\ props \in [Users -> Props]
    /\ held \in [Users -> SUBSET Holdings]
    /\ scfg \in [Users -> Configs \cup {None}]
    /\ excl \in Users \cup {None}
    /\ perfLock \in Users \cup {None}

InIdr(o) == \E id \in Ids : idr[id] = o
\* the streams, not yet freed, whose oa_config is o
Holders(o) == {u \in Users : "stream" \in held[u] /\ scfg[u] = o}

\* The reference count of a config is the idr's reference, plus one per
\* stream using it, plus the base reference i915_perf_register gives the
\* test config; and a freed config is neither in the idr nor used by a
\* stream.  This is what lets remove_config free a config a stream still
\* uses only when that stream closes, whatever the order of add, remove,
\* open, its failures and close.
RefCountExact ==
    \A o \in Configs :
        /\ o \in alive =>
              ref[o] = (IF o = TestConfig THEN 1 ELSE 0)
                       + (IF InIdr(o) THEN 1 ELSE 0) + Cardinality(Holders(o))
        /\ o \notin alive => ~InIdr(o) /\ Holders(o) = {}

Opened == {"fd", "open"}

\* Every error label of i915_oa_stream_init and i915_perf_open_ioctl_locked
\* releases exactly what the steps before it took: a user whose open
\* failed, or whose stream is closed, holds nothing.  An open stream holds
\* everything, is perf->exclusive_stream, and the metric set is programmed
\* exactly while an exclusive stream exists.
StreamResourcesBalanced ==
    /\ \A u \in Users :
         /\ upc[u] \in {"idle", "done"} => held[u] = {} /\ scfg[u] = None
         /\ upc[u] \in Opened =>
               /\ held[u] = {"stream", "cfg", "wakeref", "forcewake", "buf"}
                            \cup IF props[u].ctx THEN {"ctx", "pin"} ELSE {}
               /\ excl = u
    /\ excl # None => upc[excl] \in Opened
    /\ metric <=> excl # None

\* i915_perf_add_config_ioctl ends with DRM_DEBUG and "return oa_config->id"
\* after mutex_unlock: the config it reads must still be allocated.
NoUseAfterFree == \A a \in Adders : apc[a] = "ret" => a \in alive

\* Every group under metrics/ shows "id" through show_dynamic_id, which
\* reads oa_config->id: a group must belong to a live config in the idr.
SysfsGroupsLive ==
    \A u \in Uuids : sysfs[u] # None => sysfs[u] \in alive /\ InIdr(sysfs[u])

\* free_oa_config frees the register lists of the config it frees.
NoRegsLeak == \A e \in regsLive : e[1] \in alive

\* No open of a single-context stream dereferences a NULL intel_context:
\* oa_get_render_ctx_id is not reached with the NULL oa_pin_context
\* returns when the context has no pinnable engine of the stream's class.
NoNullDeref == \A u \in Users : upc[u] # "oops"

=============================================================================
