----------------------------- MODULE SelfRefresh -----------------------------
(***************************************************************************)
(* The self-refresh helper of drm_self_refresh_helper.c for one crtc.      *)
(*                                                                         *)
(* Actors: the driver (helper init, later cleanup), user threads making    *)
(* atomic commits, and the delayed entry_work, which commits the crtc      *)
(* into self refresh (active = false, self_refresh_active = true) after a  *)
(* period without commits. The modeset locks are two ww-mutexes, the crtc *)
(* lock and the connection_mutex; a user takes connection then crtc, the   *)
(* work takes crtc then connection, and on -EDEADLK the work clears its    *)
(* state, backs off (drops its locks, sleeps on the contended one) and     *)
(* retries. The user side of the atomic core (duplicate state, check,      *)
(* commit) is not in this repository and is reduced to what the helper    *)
(* sees of it: drm_atomic_check_only rejects with -EINVAL a commit that    *)
(* needs a modeset without allow_modeset, and a duplicated crtc state has  *)
(* self_refresh_active = false.                                            *)
(***************************************************************************)
EXTENDS Naturals, FiniteSets

CONSTANTS
    Users,        \* threads issuing atomic commits
    MaxCommits,   \* bound on the commits of each user
    MayFail       \* whether allocations and the entry commit may fail

Locks == {"crtc", "conn"}
Work  == "work"
Free  == "none"

\* A committed crtc state, reduced to the three flags the helper reads.
CrtcStates == [enable : BOOLEAN, active : BOOLEAN, srActive : BOOLEAN]
NoState == [none |-> TRUE]

VARIABLES
    sr,        \* crtc->self_refresh_data: "null" or "init"
    drv,       \* driver: "probe", "up", "failed", "cleaned"
    aware,     \* conn_state->self_refresh_aware of the crtc's connector
    crtc,      \* the committed crtc state
    owner,     \* owner of each modeset lock
    pending,   \* entry_work queued (delayed timer armed)
    wpc,       \* entry_work: "idle", "get", "conn", "commit", "backoff", "oops"
    wstate,    \* the crtc state duplicated into the work's atomic state
    contended, \* the lock the work backs off on
    wret,      \* how the last run of entry_work ended: "ok" or "err"
    upc,       \* user thread: "idle", "crtc", "check"
    ncommits,  \* commits each user has made
    uview,     \* enable/active as userspace last committed them
    hiddenRej  \* history: a commit rejected only because of self refresh

vars == <<sr, drv, aware, crtc, owner, pending, wpc, wstate, contended, wret,
          upc, ncommits, uview, hiddenRej>>
userVars == <<upc, ncommits, uview, hiddenRej>>

Release(who) == [l \in Locks |-> IF owner[l] = who THEN Free ELSE owner[l]]
Outcomes == IF MayFail THEN BOOLEAN ELSE {TRUE}

(***************************************************************************)
(* drm_self_refresh_helper_init / _cleanup                                 *)
(***************************************************************************)
\* kzalloc of sr_data may fail; the driver then fails its probe. The
\* WARN_ON(sr_data) double-init path is not reachable from a driver that
\* initialises once.
drm_self_refresh_helper_init ==
    /\ drv = "probe"
    /\ \E ok \in Outcomes :
         /\ sr' = IF ok THEN "init" ELSE "null"
         /\ drv' = IF ok THEN "up" ELSE "failed"
    /\ UNCHANGED <<aware, crtc, owner, pending, wpc, wstate, contended, wret, userVars>>

\* Called once the users are gone. The test is inverted ("if (sr_data)
\* return;"), so with sr_data set it returns at once: nothing is cancelled
\* or freed and entry_work may still be queued or running.
drm_self_refresh_helper_cleanup ==
    /\ drv = "up"
    /\ \A u \in Users : upc[u] = "idle" /\ ncommits[u] = MaxCommits
    /\ sr # "null"
    /\ drv' = "cleaned"
    /\ UNCHANGED <<sr, aware, crtc, owner, pending, wpc, wstate, contended, wret, userVars>>

(***************************************************************************)
(* drm_self_refresh_helper_alter_state, called at the end of atomic check *)
(***************************************************************************)
\* Mutant: alter_state never forces allow_modeset.
AllowModesetNoForce(allow, async, old) == allow

\* allow_modeset after alter_state: forced when the old crtc state was in
\* self refresh and the commit was async or disallowed modesets.
AllowModeset(allow, async, old) ==
    IF (async \/ ~allow) /\ old.srActive THEN TRUE ELSE allow

\* Mutant: the "already in SR" test before mod_delayed_work is dropped.
ArmsEntryWorkNoSrCheck(new) == sr = "init"

\* Whether the entry work is (re)armed: only for a new state that is not
\* already in self refresh, and only when the helper is initialised.
ArmsEntryWork(new) == ~new.srActive /\ sr = "init"

(***************************************************************************)
(* User atomic commits (drm_mode_atomic_ioctl, outside this repository)    *)
(***************************************************************************)
UserLockConn(u) ==
    /\ upc[u] = "idle" /\ ncommits[u] < MaxCommits /\ drv = "up"
    /\ owner["conn"] = Free
    /\ owner' = [owner EXCEPT !["conn"] = u]
    /\ upc' = [upc EXCEPT ![u] = "crtc"]
    /\ UNCHANGED <<sr, drv, aware, crtc, pending, wpc, wstate, contended, wret,
                   ncommits, uview, hiddenRej>>

UserLockCrtc(u) ==
    /\ upc[u] = "crtc"
    /\ owner["crtc"] = Free
    /\ owner' = [owner EXCEPT !["crtc"] = u]
    /\ upc' = [upc EXCEPT ![u] = "check"]
    /\ UNCHANGED <<sr, drv, aware, crtc, pending, wpc, wstate, contended, wret,
                   ncommits, uview, hiddenRej>>

\* Check and commit under both locks: userspace sets enable and active
\* together; alter_state may force allow_modeset and arms the entry work
\* before drm_atomic_check_only rejects a modeset without allow_modeset.
UserCommit(u) ==
    /\ upc[u] = "check"
    /\ \E on, allow, async \in BOOLEAN :
        LET new      == [enable |-> on, active |-> on, srActive |-> FALSE]
            needsMs  == new.active # crtc.active \/ new.enable # crtc.enable
            rejected == needsMs /\ ~AllowModeset(allow, async, crtc)
        IN /\ pending' = (pending \/ ArmsEntryWork(new))
           /\ crtc' = IF rejected THEN crtc ELSE new
           /\ uview' = IF rejected THEN uview ELSE on
           /\ hiddenRej' = (hiddenRej \/ (rejected /\ ~allow /\ on = uview))
    /\ owner' = Release(u)
    /\ upc' = [upc EXCEPT ![u] = "idle"]
    /\ ncommits' = [ncommits EXCEPT ![u] = @ + 1]
    /\ UNCHANGED <<sr, drv, aware, wpc, wstate, contended, wret>>

(***************************************************************************)
(* drm_self_refresh_helper_entry_work                                      *)
(***************************************************************************)
\* The delayed timer fires and the work runs. When drm_atomic_state_alloc
\* fails, goto out reaches drm_atomic_state_put(state) with state NULL, and
\* its kref_put dereferences it: the work oopses, holding no modeset lock.
EntryWorkStart ==
    /\ pending /\ wpc = "idle"
    /\ pending' = FALSE
    /\ \E ok \in Outcomes : wpc' = IF ok THEN "get" ELSE "oops"
    /\ UNCHANGED <<sr, drv, aware, crtc, owner, wstate, contended, wret, userVars>>

\* Mutant: drm_atomic_state_clear is left out before the backoff, so the
\* retry gets back the crtc state duplicated before it.
DeadlockNoClear(l) ==
    /\ wpc' = "backoff"
    /\ contended' = l
    /\ owner' = Release(Work)
    /\ UNCHANGED <<wstate, wret>>

\* out: with -EDEADLK, drm_atomic_state_clear drops the duplicated states
\* and drm_modeset_backoff drops every lock before sleeping on the
\* contended one.
Deadlock(l) ==
    /\ wpc' = "backoff"
    /\ contended' = l
    /\ owner' = Release(Work)
    /\ wstate' = NoState
    /\ UNCHANGED wret

\* out, any other ret: put the state, drop the locks, return.
Out(ret) ==
    /\ wpc' = "idle"
    /\ wret' = ret
    /\ owner' = Release(Work)
    /\ wstate' = NoState
    /\ UNCHANGED contended

\* Mutant: the IS_ERR test after drm_atomic_get_crtc_state is dropped and
\* the error pointer is used as the crtc state.
EntryWorkGetCrtcNoErrCheck ==
    /\ wpc = "get"
    /\ \/ /\ owner["crtc"] = Free \/ owner["crtc"] = Work
          /\ \E ok \in Outcomes :
               LET st == IF wstate = NoState THEN crtc ELSE wstate IN
               IF ok /\ ~st.enable THEN Out("ok")
               ELSE /\ owner' = [owner EXCEPT !["crtc"] = Work]
                    /\ wstate' = IF ok THEN st ELSE [err |-> TRUE]
                    /\ wpc' = "conn"
                    /\ UNCHANGED <<contended, wret>>
       \/ /\ owner["crtc"] \in Users
          /\ Deadlock("crtc")
    /\ UNCHANGED <<sr, drv, aware, crtc, pending, userVars>>

\* retry: drm_atomic_get_crtc_state takes the crtc lock and duplicates the
\* committed state, or returns the state already in the atomic state.
\* ERR_PTR: -EDEADLK when a user holds the lock, -ENOMEM from the
\* duplicate. A disabled crtc ends the work.
EntryWorkGetCrtc ==
    /\ wpc = "get"
    /\ \/ /\ owner["crtc"] = Free \/ owner["crtc"] = Work
          /\ \E ok \in Outcomes :
               LET st == IF wstate = NoState THEN crtc ELSE wstate IN
               IF ~ok THEN Out("err")
               ELSE IF ~st.enable THEN /\ Out("ok")
               ELSE /\ owner' = [owner EXCEPT !["crtc"] = Work]
                    /\ wstate' = st
                    /\ wpc' = "conn"
                    /\ UNCHANGED <<contended, wret>>
       \/ /\ owner["crtc"] \in Users
          /\ Deadlock("crtc")
    /\ UNCHANGED <<sr, drv, aware, crtc, pending, userVars>>

\* drm_atomic_add_affected_connectors takes connection_mutex (-EDEADLK
\* or -ENOMEM on failure); a connector that is not self refresh aware
\* ends the work.
EntryWorkAddConnectors ==
    /\ wpc = "conn"
    /\ \/ /\ owner["conn"] = Free \/ owner["conn"] = Work
          /\ \E ok \in Outcomes :
               IF ~ok THEN Out("err")
               ELSE IF ~aware THEN Out("ok")
               ELSE /\ owner' = [owner EXCEPT !["conn"] = Work]
                    /\ wpc' = "commit"
                    /\ UNCHANGED <<wstate, contended, wret>>
       \/ /\ owner["conn"] \in Users
          /\ Deadlock("conn")
    /\ UNCHANGED <<sr, drv, aware, crtc, pending, userVars>>

\* active = false, self_refresh_active = true, drm_atomic_commit (whose
\* check calls alter_state on the work's own state; allow_modeset is the
\* default, true, for a kernel-internal state), then out.
EntryWorkCommit ==
    /\ wpc = "commit"
    /\ \E ok \in Outcomes :
        LET new == [wstate EXCEPT !.active = FALSE, !.srActive = TRUE] IN
        /\ pending' = (pending \/ (ok /\ ArmsEntryWork(new)))
        /\ crtc' = IF ok THEN new ELSE crtc
        /\ Out(IF ok THEN "ok" ELSE "err")
    /\ UNCHANGED <<sr, drv, aware, userVars>>

\* drm_modeset_backoff: sleeps until the contended lock is free, takes it,
\* returns 0 (the context is not interruptible), goto retry.
EntryWorkBackoff ==
    /\ wpc = "backoff"
    /\ owner[contended] = Free
    /\ owner' = [owner EXCEPT ![contended] = Work]
    /\ wpc' = "get"
    /\ UNCHANGED <<sr, drv, aware, crtc, pending, wstate, contended, wret, userVars>>

(***************************************************************************)
(* Specification                                                           *)
(***************************************************************************)
Init ==
    /\ sr = "null"
    /\ drv = "probe"
    /\ aware \in BOOLEAN
    /\ crtc \in {[enable |-> on, active |-> on, srActive |-> FALSE] : on \in BOOLEAN}
    /\ owner = [l \in Locks |-> Free]
    /\ pending = FALSE
    /\ wpc = "idle"
    /\ wstate = NoState
    /\ contended = "crtc"
    /\ wret = "ok"
    /\ upc = [u \in Users |-> "idle"]
    /\ ncommits = [u \in Users |-> 0]
    /\ uview = crtc.active
    /\ hiddenRej = FALSE

UsersDone == \A u \in Users : ncommits[u] = MaxCommits /\ upc[u] = "idle"

\* Every thread has returned or died: the driver is cleaned up or failed
\* its probe, and the entry work is idle or oopsed.
Terminated ==
    /\ drv \in {"cleaned", "failed"}
    /\ wpc \in {"idle", "oops"} /\ (wpc = "idle" => ~pending)

Next ==
    \/ drm_self_refresh_helper_init
    \/ drm_self_refresh_helper_cleanup
    \/ \E u \in Users : UserLockConn(u) \/ UserLockCrtc(u) \/ UserCommit(u)
    \/ EntryWorkStart
    \/ EntryWorkGetCrtc
    \/ EntryWorkAddConnectors
    \/ EntryWorkCommit
    \/ EntryWorkBackoff
    \/ Terminated /\ UNCHANGED vars

\* The workqueue runs a queued work and the timer fires; a sleeping
\* ww-mutex waiter is woken when the lock is released; user threads finish
\* the commit they started.
Fairness ==
    /\ WF_vars(drm_self_refresh_helper_init)
    /\ WF_vars(drm_self_refresh_helper_cleanup)
    /\ WF_vars(EntryWorkStart)
    /\ WF_vars(EntryWorkGetCrtc)
    /\ WF_vars(EntryWorkAddConnectors)
    /\ WF_vars(EntryWorkCommit)
    /\ WF_vars(EntryWorkBackoff)
    /\ \A u \in Users : WF_vars(UserLockCrtc(u)) /\ WF_vars(UserCommit(u))

Spec == Init /\ [][Next]_vars /\ Fairness

(***************************************************************************)
(* Properties                                                              *)
(***************************************************************************)
TypeOK ==
    /\ sr \in {"null", "init"}
    /\ drv \in {"probe", "up", "failed", "cleaned"}
    /\ aware \in BOOLEAN
    /\ crtc \in CrtcStates
    /\ owner \in [Locks -> Users \cup {Work, Free}]
    /\ pending \in BOOLEAN
    /\ wpc \in {"idle", "get", "conn", "commit", "backoff", "oops"}
    /\ wstate \in CrtcStates \cup {NoState}
    /\ contended \in Locks
    /\ wret \in {"ok", "err"}
    /\ upc \in [Users -> {"idle", "crtc", "check"}]
    /\ ncommits \in [Users -> 0..MaxCommits]
    /\ uview \in BOOLEAN
    /\ hiddenRej \in BOOLEAN

\* Self refresh is hidden from userspace: the committed crtc is enabled
\* exactly when userspace last enabled it, and is active exactly when
\* userspace made it active and it is not in self refresh; self refresh is
\* only entered on an enabled crtc. The entry work must re-read the crtc
\* state under its locks after every -EDEADLK backoff, so a user commit
\* that ran while the work slept is never undone by it.
SelfRefreshHidden ==
    /\ crtc.enable = uview
    /\ crtc.active = (uview /\ ~crtc.srActive)
    /\ crtc.srActive => crtc.enable

\* No user commit is rejected with -EINVAL for a modeset that only self
\* refresh made necessary: alter_state forces allow_modeset when the old
\* crtc state was in self refresh.
NoHiddenRejection == ~hiddenRej

\* Once the users have made their last commit, the entry work eventually
\* stops for good with the crtc in self refresh, unless the crtc is off,
\* its connector is not self refresh aware, or the work failed: the
\* -EDEADLK backoff loop ends, and the work's own commit does not re-arm
\* the timer. A work that oopsed on a failed drm_atomic_state_alloc never
\* runs again; that crash is stated by NoEntryWorkOops.
EntersSelfRefresh ==
    UsersDone ~> \/ wpc = "oops"
                 \/ /\ wpc = "idle" /\ ~pending
                    /\ \/ crtc.srActive \/ ~crtc.enable
                       \/ ~aware \/ wret = "err"

\* The entry work never dereferences a NULL atomic state: the out path
\* is not taken with the state of a failed drm_atomic_state_alloc.
NoEntryWorkOops == wpc # "oops"

====
