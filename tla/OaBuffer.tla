------------------------------ MODULE OaBuffer ------------------------------
(***************************************************************************)
(* The OA buffer of an i915 perf stream (i915_perf.c), on Haswell (gen7) *)
(* and on gen8+, as i915_perf_init picks the ops: the OA unit             *)
(* writing counter reports into a circular buffer, the hrtimer that ages  *)
(* the hardware tail pointer before readers may use it, read() copying    *)
(* reports to userspace, and the enable/disable ioctls.                   *)
(*                                                                         *)
(* Offsets are counted in reports (OA_BUFFER_SIZE / report_size slots) and *)
(* gtt_offset is taken as 0, so OA_TAKEN is subtraction modulo N.  A      *)
(* report is a record [id, ctx, sw]: the position of the report in the    *)
(* hardware's output, its context id and whether its reason is a context  *)
(* switch.  A slot whose report-id dword is zero is Zeroed.               *)
(*                                                                         *)
(* Time is abstracted to the one fact the tail aging relies on: once      *)
(* OA_TAIL_MARGIN_NSEC has passed since a tail was sampled, the reports   *)
(* before it are visible to the CPU (ripe).                               *)
(***************************************************************************)
EXTENDS Naturals, Sequences

CONSTANTS
    N,            \* slots in the OA buffer
    MaxReports,   \* bound on the reports the OA unit produces
    Ctxs,         \* context ids reports carry
    NoCtx,        \* INVALID_CTX_ID, and "no exclusive context"
    Specific,     \* specific_ctx_id of the stream, NoCtx when not filtering
    SwReasons,    \* values of "reason & OAREPORT_REASON_CTX_SWITCH"
    Count,        \* size of the userspace read() buffer
    StatusSize,   \* sizeof(struct drm_i915_perf_record_header)
    SampleSize,   \* stream->sample_size
    LostReports,  \* whether the OA unit may raise REPORT_LOST
    Gens          \* the generations the driver may run on: 7 (Haswell), 8

ASSUME Count >= StatusSize /\ Count >= SampleSize

Invalid == N      \* INVALID_TAIL_PTR: no slot has this offset
Slots == 0..N - 1
Zeroed == [id |-> 0, ctx |-> NoCtx, sw |-> FALSE]
Report == [id : 0..MaxReports, ctx : Ctxs \cup {NoCtx}, sw : BOOLEAN]

VARIABLES
    hwOn,      \* GEN8_OACONTROL counter enable
    hwTail,    \* GEN8_OATAILPTR
    flight,    \* reports the tail pointer covers but memory does not show yet
    mem,       \* the buffer as the CPU sees it: slot -> report
    status,    \* GEN8_OASTATUS bits: subset of {"overflow", "lost"}
    written,   \* reports the OA unit produced (written or dropped)
    head,      \* oa_buffer.head, also written to GEN8_OAHEADPTR
    tails,     \* oa_buffer.tails[0..1].offset
    agedIdx,   \* oa_buffer.aged_tail_idx
    ripe,      \* now - aging_timestamp > OA_TAIL_MARGIN_NSEC
    lastCtx,   \* oa_buffer.last_ctx_id
    pollin,    \* stream->pollin
    enabled,   \* stream->enabled
    rpc,       \* where the read() thread is
    blocking,  \* the read() is on a blocking file
    ost,       \* the local oastatus of gen8_oa_read
    off,       \* *offset: bytes copied by this read()
    sOff,      \* start_offset of gen8_append_oa_reports
    rh, rt,    \* local head and tail of gen8_append_oa_reports
    rerr,      \* the error the read ran into
    out,       \* records userspace received, in order (history)
    skipped,   \* report ids the driver may rightly withhold (history)
    dropped,   \* report ids the OA unit dropped (history)
    unreported,\* a report was dropped since the last loss record (history)
    gen,       \* the generation, fixed: perf->ops as i915_perf_init set them
    latched,   \* perf->gen7_latched_oastatus1
    announced, \* a REPORT_LOST record went out since the buffer init (history)
    trampled   \* the OA unit wrote past the head since the buffer init (history)

hwVars == <<hwOn, hwTail, flight, mem, status, written, gen>>
bufVars == <<head, tails, agedIdx, ripe, lastCtx, pollin, enabled, latched>>
rdVars == <<rpc, blocking, ost, off, sOff, rh, rt, rerr>>
ghost == <<out, skipped, dropped, unreported, announced, trampled>>
vars == <<hwVars, bufVars, rdVars, ghost>>

OA_TAKEN(t, h) == (t - h) % N

\* slot s is covered by the tail pointer and visible in memory
Landed(s) == OA_TAKEN(hwTail, s) > Len(flight)

(***************************************************************************)
(* The OA unit.                                                            *)
(***************************************************************************)
\* The buffer is full up to GEN8_OAHEADPTR
Full == OA_TAKEN(hwTail, head) = N - 1

\* A report is produced: the tail pointer moves before the data is visible.
\* Haswell's OA unit filters by context itself (GEN7_OACONTROL_PER_CTX_ENABLE).
\* On a full buffer the OA unit may fail to suppress the report ("old
\* reports are now being trampled over", gen8_oa_read): it sets OVERFLOW
\* and goes on writing past the head over unread reports.  A report lands
\* before the unit gets a whole buffer ahead of memory.
HwWrite(c, sw) ==
    /\ hwOn /\ written < MaxReports
    /\ gen = 7 /\ Specific # NoCtx => c = Specific
    /\ Len(flight) < N - 1
    /\ hwTail' = (hwTail + 1) % N
    /\ flight' = Append(flight, [id |-> written + 1, ctx |-> c, sw |-> sw])
    /\ written' = written + 1
    /\ IF Full
         THEN /\ status' = status \cup {"overflow"}
              /\ unreported' = TRUE
              /\ trampled' = TRUE
         ELSE UNCHANGED <<status, unreported, trampled>>
    /\ UNCHANGED <<hwOn, mem, gen, bufVars, rdVars, out, skipped, dropped, announced>>

\* The buffer is full and the OA unit suppresses the report
HwOverflow ==
    /\ hwOn /\ written < MaxReports
    /\ Full
    /\ status' = status \cup {"overflow"}
    /\ written' = written + 1
    /\ dropped' = dropped \cup {written + 1}
    /\ unreported' = TRUE
    /\ UNCHANGED <<hwOn, hwTail, flight, mem, gen, bufVars, rdVars, out, skipped,
                   announced, trampled>>

\* The OA unit loses a report for another reason (REPORT_LOST).  Haswell's
\* bit cannot be cleared while the unit runs: a REPORT_LOST record already
\* sent since the buffer init stands for every later loss until the next.
HwReportLost ==
    /\ LostReports /\ hwOn /\ written < MaxReports
    /\ status' = status \cup {"lost"}
    /\ written' = written + 1
    /\ dropped' = dropped \cup {written + 1}
    /\ unreported' = (unreported \/ ~(gen = 7 /\ announced))
    /\ UNCHANGED <<hwOn, hwTail, flight, mem, gen, bufVars, rdVars, out, skipped,
                   announced, trampled>>

\* The oldest report in flight becomes visible to the CPU
HwLand ==
    /\ flight # <<>>
    /\ mem' = [mem EXCEPT ![(hwTail - Len(flight)) % N] = Head(flight)]
    /\ flight' = Tail(flight)
    /\ UNCHANGED <<hwOn, hwTail, status, written, gen, bufVars, rdVars, ghost>>

\* OA_TAIL_MARGIN_NSEC passes for the aging tail; the reports before it
\* are then visible, which is the timing the workaround depends on
MarginElapses ==
    /\ tails[1 - agedIdx] # Invalid /\ ~ripe
    /\ OA_TAKEN(hwTail, tails[1 - agedIdx]) >= Len(flight)
    /\ ripe' = TRUE
    /\ UNCHANGED <<hwVars, head, tails, agedIdx, lastCtx, pollin, enabled,
                   latched, rdVars, ghost>>

(***************************************************************************)
(* The tail check, run by the hrtimer and by a blocking read()'s wait.    *)
(***************************************************************************)
\* oa_buffer_check_unlocked: the new tails[], aged_tail_idx and ripeness,
\* and whether the aged tail is at least one report past head
CheckWith(mayFlip) ==
    LET aging0 == tails[1 - agedIdx]
        flip   == aging0 # Invalid /\ mayFlip
        idx    == IF flip THEN 1 - agedIdx ELSE agedIdx
        aged   == IF flip THEN aging0 ELSE tails[agedIdx]
        tails1 == IF flip THEN [tails EXCEPT ![agedIdx] = Invalid] ELSE tails
        aging1 == IF flip THEN Invalid ELSE aging0
        start  == aging1 = Invalid
                  /\ (aged = Invalid \/ OA_TAKEN(hwTail, aged) >= 1)
    IN  [tails   |-> IF start THEN [tails1 EXCEPT ![1 - idx] = hwTail] ELSE tails1,
         agedIdx |-> idx,
         ripe    |-> IF flip \/ start THEN FALSE ELSE ripe,
         ret     |-> aged # Invalid /\ OA_TAKEN(aged, head) >= 1]

\* Faulty variant: the aging tail is trusted without waiting for the margin
CheckNoMargin == CheckWith(TRUE)

oa_buffer_check_unlocked == CheckWith(ripe)

ApplyCheck(c) ==
    /\ tails' = c.tails
    /\ agedIdx' = c.agedIdx
    /\ ripe' = c.ripe

\* oa_poll_check_timer_cb: the hrtimer runs while the stream is enabled
\* (started by i915_oa_stream_enable, cancelled by i915_oa_stream_disable)
TimerCheck ==
    LET c == oa_buffer_check_unlocked IN
    /\ enabled
    /\ ApplyCheck(c)
    /\ pollin' = (pollin \/ c.ret)
    /\ UNCHANGED <<hwVars, head, lastCtx, enabled, latched, rdVars, ghost>>

\* gen8_init_oa_buffer, under ptr_lock, then the memset and pollin reset.
\* Reports still in flight are dropped with the buffer contents.  The
\* announced history restarts with the buffer.
InitOaBuffer ==
    /\ status' = {}
    /\ head' = 0
    /\ hwTail' = 0
    /\ tails' = [i \in {0, 1} |-> Invalid]
    /\ ripe' = FALSE
    /\ lastCtx' = NoCtx
    /\ mem' = [s \in Slots |-> Zeroed]
    /\ flight' = <<>>
    /\ pollin' = FALSE
    /\ announced' = FALSE
    /\ trampled' = FALSE

\* Faulty variant: the latched status is kept across the re-init
Gen7InitKeepsLatch == InitOaBuffer /\ UNCHANGED latched

\* gen7_init_oa_buffer: as gen8's (OASTATUS2 is the head, OASTATUS1 the
\* tail), and the latched OASTATUS1 flags are forgotten
gen7_init_oa_buffer == InitOaBuffer /\ latched' = {}

\* gen8_oa_enable: re-init the buffer, then set the counter enable
gen8_oa_enable == InitOaBuffer /\ hwOn' = TRUE /\ UNCHANGED latched

\* gen7_oa_enable: re-init the buffer, then GEN7_OACONTROL_ENABLE
gen7_oa_enable == gen7_init_oa_buffer /\ hwOn' = TRUE

\* i915_perf_init: the ops of Haswell or of gen8+
oa_enable == IF gen = 7 THEN gen7_oa_enable ELSE gen8_oa_enable

\* i915_oa_stream_enable: ops.oa_enable, then the hrtimer is started for a
\* periodic stream (every stream here is periodic: TimerCheck runs while
\* enabled)
i915_oa_stream_enable == oa_enable

(***************************************************************************)
(* The ioctls, under perf->lock: not while read() holds it.                *)
(***************************************************************************)
ReaderHoldsLock == rpc \in {"lost", "snap", "loop", "wb"}

LastId == LET ids == {out[i].id : i \in DOMAIN out} IN
          IF ids = {} THEN 0 ELSE CHOOSE m \in ids : \A k \in ids : k <= m

\* i915_perf_enable_locked -> i915_oa_stream_enable: no promise is made
\* about reports buffered before, so they join the withheld ones
IoctlEnable ==
    /\ ~ReaderHoldsLock /\ ~enabled
    /\ enabled' = TRUE
    /\ i915_oa_stream_enable
    /\ skipped' = skipped \cup (LastId + 1..written)
    /\ unreported' = FALSE
    /\ UNCHANGED <<written, gen, agedIdx, rdVars, out, dropped>>

\* gen8_oa_disable: clear the counter enable and wait for the unit to stop
gen8_oa_disable == hwOn' = FALSE

\* gen7_oa_disable: clear GEN7_OACONTROL and wait for the unit to stop
gen7_oa_disable == hwOn' = FALSE

oa_disable == IF gen = 7 THEN gen7_oa_disable ELSE gen8_oa_disable

\* i915_oa_stream_disable: ops.oa_disable, then hrtimer_cancel
i915_oa_stream_disable == oa_disable

\* i915_perf_disable_locked -> i915_oa_stream_disable (the hrtimer is
\* cancelled with enabled)
IoctlDisable ==
    /\ ~ReaderHoldsLock /\ enabled
    /\ enabled' = FALSE
    /\ i915_oa_stream_disable
    /\ UNCHANGED <<hwTail, flight, mem, status, written, gen, head, tails, agedIdx,
                   ripe, lastCtx, pollin, latched, rdVars, ghost>>

(***************************************************************************)
(* read(): i915_perf_read, i915_oa_wait_unlocked, i915_perf_read_locked,   *)
(* gen8_oa_read and gen8_append_oa_reports, one step per lock section and  *)
(* per report.  The hrtimer and the OA unit run between any two steps.    *)
(***************************************************************************)
\* a record userspace receives; sus marks a sample copied while the OA unit
\* had written past the head
Lost(kind) == [kind |-> kind, id |-> 0, sus |-> FALSE]
Sample(r) == [kind |-> "sample", id |-> r.id, sus |-> trampled]

\* i915_perf_read: -EIO on a disabled stream (no state changes), else a
\* blocking file waits first; the check of enabled is made without perf->lock
ReadStart ==
    /\ rpc = "idle" /\ enabled
    /\ \E b \in BOOLEAN : /\ blocking' = b
                          /\ rpc' = IF b THEN "wait" ELSE "lock"
    /\ off' = 0 /\ sOff' = 0 /\ rerr' = "none"
    /\ UNCHANGED <<hwVars, bufVars, ost, rh, rt, ghost>>

\* i915_oa_wait_unlocked: wait_event_interruptible(oa_buffer_check_unlocked)
ReadWait ==
    LET c == oa_buffer_check_unlocked IN
    /\ rpc = "wait"
    /\ ApplyCheck(c)
    /\ rpc' = IF c.ret THEN "lock" ELSE "wait"
    /\ UNCHANGED <<hwVars, head, lastCtx, pollin, enabled, latched, blocking, ost, off,
                   sOff, rh, rt, rerr, ghost>>

\* The status the read looks at: GEN8_OASTATUS, or Haswell's GEN7_OASTATUS1
\* without the flags already reported (gen7_latched_oastatus1)
StatusRead == IF gen = 7 THEN status \ latched ELSE status

\* gen8_oa_read (gen7_oa_read alike) under perf->lock up to the REPORT_LOST test: on overflow a
\* BUFFER_LOST record, then oa_disable + oa_enable and a reread of OASTATUS.
\* The status records are the first thing this read_locked call copies, so
\* their -ENOSPC returns need count < header size and are left out.
ReadStatus ==
    /\ rpc = "lock"
    /\ rpc' = "lost"
    /\ IF "overflow" \in StatusRead
         THEN /\ out' = Append(out, Lost("BUFFER_LOST"))
              /\ off' = off + StatusSize
              /\ oa_enable
              /\ ost' = {}
              /\ unreported' = FALSE
         ELSE /\ ost' = StatusRead
              /\ UNCHANGED <<hwVars, head, tails, ripe, lastCtx, pollin, latched,
                             off, out, unreported, announced, trampled>>
    /\ UNCHANGED <<written, gen, agedIdx, enabled, blocking, sOff, rh, rt, rerr,
                   skipped, dropped>>

\* gen8: the status register is written back from the value read before,
\* without the REPORT_LOST bit
gen8_report_lost_ack == status' = ost \ {"lost"} /\ UNCHANGED latched

\* gen7: the bit cannot be cleared, so it is latched and masked from now on
gen7_report_lost_ack == latched' = latched \cup {"lost"} /\ UNCHANGED status

ReportLostAck == IF gen = 7 THEN gen7_report_lost_ack ELSE gen8_report_lost_ack

\* The REPORT_LOST record and its acknowledgement
ReadReportLost ==
    /\ rpc = "lost"
    /\ IF "lost" \notin ost
         THEN /\ rpc' = "snap"
              /\ UNCHANGED <<status, latched, off, rerr, out, unreported, announced>>
         ELSE /\ out' = Append(out, Lost("REPORT_LOST"))
              /\ off' = off + StatusSize
              /\ ReportLostAck
              /\ unreported' = FALSE
              /\ announced' = TRUE
              /\ rpc' = "snap"
              /\ UNCHANGED rerr
    /\ UNCHANGED <<hwOn, hwTail, flight, mem, written, gen, head, tails, agedIdx,
                   ripe, lastCtx, pollin, enabled, blocking, ost, sOff, rh, rt,
                   skipped, dropped, trampled>>

\* gen8_append_oa_reports up to the loop: head and the aged tail under
\* ptr_lock; -EIO when disabled, -EAGAIN while the tail is invalid
ReadSnapshot ==
    /\ rpc = "snap"
    /\ sOff' = off
    /\ CASE ~enabled                 -> rpc' = "ret" /\ rerr' = "EIO"
                                        /\ UNCHANGED <<rh, rt>>
         [] tails[agedIdx] = Invalid -> rpc' = "ret" /\ rerr' = "EAGAIN"
                                        /\ UNCHANGED <<rh, rt>>
         [] OTHER                    -> rpc' = "loop" /\ rh' = head
                                        /\ rt' = tails[agedIdx]
                                        /\ UNCHANGED rerr
    /\ UNCHANGED <<hwVars, bufVars, blocking, ost, off, ghost>>

\* Faulty variant: reports are forwarded only for a matching context
ForwardedNoGlobal(r) ==
    \/ Specific = r.ctx
    \/ lastCtx = Specific
    \/ r.sw

\* The single-context filter of the copy loop
Forwarded(r) ==
    \/ Specific = NoCtx
    \/ Specific = r.ctx
    \/ lastCtx = Specific
    \/ r.sw

\* gen8_append_oa_reports filters on the CPU and tracks last_ctx_id;
\* gen7_append_oa_reports copies every report the OA unit wrote
Filters == gen # 7

\* Faulty variant: the loop increment without "& mask"
NextHeadNoMask(h) == h + 1

\* the loop increment "head = (head + report_size) & mask"
NextHead(h) == (h + 1) % N

\* One pass of the copy loop: the report at the local head is skipped when
\* its reason is zero, filtered, or appended (breaking on -ENOSPC); a
\* report looked at is zeroed, and the local head moves on
ReadReport ==
    LET r == mem[rh] IN
    /\ rpc = "loop" /\ OA_TAKEN(rt, rh) # 0
    /\ CASE r.id = 0 ->
              /\ rh' = NextHead(rh)
              /\ UNCHANGED <<mem, lastCtx, off, out, skipped, rpc, rerr>>
         [] Filters /\ ~Forwarded(r) ->
              /\ mem' = [mem EXCEPT ![rh] = Zeroed]
              /\ skipped' = skipped \cup {r.id}
              /\ rh' = NextHead(rh)
              /\ UNCHANGED <<lastCtx, off, out, rpc, rerr>>
         [] Count - off < SampleSize ->
              /\ rpc' = "wb" /\ rerr' = "ENOSPC"
              /\ UNCHANGED <<mem, lastCtx, off, out, skipped, rh>>
         [] OTHER ->
              /\ out' = Append(out, Sample(r))
              /\ off' = off + SampleSize
              /\ lastCtx' = IF Filters THEN r.ctx ELSE lastCtx
              /\ mem' = [mem EXCEPT ![rh] = Zeroed]
              /\ rh' = NextHead(rh)
              /\ UNCHANGED <<skipped, rpc, rerr>>
    /\ UNCHANGED <<hwOn, hwTail, flight, status, written, gen, head, tails, agedIdx,
                   ripe, pollin, enabled, latched, blocking, ost, sOff, rt, dropped,
                   unreported, announced, trampled>>

ReadLoopEnd ==
    /\ rpc = "loop" /\ OA_TAKEN(rt, rh) = 0
    /\ rpc' = "wb"
    /\ UNCHANGED <<hwVars, bufVars, blocking, ost, off, sOff, rh, rt, rerr,
                   ghost>>

\* Faulty variant: head is moved to the snapshot tail
WriteBackTail == rt

WriteBackHead == rh

\* "if (start_offset != *offset)": head goes back under ptr_lock only when
\* this call copied something
ReadWriteBack ==
    /\ rpc = "wb"
    /\ head' = IF sOff # off THEN WriteBackHead ELSE head
    /\ rpc' = "ret"
    /\ UNCHANGED <<hwVars, tails, agedIdx, ripe, lastCtx, pollin, enabled, latched,
                   blocking, ost, off, sOff, rh, rt, rerr, ghost>>

\* i915_perf_read_locked's "offset ?: (ret ?: -EAGAIN)", the blocking
\* retry on -EAGAIN, and the pollin reset
ReadResult == IF off > 0 THEN "ok" ELSE IF rerr = "none" THEN "EAGAIN" ELSE rerr

ReadReturn ==
    /\ rpc = "ret"
    /\ rpc' = IF blocking /\ ReadResult = "EAGAIN" THEN "wait" ELSE "idle"
    /\ pollin' = IF rpc' = "idle" /\ ReadResult \in {"ok", "EAGAIN"}
                   THEN FALSE ELSE pollin
    /\ off' = IF rpc' = "wait" THEN 0 ELSE off
    /\ rerr' = IF rpc' = "wait" THEN "none" ELSE rerr
    /\ UNCHANGED <<hwVars, head, tails, agedIdx, ripe, lastCtx, enabled, latched,
                   blocking, ost, sOff, rh, rt, ghost>>

Init ==
    /\ hwOn = TRUE /\ hwTail = 0 /\ flight = <<>> /\ status = {} /\ written = 0
    /\ mem = [s \in Slots |-> Zeroed]
    /\ head = 0 /\ tails = [i \in {0, 1} |-> Invalid] /\ agedIdx = 0 /\ ripe = FALSE
    /\ lastCtx = NoCtx /\ pollin = FALSE /\ enabled = TRUE
    /\ rpc = "idle" /\ blocking = FALSE /\ ost = {} /\ off = 0 /\ sOff = 0
    /\ rh = 0 /\ rt = 0 /\ rerr = "none"
    /\ out = <<>> /\ skipped = {} /\ dropped = {} /\ unreported = FALSE
    /\ gen \in Gens /\ latched = {} /\ announced = FALSE /\ trampled = FALSE

Next ==
    \/ \E c \in Ctxs, sw \in SwReasons : HwWrite(c, sw)
    \/ HwOverflow \/ HwReportLost \/ HwLand \/ MarginElapses
    \/ TimerCheck \/ IoctlEnable \/ IoctlDisable
    \/ ReadStart \/ ReadWait \/ ReadStatus \/ ReadReportLost \/ ReadSnapshot
    \/ ReadReport \/ ReadLoopEnd \/ ReadWriteBack \/ ReadReturn

\* The hrtimer fires every POLL_PERIOD while armed, time passes, written
\* reports reach memory, the read() thread runs when runnable, and
\* userspace keeps calling read(); the OA unit and the ioctls get no
\* fairness.
Fairness ==
    /\ WF_vars(TimerCheck) /\ WF_vars(MarginElapses) /\ WF_vars(HwLand)
    /\ WF_vars(ReadStart) /\ WF_vars(ReadWait) /\ WF_vars(ReadStatus)
    /\ WF_vars(ReadReportLost) /\ WF_vars(ReadSnapshot) /\ WF_vars(ReadReport)
    /\ WF_vars(ReadLoopEnd) /\ WF_vars(ReadWriteBack) /\ WF_vars(ReadReturn)

Spec == Init /\ [][Next]_vars /\ Fairness

(***************************************************************************)
(* Properties                                                              *)
(***************************************************************************)
TypeOK ==
    /\ hwOn \in BOOLEAN /\ hwTail \in Slots /\ written \in 0..MaxReports
    /\ mem \in [Slots -> Report] /\ status \subseteq {"overflow", "lost"}
    /\ head \in Slots /\ tails \in [{0, 1} -> Slots \cup {Invalid}]
    /\ agedIdx \in {0, 1} /\ lastCtx \in Ctxs \cup {NoCtx}
    /\ rpc \in {"idle", "wait", "lock", "lost", "snap", "loop", "wb", "ret"}
    /\ rh \in Slots /\ rt \in Slots /\ off \in 0..Count
    /\ gen \in Gens /\ latched \subseteq {"lost"}

\* The slots from a to b (exclusive), going round the buffer
Window(a, b) == {(a + k) % N : k \in 0..OA_TAKEN(b, a) - 1}

\* The tail aging of oa_buffer_check_unlocked against the OA unit's tail
\* race: every report between head and the aged tail, and every report
\* the copy loop still has to look at, is visible in memory.  Otherwise
\* the loop would take a report it reads as zero for a spurious one and
\* skip it for good.  This holds until the OA unit writes past the head;
\* from then on the code concedes that the buffer is being overwritten.
ReadWindowLanded ==
    ~trampled =>
      /\ tails[agedIdx] # Invalid =>
           \A s \in Window(head, tails[agedIdx]) : Landed(s)
      /\ rpc = "loop" => \A s \in Window(rh, rt) : Landed(s)

\* What userspace reads from the stream is faithful to what the OA unit
\* produced, for the samples copied before the OA unit wrote past the head
\* (after that gen8_oa_read "has to assume that old reports are now being
\* trampled over", and the next read gives a BUFFER_LOST record and
\* restarts): those samples come in production order, each at most once,
\* and two of them with no record between skip only reports the context
\* filter withheld, re-enabling discarded, or the OA unit suppressed.
StreamFaithful ==
    LET o == <<[kind |-> "sample", id |-> 0, sus |-> FALSE]>> \o out
        good(i) == o[i].kind = "sample" /\ ~o[i].sus
    IN
    /\ \A i, j \in DOMAIN o : i < j /\ good(i) /\ good(j) => o[i].id < o[j].id
    /\ \A i \in 1..Len(o) - 1 :
         good(i) /\ good(i + 1) =>
           \A k \in o[i].id + 1..o[i + 1].id - 1 : k \in skipped \cup dropped

\* A blocking read() asleep in i915_oa_wait_unlocked: the tail check it
\* would run on a wake-up finds no data
Asleep == rpc = "wait" /\ ~oa_buffer_check_unlocked.ret

\* A blocking read() of gen8 OA data returns, or sleeps in
\* i915_oa_wait_unlocked because the tail check finds no data; it does not
\* keep retrying on -EAGAIN with the check always true.
BlockingReadSleepsOrReturns ==
    [](rpc # "idle" /\ blocking => <>(rpc = "idle" \/ Asleep))

\* A report the OA unit drops (OVERFLOW or REPORT_LOST in the OA status)
\* is eventually announced by a loss record to userspace that keeps
\* reading, unless the stream is disabled or a blocking reader sleeps for
\* want of data (the read looks at the status only once woken).  On
\* Haswell a REPORT_LOST record stands for every loss after it until the
\* buffer is re-initialised, which must then forget the latched flag.
LossEventuallyReported ==
    [](unreported => <>(~unreported \/ ~enabled \/ Asleep))

\* The OA unit counts only for an enabled stream: i915_oa_stream_disable
\* stops it, and only i915_oa_stream_enable starts it again.
OaUnitOffWhileDisabled == hwOn => enabled

====
