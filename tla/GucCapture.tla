----------------------------- MODULE GucCapture -----------------------------
(***************************************************************************)
(* GuC error-capture output processing, intel_guc_capture.c.              *)
(*                                                                         *)
(* The GuC firmware dumps register lists into the error-capture region of *)
(* its log buffer as "capture groups" (a group header followed by a       *)
(* GLOBAL record and, per engine reset together, an ENGINE_CLASS and an   *)
(* ENGINE_INSTANCE record, each followed by its registers) and sends a    *)
(* STATE_CAPTURE_NOTIFICATION.  The driver's handler                      *)
(* __guc_capture_process_output snapshots read/write offsets, calls       *)
(* guc_capture_extract_reglists once per group until it fails, assembles  *)
(* "parsed output nodes" into guc->capture->outlist, then writes          *)
(* read_ptr := the snapshot write offset.                                  *)
(*                                                                         *)
(* The byte ring and its wrap-around reads are GucCaptureRing; here the   *)
(* region holds a sequence of groups and offsets are group indices.       *)
(* A register record is identified by the data record that carried it:   *)
(* a node slot holds the id <<group, record>> of the record it came from. *)
(***************************************************************************)
EXTENDS Naturals, Sequences, FiniteSets

CONSTANTS
    Engines,        \* engines as records [cls, inst, ctx]
    NumRegs(_, _),  \* NumRegs(type, class): registers GuC dumps for a list
    DepGroups,      \* sequences of engines GuC may reset and dump together
    MaxGroups,      \* bound on capture groups GuC writes
    AllocMayFail,   \* kzalloc/kcalloc may return NULL
    UnknownRecords  \* GuC may emit a record of a type this driver does not know

\* enum guc_capture_type (intel_guc_fwif.h)
TYPE_GLOBAL   == 0
TYPE_CLASS    == 1
TYPE_INSTANCE == 2
Types    == {TYPE_GLOBAL, TYPE_CLASS, TYPE_INSTANCE}
TYPE_UNKNOWN  == 3

NoNode == [none |-> TRUE]
NoEng  == [cls |-> 0, inst |-> 0, ctx |-> 0]

VARIABLES
    log,        \* groups GuC has written, oldest first
    pending,    \* STATE_CAPTURE_NOTIFICATION messages not yet handled
    rdPtr,      \* log_buf_state->read_ptr
    resetting,  \* uc->reset_in_progress
    pc,         \* handler position: "idle", "extract" or "loop"
    snap,       \* write_offset sampled at the start of the pass
    cur,        \* buf.rd: groups consumed by the pass so far
    ri,         \* records of the current group already consumed
    node,       \* the node being assembled, or NoNode
    outlist,    \* guc->capture->outlist
    parsed,     \* history: groups extract_reglists consumed completely
    dropped,    \* history: groups skipped by read_ptr := write_offset
    unclone     \* history: groups in which a guc_capture_clone_node failed

vars == <<log, pending, rdPtr, resetting, pc, snap, cur, ri, node, outlist,
          parsed, dropped, unclone>>

(***************************************************************************)
(* What GuC writes (firmware, outside this repository; the layout is the  *)
(* one the comment in guc_capture_extract_reglists draws).                *)
(***************************************************************************)
Rec(t, e) == [type |-> t, eng |-> e, nregs |-> NumRegs(t, e.cls)]
UnknownRec == [type |-> TYPE_UNKNOWN, eng |-> NoEng, nregs |-> 1]

GroupRecs(deps, unk) ==
    <<Rec(TYPE_GLOBAL, NoEng)>>
    \o (IF unk THEN <<UnknownRec>> ELSE <<>>)
    \o [k \in 1..2 * Len(deps) |->
            Rec(IF k % 2 = 1 THEN TYPE_CLASS ELSE TYPE_INSTANCE, deps[(k + 1) \div 2])]

Group == log[cur + 1]

(***************************************************************************)
(* Parsed output nodes (struct __guc_capture_parsed_output).  A slot is   *)
(* reginfo[type]: ptr is regs != NULL, num is num_regs, rec the record.   *)
(***************************************************************************)
EmptySlot == [ptr |-> FALSE, num |-> 0, rec |-> <<0, 0>>]

\* guc_capture_alloc_one_node: kzalloc, so class/instance/guc_id read 0
ZeroNode == [slot |-> [t \in Types |-> EmptySlot], cls |-> 0, inst |-> 0, ctx |-> 0]

HasData(n) == n # NoNode /\ \E t \in Types : n.slot[t].ptr

\* guc_capture_clone_node: kcalloc(num_regs) of a kept list is never NULL
\* when it succeeds, even for num_regs = 0 (a zero-size allocation).
CloneNode(n, keep) ==
    [slot |-> [t \in Types |-> IF t \in keep THEN [n.slot[t] EXCEPT !.ptr = TRUE]
                                           ELSE EmptySlot],
     cls  |-> IF TYPE_CLASS \in keep THEN n.cls ELSE 0,
     inst |-> IF TYPE_INSTANCE \in keep THEN n.inst ELSE 0,
     ctx  |-> IF TYPE_INSTANCE \in keep THEN n.ctx ELSE 0]

\* The engine fields the data header writes into the node, per datatype
Stamp(n, r) ==
    CASE r.type = TYPE_INSTANCE -> [n EXCEPT !.cls = r.eng.cls, !.inst = r.eng.inst,
                                        !.ctx = r.eng.ctx]
      [] r.type = TYPE_CLASS    -> [n EXCEPT !.cls = r.eng.cls]
      [] OTHER             -> n

\* Faulty variant: the split without the ENGINE_INSTANCE branch
StartsNewNodeNoInstance(n, r) ==
    /\ n # NoNode
    /\ \/ r.type = TYPE_GLOBAL
       \/ r.type = TYPE_CLASS /\ n.slot[TYPE_CLASS].ptr

\* A node is complete when the next record would overwrite one of its lists
StartsNewNode(n, r) ==
    /\ n # NoNode
    /\ \/ r.type = TYPE_GLOBAL
       \/ r.type = TYPE_CLASS /\ n.slot[TYPE_CLASS].ptr
       \/ r.type = TYPE_INSTANCE /\ n.slot[TYPE_INSTANCE].ptr

\* Faulty variant: the clone keeps the class list but not the global one
KeptListsNoGlobal(r) == IF r.type = TYPE_CLASS THEN {} ELSE {TYPE_CLASS}

\* The lists guc_capture_clone_node is asked to duplicate, per datatype
KeptLists(r) == IF r.type = TYPE_CLASS THEN {TYPE_GLOBAL} ELSE {TYPE_GLOBAL, TYPE_CLASS}

\* Faulty variant: bailout sees the node pointer that was already linked
NodeAtBailoutStale(fresh, nodeOk, base) == IF fresh /\ ~nodeOk THEN node ELSE base

\* The node pointer at the bailout label after -ENOMEM: NULL when the
\* allocation of a node failed, else the stamped node without the new list
NodeAtBailout(fresh, nodeOk, base) == IF fresh /\ ~nodeOk THEN NoNode ELSE base

AddIfData(list, n) == IF HasData(n) THEN Append(list, n) ELSE list

Outcomes == IF AllocMayFail THEN BOOLEAN ELSE {TRUE}

(***************************************************************************)
(* Environment: GuC writes a group and notifies; a GT reset starts/ends.  *)
(***************************************************************************)
FwCapture(deps, unk) ==
    /\ Len(log) < MaxGroups
    /\ log' = Append(log, GroupRecs(deps, unk))
    /\ pending' = pending + 1
    /\ UNCHANGED <<rdPtr, resetting, pc, snap, cur, ri, node, outlist, parsed, dropped, unclone>>

ResetToggle ==
    /\ resetting' = ~resetting
    /\ UNCHANGED <<log, pending, rdPtr, pc, snap, cur, ri, node, outlist, parsed, dropped, unclone>>

(***************************************************************************)
(* __guc_capture_process_output: snapshot, then extract or skip.          *)
(***************************************************************************)
\* End of the pass: read_ptr := write_offset, whatever was parsed
FinishPass ==
    /\ rdPtr' = snap
    /\ pc' = "idle"
    /\ dropped' = dropped \cup ((cur + 1)..snap)

\* Faulty variant: the pass starts from offset 0, not from read_ptr
ProcessStartFromZero ==
    /\ pc = "idle"
    /\ pending > 0
    /\ pending' = pending - 1
    /\ IF resetting
         THEN /\ rdPtr' = Len(log)
              /\ dropped' = dropped \cup ((rdPtr + 1)..Len(log))
              /\ UNCHANGED <<pc, snap, cur>>
         ELSE /\ snap' = Len(log)
              /\ cur' = 0
              /\ pc' = "extract"
              /\ UNCHANGED <<rdPtr, dropped>>
    /\ UNCHANGED <<log, resetting, ri, node, outlist, parsed, unclone>>

\* Faulty variant: the handler returns early during a reset, before it
\* consumes the notification and moves read_ptr
ProcessStartSkipOnReset ==
    /\ pc = "idle"
    /\ pending > 0
    /\ ~resetting
    /\ pending' = pending - 1
    /\ snap' = Len(log)
    /\ cur' = rdPtr
    /\ pc' = "extract"
    /\ UNCHANGED <<rdPtr, dropped, log, resetting, ri, node, outlist, parsed, unclone>>

\* A STATE_CAPTURE_NOTIFICATION is handled: the offsets are sampled; during
\* a reset nothing is parsed and read_ptr jumps to the write offset
ProcessStart ==
    /\ pc = "idle"
    /\ pending > 0
    /\ pending' = pending - 1
    /\ IF resetting
         THEN /\ rdPtr' = Len(log)
              /\ dropped' = dropped \cup ((rdPtr + 1)..Len(log))
              /\ UNCHANGED <<pc, snap, cur>>
         ELSE /\ snap' = Len(log)
              /\ cur' = rdPtr
              /\ pc' = "extract"
              /\ UNCHANGED <<rdPtr, dropped>>
    /\ UNCHANGED <<log, resetting, ri, node, outlist, parsed, unclone>>

\* guc_capture_extract_reglists on an empty region returns -ENODATA
ExtractEmpty ==
    /\ pc = "extract"
    /\ cur = snap
    /\ FinishPass
    /\ UNCHANGED <<log, pending, resetting, snap, cur, ri, node, outlist, parsed, unclone>>

\* the group header is read; the node list starts empty
ExtractGroupHeader ==
    /\ pc = "extract"
    /\ cur < snap
    /\ pc' = "loop"
    /\ ri' = 0
    /\ node' = NoNode
    /\ UNCHANGED <<log, pending, rdPtr, resetting, snap, cur, outlist, parsed, dropped, unclone>>

\* One iteration of while (numlists--): a record of unknown type is skipped
SkipUnknownRecord ==
    /\ pc = "loop"
    /\ ri < Len(Group)
    /\ Group[ri + 1].type > TYPE_INSTANCE
    /\ ri' = ri + 1
    /\ UNCHANGED <<log, pending, rdPtr, resetting, pc, snap, cur, node, outlist, parsed, dropped, unclone>>

\* One iteration for a known type: finish the node or clone it, allocate a
\* node if there is none, stamp engine fields, attach the register list.
\* cloneOk, nodeOk, regsOk are the results of the three allocations.
ExtractRecord ==
    /\ pc = "loop"
    /\ ri < Len(Group)
    /\ Group[ri + 1].type <= TYPE_INSTANCE
    /\ \E cloneOk, nodeOk, regsOk \in Outcomes :
        LET r     == Group[ri + 1]
            split == StartsNewNode(node, r)
            out1  == IF split THEN Append(outlist, node) ELSE outlist
            kept  == IF split /\ r.type # TYPE_GLOBAL /\ cloneOk
                       THEN CloneNode(node, KeptLists(r))
                       ELSE IF split THEN NoNode ELSE node
            fresh == kept = NoNode
            base  == Stamp(IF fresh THEN ZeroNode ELSE kept, r)
            full  == [base EXCEPT !.slot[r.type] =
                         [ptr |-> r.nregs > 0, num |-> r.nregs, rec |-> <<cur + 1, ri + 1>>]]
        IN /\ unclone' = IF split /\ r.type # TYPE_GLOBAL /\ ~cloneOk
                           THEN unclone \cup {cur + 1} ELSE unclone
           /\ IF (fresh /\ ~nodeOk) \/ (r.nregs > 0 /\ ~regsOk)
                \* -ENOMEM: break, bailout keeps what has data, the pass ends
                THEN /\ outlist' = AddIfData(out1, NodeAtBailout(fresh, nodeOk, base))
                     /\ node' = NoNode
                     /\ FinishPass
                     /\ UNCHANGED <<ri, cur>>
                ELSE /\ outlist' = out1
                     /\ node' = full
                     /\ ri' = ri + 1
                     /\ UNCHANGED <<pc, rdPtr, dropped, cur>>
    /\ UNCHANGED <<log, pending, resetting, snap, parsed>>

\* Loop exhausted: bailout adds the node if it holds any list; returns 0
ExtractGroupEnd ==
    /\ pc = "loop"
    /\ ri = Len(Group)
    /\ outlist' = AddIfData(outlist, node)
    /\ node' = NoNode
    /\ cur' = cur + 1
    /\ parsed' = parsed \cup {cur + 1}
    /\ pc' = "extract"
    /\ UNCHANGED <<log, pending, rdPtr, resetting, snap, ri, dropped, unclone>>

Init ==
    /\ log = <<>>
    /\ pending = 0
    /\ rdPtr = 0
    /\ resetting = FALSE
    /\ pc = "idle"
    /\ snap = 0
    /\ cur = 0
    /\ ri = 0
    /\ node = NoNode
    /\ outlist = <<>>
    /\ parsed = {}
    /\ dropped = {}
    /\ unclone = {}

Next ==
    \/ \E deps \in DepGroups, unk \in (IF UnknownRecords THEN BOOLEAN ELSE {FALSE}) :
          FwCapture(deps, unk)
    \/ ResetToggle
    \/ ProcessStart
    \/ ExtractEmpty
    \/ ExtractGroupHeader
    \/ SkipUnknownRecord
    \/ ExtractRecord
    \/ ExtractGroupEnd

\* The G2H handler runs for every notification; the loop runs to its end.
Fairness ==
    /\ WF_vars(ProcessStart)
    /\ WF_vars(ExtractEmpty)
    /\ WF_vars(ExtractGroupHeader)
    /\ WF_vars(SkipUnknownRecord)
    /\ WF_vars(ExtractRecord)
    /\ WF_vars(ExtractGroupEnd)

Spec == Init /\ [][Next]_vars /\ Fairness

(***************************************************************************)
(* Properties                                                              *)
(***************************************************************************)
RecIds == UNION {{<<g, k>> : k \in 1..Len(log[g])} : g \in 1..Len(log)}
RecOf(id) == log[id[1]][id[2]]

TypeOK ==
    /\ pending \in 0..MaxGroups
    /\ rdPtr \in 0..Len(log)
    /\ resetting \in BOOLEAN
    /\ pc \in {"idle", "extract", "loop"}
    /\ pc # "idle" => cur \in rdPtr..snap /\ snap <= Len(log)
    /\ parsed \cup dropped \cup unclone \subseteq 1..Len(log)
    /\ node = NoNode \/ node.slot \in [Types -> [ptr : BOOLEAN, num : Nat, rec : RecIds \cup {EmptySlot.rec}]]

\* Every engine-instance register dump GuC wrote is in at most one node of
\* the outlist, and in exactly one once its group was parsed, in a node
\* that names that engine (class, instance) and its context (guc_id/lrca):
\* the node split in guc_capture_extract_reglists must flush a node before
\* a record overwrites one of its lists.
InstanceDumpDeliveredOnce ==
    \A id \in RecIds :
        LET r       == RecOf(id)
            holders == {i \in DOMAIN outlist :
                          outlist[i].slot[TYPE_INSTANCE].ptr /\ outlist[i].slot[TYPE_INSTANCE].rec = id}
        IN  r.type = TYPE_INSTANCE /\ r.nregs > 0 =>
              /\ Cardinality(holders) <= 1
              /\ id[1] \in parsed => Cardinality(holders) = 1
              /\ \A i \in holders : outlist[i].cls = r.eng.cls /\ outlist[i].inst = r.eng.inst
                                     /\ outlist[i].ctx = r.eng.ctx

\* A node holding an engine's instance dump also holds the global dump of
\* the same group: dependent engine resets share the one TYPE_GLOBAL record
\* through guc_capture_clone_node. A group in which that clone failed with
\* -ENOMEM legitimately falls back to a fresh node without it.
GlobalDumpShared ==
    \A i \in DOMAIN outlist :
        outlist[i].slot[TYPE_INSTANCE].ptr
          /\ outlist[i].slot[TYPE_INSTANCE].rec[1] \notin unclone =>
            /\ outlist[i].slot[TYPE_GLOBAL].ptr
            /\ outlist[i].slot[TYPE_GLOBAL].rec[1] = outlist[i].slot[TYPE_INSTANCE].rec[1]

\* Every engine GuC reset in a parsed group gets its own node naming it,
\* carrying that group's global dump (the comment on the node split:
\* "clone the current node ... such as the case of dependent engine resets").
NodePerResetEngine ==
    \A g \in parsed : \A k \in 1..Len(log[g]) :
        LET r == log[g][k] IN
        r.type = TYPE_INSTANCE =>
            \E i \in DOMAIN outlist :
                /\ outlist[i].inst = r.eng.inst /\ outlist[i].cls = r.eng.cls
                /\ outlist[i].ctx = r.eng.ctx
                /\ outlist[i].slot[TYPE_GLOBAL].ptr /\ outlist[i].slot[TYPE_GLOBAL].rec[1] = g

\* Every group GuC writes is eventually consumed by a handler pass, either
\* parsed or passed over by read_ptr := write_offset.
GroupEventuallyConsumed ==
    \A g \in 1..MaxGroups : [](Len(log) >= g => <>(g \in parsed \cup dropped))

=============================================================================
