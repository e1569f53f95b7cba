--------------------------- MODULE GucCaptureRing ---------------------------
(***************************************************************************)
(* The error-capture region of the GuC log buffer as a byte ring, and the *)
(* driver's readers over it (intel_guc_capture.c, __guc_capture_bufstate  *)
(* and the guc_capture_log_* helpers).                                     *)
(*                                                                         *)
(* GuC writes dword-aligned records of 2 (group header), 5 (data header)  *)
(* or 4 (register) dwords without padding, so a record may straddle the   *)
(* end of the ring.  A reader first tries one contiguous copy and falls   *)
(* back to reading the record one dword at a time across the wrap.        *)
(* A dword of the ring holds <<record, field>>: the record GuC wrote it   *)
(* for and its position in that record.                                   *)
(***************************************************************************)
EXTENDS Naturals, Sequences

CONSTANTS
    RingDwords,   \* size of the region in dwords
    RecSizes,     \* record sizes in dwords
    MaxRecs       \* bound on records GuC writes

Size == 4 * RingDwords
Zero == <<0, 0>>

VARIABLES
    ring,    \* dword index -> <<record, field>>
    wr,      \* GuC write offset (bytes)
    rd,      \* driver read offset (bytes), buf.rd
    sizes,   \* sizes of the records GuC wrote, in order
    got      \* records the driver read: the id decoded, 0 for a torn record

vars == <<ring, wr, rd, sizes, got>>

Buf == [rd |-> rd, wr |-> wr, size |-> Size]

\* GuC's own count of the bytes it wrote that read_ptr has not passed
FwUsed == (wr - rd) % Size

(***************************************************************************)
(* Reader helpers, one operator per C function.                            *)
(***************************************************************************)
\* Faulty variant: a wrapped region is counted as empty
BufCntNoWrap(b) ==
    IF b.wr >= b.rd THEN b.wr - b.rd ELSE 0

guc_capture_buf_cnt(b) ==
    IF b.wr >= b.rd THEN b.wr - b.rd ELSE (b.size - b.rd) + b.wr

guc_capture_buf_cnt_to_end(b) ==
    IF b.rd > b.wr THEN b.size - b.rd ELSE b.wr - b.rd

\* Faulty variant: the retry without buf->rd = 0
RECURSIVE RemoveDwTryNoWrap(_, _)
RemoveDwTryNoWrap(b, tries) ==
    IF tries = 0 THEN [b |-> b, n |-> 0, dw |-> Zero]
    ELSE IF guc_capture_buf_cnt_to_end(b) >= 4
           THEN [b |-> [b EXCEPT !.rd = @ + 4], n |-> 4, dw |-> ring[b.rd \div 4]]
           ELSE RemoveDwTryNoWrap(b, tries - 1)

\* while (tries--): read a dword if one is left before the end, else wrap
RECURSIVE RemoveDwTry(_, _)
RemoveDwTry(b, tries) ==
    IF tries = 0 THEN [b |-> b, n |-> 0, dw |-> Zero]
    ELSE IF guc_capture_buf_cnt_to_end(b) >= 4
           THEN [b |-> [b EXCEPT !.rd = @ + 4], n |-> 4, dw |-> ring[b.rd \div 4]]
           ELSE RemoveDwTry([b EXCEPT !.rd = 0], tries - 1)

guc_capture_log_remove_dw(b) ==
    IF guc_capture_buf_cnt(b) = 0 THEN [b |-> b, n |-> 0, dw |-> Zero]
    ELSE RemoveDwTry(b, 2)

\* the field-by-field fallback of the three record readers
RECURSIVE ReadDws(_, _)
ReadDws(b, k) ==
    IF k = 0 THEN [b |-> b, n |-> 0, data |-> <<>>]
    ELSE LET first == guc_capture_log_remove_dw(b)
             rest  == ReadDws(first.b, k - 1)
         IN  [b |-> rest.b, n |-> first.n + rest.n, data |-> <<first.dw>> \o rest.data]

\* guc_capture_log_get_group_hdr / _get_data_hdr / _get_register for a
\* record of k dwords, including guc_capture_data_extracted
GetRecord(b, k) ==
    IF 4 * k > guc_capture_buf_cnt(b)
      THEN [ok |-> FALSE, b |-> b, data |-> <<>>]
    ELSE IF guc_capture_buf_cnt_to_end(b) >= 4 * k
      THEN [ok |-> TRUE, b |-> [b EXCEPT !.rd = @ + 4 * k],
            data |-> [j \in 1..k |-> ring[b.rd \div 4 + j - 1]]]
    ELSE LET r == ReadDws(b, k) IN [ok |-> r.n = 4 * k, b |-> r.b, data |-> r.data]

\* The record a read returned, or 0 when its fields are not one record's
Decode(data) ==
    IF \A j \in DOMAIN data : data[j] = <<data[1][1], j>> THEN data[1][1] ELSE 0

(***************************************************************************)
(* GuC appends a record; it never overwrites unread bytes (no overflow).  *)
(***************************************************************************)
\* Faulty variant: the write offset is not wrapped at the end of the region
FwWriteNoWrap(k) ==
    /\ Len(sizes) < MaxRecs
    /\ FwUsed + 4 * k < Size
    /\ ring' = [i \in DOMAIN ring |->
                  IF \E j \in 0..k - 1 : i = (wr \div 4 + j) % RingDwords
                    THEN <<Len(sizes) + 1, ((i - wr \div 4) % RingDwords) + 1>>
                    ELSE ring[i]]
    /\ wr' = wr + 4 * k
    /\ sizes' = Append(sizes, k)
    /\ UNCHANGED <<rd, got>>

FwWrite(k) ==
    /\ Len(sizes) < MaxRecs
    /\ FwUsed + 4 * k < Size
    /\ ring' = [i \in DOMAIN ring |->
                  IF \E j \in 0..k - 1 : i = (wr \div 4 + j) % RingDwords
                    THEN <<Len(sizes) + 1, ((i - wr \div 4) % RingDwords) + 1>>
                    ELSE ring[i]]
    /\ wr' = (wr + 4 * k) % Size
    /\ sizes' = Append(sizes, k)
    /\ UNCHANGED <<rd, got>>

\* The driver reads the next record with the reader for its type.  A read
\* that fails makes guc_capture_extract_reglists return -EIO, which ends
\* the pass, and __guc_capture_process_output sets read_ptr := write_offset.
ReadResult == GetRecord(Buf, sizes[Len(got) + 1])

\* guc_capture_extract_reglists: "if (!i) return -ENODATA" on buf_cnt
ReadGuard == guc_capture_buf_cnt(Buf) > 0 /\ Len(got) < Len(sizes)

ReadRecord ==
    /\ ReadGuard
    /\ LET res == ReadResult IN
         IF res.ok
           THEN /\ rd' = res.b.rd
                /\ got' = Append(got, Decode(res.data))
           ELSE /\ rd' = wr
                /\ UNCHANGED got
    /\ UNCHANGED <<ring, wr, sizes>>

Init ==
    /\ ring = [i \in 0..RingDwords - 1 |-> Zero]
    /\ wr = 0
    /\ rd = 0
    /\ sizes = <<>>
    /\ got = <<>>

Next == (\E k \in RecSizes : FwWrite(k)) \/ ReadRecord

\* The notification handler runs the reader until the region is empty:
\* weak fairness of ReadRecord, WF_vars(ReadRecord), written out as
\* []<>~ENABLED \/ []<>step so that TLC evaluates the recursive readers
\* as a state function rather than inside ENABLED.  ReadGuard is
\* ENABLED <<ReadRecord>>_vars: both branches of ReadRecord change rd or
\* got once buf_cnt > 0.
Fairness == []<>(~ReadGuard) \/ []<><<ReadRecord>>_vars

Spec == Init /\ [][Next]_vars /\ Fairness

(***************************************************************************)
(* Properties                                                              *)
(***************************************************************************)
TypeOK ==
    /\ ring \in [0..RingDwords - 1 -> (0..MaxRecs) \X (0..5)]
    /\ wr \in {4 * i : i \in 0..RingDwords - 1}
    /\ rd \in {4 * i : i \in 0..RingDwords}
    /\ Len(got) <= Len(sizes)

\* The unread bytes [rd, wr), wrapped, as the FIFO of whole records they hold
LiveDws == [j \in 1..FwUsed \div 4 |->
               ring[(rd \div 4 + j - 1) % RingDwords]]
QueueIds == LET firsts == SelectSeq(LiveDws, LAMBDA d : d[2] = 1)
            IN  [i \in DOMAIN firsts |-> firsts[i][1]]

Fifo == INSTANCE CaptureFifo WITH Values <- 1..MaxRecs, queue <- QueueIds, out <- got

\* The readers, with their contiguous and straddling paths and the wrap of
\* the read offset, implement the FIFO of records: every step of the
\* reader takes the oldest unread record out whole, and no step loses,
\* repeats or reorders a record.
FifoRefinement == Fifo!Init /\ [][Fifo!Next]_<<QueueIds, got>>

\* The fairness of the FIFO, WF(Recv), stated on the implementation: every
\* record GuC writes is eventually read by the notification handler.
EveryRecordRead ==
    \A n \in 1..MaxRecs : [](Len(sizes) >= n => <>(Len(got) >= n))

=============================================================================
