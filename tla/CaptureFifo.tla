----------------------------- MODULE CaptureFifo -----------------------------
(***************************************************************************)
(* What the GuC error-capture region promises its reader: records come    *)
(* out whole, in the order GuC wrote them, none lost or duplicated, and   *)
(* every record written is eventually read.                                *)
(***************************************************************************)
EXTENDS Sequences

CONSTANT Values

VARIABLES queue, out

Send(v) ==
    /\ queue' = Append(queue, v)
    /\ UNCHANGED out

Recv ==
    /\ queue # <<>>
    /\ out' = Append(out, Head(queue))
    /\ queue' = Tail(queue)

Init == queue = <<>> /\ out = <<>>

Next == (\E v \in Values : Send(v)) \/ Recv

Spec == Init /\ [][Next]_<<queue, out>> /\ WF_<<queue, out>>(Recv)

=============================================================================
