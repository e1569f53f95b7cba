------------------------- MODULE MC_GucCaptureRing --------------------------
(* A region of 7 dwords: every record size (2, 4, 5) straddles its end at  *)
(* some write offset, and 9 records wrap the offsets several times.        *)
EXTENDS GucCaptureRing

MCRecSizes == {2, 4, 5}

=============================================================================
