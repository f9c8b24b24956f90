--------------------------- MODULE MC_CalloutWheel ---------------------------
(* Four buckets, and ints of four such digits as in the kernel: all four    *)
(* wheels and every boundary between them are reached.                      *)
EXTENDS CalloutWheel
=============================================================================
