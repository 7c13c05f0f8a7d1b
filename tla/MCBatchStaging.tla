--------------------------- MODULE MCBatchStaging ---------------------------
(* BatchStaging with a batch of two images. *)
EXTENDS BatchStaging

TwoImages == 1 .. 2
=============================================================================
