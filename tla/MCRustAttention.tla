--------------------------- MODULE MCRustAttention ---------------------------
(* Four layers: pure window, overlapping blocks grouped on the CPU and by a   *)
(* kernel, plain blocks.                                                      *)
EXTENDS RustAttention

MCRatio == <<0, 2, 2, 3>>

=============================================================================
