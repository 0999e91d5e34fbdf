-------------------------- MODULE MCLatentAttention --------------------------
(* Three layers, one of each kind: pure window, overlapping blocks with an    *)
(* indexer, plain blocks.                                                     *)
EXTENDS LatentAttention

MCRatio == <<0, 3, 4>>

=============================================================================
