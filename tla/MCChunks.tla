------------------------------ MODULE MCChunks ------------------------------
(* Two chunks of two blocks, allocated and freed in any order.             *)
EXTENDS Chunks

=============================================================================
