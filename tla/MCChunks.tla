------------------------------ MODULE MCChunks ------------------------------
(***************************************************************************)
(* Chunks on every body of up to MaxLines lines.                           *)
(***************************************************************************)
EXTENDS Chunks
=============================================================================
