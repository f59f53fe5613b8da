----------------------------- MODULE MCBufQueue -----------------------------
(* BufQueue for TLC: the callers are model values given in the cfg. *)
EXTENDS BufQueue
=============================================================================
