---------------------------- MODULE MCThreadPool ----------------------------
(* ThreadPool for TLC: every constant gets its value in the cfg of a run. *)
EXTENDS ThreadPool
=============================================================================
