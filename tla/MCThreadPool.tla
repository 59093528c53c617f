---------------------------- MODULE MCThreadPool ----------------------------
(***************************************************************************)
(* ThreadPool on small instances. (No symmetry: the run checks liveness.)  *)
(***************************************************************************)
EXTENDS ThreadPool
=============================================================================
