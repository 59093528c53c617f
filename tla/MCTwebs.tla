------------------------------ MODULE MCTwebs ------------------------------
(***************************************************************************)
(* Twebs on small instances. (No symmetry: the run checks liveness.)       *)
(***************************************************************************)
EXTENDS Twebs
=============================================================================
