--------------------------- MODULE MCProcessPool ---------------------------
(***************************************************************************)
(* ProcessPool on a small instance. (Round robin orders the slots: there   *)
(* is no symmetry.)                                                        *)
(***************************************************************************)
EXTENDS ProcessPool
=============================================================================
