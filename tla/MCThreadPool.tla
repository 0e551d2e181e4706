---------------------------- MODULE MCThreadPool ----------------------------
(***************************************************************************)
(* TLC instances of ThreadPool.  The workers are numbers that the code     *)
(* orders, so there is no symmetry to use.                                 *)
(***************************************************************************)
EXTENDS ThreadPool
=============================================================================
