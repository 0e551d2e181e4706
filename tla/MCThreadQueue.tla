--------------------------- MODULE MCThreadQueue ----------------------------
(***************************************************************************)
(* TLC instances of ThreadQueue.  The producers of an instance are         *)
(* interchangeable, and so are its consumers; the symmetry is used by the  *)
(* runs without temporal properties only.                                  *)
(***************************************************************************)
EXTENDS ThreadQueue, TLC

Symmetry == Permutations(Producers) \cup Permutations(Consumers)
=============================================================================
