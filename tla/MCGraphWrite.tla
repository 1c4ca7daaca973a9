---------------------------- MODULE MCGraphWrite ----------------------------
(***************************************************************************)
(* Two files, in runs that fail and crash a bounded number of times.       *)
(***************************************************************************)
EXTENDS GraphWrite, TLC

CONSTANTS f1, f2

Symmetry == Permutations(Files)
=============================================================================
