-------------------------------- MODULE MCPort --------------------------------
(***************************************************************************)
(* Instances of Port for TLC.                                              *)
(***************************************************************************)
EXTENDS Port

CONSTANTS r1, r2, w1, w2, w3, i1

WriterSymmetry == Permutations(Writers)
===============================================================================
