-------------------------------- MODULE MCSem ---------------------------------
(***************************************************************************)
(* Instances of Sem for TLC.                                               *)
(***************************************************************************)
EXTENDS Sem

CONSTANTS t1, t2, i1
===============================================================================
