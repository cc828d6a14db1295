-------------------------- MODULE MCPthreadBarrier ----------------------------
(***************************************************************************)
(* Instances of PthreadBarrier for TLC.                                    *)
(***************************************************************************)
EXTENDS PthreadBarrier

CONSTANTS t1, t2, t3, e1, e2
===============================================================================
