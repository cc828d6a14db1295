----------------------------- MODULE MCTimedBlock -----------------------------
(***************************************************************************)
(* Instances of TimedBlock for TLC.                                        *)
(***************************************************************************)
EXTENDS TimedBlock

CONSTANTS t1, t2, p1, c1, c2
===============================================================================
