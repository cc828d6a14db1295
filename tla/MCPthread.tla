------------------------------ MODULE MCPthread -------------------------------
(***************************************************************************)
(* Instances of Pthread for TLC.                                           *)
(***************************************************************************)
EXTENDS Pthread

CONSTANTS t1, t2, t3, t4, m1, c1, s1, e1, e2, e3

\* t1 is the thread that gives up.
PthreadSymmetry == Permutations({t2, t3}) \cup Permutations(Entries)

SignalSymmetry == Permutations({t1, t2}) \cup Permutations({t3, t4})
                  \cup Permutations(Entries)

OneMutex == [x \in Conds |-> m1]
===============================================================================
