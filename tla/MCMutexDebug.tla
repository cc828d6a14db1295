----------------------------- MODULE MCMutexDebug -----------------------------
(***************************************************************************)
(* Instances of MutexDebug for TLC.                                        *)
(***************************************************************************)
EXTENDS MutexDebugFifo

CONSTANTS t1, t2, t3, guard, object

\* "guard" guards the object that "object" belongs to (lock.h on
\* mutex_switch_lock()); threads nest them in the same direction.
GuardThenObject == {<<guard, object>>}
===============================================================================
