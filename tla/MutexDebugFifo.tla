---------------------------- MODULE MutexDebugFifo ----------------------------
(***************************************************************************)
(* The mutex of the default build implements FifoLock: any one of the      *)
(* locks, whatever the threads do with the others at the same time.        *)
(***************************************************************************)
EXTENDS MutexDebug

CONSTANT TheLock

ASSUME TheLockAssumption == TheLock \in Locks

Owner == IF holder[TheLock] \in Threads THEN holder[TheLock] ELSE NoThread

Abstract == INSTANCE FifoLock WITH
    Nobody <- NoThread,
    alive <- holder[TheLock] # Destroyed,
    owner <- Owner,
    queue <- waiters[TheLock]

\* lock.cpp: "mutex: exclusive FIFO sleeping lock", handed over directly "so a
\* newly arriving contender cannot starve the woken waiter".  A waiter that
\* times out, a switch or a destruction does not reorder or lose the others.
IsFifoLock == Abstract!Spec
===============================================================================
