------------------------------- MODULE Monitor --------------------------------
(***************************************************************************)
(* Condition variables in use: ConditionVariable::Wait(recursive_lock)     *)
(* and Wait(mutex), which is the case of depth 1, with the recursive_lock  *)
(* of src/system/kernel/locks/lock.cpp.  The mutex inside the lock is the  *)
(* FIFO lock with hand-off that MutexDebug is proved to implement; like a  *)
(* condition variable it meets a sleeping thread through wait.status, and  *)
(* it takes a wake-up for the ownership of the lock.  A wake-up that       *)
(* condition_variable.cpp sends to a wait that is over ends up here.       *)
(***************************************************************************)
EXTENDS ConditionVariable

CONSTANTS
    Lockers,        \* the threads that use the lock
    MaxRecursion    \* bound: how deep they nest it

ASSUME MonitorAssumption ==
    /\ Lockers \subseteq Threads
    /\ MaxRecursion \in Nat \ {0}

VARIABLES
    holder,     \* mutex::holder, RECURSIVE_LOCK_HOLDER(lock)
    waiters,    \* mutex::waiters
    recursion,  \* recursive_lock::recursion
    stage,      \* where in lock.cpp, or in Wait(recursive_lock), a thread is
    saved,      \* the local "recursion" of Wait(): how often to lock again
    depth       \* history: how often a thread has locked, by the calls that
                \* returned; a Wait() in progress does not change it

lockVars == <<holder, waiters, recursion, stage, saved, depth>>
vars == <<cvVars, lockVars>>

TypeOK ==
    /\ CVTypeOK
    /\ holder \in Lockers \cup {NULL}
    /\ waiters \in Seq(Lockers)
    /\ IsInjective(waiters)
    /\ recursion \in 0..MaxRecursion
    /\ stage \in [Threads -> {"out", "unlock", "waiting", "lock_blocked"}]
    /\ saved \in [Threads -> 0..MaxRecursion]
    /\ depth \in [Threads -> 0..MaxRecursion]

Init ==
    /\ CVInit
    /\ holder = NULL
    /\ waiters = <<>>
    /\ recursion = 0
    /\ stage = [t \in Threads |-> "out"]
    /\ saved = [t \in Threads |-> 0]
    /\ depth = [t \in Threads |-> 0]

-------------------------------------------------------------------------------
cvRest == <<entryVars, varVars, pc, cached, callVars, leaving, historyVars>>

Stage(t, label) == stage' = [stage EXCEPT ![t] = label]

\* mutex_lock(): take a free lock, or queue and prepare to block.  No lock that
\* a notifier knows of is held.
mutex_lock(t, levels) ==
    \/ /\ holder = NULL
       /\ holder' = t
       /\ recursion' = recursion + levels
       /\ Stage(t, "out")
       /\ saved' = [saved EXCEPT ![t] = 0]
       /\ UNCHANGED <<wait, waiters>>
    \/ /\ holder # NULL
       /\ waiters' = Append(waiters, t)
       /\ wait' = thread_prepare_to_block(wait, t)
       /\ Stage(t, "lock_blocked")
       /\ saved' = [saved EXCEPT ![t] = levels]
       /\ UNCHANGED <<holder, recursion>>

\* mutex_unlock(): hand the lock to the head of the queue.
mutex_unlock(t) ==
    \/ /\ waiters = <<>>
       /\ holder' = NULL
       /\ UNCHANGED <<wait, waiters>>
    \/ /\ waiters # <<>>
       /\ SchedulerLockFree(Head(waiters))
       /\ holder' = Head(waiters)
       /\ waiters' = Tail(waiters)
       /\ wait' = thread_unblock(wait, Head(waiters), "B_OK")

Outside(t) == t \in Lockers /\ stage[t] = "out" /\ pc[t] = "idle"

recursive_lock_lock(t) ==
    /\ Outside(t)
    /\ depth[t] < MaxRecursion
    /\ depth' = [depth EXCEPT ![t] = @ + 1]
    /\ \/ /\ holder = t
          /\ recursion' = recursion + 1
          /\ UNCHANGED <<wait, holder, waiters, stage, saved>>
       \/ holder # t /\ mutex_lock(t, 1)
    /\ UNCHANGED cvRest

\* A failed trylock changes nothing.
recursive_lock_trylock(t) ==
    /\ Outside(t)
    /\ depth[t] < MaxRecursion
    /\ holder \in {t, NULL}
    /\ holder' = t
    /\ recursion' = recursion + 1
    /\ depth' = [depth EXCEPT ![t] = @ + 1]
    /\ UNCHANGED <<cvRest, wait, waiters, stage, saved>>

recursive_lock_unlock(t) ==
    /\ Outside(t)
    /\ depth[t] > 0
    /\ depth' = [depth EXCEPT ![t] = @ - 1]
    /\ recursion' = recursion - 1
    /\ \/ recursion = 1 /\ mutex_unlock(t)
       \/ recursion # 1 /\ UNCHANGED <<wait, holder, waiters>>
    /\ UNCHANGED <<cvRest, stage, saved>>

\* The thread runs again and is in possession of the lock, as far as it knows.
LockBlockReturn(t) ==
    /\ stage[t] = "lock_blocked"
    /\ ~thread_is_blocked(wait, t)
    /\ SchedulerLockFree(t)
    /\ recursion' = recursion + saved[t]
    /\ saved' = [saved EXCEPT ![t] = 0]
    /\ Stage(t, "out")
    /\ UNCHANGED <<cvRest, wait, holder, waiters, depth>>

-------------------------------------------------------------------------------
(* ConditionVariable::Wait(recursive_lock, flags, timeout) *)

\* Add(&entry)
WaitAdd(t) ==
    /\ Outside(t)
    /\ depth[t] > 0
    /\ \E v \in Variables : Add(t, v)
    /\ Stage(t, "unlock")
    /\ UNCHANGED <<holder, waiters, recursion, saved, depth>>

\* recursive_lock_unlock(), as often as the lock was locked.
WaitUnlock(t) ==
    /\ stage[t] = "unlock"
    /\ saved' = [saved EXCEPT ![t] = recursion]
    /\ recursion' = 0
    /\ mutex_unlock(t)
    /\ Stage(t, "waiting")
    /\ UNCHANGED <<cvRest, depth>>

\* entry.Wait()
WaitEntry(t) ==
    /\ stage[t] = "waiting"
    /\ WaitNotified(t) \/ WaitImmediate(t) \/ Wait(t)
    /\ UNCHANGED lockVars

\* recursive_lock_lock(), as often again.
WaitRelock(t) ==
    /\ stage[t] = "waiting"
    /\ pc[t] = "idle"
    /\ mutex_lock(t, saved[t])
    /\ UNCHANGED <<cvRest, depth>>

-------------------------------------------------------------------------------
\* A caller that waits without a lock.
PlainWait(t) ==
    /\ stage[t] = "out" /\ depth[t] = 0
    /\ AddCall(t) \/ UseEntry(t)
    /\ UNCHANGED lockVars

PlainNotify(t) == stage[t] = "out" /\ NotifyCall(t) /\ UNCHANGED lockVars

InCall(t) == CVStep(t) /\ UNCHANGED lockVars

LockStep(t) == LockBlockReturn(t) \/ WaitUnlock(t) \/ WaitEntry(t) \/ WaitRelock(t)

Next ==
    \E t \in Threads :
        \/ InCall(t) \/ LockStep(t)
        \/ CVGiveUp(t) /\ UNCHANGED lockVars
        \/ PlainWait(t) \/ PlainNotify(t)
        \/ recursive_lock_lock(t) \/ recursive_lock_trylock(t) \/ recursive_lock_unlock(t)
        \/ WaitAdd(t)

Spec == Init /\ [][Next]_vars

\* A thread inside condition_variable.cpp goes on until it sleeps or returns: spinlocks are held
\* with interrupts disabled.
FairSpec == Spec /\ \A t \in Threads : WF_vars(InCall(t))

-------------------------------------------------------------------------------
\* The state has its type, and fEntriesCount agrees with the list.
Consistent == TypeOK /\ CountIsExact

\* A thread that is through recursive_lock_lock(), or back from Wait(), owns the
\* lock, as deep as it locked it: no notification, late or early, is taken for
\* the hand-off of the mutex.
LockIsRestored ==
    \A t \in Threads :
        stage[t] \in {"out", "unlock"} /\ depth[t] > 0 => holder = t /\ recursion = depth[t]

\* A lock that is handed over reaches a thread that has been unblocked for it.
HandOffReaches ==
    /\ \A t \in ToSet(waiters) : stage[t] = "lock_blocked" /\ thread_is_blocked(wait, t)
    /\ \A t \in Threads :
          stage[t] = "lock_blocked" /\ t \notin ToSet(waiters) =>
              holder = t /\ ~thread_is_blocked(wait, t)

\* The mutex and the condition variable block a thread through one wait.status;
\* no wake-up of the one is taken for, or lost to, the other.
WaitsAreApart == LockIsRestored /\ HandOffReaches

\* Who is notified while it waits returns from Wait(), who gave up leaves the
\* variable, however busy it is, and a notification ends: the loops in which
\* waiter and notifier wait for each other do not run for ever.
CallEnds ==
    \A t \in Threads :
        \/ pc[t] \in RemovePcs \cup NotifyPcs
        \/ pc[t] \in {"wait", "prepared", "blocked"} /\ given[t] # NULL
        ~> pc[t] = "idle"
===============================================================================
