------------------------------ MODULE MutexDebug ------------------------------
(***************************************************************************)
(* The kernel mutex as the default build compiles it (KDEBUG = 1):         *)
(* src/system/kernel/locks/lock.cpp.  The state of a lock is its holder    *)
(* and its queue of waiters; every operation is one critical section of    *)
(* the lock's spinlock, except mutex_switch_lock(), which takes the        *)
(* spinlock of "from" while it holds the one of "to".                      *)
(***************************************************************************)
EXTENDS Naturals, Sequences, SequencesExt, WaitStatus

CONSTANTS
    Threads,        \* the threads that use the locks
    Locks,          \* the mutexes
    NoThread,       \* holder == -1: not held
    Destroyed,      \* holder == 0: destroyed, or never initialised
    TimedThreads,   \* the threads that lock with mutex_lock_with_timeout()
    Destroyable,    \* the locks whose holder may call mutex_destroy()
    SwitchPairs,    \* the <<from, to>> that mutex_switch_lock() is called with
    LockOrder       \* the <<l, m>> such that m is locked with l held

ASSUME MutexAssumption ==
    /\ Locks # {}
    /\ NoThread \notin Threads
    /\ Destroyed \notin Threads \cup {NoThread}
    /\ TimedThreads \subseteq Threads
    /\ Destroyable \subseteq Locks
    /\ SwitchPairs \subseteq Locks \X Locks
    /\ \A p \in SwitchPairs : p[1] # p[2]
    /\ LockOrder \subseteq Locks \X Locks

VARIABLES
    holder,     \* mutex::holder
    waiters,    \* mutex::waiters, the threads of the queued mutex_waiters
    spin,       \* mutex::lock, held across steps by mutex_switch_lock() only
    wait,       \* Thread::wait.status
    cleared,    \* the threads whose mutex_waiter::thread was set to NULL
    pc,         \* where in lock.cpp a thread is
    target,     \* the lock a thread waits for, or switches to
    from,       \* the lock mutex_switch_lock() releases
    held        \* the locks a thread may regard as its own: calls that
                \* returned B_OK and were not undone since

vars == <<holder, waiters, spin, wait, cleared, pc, target, from, held>>

Waiting == {"block", "timed_block", "timed_out"}

Switching == {"switch_call", "switch", "switch_acquire"}

TypeOK ==
    /\ holder \in [Locks -> Threads \cup {NoThread, Destroyed}]
    /\ waiters \in [Locks -> Seq(Threads)]
    /\ \A l \in Locks : IsInjective(waiters[l])  \* a waiter is linked once
    /\ spin \in [Locks -> Threads \cup {NoThread}]
    /\ wait \in [Threads -> Statuses]
    /\ cleared \subseteq Threads
    /\ pc \in [Threads -> Waiting \cup Switching \cup {"idle"}]
    /\ target \in [Threads -> Locks]
    /\ from \in [Threads -> Locks]
    /\ held \in [Threads -> SUBSET Locks]

Init ==
    /\ holder = [l \in Locks |-> Destroyed]
    /\ waiters = [l \in Locks |-> <<>>]
    /\ spin = [l \in Locks |-> NoThread]
    /\ wait = [t \in Threads |-> "B_OK"]
    /\ cleared = {}
    /\ pc = [t \in Threads |-> "idle"]
    /\ target = [t \in Threads |-> CHOOSE l \in Locks : TRUE]
    /\ from = [t \in Threads |-> CHOOSE l \in Locks : TRUE]
    /\ held = [t \in Threads |-> {}]

-------------------------------------------------------------------------------
Goto(t, label) == pc' = [pc EXCEPT ![t] = label]

\* The call returns B_OK: the caller regards the lock as its own.
ReturnHolding(t, l) ==
    /\ held' = [held EXCEPT ![t] = @ \cup {l}]
    /\ Goto(t, "idle")

\* _mutex_lock(), spinlock held, nobody holds the lock.
TakeFree(t, l) ==
    /\ holder[l] = NoThread
    /\ holder' = [holder EXCEPT ![l] = t]
    /\ ReturnHolding(t, l)
    /\ UNCHANGED <<waiters, wait, cleared, target>>

\* _mutex_lock(), spinlock held, the lock is taken: queue a mutex_waiter at
\* the tail and get ready to block.
Enqueue(t, l, label) ==
    /\ holder[l] \in Threads
    /\ waiters' = [waiters EXCEPT ![l] = Append(@, t)]
    /\ wait' = thread_prepare_to_block(wait, t)
    /\ cleared' = cleared \ {t}
    /\ target' = [target EXCEPT ![t] = l]
    /\ Goto(t, label)
    /\ UNCHANGED <<holder, held>>

\* Mutant: the unlocker wakes the head of the queue and marks the lock free,
\* the race the comment in _mutex_unlock() warns of.
HandOff_Unreserved(t, l) ==
    /\ held' = [held EXCEPT ![t] = @ \ {l}]
    /\ holder' = [holder EXCEPT ![l] = NoThread]
    /\ \/ /\ waiters[l] # <<>>
          /\ waiters' = [waiters EXCEPT ![l] = Tail(@)]
          /\ wait' = thread_unblock(wait, Head(waiters[l]), "B_OK")
       \/ waiters[l] = <<>> /\ UNCHANGED <<waiters, wait>>

\* Mutant: the last waiter to come is served first.
HandOff_Lifo(t, l) ==
    /\ held' = [held EXCEPT ![t] = @ \ {l}]
    /\ \/ /\ waiters[l] # <<>>
          /\ waiters' = [waiters EXCEPT ![l] = Front(@)]
          /\ holder' = [holder EXCEPT ![l] = Last(waiters[l])]
          /\ wait' = thread_unblock(wait, Last(waiters[l]), "B_OK")
       \/ /\ waiters[l] = <<>>
          /\ holder' = [holder EXCEPT ![l] = NoThread]
          /\ UNCHANGED <<waiters, wait>>

\* _mutex_unlock(), spinlock held: hand the lock to the head of the queue, or
\* mark it free.
HandOff(t, l) ==
    /\ held' = [held EXCEPT ![t] = @ \ {l}]
    /\ \/ /\ waiters[l] # <<>>
          /\ waiters' = [waiters EXCEPT ![l] = Tail(@)]
          /\ holder' = [holder EXCEPT ![l] = Head(waiters[l])]
          /\ wait' = thread_unblock(wait, Head(waiters[l]), "B_OK")
       \/ /\ waiters[l] = <<>>
          /\ holder' = [holder EXCEPT ![l] = NoThread]
          /\ UNCHANGED <<waiters, wait>>

SpinFree(l) == spin[l] = NoThread

Queued(t, l) == t \in ToSet(waiters[l])

\* A caller that is not inside lock.cpp, about to lock a lock it may lock: a
\* mutex is not recursive, and a destroyed one may not be used (both panic).
\* Callers nest mutexes along LockOrder.
MayLock(t, l, own) ==
    /\ pc[t] = "idle"
    /\ holder[l] # Destroyed
    /\ l \notin held[t]
    /\ \A h \in own : <<h, l>> \in LockOrder

CallLock(t, l) == MayLock(t, l, held[t]) /\ SpinFree(l)

-------------------------------------------------------------------------------
\* The lock's memory is put to use (again); nobody is still inside a call on it.
mutex_init(l) ==
    /\ holder[l] = Destroyed
    /\ \A t \in Threads : pc[t] # "idle" => target[t] # l /\ from[t] # l
    /\ holder' = [holder EXCEPT ![l] = NoThread]
    /\ UNCHANGED <<waiters, spin, wait, cleared, pc, target, from, held>>

mutex_lock(t, l) ==
    /\ CallLock(t, l)
    /\ TakeFree(t, l) \/ Enqueue(t, l, "block")
    /\ UNCHANGED <<spin, from>>

mutex_trylock(t, l) ==
    /\ CallLock(t, l)
    /\ TakeFree(t, l)
    /\ UNCHANGED <<spin, from>>

mutex_lock_with_timeout(t, l) ==
    /\ t \in TimedThreads
    /\ CallLock(t, l)
    /\ TakeFree(t, l) \/ Enqueue(t, l, "timed_block")
    /\ UNCHANGED <<spin, from>>

mutex_unlock(t, l) ==
    /\ pc[t] = "idle"
    /\ l \in held[t]
    /\ SpinFree(l)
    /\ HandOff(t, l)
    /\ UNCHANGED <<spin, cleared, pc, target, from>>

\* The holder field is overwritten without the spinlock.
mutex_transfer_lock(t, l, u) ==
    /\ pc[t] = "idle" /\ pc[u] = "idle"
    /\ l \in held[t]
    /\ u # t
    /\ holder' = [holder EXCEPT ![l] = u]
    /\ held' = [held EXCEPT ![t] = @ \ {l}, ![u] = @ \cup {l}]
    /\ UNCHANGED <<waiters, spin, wait, cleared, pc, target, from>>

\* Mutant: waiters are woken and stay queued.
DrainWaiters_KeepQueue(l) ==
    /\ cleared' = cleared \cup ToSet(waiters[l])
    /\ wait' = thread_unblock_all(wait, ToSet(waiters[l]), "B_ERROR")
    /\ UNCHANGED waiters

\* mutex_destroy(): every waiter leaves the queue, has its waiter.thread set
\* to NULL, and is unblocked with an error.
DrainWaiters(l) ==
    /\ cleared' = cleared \cup ToSet(waiters[l])
    /\ wait' = thread_unblock_all(wait, ToSet(waiters[l]), "B_ERROR")
    /\ waiters' = [waiters EXCEPT ![l] = <<>>]

\* The caller holds the lock or nobody does (anything else panics), and it
\* holds every lock that guards this one in a mutex_switch_lock().
mutex_destroy(t, l) ==
    /\ l \in Destroyable
    /\ pc[t] = "idle"
    /\ holder[l] \in {NoThread, t}
    /\ \A p \in SwitchPairs : p[2] = l => p[1] \in held[t]
    /\ SpinFree(l)
    /\ DrainWaiters(l)
    /\ holder' = [holder EXCEPT ![l] = Destroyed]
    /\ held' = [held EXCEPT ![t] = @ \ {l}]
    /\ UNCHANGED <<spin, pc, target, from>>

\* Mutant: "to" is not locked while "from" is released.
TakeSpin_Skipped(t, l) == SpinFree(l) /\ UNCHANGED spin

TakeSpin(t, l) == SpinFree(l) /\ spin' = [spin EXCEPT ![l] = t]

\* mutex_switch_lock(): the caller saw "to" alive, with "from" held ...
mutex_switch_lock(t, l, m) ==
    /\ <<l, m>> \in SwitchPairs
    /\ l \in held[t]
    /\ MayLock(t, m, held[t] \ {l})
    /\ from' = [from EXCEPT ![t] = l]
    /\ target' = [target EXCEPT ![t] = m]
    /\ Goto(t, "switch_call")
    /\ UNCHANGED <<holder, waiters, spin, wait, cleared, held>>

\* ... it takes the spinlock of "to" ...
SwitchSpin(t) ==
    /\ pc[t] = "switch_call"
    /\ TakeSpin(t, target[t])
    /\ Goto(t, "switch")
    /\ UNCHANGED <<holder, waiters, wait, cleared, target, from, held>>

\* ... mutex_unlock(from), which spins on the spinlock of "from" ...
SwitchUnlock(t) ==
    /\ pc[t] = "switch"
    /\ SpinFree(from[t])
    /\ HandOff(t, from[t])
    /\ Goto(t, "switch_acquire")
    /\ UNCHANGED <<spin, cleared, target, from>>

\* ... and mutex_lock_threads_locked(to), which drops the spinlock.
SwitchAcquire(t) ==
    /\ pc[t] = "switch_acquire"
    /\ TakeFree(t, target[t]) \/ Enqueue(t, target[t], "block")
    /\ spin' = [spin EXCEPT ![target[t]] = NoThread]
    /\ UNCHANGED from

\* _mutex_lock(): thread_block() returns.
BlockReturn(t) ==
    /\ pc[t] = "block"
    /\ ~thread_is_blocked(wait, t)
    /\ \/ wait[t] = "B_OK" /\ ReturnHolding(t, target[t])
       \/ wait[t] # "B_OK" /\ Goto(t, "idle") /\ UNCHANGED held
    /\ UNCHANGED <<holder, waiters, spin, wait, cleared, target, from>>

\* The timer of thread_block_with_timeout() fires: the thread is unblocked
\* with an error while its mutex_waiter stays queued.
TimeOut(t) ==
    /\ pc[t] = "timed_block"
    /\ thread_is_blocked(wait, t)
    /\ wait' = thread_unblock(wait, t, "B_TIMED_OUT")
    /\ UNCHANGED <<holder, waiters, spin, cleared, pc, target, from, held>>

\* _mutex_lock_with_timeout(): thread_block_with_timeout() returns, and
\* waiter.thread is read without the spinlock.
TimedBlockReturn(t) ==
    /\ pc[t] = "timed_block"
    /\ ~thread_is_blocked(wait, t)
    /\ \/ wait[t] = "B_OK" /\ ReturnHolding(t, target[t])
       \/ wait[t] # "B_OK" /\ t \in cleared /\ Goto(t, "idle") /\ UNCHANGED held
       \/ wait[t] # "B_OK" /\ t \notin cleared /\ Goto(t, "timed_out") /\ UNCHANGED held
    /\ UNCHANGED <<holder, waiters, spin, wait, cleared, target, from>>

\* Mutant: a timeout is final, even when the lock was handed over meanwhile.
TimedDequeue_GiveUp(t) ==
    LET l == target[t] IN
    /\ pc[t] = "timed_out"
    /\ SpinFree(l)
    /\ waiters' = [waiters EXCEPT ![l] = RemoveFirst(@, t)]
    /\ Goto(t, "idle")
    /\ UNCHANGED <<holder, spin, wait, cleared, target, from, held>>

\* Mutant: the waiter of a timed-out call stays linked.
TimedDequeue_StayLinked(t) ==
    LET l == target[t] IN
    /\ pc[t] = "timed_out"
    /\ SpinFree(l)
    /\ \/ Queued(t, l) /\ Goto(t, "idle") /\ UNCHANGED held
       \/ ~Queued(t, l) /\ ReturnHolding(t, l)
    /\ UNCHANGED <<holder, waiters, spin, wait, cleared, target, from>>

\* _mutex_lock_with_timeout(), spinlock taken again: a waiter still queued
\* leaves the queue, one that is not owns the lock.
TimedDequeue(t) ==
    LET l == target[t] IN
    /\ pc[t] = "timed_out"
    /\ SpinFree(l)
    /\ \/ /\ \E i \in DOMAIN waiters[l] :
                /\ waiters[l][i] = t
                /\ waiters' = [waiters EXCEPT ![l] = RemoveAt(@, i)]
          /\ Goto(t, "idle")
          /\ UNCHANGED held
       \/ /\ ~Queued(t, l)
          /\ ReturnHolding(t, l)
          /\ UNCHANGED waiters
    /\ UNCHANGED <<holder, spin, wait, cleared, target, from>>

-------------------------------------------------------------------------------
Next ==
    \/ \E l \in Locks : mutex_init(l)
    \/ \E t \in Threads, l \in Locks :
          \/ mutex_lock(t, l)
          \/ mutex_trylock(t, l)
          \/ mutex_lock_with_timeout(t, l)
          \/ mutex_unlock(t, l)
          \/ mutex_destroy(t, l)
    \/ \E t, u \in Threads, l \in Locks : mutex_transfer_lock(t, l, u)
    \/ \E t \in Threads, l, m \in Locks : mutex_switch_lock(t, l, m)
    \/ \E t \in Threads :
          \/ SwitchSpin(t)
          \/ SwitchUnlock(t)
          \/ SwitchAcquire(t)
          \/ BlockReturn(t)
          \/ TimeOut(t)
          \/ TimedBlockReturn(t)
          \/ TimedDequeue(t)

Spec == Init /\ [][Next]_vars

\* A thread inside lock.cpp is scheduled until it blocks or returns (spinlocks
\* are held with interrupts disabled), and whoever holds a lock releases it
\* sooner or later, however often it locks another one meanwhile.
Fairness ==
    /\ \A t \in Threads :
          /\ WF_vars(SwitchSpin(t))
          /\ WF_vars(SwitchUnlock(t))
          /\ WF_vars(SwitchAcquire(t))
          /\ WF_vars(BlockReturn(t))
          /\ WF_vars(TimedBlockReturn(t))
          /\ WF_vars(TimedDequeue(t))
    /\ \A l \in Locks : SF_vars(\E t \in Threads : mutex_unlock(t, l))

FairSpec == Spec /\ Fairness

-------------------------------------------------------------------------------
\* No two threads regard one mutex as theirs: what a sleeping lock is for.  A
\* hand-off, a late timeout or a switch could break it, since each changes the
\* owner while another thread is outside the spinlock.
MutualExclusion ==
    \A t, u \in Threads : t # u => held[t] \cap held[u] = {}

\* Whoever lock->holder names has the lock, or is on its way out of a wait it
\* will return B_OK from.  An owner that gives up with B_TIMED_OUT, or still
\* sits in the queue, would leave the mutex locked for ever.
OwnerKnows ==
    \A l \in Locks, t \in Threads : holder[l] = t =>
        \/ l \in held[t]
        \/ /\ pc[t] \in Waiting
           /\ target[t] = l
           /\ ~Queued(t, l)
           /\ pc[t] = "block" => wait[t] = "B_OK"
           /\ t \notin cleared

\* ASSERT(lock->holder == waiter.thread->id) after a wait (lines 1460, 1589 and
\* 1629 of lock.cpp): a call about to return B_OK finds itself the holder, even
\* after other threads used the lock between the wake-up and the return.
HolderAssertsHold ==
    \A t \in Threads :
        \/ pc[t] \in {"block", "timed_block"} /\ wait[t] = "B_OK"
        \/ pc[t] = "timed_out" /\ ~Queued(t, target[t])
        => holder[target[t]] = t /\ t \notin cleared

\* No lost wake-up: as long as threads queue for a mutex, somebody owns it and
\* will hand it on.
WaitersHaveOwner ==
    \A l \in Locks : waiters[l] # <<>> => holder[l] \in Threads

\* lock.h on mutex_switch_lock(): when "from" guards the object "to" belongs to,
\* destroying "to" with "from" held is safe.  A switching thread never finds
\* "to" destroyed, although it gave up "from" before it could queue for "to".
SwitchFindsLock ==
    \A t \in Threads : pc[t] \in Switching => holder[target[t]] # Destroyed

\* Everybody who waits for a mutex gets out of the wait, provided that holders
\* release: the queue is FIFO, so trylock() and later lockers cannot starve it.
WaitEnds == \A t \in Threads : pc[t] \in Waiting ~> pc[t] = "idle"
===============================================================================
