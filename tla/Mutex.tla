-------------------------------- MODULE Mutex ---------------------------------
(***************************************************************************)
(* One kernel mutex as a release build compiles it (KDEBUG = 0): an atomic *)
(* count, changed without the spinlock by the inline functions of          *)
(* headers/private/kernel/lock.h, and behind it the queue and the          *)
(* MUTEX_FLAG_RELEASED of src/system/kernel/locks/lock.cpp.  The count is  *)
(* 0 for a free lock; every locker takes 1 off, every unlocker adds 1, and *)
(* whoever does not find what it hoped for goes on to the slow path, one   *)
(* critical section of the spinlock that runs some time later.             *)
(***************************************************************************)
EXTENDS Integers, Sequences, SequencesExt, FiniteSets, WaitStatus

CONSTANTS
    Threads,        \* the threads that use the lock
    TimedThreads,   \* the ones that lock with mutex_lock_with_timeout()
    Nobody

ASSUME ReleaseMutexAssumption ==
    /\ IsFiniteSet(Threads)
    /\ TimedThreads \subseteq Threads
    /\ Nobody \notin Threads

VARIABLES
    count,      \* mutex::count
    released,   \* flags & MUTEX_FLAG_RELEASED
    waiters,    \* mutex::waiters, the threads of the queued mutex_waiters
    spin,       \* mutex::lock, held across steps by mutex_switch_lock() only
    wait,       \* Thread::wait.status
    pc,         \* where in lock.h or lock.cpp a thread is
    held,       \* the threads that regard the lock as their own
    orphaned    \* history: the last waiter timed out while an unlocker was on
                \* its way into _mutex_unlock()

vars == <<count, released, waiters, spin, wait, pc, held, orphaned>>

Waiting == {"block", "timed_block", "timed_out"}

Locking == {"lock_slow", "timed_slow"}

TypeOK ==
    /\ count \in Int
    /\ released \in BOOLEAN
    /\ waiters \in Seq(Threads)
    /\ IsInjective(waiters)
    /\ spin \in Threads \cup {Nobody}
    /\ wait \in [Threads -> Statuses]
    /\ pc \in [Threads -> Waiting \cup Locking \cup {"idle", "switch", "unlock_slow"}]
    /\ held \subseteq Threads
    /\ orphaned \in BOOLEAN

Init ==
    /\ count = 0
    /\ released = FALSE
    /\ waiters = <<>>
    /\ spin = Nobody
    /\ wait = [t \in Threads |-> "B_OK"]
    /\ pc = [t \in Threads |-> "idle"]
    /\ held = {}
    /\ orphaned = FALSE

-------------------------------------------------------------------------------
Goto(t, label) == pc' = [pc EXCEPT ![t] = label]

ReturnHolding(t) == held' = held \cup {t} /\ Goto(t, "idle")

SpinFreeFor(t) == spin \in {Nobody, t}

Queued(t) == t \in ToSet(waiters)

\* atomic_add(&lock->count, -1): the lock was free, or the slow path is next.
FastLock(t, slow) ==
    /\ count' = count - 1
    /\ \/ count >= 0 /\ ReturnHolding(t)
       \/ count < 0 /\ Goto(t, slow) /\ UNCHANGED held
    /\ UNCHANGED <<released, waiters, wait>>

mutex_lock(t) ==
    /\ pc[t] = "idle" /\ t \notin held
    /\ FastLock(t, "lock_slow")
    /\ UNCHANGED <<spin, orphaned>>

mutex_lock_with_timeout(t) ==
    /\ t \in TimedThreads
    /\ pc[t] = "idle" /\ t \notin held
    /\ FastLock(t, "timed_slow")
    /\ UNCHANGED <<spin, orphaned>>

\* atomic_test_and_set(&lock->count, -1, 0)
mutex_trylock(t) ==
    /\ pc[t] = "idle" /\ t \notin held
    /\ count = 0
    /\ count' = -1
    /\ ReturnHolding(t)
    /\ UNCHANGED <<released, waiters, spin, wait, orphaned>>

\* mutex_switch_lock() or mutex_switch_from_read_lock() to this lock: take its
\* spinlock (and give up the other lock) ...
mutex_switch_lock(t) ==
    /\ pc[t] = "idle" /\ t \notin held
    /\ spin = Nobody
    /\ spin' = t
    /\ Goto(t, "switch")
    /\ UNCHANGED <<count, released, waiters, wait, held, orphaned>>

\* ... and mutex_lock_threads_locked(): the spinlock is dropped on success,
\* kept on the way into _mutex_lock().
mutex_lock_threads_locked(t) ==
    /\ pc[t] = "switch"
    /\ FastLock(t, "lock_slow")
    /\ spin' = IF count < 0 THEN t ELSE Nobody
    /\ UNCHANGED orphaned

\* Mutant: an unlocker looks for waiters whenever the count is negative still,
\* off by one.
mutex_unlock_Below(t) ==
    /\ pc[t] = "idle" /\ t \in held
    /\ count' = count + 1
    /\ held' = held \ {t}
    /\ \/ count < -2 /\ Goto(t, "unlock_slow")
       \/ count >= -2 /\ UNCHANGED pc
    /\ UNCHANGED <<released, waiters, spin, wait, orphaned>>

\* atomic_add(&lock->count, 1): somebody else counted itself in, or nobody did.
mutex_unlock(t) ==
    /\ pc[t] = "idle" /\ t \in held
    /\ count' = count + 1
    /\ held' = held \ {t}
    /\ \/ count < -1 /\ Goto(t, "unlock_slow")
       \/ count >= -1 /\ UNCHANGED pc
    /\ UNCHANGED <<released, waiters, spin, wait, orphaned>>

\* Mutant: the flag survives the locker that used it.
TakeReleased_KeepFlag(t) ==
    /\ released
    /\ ReturnHolding(t)
    /\ UNCHANGED <<released, waiters, wait>>

\* The lock was released after this thread decremented the count and before it
\* had the spinlock.
TakeReleased(t) ==
    /\ released
    /\ released' = FALSE
    /\ ReturnHolding(t)
    /\ UNCHANGED <<waiters, wait>>

Enqueue(t, label) ==
    /\ ~released
    /\ waiters' = Append(waiters, t)
    /\ wait' = thread_prepare_to_block(wait, t)
    /\ Goto(t, label)
    /\ UNCHANGED <<released, held>>

\* _mutex_lock() and _mutex_lock_with_timeout(), up to the wait.
LockSlow(t) ==
    /\ SpinFreeFor(t)
    /\ \/ /\ pc[t] = "lock_slow"
          /\ TakeReleased(t) \/ Enqueue(t, "block")
       \/ /\ pc[t] = "timed_slow"
          /\ TakeReleased(t) \/ Enqueue(t, "timed_block")
    /\ spin' = Nobody
    /\ UNCHANGED <<count, orphaned>>

\* Mutant: the last waiter enqueued is the first one served.
_mutex_unlock_Lifo(t) ==
    /\ pc[t] = "unlock_slow"
    /\ SpinFreeFor(t)
    /\ \/ /\ waiters # <<>>
          /\ waiters' = Front(waiters)
          /\ wait' = thread_unblock(wait, Last(waiters), "B_OK")
          /\ UNCHANGED released
       \/ waiters = <<>> /\ released' = TRUE /\ UNCHANGED <<waiters, wait>>
    /\ Goto(t, "idle")
    /\ UNCHANGED <<count, spin, held, orphaned>>

\* _mutex_unlock(): wake the head of the queue, which owns the lock from here
\* on, or leave the lock to the first thread to come to the slow path.
_mutex_unlock(t) ==
    /\ pc[t] = "unlock_slow"
    /\ SpinFreeFor(t)
    /\ \/ /\ waiters # <<>>
          /\ waiters' = Tail(waiters)
          /\ wait' = thread_unblock(wait, Head(waiters), "B_OK")
          /\ UNCHANGED released
       \/ waiters = <<>> /\ released' = TRUE /\ UNCHANGED <<waiters, wait>>
    /\ Goto(t, "idle")
    /\ UNCHANGED <<count, spin, held, orphaned>>

\* thread_block() returns: nothing but a hand-off ends the wait.
BlockReturn(t) ==
    /\ pc[t] = "block"
    /\ ~thread_is_blocked(wait, t)
    /\ ReturnHolding(t)
    /\ UNCHANGED <<count, released, waiters, spin, wait, orphaned>>

TimeOut(t) ==
    /\ pc[t] = "timed_block"
    /\ thread_is_blocked(wait, t)
    /\ wait' = thread_unblock(wait, t, "B_TIMED_OUT")
    /\ UNCHANGED <<count, released, waiters, spin, pc, held, orphaned>>

TimedBlockReturn(t) ==
    /\ pc[t] = "timed_block"
    /\ ~thread_is_blocked(wait, t)
    /\ \/ wait[t] = "B_OK" /\ ReturnHolding(t)
       \/ wait[t] # "B_OK" /\ Goto(t, "timed_out") /\ UNCHANGED held
    /\ UNCHANGED <<count, released, waiters, spin, wait, orphaned>>

\* Mutant: the count is not put back.
TimedDequeue_KeepCount(t) ==
    /\ pc[t] = "timed_out"
    /\ SpinFreeFor(t)
    /\ \/ Queued(t) /\ waiters' = RemoveFirst(waiters, t) /\ Goto(t, "idle") /\ UNCHANGED held
       \/ ~Queued(t) /\ ReturnHolding(t) /\ UNCHANGED waiters
    /\ UNCHANGED <<count, released, spin, wait, orphaned>>

\* The spinlock taken again: a waiter still queued leaves, and puts back what
\* the fast path took off the count; one that is not owns the lock.
TimedDequeue(t) ==
    /\ pc[t] = "timed_out"
    /\ SpinFreeFor(t)
    /\ \/ /\ \E i \in DOMAIN waiters :
                waiters[i] = t /\ waiters' = RemoveAt(waiters, i)
          /\ count' = count + 1
          /\ orphaned' = (orphaned \/ (count = -1 /\ \E u \in Threads : pc[u] = "unlock_slow"))
          /\ Goto(t, "idle")
          /\ UNCHANGED held
       \/ ~Queued(t) /\ ReturnHolding(t) /\ UNCHANGED <<count, waiters, orphaned>>
    /\ UNCHANGED <<released, spin, wait>>

-------------------------------------------------------------------------------
Next ==
    \E t \in Threads :
        \/ mutex_lock(t)
        \/ mutex_lock_with_timeout(t)
        \/ mutex_trylock(t)
        \/ mutex_switch_lock(t)
        \/ mutex_lock_threads_locked(t)
        \/ mutex_unlock(t)
        \/ LockSlow(t)
        \/ _mutex_unlock(t)
        \/ BlockReturn(t)
        \/ TimeOut(t)
        \/ TimedBlockReturn(t)
        \/ TimedDequeue(t)

Spec == Init /\ [][Next]_vars

\* A thread inside a call is scheduled until it blocks or returns, and whoever
\* holds the lock releases it.
Fairness ==
    \A t \in Threads :
        /\ WF_vars(mutex_lock_threads_locked(t))
        /\ SF_vars(LockSlow(t))
        /\ SF_vars(_mutex_unlock(t))
        /\ WF_vars(BlockReturn(t))
        /\ WF_vars(TimedBlockReturn(t))
        /\ SF_vars(TimedDequeue(t))
        /\ WF_vars(mutex_unlock(t))

FairSpec == Spec /\ Fairness

-------------------------------------------------------------------------------
\* lock.cpp: "mutex: exclusive FIFO sleeping lock".  No two threads regard the
\* mutex as theirs.
Exclusive == \A t, u \in held : t = u

\* The same, with the fast paths running beside the spinlock, for as long as no
\* waiter timed out in the one place where that matters.
MutualExclusion == ~orphaned => Exclusive

\* The threads that are in for the lock: its owner, the queue, and the lockers
\* between the fast and the slow path.  An owner on its way into _mutex_unlock()
\* has signed off already.
Contenders == {t \in Threads : t \in held \/ pc[t] \in Locking \cup Waiting}

\* The count says how many there are.
CountIsExact == count = -Cardinality(Contenders)

\* The state has its type and the count is right: a count one too low blocks
\* everybody, one too high lets two threads in by the fast path.
Consistent == TypeOK /\ CountIsExact

\* MUTEX_FLAG_RELEASED never outlives the thread it is meant for: while it is
\* set, nobody has the lock and some locker is on its way into the slow path.
\* A flag left set would let one thread too many in, much later.
ReleasedIsClaimed ==
    released /\ ~orphaned =>
        /\ held = {}
        /\ waiters = <<>>
        /\ \E t \in Threads : pc[t] \in Locking

\* The owner, which a release build does not record anywhere.
Owners ==
    {t \in Threads :
        \/ t \in held
        \/ pc[t] = "unlock_slow"
        \/ pc[t] \in Waiting /\ ~Queued(t)}

Owner == IF Owners = {} THEN Nobody ELSE CHOOSE t \in Owners : TRUE

Abstract == INSTANCE FifoLock WITH alive <- TRUE, owner <- Owner, queue <- waiters

\* lock.cpp: "mutex: exclusive FIFO sleeping lock", handed over directly "so a
\* newly arriving contender cannot starve the woken waiter".
IsFifoLock ==
    Abstract!Init /\ [][orphaned' \/ Abstract!Next]_<<Owner, waiters>>

\* Everybody who starts to lock gets the lock or times out, provided that holders
\* release.
LockEnds ==
    \A t \in Threads : pc[t] \in Locking \cup Waiting ~> pc[t] = "idle" \/ orphaned
===============================================================================
