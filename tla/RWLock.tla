-------------------------------- MODULE RWLock --------------------------------
(***************************************************************************)
(* The kernel's reader/writer lock, src/system/kernel/locks/lock.cpp, with *)
(* the inline fast paths of headers/private/kernel/lock.h.  The count is   *)
(* the number of readers plus RW_LOCK_WRITER_COUNT_BASE per writer, held   *)
(* or waiting.  Readers change it without the spinlock; whoever finds a    *)
(* writer in it enters the slow path, one critical section of the spinlock *)
(* that runs some time later.                                              *)
(***************************************************************************)
EXTENDS Integers, Sequences, SequencesExt, FiniteSets, FiniteSetsExt, WaitStatus

CONSTANTS
    Threads,        \* the threads that use the lock
    TimedThreads,   \* the ones that use rw_lock_read_lock_with_timeout()
    NoThread,       \* holder == -1
    MaxNest,        \* bound: how deep a writer nests its locks
    Destroyable     \* whether rw_lock_destroy() is called

RW_LOCK_WRITER_COUNT_BASE == 65536

\* All the readers there can be fit below the writers' part of the count.
ASSUME RWLockAssumption ==
    /\ IsFiniteSet(Threads)
    /\ TimedThreads \subseteq Threads
    /\ NoThread \notin Threads
    /\ MaxNest \in Nat \ {0}
    /\ Destroyable \in BOOLEAN
    /\ Cardinality(Threads) * (MaxNest + 2) < RW_LOCK_WRITER_COUNT_BASE

VARIABLES
    holder, count, owner_count, active_readers, pending_readers,
    waiters,    \* the queued rw_lock_waiters: their thread and writer flag
    alive,      \* between rw_lock_init() and rw_lock_destroy()
    wait,       \* Thread::wait.status
    cleared,    \* the threads whose rw_lock_waiter::thread was set to NULL
    pc,         \* where in lock.h or lock.cpp a thread is
    reads,      \* how many read locks a thread has, by the calls that returned
    writes      \* how many write locks it has

lockVars == <<holder, count, owner_count, active_readers, pending_readers, waiters, alive>>

vars == <<lockVars, wait, cleared, pc, reads, writes>>

Blocking == {"read_block", "timed_block", "write_block"}

Waiter == [thread : Threads, writer : BOOLEAN]

TypeOK ==
    /\ holder \in Threads \cup {NoThread}
    /\ {count, owner_count, active_readers, pending_readers} \subseteq Nat
    /\ waiters \in Seq(Waiter)
    /\ alive \in BOOLEAN
    /\ wait \in [Threads -> Statuses]
    /\ cleared \subseteq Threads
    /\ pc \in [Threads -> Blocking \cup
          {"idle", "read_slow", "timed_slow", "timed_out", "unlock_slow", "crashed"}]
    /\ reads \in [Threads -> 0 .. MaxNest + 1]
    /\ writes \in [Threads -> 0 .. MaxNest]

Init ==
    /\ holder = NoThread
    /\ count = 0
    /\ owner_count = 0
    /\ active_readers = 0
    /\ pending_readers = 0
    /\ waiters = <<>>
    /\ alive = TRUE
    /\ wait = [t \in Threads |-> "B_OK"]
    /\ cleared = {}
    /\ pc = [t \in Threads |-> "idle"]
    /\ reads = [t \in Threads |-> 0]
    /\ writes = [t \in Threads |-> 0]

-------------------------------------------------------------------------------
Goto(t, label) == pc' = [pc EXCEPT ![t] = label]

Claimed(c) == c >= RW_LOCK_WRITER_COUNT_BASE

\* A read lock call returns B_OK.
ReturnReading(t) ==
    /\ reads' = [reads EXCEPT ![t] = @ + 1]
    /\ Goto(t, "idle")

Queued(t) == \E i \in DOMAIN waiters : waiters[i].thread = t

\* rw_lock_wait(), up to thread_block().
Enqueue(t, writer, label) ==
    /\ waiters' = Append(waiters, [thread |-> t, writer |-> writer])
    /\ wait' = thread_prepare_to_block(wait, t)
    /\ cleared' = cleared \ {t}
    /\ Goto(t, label)

\* Mutant: a writer is let in while readers that were promised the lock are
\* still to come.
Eligible_ForgetPending(h, active) ==
    LET writers == {i \in DOMAIN waiters : waiters[i].writer}
    IN  CASE h # NoThread -> 0
          [] h = NoThread /\ writers = {} -> Len(waiters)
          [] h = NoThread /\ 1 \in writers -> IF active > 0 THEN 0 ELSE 1
          [] OTHER -> Min(writers) - 1

\* How many waiters, from the head of the queue, rw_lock_unblock() wakes: none
\* while somebody has the write lock; one writer, if the readers are gone; or
\* all the readers in front of the first writer.
Eligible(h, active) ==
    LET writers == {i \in DOMAIN waiters : waiters[i].writer}
    IN  CASE h # NoThread -> 0
          [] h = NoThread /\ writers = {} -> Len(waiters)
          [] h = NoThread /\ 1 \in writers -> IF active > 0 \/ pending_readers > 0 THEN 0 ELSE 1
          [] OTHER -> Min(writers) - 1

\* rw_lock_unblock(), with the holder, the count and active_readers as they are
\* at the call.
rw_lock_unblock(h, c, active) ==
    LET n == Eligible(h, active)
        woken == {waiters[i].thread : i \in 1 .. n}
        writer == n > 0 /\ Head(waiters).writer
    IN  /\ waiters' = SubSeq(waiters, n + 1, Len(waiters))
        /\ wait' = thread_unblock_all(wait, woken, "B_OK")
        /\ cleared' = cleared \cup woken
        /\ holder' = IF writer THEN Head(waiters).thread ELSE h
        /\ active_readers' = IF ~writer /\ Claimed(c) THEN active + n ELSE active

-------------------------------------------------------------------------------
\* Only the writer may nest: a second read lock of a mere reader would wait
\* behind a writer that waits for the first one.
MayReadLock(t) ==
    /\ pc[t] = "idle"
    /\ alive
    /\ \/ reads[t] = 0 /\ writes[t] = 0
       \/ reads[t] < MaxNest /\ writes[t] > 0

\* The inline part: atomic_add(&lock->count, 1).
FastReadLock(t, slow) ==
    /\ MayReadLock(t)
    /\ count' = count + 1
    /\ \/ Claimed(count) /\ Goto(t, slow) /\ UNCHANGED reads
       \/ ~Claimed(count) /\ ReturnReading(t)
    /\ UNCHANGED <<holder, owner_count, active_readers, pending_readers, waiters,
                   alive, wait, cleared, writes>>

rw_lock_read_lock(t) == FastReadLock(t, "read_slow")

rw_lock_read_lock_with_timeout(t) == t \in TimedThreads /\ FastReadLock(t, "timed_slow")

\* The caller is the writer.
ReadAsWriter(t) ==
    /\ holder = t
    /\ owner_count' = owner_count + 1
    /\ ReturnReading(t)
    /\ UNCHANGED <<active_readers, pending_readers, waiters, wait, cleared>>

\* Mutant: a reader that uses up a promise is not counted as active.
ReadAsPending_Uncounted(t) ==
    /\ holder # t
    /\ pending_readers > 0
    /\ pending_readers' = pending_readers - 1
    /\ ReturnReading(t)
    /\ UNCHANGED <<owner_count, active_readers, waiters, wait, cleared>>

\* The writer seen by atomic_add() is gone, and promised the lock to as many
\* readers as were on their way.
ReadAsPending(t) ==
    /\ holder # t
    /\ pending_readers > 0
    /\ pending_readers' = pending_readers - 1
    /\ active_readers' = active_readers + (IF Claimed(count) THEN 1 ELSE 0)
    /\ ReturnReading(t)
    /\ UNCHANGED <<owner_count, waiters, wait, cleared>>

ReadWait(t, label) ==
    /\ holder # t
    /\ pending_readers = 0
    /\ Enqueue(t, FALSE, label)
    /\ UNCHANGED <<owner_count, active_readers, pending_readers, reads>>

\* _rw_lock_read_lock() and _rw_lock_read_lock_with_timeout(), up to the wait.
_rw_lock_read_lock(t) ==
    /\ \/ /\ pc[t] = "read_slow"
          /\ ReadAsWriter(t) \/ ReadAsPending(t) \/ ReadWait(t, "read_block")
       \/ /\ pc[t] = "timed_slow"
          /\ ReadAsWriter(t) \/ ReadAsPending(t) \/ ReadWait(t, "timed_block")
    /\ UNCHANGED <<holder, count, alive, writes>>

\* rw_lock_wait() returns to a reader.
ReadBlockReturn(t) ==
    /\ pc[t] = "read_block"
    /\ ~thread_is_blocked(wait, t)
    /\ \/ wait[t] = "B_OK" /\ ReturnReading(t)
       \/ wait[t] # "B_OK" /\ Goto(t, "idle") /\ UNCHANGED reads
    /\ UNCHANGED <<lockVars, wait, cleared, writes>>

TimeOut(t) ==
    /\ pc[t] = "timed_block"
    /\ thread_is_blocked(wait, t)
    /\ wait' = thread_unblock(wait, t, "B_TIMED_OUT")
    /\ UNCHANGED <<lockVars, cleared, pc, reads, writes>>

\* thread_block_with_timeout() returns; waiter.thread is read without the
\* spinlock.
TimedBlockReturn(t) ==
    /\ pc[t] = "timed_block"
    /\ ~thread_is_blocked(wait, t)
    /\ \/ (wait[t] = "B_OK" \/ t \in cleared) /\ ReturnReading(t)
       \/ wait[t] # "B_OK" /\ t \notin cleared /\ Goto(t, "timed_out") /\ UNCHANGED reads
    /\ UNCHANGED <<lockVars, wait, cleared, writes>>

\* With the spinlock, the waiter is looked for in a loop that ends nowhere but
\* at the waiter: if it is not queued any more, NULL is dereferenced.
TimedDequeue(t) ==
    /\ pc[t] = "timed_out"
    /\ \/ /\ \E i \in DOMAIN waiters :
                waiters[i].thread = t /\ waiters' = RemoveAt(waiters, i)
          /\ count' = count - 1
          /\ Goto(t, "idle")
       \/ ~Queued(t) /\ Goto(t, "crashed") /\ UNCHANGED <<waiters, count>>
    /\ UNCHANGED <<holder, owner_count, active_readers, pending_readers, alive,
                   wait, cleared, reads, writes>>

\* The inline part: atomic_add(&lock->count, -1).
rw_lock_read_unlock(t) ==
    /\ pc[t] = "idle"
    /\ alive
    /\ reads[t] > 0
    /\ count' = count - 1
    /\ reads' = [reads EXCEPT ![t] = @ - 1]
    /\ \/ Claimed(count) /\ Goto(t, "unlock_slow")
       \/ ~Claimed(count) /\ UNCHANGED pc
    /\ UNCHANGED <<holder, owner_count, active_readers, pending_readers, waiters,
                   alive, wait, cleared, writes>>

\* Still the writer; or one of several readers; or the last one, which lets the
\* waiting writer in.  (A negative active_readers panics: see AssertsHold.)
_rw_lock_read_unlock(t) ==
    /\ pc[t] = "unlock_slow"
    /\ \/ /\ holder = t
          /\ owner_count' = owner_count - 1
          /\ UNCHANGED <<holder, active_readers, waiters, wait, cleared>>
       \/ /\ holder # t /\ active_readers > 1
          /\ active_readers' = active_readers - 1
          /\ UNCHANGED <<holder, owner_count, waiters, wait, cleared>>
       \/ /\ holder # t /\ active_readers = 1
          /\ rw_lock_unblock(holder, count, 0)
          /\ UNCHANGED owner_count
    /\ Goto(t, "idle")
    /\ UNCHANGED <<count, pending_readers, alive, reads, writes>>

\* The owner nests, the lock is free, or the writer queues and notes how many
\* readers are to drain.
rw_lock_write_lock(t) ==
    /\ pc[t] = "idle"
    /\ alive
    /\ \/ /\ holder = t /\ writes[t] < MaxNest
          /\ owner_count' = owner_count + RW_LOCK_WRITER_COUNT_BASE
          /\ writes' = [writes EXCEPT ![t] = @ + 1]
          /\ UNCHANGED <<holder, count, active_readers, waiters, wait, cleared, pc>>
       \/ /\ holder # t /\ reads[t] = 0
          /\ count' = count + RW_LOCK_WRITER_COUNT_BASE
          /\ \/ /\ count = 0
                /\ holder' = t
                /\ owner_count' = RW_LOCK_WRITER_COUNT_BASE
                /\ writes' = [writes EXCEPT ![t] = 1]
                /\ UNCHANGED <<active_readers, waiters, wait, cleared, pc>>
             \/ /\ count # 0
                /\ active_readers' = IF Claimed(count) THEN active_readers
                                                       ELSE count - pending_readers
                /\ Enqueue(t, TRUE, "write_block")
                /\ UNCHANGED <<holder, owner_count, writes>>
    /\ UNCHANGED <<pending_readers, alive, reads>>

\* rw_lock_wait() returns to a writer.
WriteBlockReturn(t) ==
    /\ pc[t] = "write_block"
    /\ ~thread_is_blocked(wait, t)
    /\ \/ /\ wait[t] = "B_OK"
          /\ holder' = t
          /\ owner_count' = RW_LOCK_WRITER_COUNT_BASE
          /\ writes' = [writes EXCEPT ![t] = 1]
       \/ wait[t] # "B_OK" /\ UNCHANGED <<holder, owner_count, writes>>
    /\ Goto(t, "idle")
    /\ UNCHANGED <<count, active_readers, pending_readers, waiters, alive, wait, cleared, reads>>

\* The count once the owner is no writer any more.
CountWithoutWriter == count - RW_LOCK_WRITER_COUNT_BASE

\* The read locks the owner keeps.
OwnReads == owner_count - RW_LOCK_WRITER_COUNT_BASE

\* Mutant: readers on their way to the slow path are not promised anything.
StillComing_None == 0

\* The readers counted so far that are neither in nor queued.
StillComing == CountWithoutWriter - OwnReads - Eligible(NoThread, active_readers)

\* Mutant: waiting writers are left to the next unlocker.
LastWriteUnlock_NoWake ==
    /\ owner_count' = 0
    /\ count' = CountWithoutWriter
    /\ \/ /\ count' = 0 \/ Claimed(count')
          /\ holder' = NoThread
          /\ UNCHANGED <<active_readers, pending_readers, waiters, wait, cleared>>
       \/ /\ count' # 0 /\ ~Claimed(count')
          /\ rw_lock_unblock(NoThread, count', active_readers)
          /\ pending_readers' = StillComing

\* The last write lock of the owner goes: its read locks live on as those of a
\* reader, writers that wait inherit them in active_readers, and otherwise every
\* reader counted so far gets in, now or when it comes to the slow path.
LastWriteUnlock ==
    /\ owner_count' = 0
    /\ count' = CountWithoutWriter
    /\ \/ /\ count' = 0
          /\ holder' = NoThread
          /\ UNCHANGED <<active_readers, pending_readers, waiters, wait, cleared>>
       \/ /\ Claimed(count')
          /\ rw_lock_unblock(NoThread, count', OwnReads)
          /\ UNCHANGED pending_readers
       \/ /\ count' # 0 /\ ~Claimed(count')
          /\ rw_lock_unblock(NoThread, count', active_readers)
          /\ pending_readers' = StillComing

_rw_lock_write_unlock(t) ==
    /\ pc[t] = "idle"
    /\ alive
    /\ writes[t] > 0
    /\ \/ /\ owner_count >= 2 * RW_LOCK_WRITER_COUNT_BASE
          /\ owner_count' = owner_count - RW_LOCK_WRITER_COUNT_BASE
          /\ UNCHANGED <<holder, count, active_readers, pending_readers, waiters, wait, cleared>>
       \/ owner_count < 2 * RW_LOCK_WRITER_COUNT_BASE /\ LastWriteUnlock
    /\ writes' = [writes EXCEPT ![t] = @ - 1]
    /\ UNCHANGED <<alive, pc, reads>>

\* The caller has the write lock, or the lock is not in use (anything else
\* panics); nobody is on its way into the slow path, as such a thread would
\* find the memory gone.
rw_lock_destroy(t) ==
    /\ Destroyable
    /\ alive
    /\ pc[t] = "idle"
    /\ holder = t \/ (count = 0 /\ waiters = <<>>)
    /\ \A u \in Threads : pc[u] \notin {"read_slow", "timed_slow", "unlock_slow"}
    /\ alive' = FALSE
    /\ waiters' = <<>>
    /\ wait' = thread_unblock_all(wait, {w.thread : w \in ToSet(waiters)}, "B_ERROR")
    /\ reads' = [reads EXCEPT ![t] = 0]
    /\ writes' = [writes EXCEPT ![t] = 0]
    /\ UNCHANGED <<holder, count, owner_count, active_readers, pending_readers, cleared, pc>>

\* The memory is put to use again; nobody is still inside a call.
rw_lock_init ==
    /\ ~alive
    /\ \A t \in Threads : pc[t] = "idle"
    /\ holder' = NoThread
    /\ count' = 0
    /\ owner_count' = 0
    /\ active_readers' = 0
    /\ pending_readers' = 0
    /\ alive' = TRUE
    /\ UNCHANGED <<waiters, wait, cleared, pc, reads, writes>>

-------------------------------------------------------------------------------
Next ==
    \/ rw_lock_init
    \/ \E t \in Threads :
          \/ rw_lock_read_lock(t)
          \/ rw_lock_read_lock_with_timeout(t)
          \/ _rw_lock_read_lock(t)
          \/ ReadBlockReturn(t)
          \/ TimeOut(t)
          \/ TimedBlockReturn(t)
          \/ TimedDequeue(t)
          \/ rw_lock_read_unlock(t)
          \/ _rw_lock_read_unlock(t)
          \/ rw_lock_write_lock(t)
          \/ WriteBlockReturn(t)
          \/ _rw_lock_write_unlock(t)
          \/ rw_lock_destroy(t)

Spec == Init /\ [][Next]_vars

\* A thread inside a call is scheduled until it blocks or returns, and whoever
\* holds a lock releases it, the last of its write locks too.
Fairness ==
    \A t \in Threads :
        /\ WF_vars(_rw_lock_read_lock(t))
        /\ WF_vars(ReadBlockReturn(t))
        /\ WF_vars(TimedBlockReturn(t))
        /\ WF_vars(TimedDequeue(t))
        /\ WF_vars(_rw_lock_read_unlock(t))
        /\ WF_vars(WriteBlockReturn(t))
        /\ WF_vars(rw_lock_read_unlock(t) /\ writes[t] = 0)
        /\ SF_vars(_rw_lock_write_unlock(t))
        /\ SF_vars(_rw_lock_write_unlock(t) /\ writes[t] = 1)

FairSpec == Spec /\ Fairness

-------------------------------------------------------------------------------
\* While a thread has the write lock, no other thread has any lock: neither a
\* reader that the count has not caught up with, nor a second writer.
WriterIsAlone ==
    \A t, u \in Threads : t # u /\ writes[t] > 0 => reads[u] = 0 /\ writes[u] = 0

\* The threads that have the write lock or wait for it.
Writers == {t \in Threads : writes[t] > 0 \/ pc[t] = "write_block"}

\* The read locks that threads have, numbered for each of them.
ReadLocks == {p \in Threads \X (1 .. MaxNest + 1) : p[2] <= reads[p[1]]}

\* The readers between the fast and the slow path ...
Slow == {t \in Threads : pc[t] \in {"read_slow", "timed_slow"}}

\* ... and behind it, queued or not any more.
Coming ==
    {t \in Threads : pc[t] \in {"read_block", "timed_block", "timed_out", "crashed"}}

\* The readers that rw_lock_unblock() let in and that have not returned yet.
Woken == cleared \cap Coming

\* The readers on their way into _rw_lock_read_unlock().
Unlocking == {t \in Threads : pc[t] = "unlock_slow"}

\* Every writer and every reader that is in for the lock is in the count, once:
\* with it, queued for it, or between the fast and the slow path.
CountIsExact ==
    alive => count = RW_LOCK_WRITER_COUNT_BASE * Cardinality(Writers)
                     + Cardinality(ReadLocks) + Cardinality(Slow) + Cardinality(Coming)

\* lock.h on active_readers: "Only > 0 while a writer is waiting", and then it
\* is the number of read locks that writer has to wait for.  One too many and
\* the writer never runs; one too few and it runs beside a reader.
ActiveReadersExact ==
    alive /\ holder = NoThread =>
        active_readers =
            IF ~Claimed(count) THEN 0
            ELSE Cardinality(ReadLocks) + Cardinality(Woken) + Cardinality(Unlocking)

\* lock.h on pending_readers: readers that "have already incremented count, but
\* have not yet started to wait at the time the last writer unlocked".  All of
\* them are still to come, so the promise is used up and no writer waits for
\* it for ever; and without a writer in the count, every one of them has it.
PendingReadersExact ==
    alive =>
        /\ pending_readers <= Cardinality(Slow)
        /\ ~Claimed(count) => pending_readers = Cardinality(Slow)

\* The ASSERTs and panics of the slow paths do not fire: owner_count is the sum
\* of the owner's locks when it unlocks one, active_readers does not go below 0.
AssertsHold ==
    \A t \in Threads :
        /\ alive /\ writes[t] > 0 =>
              /\ holder = t
              /\ owner_count = RW_LOCK_WRITER_COUNT_BASE * writes[t] + reads[t]
                               + (IF pc[t] = "unlock_slow" THEN 1 ELSE 0)
        /\ pc[t] = "unlock_slow" /\ holder # t => active_readers > 0

\* The redundant parts of the lock agree: the count, the two counts of readers
\* and the owner's count each mean exactly what the code takes them for.
Consistent ==
    TypeOK /\ CountIsExact /\ ActiveReadersExact /\ PendingReadersExact /\ AssertsHold

\* No lost wake-up: while threads queue, somebody is left whose unlock calls
\* rw_lock_unblock().
WaitersHaveWaker ==
    alive /\ waiters # <<>> =>
        holder # NoThread \/ active_readers > 0 \/ pending_readers > 0

\* Whoever starts to lock gets out of the call, provided that holders release:
\* readers do not starve writers ("a pending writer is noted in the count so
\* new readers start waiting"), and writers do not starve readers.  A thread
\* that went down in the kernel keeps its lock, and all the others waiting.
LockEnds ==
    \A t \in Threads :
        pc[t] \in Blocking \cup {"read_slow", "timed_slow", "timed_out"} ~>
            pc[t] = "idle" \/ \E u \in Threads : pc[u] = "crashed"
===============================================================================
