# The synchronisation core of the Kintsugi kernel in TLA+

Kintsugi OS is a fork of Haiku: a kernel (`src/system/kernel`), kernel add-ons
(`src/add-ons/kernel`), a user-land library (`src/system/libroot`), kits,
servers and applications. This project specifies the part everything else
stands on, from its source: how threads wait for each other.

| source | what it holds |
|---|---|
| `headers/private/kernel/thread.h`, `src/system/kernel/thread.cpp` | blocking, with and without a timeout, and unblocking |
| `src/system/kernel/timer.cpp` | the timers behind timeouts |
| `headers/private/kernel/lock.h`, `src/system/kernel/locks/lock.cpp` | `recursive_lock`, `rw_lock`, `mutex` |
| `src/system/kernel/condition_variable.cpp` | condition variables |
| `src/system/kernel/sem.cpp` | counting semaphores |
| `src/system/kernel/port.cpp` | message ports |
| `src/system/kernel/locks/user_mutex.cpp` | the kernel half of user-land locks |
| `src/system/libroot/posix/pthread/`, `posix/semaphore.cpp` | the user-land half |

## 1. Inventory

How the parts interact: a primitive queues the calling thread under its own
spinlock, calls `thread_prepare_to_block()`, drops the spinlock and calls
`thread_block()`. From then on three parties race for one word,
`Thread::wait.status`: the primitive that wakes the thread, the timer of a
timed wait, and a signal. The first one wins (`atomic_test_and_set`), and the
thread finds out only when it runs again, outside every lock. Condition
variables add a second race, for the entry on the waiter's stack; ports and user
mutexes are built on condition variables, pthreads on user mutexes, with fast
paths in user space that change a word the kernel changes too.

| component | state | operations | hard behaviour | what makes it correct |
|---|---|---|---|---|
| mutex, default build (`KDEBUG`) | holder, FIFO of waiters | lock, trylock, timed lock, unlock, transfer, switch, destroy, init | timeout against hand-off; destruction against waiters; two locks changed by one switch | one owner; an owner that knows it; no lost wake-up; FIFO |
| mutex, release build | atomic count, `MUTEX_FLAG_RELEASED`, FIFO | the same, with inline fast paths | fast path against slow path | the same; count and flag mean what the fast paths take them for |
| rw_lock | count, holder, owner_count, active_readers, pending_readers, FIFO | read, timed read, write, unlocks, nesting, downgrade, destroy, init | readers counted but not queued when a writer leaves; timed readers | a writer is alone; each counter is exact; nobody starves |
| semaphores | slot table, free list, count, net_count, FIFO, select_infos | create, delete, acquire, switch, release (all, waiting only, plain), select, deselect | entries of threads that gave up; slots reused while a late thread still uses the id | units are conserved; queues belong to the semaphore they are in |
| thread blocking, timers | wait.status, per-CPU timer queues, the hardware timers, the event in progress | block, unblock, add and cancel timers, interrupt, clock change | a hook that runs on one CPU while the wait ends on another | a timeout ends its own wait only; a cancelled timer is over; a timed wait ends |
| condition variables | fEntries, fEntriesCount, per entry fThread, fVariable, fWaitStatus; the hash of published ones | Add, Wait, NotifyOne, NotifyAll, Publish, Unpublish | waiter and notifier let go of an entry without a common lock | nothing is used after it is gone; a notification is neither lost nor invented; the loops end |
| recursive_lock | recursion over a mutex | lock, trylock, unlock, release around a wait | the thread blocks for two things in turn through one wait.status | who returns has the lock as deep as before |
| ports | messages, read_count, write_count, two condition variables, space shared by all ports | create, close, delete, read, peek, write, select | writers that wait with a slot reserved; readers woken for a message another one takes | slots and space are given back once; nobody is stranded; a closed port is over |
| user mutexes | flags or a count in user memory; table of entries with reference counts and condition variables | lock, switch, unblock, semaphore acquire and release | the word changes under the kernel's feet; waiters give up at any time | an entry lives as long as it is used; no sleeper is forgotten |
| pthread | owner, waiter_count, barrier counts | mutexes, condition variables, unnamed semaphores, barriers | user-land steps between the kernel's | LOCKED means that one thread has it; a signal wakes; units are conserved; a round of a barrier is complete |

Every other part of the repository (VM, VFS, caches, scheduler, device manager,
add-ons, servers, applications) is a client of these. `PROJECT.json` lists them
with the reason they are not modelled.

## 2. Modules

`WaitStatus` is `Thread::wait.status` and its operations, used by all.

**`MutexDebug`** models `mutex` as the default configuration compiles it
(`build/config_headers/kernel_debug_config.h` sets `KDEBUG_LEVEL` 2). `holder`
and `waiters` are the fields of the structure, `spin` is its spinlock where it
is held across steps (only `mutex_switch_lock()` does that), `wait` and
`cleared` are the thread's wait status and `waiter.thread == NULL`, `pc`,
`target` and `from` say where in `lock.cpp` a thread is, and `held` are the
locks a thread may regard as its own by the calls that returned. One action is
one critical section of the spinlock. `mutex_lock`, `mutex_trylock`,
`mutex_lock_with_timeout`, `mutex_unlock`, `mutex_transfer_lock`,
`mutex_destroy` and `mutex_init` are the calls; `BlockReturn`, `TimeOut`,
`TimedBlockReturn` and `TimedDequeue` are what happens to a waiter, with the
unlocked read of `waiter.thread` as a step apart from the critical section
after it; `SwitchSpin`, `SwitchUnlock` and `SwitchAcquire` are the stages of a
switch. What the code answers with a panic (locking twice, destroying somebody
else's lock) is not done.

**`FifoLock`** says what a mutex promises: an exclusive lock with a FIFO queue,
handed from the owner to the head. **`MutexDebugFifo`** maps any one of
the locks of `MutexDebug` to it, `Mutex` maps its lock in the same way.

**`Mutex`** models the release build: `FastLock`, `mutex_unlock` and
`mutex_trylock` are the atomic operations of `lock.h`, `LockSlow`,
`_mutex_unlock` and `TimedDequeue` the critical sections that follow some time
later. `orphaned` is a history variable for the one situation in which this
mutex breaks (section 5). Destruction is left to `MutexDebug`.

**`RWLock`** models `rw_lock` with its inline parts. The `Eligible` waiters of
`rw_lock_unblock()` are the prefix of the queue its loop walks. A timed-out
reader that is not in the queue any more runs into a `NULL` pointer; it ends up
`"crashed"`. `KDEBUG_RW_LOCK_DEBUG` is off in every configuration and left out.

**`Sem`** models `sem.cpp`. A `sem_id` is a number, `SlotOf` its slot. The loops
over a queue are folds over it (`ReleaseStep`, `RebalanceStep`): each step sees
the counts, the units left to hand out and whether a waiter is still blocked.
`delete_sem` and `free_sem_slot` are two steps, as in the code. `balance` is a
history variable: the units one life of a slot was given, less the units of the
acquisitions that returned `B_OK`. Calls that return an error before they
change anything (`B_WOULD_BLOCK`, bad id, no permission) are stuttering steps.

**`TimedBlock`** models `thread_block_with_timeout()` with the timers under it.
Times are relative to now: `Tick` lets a unit pass. `events`, `current_event`
and `in_progress` are the fields of `per_cpu_timer_data`, `hardware` is when the
CPU's timer goes off, `handler` and `firing` where in `timer_interrupt()` a CPU
is and for which timer. `BeginEvent` to `EndEvent` are the steps of one round of
its loop, with the hook between them, outside the lock. `cancel_timer` ends at
once, or leaves its caller in `CancelWait` until the hook is over. Besides the
threads' one-shot timers there are periodic ones whose hook may cancel them
(`HookCancel`). Their owners call `add_timer()` with interrupts enabled and can be
preempted between its reading of the time (`ReadTime`) and its critical section
(`AddPeriodic`), which sets the hardware timer by the time read (5.12); `late` is a
history variable: how old that time was. A thread that blocks has interrupts
disabled already, so that its `add_timer()` is one step. `per_cpu_real_time_clock_changed` moves what goes by the
real-time clock; what its two loops make of the queue is stated as the order
they leave it in (`IsRequeued`). A thread starts to wait again at any time, which is when a
timer of its last wait would show.

**`ConditionVariable`** models `condition_variable.cpp`: a thread has one entry,
on its stack. An action is one access to what is shared without a lock (the
exchange of `fThread`, the clearing of `fVariable`, the two counts of
`fEntriesCount`) or one critical section. `RemoveRead` to `RemoveTry` are
`_RemoveFromVariable()`, `NotifyNext` to `NotifyCount` are `_NotifyLocked()`,
`Publish`, `Unpublish` and the lookups the hash. `alive` says which variables
exist, `given` and `misled` are history variables: what a notifier gave to a
wait, and the waits that returned something else. **`Monitor`** composes it with
a `recursive_lock` over a FIFO mutex into `ConditionVariable::Wait(lock, ...)`:
the same `wait` serves the mutex and the variable.

**`Port`** models one port of `port.cpp`, from `create_port()` to
`uninit_port()`. Its condition variables are the ones of
`ConditionVariable`, reduced to what that module shows (a waiter is notified or
gives up, not both). `messages` is the length of the queue, `call` what a
thread's call is, `pc` where in it a thread is; the wait for space, in which the
port is unlocked and looked up again, has steps of its own (`SpaceCount` to
`SpaceAgain`). `overbooked` is a history variable (section 5).

**`UserMutex`** models `user_mutex.cpp`. `word` and `value` are user memory,
`table`, `alive`, `ref_count` the entries, `queue` and `leaving` an entry's
condition variable: who is counted by `EntriesCount()`, and who of those has
given up. An action is one access to the word. The rw_lock of an entry and the
table's lock are in the guards (`ReadLockable`, `WriteLockable`,
`TableWritable`); they were shown to be locks in `RWLock`. **`Pthread`** composes
it with the user-land halves of mutexes, condition variables and unnamed
semaphores, **`PthreadBarrier`** with those of barriers. `due` and `units` are
history variables: wake-ups that signals owe to blocked threads, and units
posted and not acquired.

**`QueueLemmas`, `MutexDebugProofs`, `MutexProofs`, `RWLockProofs`,
`MonitorProofs`, `TimedBlockProofs`, `PortProofs` and `PthreadProofs`** hold the
proofs. The `MC` modules name the model values.

In each module but `MutexDebug`, `Consistent` is the type invariant together
with the invariants that say what the redundant parts of the state (counters,
lists, flags) mean; the parts have names of their own.

## 3. Runs

| run | instance | shows |
|---|---|---|
| `mutex_timed` | 3 threads, 2 with timeouts, 2 nested locks, switch, transfer; fair | exclusion, knowing owners, the `ASSERT`s, no lost wake-up, `FifoLock`, every wait ends |
| `mutex_destroy` | 3 threads, a lock destroyed and reused under a guard | `FifoLock`, and a switch never finds its lock destroyed |
| `release_mutex` | 3 threads, 1 with timeouts; fair | exact count; exclusion, `FifoLock`, no stale `MUTEX_FLAG_RELEASED` and liveness until `orphaned` |
| `release_mutex_exclusion` | the same | **violation**, 5.1 |
| `rw_lock` | 3 threads, 1 with timeouts, nesting 2, destruction and reuse; fair | a writer is alone, exact counters and `ASSERT`s, no lost wake-up, liveness |
| `sem` | 2 threads, one fallible and switching, requests of 1 and 2, 2 slots of which one is reused, select | exact counts and free list, units conserved, current queues, select is told |
| `timed_block` | 2 CPUs, a thread with timeouts up to 2 by the real-time clock, a periodic timer, clock changes; fair | sound queues, hardware timers late by no more than the `add_timer()` that set them, a timeout ends its own wait only, cancelled is over, a timed wait ends |
| `monitor` | 3 threads, 2 of which wait, one of those giving up, two variables, one of them published, recursion 2; fair | exact fEntriesCount, nothing used after its end, no notification lost or invented, mutex and variable do not mistake each other's wake-ups, the loops end |
| `port` | 2 readers, one peeking, 2 writers, 2 slots, space for 2, select, close, delete | slots and space exact, no wake-up for a message or slot lost, a closed port takes no message and nobody new waits, select is told |
| `pthread` | 3 threads, one with timeouts and signals, a mutex, a condition variable, a semaphore | entries live as long as they are used, LOCKED means held, no sleeper forgotten, signals under the mutex wake, units conserved |
| `pthread_signals` | 2 waiters, 2 threads that signal without the mutex | **violation**, 5.2 |
| `pthread_barrier` | a barrier for 3 threads | **violation**, 5.3 |

What the properties say:

- mutex: `MutualExclusion`; `OwnerKnows` (the holder has the lock or learns of
  it when it runs), `HolderAssertsHold` (the `ASSERT`s after a wait),
  `WaitersHaveOwner` and `ReleasedIsClaimed` (nobody waits for a lock that no
  thread will hand over), `SwitchFindsLock`, `IsFifoLock`, `WaitEnds`,
  `LockEnds`; `Exclusive` is `MutualExclusion` without the exception of 5.1.
- rw_lock: `WriterIsAlone`, `WaitersHaveWaker` (some thread in the lock will
  look at the queue), `LockEnds`.
- semaphores: `UnitsConserved`, `QueuesAreCurrent` (who is queued waits for the
  semaphore the slot holds now), `SelectIsNotified`.
- timed blocking: `Consistent`, with `HardwareIsSet` (outside the handler a CPU's
  timer goes off no later than its first event is due plus `late`),
  `TimeoutMeetsItsWait`, `CancelIsFinal` (no hook runs after
  `cancel_timer()` returned), `TimedWaitEnds`.
- monitors: `NothingIsGone` (no entry or variable is used after its end),
  `NotifiedReturnsResult`, `WaitsAreApart` (a wake-up of the mutex is not taken
  for one of the variable), `CallEnds`.
- ports: `NobodyIsStranded` (no reader or writer sleeps while what it waits for
  is there and nobody is on the way to wake it), `ClosedIsOver` (nobody waits for a
  message or a slot of a closed port, nobody begins to wait on it, and no message
  gets in; who waits for space already is not woken, 5.13), `SelectIsTold`.
- pthread: `LockedMeansHeld`, `BlockedIsRemembered` (a thread asleep in the
  kernel is announced by WAITING or somebody is about to wake it),
  `EverySignalWakes`, `UnitsConserved`, `RoundIsComplete` (nobody leaves a
  barrier before all have come).

Bounds. Three threads are an owner, a waiter and a third party, which every
race of the hazard list needs; a queue of two is the shortest one in which
order, and leaving from the middle, show. Two locks are needed for nesting and
switching. `MaxNest` 2 is the smallest depth at which giving up the last write
lock and giving up another one differ. Units 1 and 2 make a request that is not
satisfied by what another one leaves. `MaxId` lets a slot be reused, which is
when a late thread can meet another semaphore; `MaxCount` and `MaxUnits` cap
releases. Two CPUs are one for the hook and one for the thread that cancels;
`MaxDelay` gives two timers different times and equal ones; `MaxLate` 1 makes an
`add_timer()` call late (the run passes with 2 as well, in some three minutes), and
times before `-MaxLate` are not told apart. Two slots and two
writers beyond them are a writer that waits behind one that gives up; the space
limit is reached when both slots are. Entries are as many as addresses, so that
memory is reused for another address. Symmetry is used where the threads are
interchangeable and no liveness is checked.
`rw_lock` does not check for deadlock, as a reader that crashed (5.4) keeps its
lock for ever.

Fairness. A thread inside a call runs on until it blocks or returns: spinlocks
are held with interrupts disabled and the scheduler does not starve a runnable
thread. Where a step waits for a spinlock that others keep taking (`LockSlow`,
`_mutex_unlock`, `TimedDequeue` of the release build) it is strong: spinlocks
are contended for finitely long. Holders release: strongly, since a holder may
lock and unlock other things meanwhile. In `TimedBlock` time passes, an
interrupt is taken once interrupts are enabled, its handler runs on, and a
thread that was unblocked, was preempted in `add_timer()` or spins runs some time; `TimedWaitEnds` excludes a
clock that is set back for ever. In `Monitor` only the steps inside
`condition_variable.cpp` are fair. Nothing is assumed of callers that have not
begun, nor of timeouts and signals elsewhere.

## 4. Proofs

Each proof module defines `IndInv`, the conjunction of the invariants the runs
check and of what makes them inductive, and proves that `Init` implies it, that
every action preserves it (one lemma per action, or per operation that several
actions share) and that it implies the properties. Each `IndInv` was checked by
TLC on the instance of its run first.

**`QueueLemmas`**: what append, take the head, unlink and insert do to a list
without duplicates, how many a prefix of it is, smallest elements.

**`MutexDebugProofs`** proves, for all sets of threads and locks, switch pairs
and lock orders, the six invariants of the mutex runs: `TypeCorrect`,
`Exclusion`, `OwnerAlwaysKnows`, `AssertsHold`, `NoLostWakeup` and
`SwitchIsSafe`. Assumptions: `MutexAssumption` (the two special values of
`holder` are no threads, nobody switches from a lock to itself) and
`TimeoutsAndDestructionApart`, which says that no instance both destroys locks
and times out; 5.5 is why it is needed. What a waiter may conclude from its
wake-up depends on where it is, so `IndInv` adds
- `HeldIsHolder`: who regards a lock as its own is the holder;
- `HolderOwns`: the holder has the lock, or was `Granted` it and is not back yet,
  a timed-out waiter included;
- `QueuedWaits`: who is queued waits for this lock, and somebody else owns it;
- `UnqueuedWoken`: a waiter that left the queue is the holder or saw the lock
  destroyed, so that "not in the list" means "ours";
- `SwitchKeepsTo`: a switching thread keeps "to" alive by "from" first and by
  the spinlock of "to" from before it gives "from" up;
- `Apart`: the two halves of the hypothesis.

It also proves `ImplementsFifoLock` from the same invariant: every step is a step
of `FifoLock` on any given lock, or leaves it alone.
`HolderOwns` and `QueuedWaits` show that a thread that queues is neither owner
nor queued, `QueuedWaits` that nobody is passed over when a free lock is taken.

**`MutexProofs`** proves the same of the release build: `ConsistentAlways` (the
count is minus the threads that have the lock or want it), and, as long as the
situation of 5.1 has not come up, `Exclusion`, `ReleasedIsTaken` and
`ImplementsFifoLock`. `UntimedExclusion` drops the exception: without timed
waiters (`TimedThreads = {}`) exclusion is unconditional, so that 5.1 needs a
timeout. The count is only right if every party to it is: `IndInv` adds
`OneOwner` (one thread at most has the lock or has been handed it, and none while
`MUTEX_FLAG_RELEASED` is set), `ContendedIsOwned` (if anybody is in for the lock,
somebody owns it or the flag is set), `UnlockerIsAwaited` (whoever is on the slow
path of unlocking has somebody to pass the lock to), `HeldIsIdle` and
`QueuedWaits`.

**`RWLockProofs`** proves `ConsistentAlways` (all counters and the code's
`ASSERT`s), `Exclusion` (a writer is alone) and `NobodyIsForgotten` (whoever
waits, somebody in the lock will look at the queue). Assumptions: the readers fit
below the writers' part of `count`, which the code takes for granted too
(`RW_LOCK_WRITER_COUNT_BASE`), and locks nest at least once. The counters are
stated as cardinalities: `CountIsExact` over all who have or want the lock,
`ActiveReadersExact` over the read locks, with the readers woken and those about
to unlock, that a waiting writer waits for, `PendingReadersExact` over the readers
between the fast and the slow path. For these to be inductive, `IndInv` says where
in the code each thread can be with which locks (`CallsAreSound`, `HolderIsAlone`,
`WritersHold`), who can be queued (`QueueIsSound`, `UnqueuedIsServed`), that
without a holder a queue has a writer at its head, since readers queue behind
writers only (`HeadIsWriter`), that a reader on the slow path of unlocking was sent
there by a writer that is still counted (`UnlockingIsClaimed`), and that a
destroyed lock has only threads on their way out (`DestroyedIsEmpty`).

**`MonitorProofs`** proves, for all sets of threads, notifiers and variables,
`ConsistentAlways` (fEntriesCount), `NothingIsUsedAfterwards`,
`ResultIsReturned` and `LockSurvivesWait`. Assumptions: `CVAssumption` and
`MonitorAssumption`, which only type the constants. `IndInv` is in two halves. Of
the condition variable, `EntriesAreTracked` says for every step of a waiter who
has its entry (the list, a notifier at which of its steps, or the waiter alone),
`NotifierIsSound` the same from the notifier's side, `LockIsHeld` and
`SchedulerLockIsHeld` who has the locks meanwhile, `HashIsSound` and
`ListsAreSound` what is published and queued, and `StatusIsSound` what
`fWaitStatus` and `wait.status` can be; neither side alone knows that the
other is done with the entry. Of the lock, `StageIsSound`, `HolderIsSound` and
`HandOffReaches` say at which stage of `Wait(lock)` a thread can be woken for
which reason.

**`TimedBlockProofs`** proves, for all threads, periodic timers, CPUs and bounds
on timeouts, `ConsistentAlways` (queues in order; hardware timers set, and late by no more than
the `add_timer()` call that set them was), `TimeoutsMeetTheirWaits` and `CancellingIsFinal`. `TimerAssumption` types the
constants. A timer is queued, firing or neither, and `IndInv` says where its
owner can be in each case: `QueuedIsArmed` (a queued timer belongs to the wait
its thread is in, with its deadline), `HandlerIsSound` with `FiringOf` (a hook
that may still touch its thread runs on the CPU the timer was added on; the
timer is in no queue, and its owner has not cancelled it or spins until the hook
is over) and `RepeatedOf` (a periodic timer that will be queued again is not
queued elsewhere by then), `ThreadsAreSound`, `OwnersAreSound`. A handler that is
past its hook is not restricted: the owner may have added the timer on another
CPU by then, which is why `current_event` alone says too little.

**`PortProofs`** proves, for any readers, writers and selecting threads, any length
of the queue and any limit of the space, `ConsistentAlways` (slots and space),
`NoWakeupIsLost`, `ClosedPortIsOver` (an invariant, and an action property proved
from it: what no step on a closed port does) and `SelectLearns`. `PortAssumption` wants
finite sets, readers that are not writers, and room for one message at least
(`create_port()` refuses a queue of length 0). `NoStrandedWriter` and
`QueueIsBounded` compare messages and writers with the capacity and are not
inductive: what a notification passes on is a part of `write_count`. `IndInv` has
them in terms of that: with `n` writers on `write_condition`, `write_count + n <= 0`
if there are any (`SlotsArePromised`), and `write_count + n` is not below 0 by more
than the writers that are still to give their place back, unless one that had none
woke another (`PromisesAreKept`). `MessagesArePromised` is the same for readers.
`LineFacts` divides the writers in line into those with a slot, those waiting and
those that lost, which leads back to the properties. `CallsAreSound` and
`QueuesAreSound` say who can be where, and `LifeIsSound` that a port in use is in
the hash table, so that no writer returns without its place being given back.

**`PthreadProofs`** proves, for all sets of threads, mutexes, condition variables
and semaphores, and of the threads that time out or get signals, the five
invariants of the `pthread` run: `EntriesAreConsistent` (reference counts and
table), `MutexesExclude` (LOCKED means that one thread has the mutex),
`BlockedAreRemembered` (no sleeper is forgotten), `SemaphoreUnitsConserved` and
`LockedSignalsWake`. `UserMutexAssumption` and `PthreadAssumption` want finite
sets, as many entries as addresses, and addresses that are one of a mutex, a
condition variable or a semaphore; a condition variable is used with one mutex,
which POSIX demands. `LockedSignalsWake` assumes `SignalLocked` (whoever signals
has the mutex) and is false without it, which is 5.2; the others do not need it.

A word of user memory is changed by libroot at any time and by the kernel under
the lock of its entry, so that none of the five is inductive alone. `IndInv` says
- where a thread can be in libroot, and in which system call with which arguments
  (`CallsAreSound`); no call disables a mutex (`NoneIsDisabled`);
- of the entries: an address has one entry, and none while somebody relies on that
  (`TableIsSound`); `ReferencesAreExact`; who is queued is queued once, waits there
  and has not left (`QueuesAreSound`); who has an entry write-locked is alone with
  it (`LocksAreSound`). The three together are why an unblocker that finds no entry,
  or an empty queue, can be sure that nobody is missed: to queue, a thread needs the
  lock, and under it looks at the word again;
- of mutexes: `HeldByOne` is `LockedMeansHeld` without the counting, over
  `Holders`, which has, besides the owner, a thread that was handed the mutex and
  has not run since, one that switches and has not given it up yet, and an unblocker
  that has set LOCKED for whoever comes next; `owner` agrees (`OwnersAreSound`). `WaitersAreMarked` strengthens `BlockedIsRemembered` to the
  threads that are about to queue (`Pending`), and names those that will still look
  at the queue (`Wakers`): an unblocker past its notification counts no more;
- of semaphores: the value is -1 as long as anybody is queued or about to be
  (`ValuesAreSound`), so that neither `sem_wait()` nor `sem_post()` can pass the
  kernel by; with that, `UnitsConserved` is inductive;
- of condition variables: `waiter_count` is exact (`WaiterCountsAreExact`), so that
  the word is only reset when nobody waits; a signal is owed to blocked threads only
  (`DebtsAreBounded`); and if the mutex is held to signal, one call is on its way
  that pays all that is owed, with LOCKED clear until it does (`DebtsArePaid`). That
  the signaller's ownership (`OwnersAreSound`) and exclusion (`HeldByOne`) leave room
  for one such call only is the whole argument; 5.2 is the case of two.

Counting is by one lemma (`CountMove`: a set that changes by one thread at most),
so that cardinalities take no induction.

Model-checked only:
- liveness (`WaitEnds`, `LockEnds`, `CallEnds`, `TimedWaitEnds`): fairness and
  `ENABLED` are out of the prover's reach;
- `Sem` (`Consistent`, `UnitsConserved`, `QueuesAreCurrent`,
  `SelectIsNotified`): its loops over a queue are folds and its counts sums over
  sets of threads; what they compute takes induction over data;
- `PthreadBarrier`: its one property is the one the code violates (5.3).

## 5. Where the code departs from what it says

Shown by runs:

1. `release_mutex_exclusion`: an unlocker adds 1 to the count, sees -1 and
   heads for `_mutex_unlock()`; the only waiter times out first and sets the
   count to 0, so that the fast path is open; `_mutex_unlock()` finds nobody
   and sets `MUTEX_FLAG_RELEASED` for nobody, and the next contender takes a
   lock that is held. `release_mutex` shows that nothing else goes wrong.
2. `pthread_signals`: to signal is to clear LOCKED in the condition's word and
   have the kernel hand it over, which sets LOCKED again and does nothing if it
   is set. Two threads that signal at once both clear it; the second hand-off
   finds what the first one set and wakes nobody, though a second thread waits.
   `pthread` shows that no signal is lost if the mutex is held to signal.
3. `pthread_barrier`: the last thread of a round makes `waiter_count` negative
   before it closes `mutex`. A thread of that round that is just back from the
   kernel (`lock` was still DISABLED from the round before) leaves, comes back
   and slips through the open `mutex` as one more that leaves; a later round
   then ends before all have come.

In the models, with no run of their own:

4. `_rw_lock_read_lock_with_timeout()`: a reader whose timeout fired tests
   `waiter.thread` without the spinlock; if the writer unlocks right after, the
   search for the waiter (`lock.cpp:919`) runs off the list, where the comment
   promises `B_OK` (`RWLock`: `"crashed"`).
5. `_mutex_lock_with_timeout()`: a timed waiter that is past its look at
   `waiter.thread` when the lock is destroyed takes "not in the list" for "we
   own the lock" (`lock.cpp:1626`); the TODO at 1596 knows of it.
6. `release_sem_etc()` stops when the units it was given are used up
   (`sem.cpp:1248`). If those, with units that were there, leave enough for the
   next thread, that thread stays blocked. It needs requests of different sizes.
7. An interrupted `switch_sem_etc()` releases the other semaphore with its own
   slot's spinlock held (`sem.cpp:1084`); two in opposite directions spin for
   each other.
8. `get_locked_port()` tests the port's state before it locks the port
   (`port.cpp:713`): a reader that comes after `uninit_port()` waits for ever.
9. A writer that gives up its place in line (`port.cpp:2107`) notifies another
   writer, who takes that for a free slot: the queue grows past its capacity
   (`overbooked`).
10. A writer that waits for space counts itself in `sWaitingForSpace` after it
    has unlocked the port (`port.cpp:828`, with a TODO): it can miss the space it
    waits for.
11. `add_timer()` refuses a negative absolute time (`timer.cpp:412`), and
    `thread_block_with_timeout()` ignores that: the wait has no timeout
    (`BlockNegative`).
12. `add_timer()` reads `currentTime` (`timer.cpp:410`) before it disables
    interrupts (429) and sets the hardware timer by it (449). If the caller is
    preempted in between, as one that adds a periodic timer can be
    (`busses/random/ccp/ccp.cpp:96`), its timer, and all others of that CPU, go off
    late by as much, until the hardware is set again. `HardwareIsSet` allows for
    exactly that (`late`).
13. `close_port()` says that "All threads currently blocked in read_port() or
    write_port() on this port are woken" (`port.cpp:1273`). A writer that has its
    slot and waits for space (`port.cpp:823-835`) waits on `sNoSpaceCondition`,
    which neither `close_port()` nor `delete_port()` notifies unless messages are
    freed: it stays blocked until space is freed or its timeout. When it wakes it
    finds the port closed and writes nothing, which `ClosedIsOver` has.

By reading: `switch_sem()` is documented to release one semaphore and acquire
another, but releases nothing if the acquisition succeeds at once;
`recursive_lock_switch_lock()` is documented to re-hold "from" on an error
(`lock.cpp:284`), but restores only the recursion count;
`pthread_barrier_destroy()` may return while the last thread out has yet to call
the kernel with the barrier's address.

## 6. Not modelled

Memory after it is freed, where a lock itself is concerned (`rw_lock_wait()`
takes the spinlock of a lock that may be gone; `rw_lock_unblock()` writes to the
stack of a reader that may have returned), the width of counters (`int16`
readers, `int32` units, the wrap of `sem_id`), two opposite
`mutex_switch_lock()` calls (their spinlocks deadlock; `lock.h` describes the
one-directional use), owners and permissions of semaphores and ports,
`last_acquirer`, the contents of messages, the tables of ports by name and by
team, user mutexes shared between teams, recursive pthread mutexes,
`pthread_rwlock`, named semaphores, the destruction of barriers, cancellation,
names, tracing and debugger commands, and the start-up phase, in which all of
this is single-threaded. Atomic operations are sequentially consistent in the
models, as the kernel's `atomic_*()` are.

The repository is an operating system with drivers, file systems, a network
stack, servers and applications; the models cover the lines of the files in the
table at the top, which is a small part of it by size. What is left of these
files is diagnostic or bookkeeping by name.

## 7. What is left

- Proofs of `Sem`: `QueuesAreCurrent` and the free list, from a statement of what
  the loops leave behind that takes no fold.
- Models: FIFOs (`fs/fifo.cpp`), `select()` (`wait_for_objects.cpp`), the switch
  functions of `recursive_lock`, `pthread_rwlock`.
