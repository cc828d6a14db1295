-------------------------------- MODULE Pthread -------------------------------
(***************************************************************************)
(* Mutexes, condition variables and unnamed semaphores of libroot          *)
(* (src/system/libroot/posix/pthread/pthread_mutex.cpp, pthread_cond.cpp,  *)
(* semaphore.cpp) over the kernel's user mutexes: the composition of the   *)
(* atomic operations user space does on its own with the system calls it   *)
(* makes when they do not suffice.                                         *)
(*                                                                         *)
(* A condition variable is a user mutex that is locked all the time its    *)
(* waiters wait for it; to signal is to unlock it.  Mutexes are of the     *)
(* default type; a condition variable is used with one mutex, as           *)
(* pthread_cond_wait() demands; a thread uses semaphores while it owns no  *)
(* mutex.                                                                  *)
(***************************************************************************)
EXTENDS UserMutex

CONSTANTS
    Mutexes,        \* the Words that are pthread_mutex_t::lock ...
    Conds,          \* ... and those that are pthread_cond_t::lock
    MutexOf,        \* the mutex a condition variable is used with
    TimedThreads,   \* the threads that wait with a timeout
    CondThreads,    \* the threads that wait for condition variables
    SemThreads,     \* the threads that use semaphores
    SignalLocked,   \* to signal, a thread must own the mutex
    MaxUnits        \* bound on the units of a semaphore

ASSUME PthreadAssumption ==
    /\ Words = Mutexes \cup Conds
    /\ Mutexes \cap Conds = {}
    /\ MutexOf \in [Conds -> Mutexes]
    /\ TimedThreads \cup CondThreads \cup SemThreads \subseteq Threads
    /\ SignalLocked \in BOOLEAN
    /\ MaxUnits \in Nat \ {0}

VARIABLES
    owner,          \* pthread_mutex_t::owner
    waiter_count,   \* pthread_cond_t::waiter_count
    upc,            \* where in libroot a thread is
    target,         \* the mutex or semaphore its call is about
    cond,           \* the condition variable it waits for
    units,          \* history: units posted and not acquired, per semaphore
    due             \* history: wake-ups that signals owe to blocked threads

userVars == <<owner, waiter_count, upc, target, cond, units, due>>
vars == <<kernelVars, userVars>>

TypeOK ==
    /\ KernelTypeOK
    /\ owner \in [Mutexes -> Threads \cup {NULL}]
    /\ waiter_count \in [Conds -> 0..Cardinality(Threads)]
    /\ upc \in [Threads -> {"idle", "own", "lock", "unlock", "cond_lock", "cond", "relock",
                            "cond_done", "cond_reset", "sem", "post"}]
    /\ target \in [Threads -> Mutexes \cup Sems \cup {NULL}]
    /\ cond \in [Threads -> Conds \cup {NULL}]
    /\ units \in [Sems -> Int]
    /\ due \in [Conds -> 0..Cardinality(Threads)]

Init ==
    /\ KernelInit
    /\ word = [w \in Words |-> {}]
    /\ value \in [Sems -> {0, 1}]
    /\ owner = [m \in Mutexes |-> NULL]
    /\ waiter_count = [c \in Conds |-> 0]
    /\ upc = [t \in Threads |-> "idle"]
    /\ target = [t \in Threads |-> NULL]
    /\ cond = [t \in Threads |-> NULL]
    /\ units = value
    /\ due = [c \in Conds |-> 0]

-------------------------------------------------------------------------------
UGoto(t, label) == upc' = [upc EXCEPT ![t] = label]

Idle(t) == upc[t] = "idle" /\ kpc[t] = "idle"

\* What the kernel's steps and the calls leave alone.
KernelUnchanged == UNCHANGED <<entryVars, callVars>>

\* atomic_test_and_set(&mutex->lock, LOCKED, 0), and the system call if it fails.
SetLocked(t, m, timed, label) ==
    \/ /\ word[m] = {}
       /\ word' = [word EXCEPT ![m] = {"LOCKED"}]
       /\ UGoto(t, "own")
       /\ KernelUnchanged
    \/ /\ word[m] # {}
       /\ _user_mutex_lock(t, m, timed)
       /\ UGoto(t, label)
       /\ UNCHANGED word

\* A thread that owns the mutex gets EDEADLK.
pthread_mutex_lock(t, m) ==
    /\ Idle(t)
    /\ owner[m] # t
    /\ SetLocked(t, m, t \in TimedThreads, "lock")
    /\ target' = [target EXCEPT ![t] = m]
    /\ UNCHANGED <<value, owner, waiter_count, cond, units, due>>

\* If it does not succeed it returns EBUSY.
pthread_mutex_trylock(t, m) ==
    /\ Idle(t)
    /\ owner[m] # t
    /\ word[m] = {}
    /\ word' = [word EXCEPT ![m] = {"LOCKED"}]
    /\ UGoto(t, "own")
    /\ target' = [target EXCEPT ![t] = m]
    /\ KernelUnchanged
    /\ UNCHANGED <<value, owner, waiter_count, cond, units, due>>

\* The system call returned: locked, interrupted and made again, or timed out.
LockReturn(t) ==
    /\ upc[t] \in {"lock", "relock"}
    /\ kpc[t] = "idle"
    /\ \/ /\ status[t] = "B_OK"
          /\ UGoto(t, "own")
          /\ KernelUnchanged
          /\ UNCHANGED target
       \/ /\ status[t] = "B_INTERRUPTED"
          /\ _user_mutex_lock(t, target[t], upc[t] = "lock" /\ t \in TimedThreads)
          /\ UNCHANGED <<upc, target>>
       \/ /\ status[t] = "B_TIMED_OUT"
          /\ UGoto(t, "idle")
          /\ target' = [target EXCEPT ![t] = NULL]
          /\ KernelUnchanged
    /\ UNCHANGED <<wordVars, owner, waiter_count, cond, units, due>>

\* mutex->owner = thisThread, after assert(mutex->owner == -1).
TakeOwnership(t) ==
    /\ upc[t] = "own"
    /\ owner' = [owner EXCEPT ![target[t]] = t]
    /\ target' = [target EXCEPT ![t] = NULL]
    /\ UGoto(t, IF cond[t] # NULL THEN "cond_done" ELSE "idle")
    /\ KernelUnchanged
    /\ UNCHANGED <<wordVars, waiter_count, cond, units, due>>

\* pthread_mutex_unlock(): the owner is reset ...
pthread_mutex_unlock(t, m) ==
    /\ Idle(t)
    /\ owner[m] = t
    /\ owner' = [owner EXCEPT ![m] = NULL]
    /\ target' = [target EXCEPT ![t] = m]
    /\ UGoto(t, "unlock")
    /\ KernelUnchanged
    /\ UNCHANGED <<wordVars, waiter_count, cond, units, due>>

\* Release a user mutex, and call the kernel if somebody waits.
Release(t, a, all) ==
    /\ word' = [word EXCEPT ![a] = @ \ {"LOCKED"}]
    /\ IF "WAITING" \in word[a] THEN _user_mutex_unblock(t, a, all) ELSE KernelUnchanged

\* ... then the lock.
UnlockWord(t) ==
    /\ upc[t] = "unlock"
    /\ Release(t, target[t], FALSE)
    /\ target' = [target EXCEPT ![t] = NULL]
    /\ UGoto(t, "idle")
    /\ UNCHANGED <<value, owner, waiter_count, cond, units, due>>

-------------------------------------------------------------------------------
(* Condition variables. *)

pthread_cond_wait(t, c) ==
    /\ Idle(t)
    /\ t \in CondThreads
    /\ owner[MutexOf[c]] = t
    /\ waiter_count' = [waiter_count EXCEPT ![c] = @ + 1]
    /\ cond' = [cond EXCEPT ![t] = c]
    /\ UGoto(t, "cond_lock")
    /\ KernelUnchanged
    /\ UNCHANGED <<wordVars, owner, target, units, due>>

\* Lock the condition's own lock, and have the kernel switch to it.
CondSwitch(t) ==
    LET c == cond[t]
    IN  /\ upc[t] = "cond_lock"
        /\ word' = [word EXCEPT ![c] = IF @ = {} THEN {"LOCKED"} ELSE @]
        /\ owner' = [owner EXCEPT ![MutexOf[c]] = NULL]
        /\ _user_mutex_switch_lock(t, MutexOf[c], c, t \in TimedThreads)
        /\ UGoto(t, "cond")
        /\ UNCHANGED <<value, waiter_count, target, cond, units, due>>

\* The wait is over, whatever ended it: lock the mutex again.
CondReturn(t) ==
    /\ upc[t] = "cond"
    /\ kpc[t] = "idle"
    /\ target' = [target EXCEPT ![t] = MutexOf[cond[t]]]
    /\ SetLocked(t, MutexOf[cond[t]], FALSE, "relock")
    /\ UNCHANGED <<value, owner, waiter_count, cond, units, due>>

CondLeave(t) ==
    /\ upc[t] = "cond_done"
    /\ waiter_count' = [waiter_count EXCEPT ![cond[t]] = @ - 1]
    /\ UGoto(t, IF waiter_count[cond[t]] = 1 THEN "cond_reset" ELSE "idle")
    /\ cond' = IF waiter_count[cond[t]] = 1 THEN cond ELSE [cond EXCEPT ![t] = NULL]
    /\ KernelUnchanged
    /\ UNCHANGED <<wordVars, owner, target, units, due>>

\* cond->lock = 0 by the last waiter.
CondReset(t) ==
    /\ upc[t] = "cond_reset"
    /\ word' = [word EXCEPT ![cond[t]] = {}]
    /\ cond' = [cond EXCEPT ![t] = NULL]
    /\ UGoto(t, "idle")
    /\ KernelUnchanged
    /\ UNCHANGED <<value, owner, waiter_count, target, units, due>>

\* The threads that wait for c and have released its mutex.
CondBlocked(c) == {t \in BlockedAt(c) : kpc[t] # "clear"}

\* pthread_cond_signal(), pthread_cond_broadcast(); nothing is done if there is
\* no waiter.  Each blocked thread can be owed one wake-up.
cond_signal(t, c, all) ==
    /\ Idle(t)
    /\ SignalLocked => owner[MutexOf[c]] = t
    /\ waiter_count[c] # 0
    /\ Release(t, c, all)
    /\ due' = [due EXCEPT ![c] = IF all THEN Cardinality(CondBlocked(c))
                                 ELSE Min({@ + 1, Cardinality(CondBlocked(c))})]
    /\ UNCHANGED <<value, owner, waiter_count, upc, target, cond, units>>

-------------------------------------------------------------------------------
(* Semaphores. *)

sem_wait(t, s) ==
    /\ Idle(t)
    /\ t \in SemThreads /\ \A x \in Mutexes : owner[x] # t
    /\ \/ /\ value[s] > 0
          /\ value' = [value EXCEPT ![s] = @ - 1]
          /\ units' = [units EXCEPT ![s] = @ - 1]
          /\ KernelUnchanged
          /\ UNCHANGED <<upc, target>>
       \/ /\ value[s] <= 0
          /\ _user_mutex_sem_acquire(t, s, t \in TimedThreads)
          /\ target' = [target EXCEPT ![t] = s]
          /\ UGoto(t, "sem")
          /\ UNCHANGED <<value, units>>
    /\ UNCHANGED <<word, owner, waiter_count, cond, due>>

\* EINTR and ETIMEDOUT go to the caller.
SemReturn(t) ==
    /\ upc[t] = "sem"
    /\ kpc[t] = "idle"
    /\ units' = IF status[t] = "B_OK" THEN [units EXCEPT ![target[t]] = @ - 1] ELSE units
    /\ target' = [target EXCEPT ![t] = NULL]
    /\ UGoto(t, "idle")
    /\ KernelUnchanged
    /\ UNCHANGED <<wordVars, owner, waiter_count, cond, due>>

sem_post(t, s) ==
    /\ Idle(t)
    /\ t \in SemThreads /\ \A x \in Mutexes : owner[x] # t
    /\ units[s] < MaxUnits
    /\ units' = [units EXCEPT ![s] = @ + 1]
    /\ \/ /\ value[s] > -1
          /\ value' = [value EXCEPT ![s] = @ + 1]
          /\ KernelUnchanged
       \/ value[s] <= -1 /\ _user_mutex_sem_release(t, s) /\ UNCHANGED value
    /\ UNCHANGED <<word, owner, waiter_count, upc, target, cond, due>>

-------------------------------------------------------------------------------
\* What is owed after a step of the kernel: a thread that was notified, or that
\* found the condition unlocked, has had its wake-up; one that gave up needs none.
Notified(c) == {t \in CondBlocked(c) : t \notin leaving' /\ t \notin CondBlocked(c)'}
Unhindered(t, c) == kpc[t] = "prepare" /\ args[t].at = c /\ kpc'[t] # "add"
Owed(t, c) ==
    LET had == Cardinality(Notified(c)) + (IF Unhindered(t, c) THEN 1 ELSE 0)
    IN  Max({0, Min({due[c] - had, Cardinality(CondBlocked(c)')})})

KernelNext(t) ==
    /\ KernelStep(t) \/ SwitchStep(t) \/ SemStep(t) \/ KernelGiveUp(t)
    /\ due' = [c \in Conds |-> Owed(t, c)]
    /\ UNCHANGED <<owner, waiter_count, upc, target, cond, units>>

UserNext(t) ==
    \/ LockReturn(t) \/ TakeOwnership(t) \/ UnlockWord(t)
    \/ CondSwitch(t) \/ CondReturn(t) \/ CondLeave(t) \/ CondReset(t) \/ SemReturn(t)
    \/ \E m \in Mutexes :
          pthread_mutex_lock(t, m) \/ pthread_mutex_trylock(t, m) \/ pthread_mutex_unlock(t, m)
    \/ \E c \in Conds : pthread_cond_wait(t, c) \/ \E all \in BOOLEAN : cond_signal(t, c, all)
    \/ \E s \in Sems : sem_wait(t, s) \/ sem_post(t, s)

Next == \E t \in Threads : KernelNext(t) \/ UserNext(t)

Spec == Init /\ [][Next]_vars

-------------------------------------------------------------------------------
\* The threads in user_mutex_unblock() for word a, or on their way there.
Unblockers(a) ==
    {t \in Threads :
        \/ args[t].op = "unblock" /\ args[t].at = a /\ kpc[t] \in {"find", "unblock"} \cup WritePcs
        \/ args[t].op = "switch" /\ args[t].from = a
              /\ kpc[t] \in {"find_from", "unblock"} \cup WritePcs}

\* A waiter of a call that ends with B_OK.
Succeeds(t) ==
    \/ kpc[t] = "wait" /\ ~Queued(t) /\ t \notin leaving
    \/ kpc[t] \in {"unset", "put", "put_remove", "idle"} /\ status[t] = "B_OK"

\* Who has mutex m: its owner, a thread on its way in that has it already or on
\* its way out that has it still, or an unblocker that hands it over.
Holders(m) ==
    {t \in Threads :
        \/ owner[m] = t
        \/ upc[t] \in {"own", "unlock"} /\ target[t] = m
        \/ upc[t] \in {"lock", "relock"} /\ target[t] = m /\ Succeeds(t)
        \/ args[t].op = "switch" /\ args[t].from = m
              /\ kpc[t] \in {"get", "insert", "prepare", "unset", "add", "clear"}
        \/ t \in Unblockers(m) /\ kpc[t] \in {"notify", "undo"}}

\* The LOCKED flag says exactly that one thread has the mutex, through all fast
\* paths, hand-offs, hand-offs that find nobody, timeouts and signals; no two
\* threads ever have it.
LockedMeansHeld ==
    \A m \in Mutexes : Cardinality(Holders(m)) = IF "LOCKED" \in word[m] THEN 1 ELSE 0

\* The state has its type, and the kernel's table is what its users take it for.
Consistent == TypeOK /\ ReferencesAreExact

\* A blocked thread is not forgotten: its mutex is locked, with WAITING set, so
\* that the next unlock calls the kernel, or somebody is in the kernel already to
\* wake it; its semaphore is marked contended.
BlockedIsRemembered ==
    /\ \A m \in Mutexes :
          BlockedAt(m) # {} => {"LOCKED", "WAITING"} \subseteq word[m] \/ Unblockers(m) # {}
    /\ \A s \in Sems : BlockedAt(s) # {} => value[s] = -1

\* When no call that signals a condition variable is under way, every signal has
\* woken one of the threads that were blocked when it was given, every broadcast
\* all of them.
EverySignalWakes ==
    \A c \in Conds :
        (\A t \in Threads : args[t].op = "unblock" => args[t].at # c) => due[c] = 0

\* No unit of a semaphore is lost or made: each one posted and not acquired is in
\* its value, with a thread that is about to return with it, or with a sem_post()
\* in the kernel.
UnitsConserved ==
    \A s \in Sems :
        units[s] = Max({value[s], 0})
            + Cardinality({t \in Threads : upc[t] = "sem" /\ target[t] = s /\ Succeeds(t)})
            + Cardinality({t \in Threads : /\ args[t].op = "sem_release" /\ args[t].at = s
                                           /\ kpc[t] \in {"get", "insert", "sem_release"}})
===============================================================================
