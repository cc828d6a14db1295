------------------------------- MODULE UserMutex ------------------------------
(***************************************************************************)
(* The kernel half of the locks of user space (src/system/kernel/locks/    *)
(* user_mutex.cpp).  A user mutex is a word of user memory with the flags  *)
(* LOCKED, WAITING and DISABLED, an unnamed semaphore a word with a count; *)
(* user space changes them by atomic operations without asking the kernel. *)
(* The kernel has a UserMutexEntry per word somebody waits for, found in a *)
(* table by the word's address and freed with its last reference.  Lockers *)
(* hold the entry's rw_lock for reading until they have queued themselves, *)
(* unblockers hold it for writing.                                         *)
(*                                                                         *)
(* The entry's condition variable is the one of ConditionVariable, reduced *)
(* to what that module shows of it: a waiter is notified or gives up, not  *)
(* both, and one that gives up is counted until it has left.  An action is *)
(* one access to the word, with the critical section around it where the   *)
(* rest of the section commutes with what others may do.                   *)
(***************************************************************************)
EXTENDS Integers, Sequences, SequencesExt, FiniteSets, WaitStatus

CONSTANTS
    Threads,
    SignalThreads,  \* the threads a signal may interrupt
    Words,          \* the addresses of user mutexes
    Sems,           \* the addresses of unnamed semaphores
    Entries,        \* the memory of UserMutexEntries
    NULL

Addresses == Words \cup Sems

ASSUME UserMutexAssumption ==
    /\ IsFiniteSet(Threads)
    /\ SignalThreads \subseteq Threads
    /\ Words \cap Sems = {}
    /\ IsFiniteSet(Entries) /\ IsFiniteSet(Addresses)
    /\ Cardinality(Entries) >= Cardinality(Addresses)
    /\ NULL \notin Threads \cup Addresses \cup Entries

VARIABLES
    word,       \* the flags of a user mutex
    value,      \* the value of a semaphore
    table,      \* user_mutex_context::table
    alive,      \* the entries that are allocated
    ref_count,  \* UserMutexEntry::ref_count
    queue,      \* UserMutexEntry::condition, the threads EntriesCount() counts
    leaving,    \* the threads that gave up and are counted still
    kpc,        \* where in user_mutex.cpp a thread is
    args,       \* the system call it is in
    entry,      \* its entry, toEntry of user_mutex_switch_lock()
    fromEntry,  \* fromEntry of user_mutex_switch_lock()
    status      \* what the system call returns, or returned

wordVars == <<word, value>>
entryVars == <<table, alive, ref_count, queue, leaving>>
callVars == <<kpc, args, entry, fromEntry, status>>
kernelVars == <<wordVars, entryVars, callVars>>

Flags == {"LOCKED", "WAITING", "DISABLED"}

NoCall == [op |-> "none", at |-> NULL, from |-> NULL, timed |-> FALSE, all |-> FALSE,
           added |-> FALSE]

Calls == {"lock", "switch", "unblock", "sem_acquire", "sem_release"}

\* The entry's lock is held for writing, or for reading.
WritePcs == {"hand_off", "notify", "undo", "last", "sem_last"}
ReadPcs == {"add"}

KernelTypeOK ==
    /\ word \in [Words -> SUBSET Flags]
    /\ value \in [Sems -> Int]
    /\ table \in [Addresses -> Entries \cup {NULL}]
    /\ alive \subseteq Entries
    /\ ref_count \in [Entries -> Nat]
    /\ queue \in [Entries -> Seq(Threads)]
    /\ leaving \subseteq Threads
    /\ kpc \in [Threads -> WritePcs \cup ReadPcs
                  \cup {"idle", "get", "insert", "prepare", "unset", "wait", "clear",
                        "find_from", "find", "find_null", "unblock", "sem_release", "put",
                        "put_remove"}]
    /\ args \in [Threads -> [op : Calls \cup {"none"}, at : Addresses \cup {NULL},
                             from : Words \cup {NULL}, timed : BOOLEAN, all : BOOLEAN,
                             added : BOOLEAN]]
    /\ entry \in [Threads -> Entries \cup {NULL}]
    /\ fromEntry \in [Threads -> Entries \cup {NULL}]
    /\ status \in [Threads -> Results]

KernelInit ==
    /\ table = [a \in Addresses |-> NULL]
    /\ alive = {}
    /\ ref_count = [e \in Entries |-> 0]
    /\ queue = [e \in Entries |-> <<>>]
    /\ leaving = {}
    /\ kpc = [t \in Threads |-> "idle"]
    /\ args = [t \in Threads |-> NoCall]
    /\ entry = [t \in Threads |-> NULL]
    /\ fromEntry = [t \in Threads |-> NULL]
    /\ status = [t \in Threads |-> "B_OK"]

-------------------------------------------------------------------------------
Goto(t, label) == kpc' = [kpc EXCEPT ![t] = label]

\* The word and the entry that user_mutex_unblock() is about.
UnblockedWord(t) == IF args[t].op = "switch" THEN args[t].from ELSE args[t].at
UnblockedEntry(t) == IF args[t].op = "switch" THEN fromEntry[t] ELSE entry[t]

ReadLockable(e) ==
    \A t \in Threads :
        kpc[t] \in WritePcs =>
            e # (IF kpc[t] = "sem_last" THEN entry[t] ELSE UnblockedEntry(t))

WriteLockable(e) ==
    /\ ReadLockable(e)
    /\ \A t \in Threads : kpc[t] \in ReadPcs => e # entry[t]

\* context->lock, which _user_mutex_unblock() keeps for reading.
TableWritable == \A t \in Threads : kpc[t] # "find_null"

\* The beginning of a system call.
SystemCall(t, call, label) ==
    /\ args' = [args EXCEPT ![t] = call]
    /\ Goto(t, label)
    /\ UNCHANGED <<entryVars, entry, fromEntry, status>>

_user_mutex_lock(t, a, timed) ==
    SystemCall(t, [NoCall EXCEPT !.op = "lock", !.at = a, !.timed = timed], "get")

_user_mutex_switch_lock(t, from, to, timed) ==
    SystemCall(t, [NoCall EXCEPT !.op = "switch", !.at = to, !.from = from, !.timed = timed],
               "get")

_user_mutex_unblock(t, a, all) ==
    SystemCall(t, [NoCall EXCEPT !.op = "unblock", !.at = a, !.all = all], "find")

_user_mutex_sem_acquire(t, s, timed) ==
    SystemCall(t, [NoCall EXCEPT !.op = "sem_acquire", !.at = s, !.timed = timed], "get")

_user_mutex_sem_release(t, s) ==
    SystemCall(t, [NoCall EXCEPT !.op = "sem_release", !.at = s], "get")

-------------------------------------------------------------------------------
(* Entries and their references. *)

\* An entry was found: take a reference and go on with the call.
Found(t, e) ==
    /\ ref_count' = [ref_count EXCEPT ![e] = @ + 1]
    /\ entry' = [entry EXCEPT ![t] = e]
    /\ Goto(t, CASE args[t].op = "sem_release" -> "sem_release"
                 [] args[t].op = "unblock" -> "unblock"
                 [] OTHER -> "prepare")
    /\ UNCHANGED <<table, alive, queue>>

\* get_user_mutex_entry(), with the table locked for reading.
get_user_mutex_entry(t) ==
    /\ kpc[t] = "get"
    /\ \/ /\ table[args[t].at] # NULL
          /\ Found(t, table[args[t].at])
       \/ /\ table[args[t].at] = NULL
          /\ Goto(t, "insert")
          /\ UNCHANGED <<table, alive, ref_count, queue, entry>>
    /\ UNCHANGED <<wordVars, leaving, args, fromEntry, status>>

\* get_user_mutex_entry(), with the table locked for writing: somebody may have
\* inserted an entry meanwhile.  Memory is not short.
InsertEntry(t) ==
    /\ kpc[t] = "insert"
    /\ TableWritable
    /\ \/ /\ table[args[t].at] # NULL
          /\ Found(t, table[args[t].at])
       \/ /\ table[args[t].at] = NULL
          /\ \E e \in Entries \ alive :
                /\ alive' = alive \cup {e}
                /\ table' = [table EXCEPT ![args[t].at] = e]
                /\ ref_count' = [ref_count EXCEPT ![e] = 1]
                /\ queue' = [queue EXCEPT ![e] = <<>>]
                /\ entry' = [entry EXCEPT ![t] = e]
                /\ Goto(t, IF args[t].op = "sem_release" THEN "sem_release" ELSE "prepare")
    /\ UNCHANGED <<wordVars, leaving, args, fromEntry, status>>

\* The reference in hand is dropped: the one to "from" first.
PutEntry(t) == IF fromEntry[t] # NULL THEN fromEntry[t] ELSE entry[t]
PutAddress(t) == IF fromEntry[t] # NULL THEN args[t].from ELSE args[t].at

\* put_user_mutex_entry() returns; after the last one the system call does.
PutDone(t) ==
    /\ fromEntry' = [fromEntry EXCEPT ![t] = NULL]
    /\ \/ fromEntry[t] # NULL /\ Goto(t, "put") /\ UNCHANGED <<args, entry>>
       \/ /\ fromEntry[t] = NULL
          /\ entry' = [entry EXCEPT ![t] = NULL]
          /\ args' = [args EXCEPT ![t] = NoCall]
          /\ Goto(t, "idle")

put_user_mutex_entry(t) ==
    /\ kpc[t] = "put"
    /\ ref_count' = [ref_count EXCEPT ![PutEntry(t)] = @ - 1]
    /\ \/ ref_count[PutEntry(t)] # 1 /\ PutDone(t)
       \/ /\ ref_count[PutEntry(t)] = 1
          /\ Goto(t, "put_remove")
          /\ UNCHANGED <<args, entry, fromEntry>>
    /\ UNCHANGED <<wordVars, table, alive, queue, leaving, status>>

\* Mutant: the references are not looked at again.
RemoveEntry_NoCheck(t) ==
    /\ kpc[t] = "put_remove"
    /\ TableWritable
    /\ \/ /\ table[PutAddress(t)] = PutEntry(t)
          /\ table' = [table EXCEPT ![PutAddress(t)] = NULL]
          /\ alive' = alive \ {PutEntry(t)}
       \/ table[PutAddress(t)] # PutEntry(t) /\ UNCHANGED <<table, alive>>
    /\ PutDone(t)
    /\ UNCHANGED <<wordVars, ref_count, queue, leaving, status>>

\* The last reference is gone.  With the table locked for writing: remove and
\* free the entry, unless that was done, or somebody found it, in between.  The
\* memory may even be the entry of another address by now.
RemoveEntry(t) ==
    /\ kpc[t] = "put_remove"
    /\ TableWritable
    /\ \/ /\ table[PutAddress(t)] = PutEntry(t)
          /\ ref_count[PutEntry(t)] = 0
          /\ table' = [table EXCEPT ![PutAddress(t)] = NULL]
          /\ alive' = alive \ {PutEntry(t)}
       \/ /\ table[PutAddress(t)] # PutEntry(t) \/ ref_count[PutEntry(t)] > 0
          /\ UNCHANGED <<table, alive>>
    /\ PutDone(t)
    /\ UNCHANGED <<wordVars, ref_count, queue, leaving, status>>

-------------------------------------------------------------------------------
(* Locking. *)

\* user_mutex_switch_lock() releases "from" next; the others are done.
AfterLock(t) == Goto(t, IF args[t].op = "switch" THEN "clear" ELSE "put")

\* user_mutex_prepare_to_lock(), entry read-locked: set LOCKED and WAITING.  If
\* this made WAITING true without need it is reset under the write lock.
user_mutex_prepare_to_lock(t) ==
    LET a == args[t].at
    IN  /\ kpc[t] = "prepare"
        /\ a \in Words
        /\ ReadLockable(entry[t])
        /\ word' = [word EXCEPT ![a] = @ \cup {"LOCKED", "WAITING"}]
        /\ IF "LOCKED" \notin word[a] \/ "DISABLED" \in word[a]
           THEN /\ status' = [status EXCEPT ![t] = "B_OK"]
                /\ IF "WAITING" \in word[a] THEN AfterLock(t) ELSE Goto(t, "unset")
           ELSE Goto(t, "add") /\ UNCHANGED status
        /\ UNCHANGED <<value, entryVars, args, entry, fromEntry>>

\* Mutant: WAITING is reset although others wait.
UnsetWaiting_Always(t) ==
    /\ kpc[t] = "unset"
    /\ WriteLockable(entry[t])
    /\ word' = [word EXCEPT ![args[t].at] = @ \ {"WAITING"}]
    /\ AfterLock(t)
    /\ UNCHANGED <<value, entryVars, args, entry, fromEntry, status>>

\* The write-locked sections that reset WAITING if nobody waits: after a lock
\* was taken, and after a wait failed.
UnsetWaiting(t) ==
    /\ kpc[t] = "unset"
    /\ WriteLockable(entry[t])
    /\ word' = IF queue[entry[t]] = <<>> THEN [word EXCEPT ![args[t].at] = @ \ {"WAITING"}]
               ELSE word
    /\ AfterLock(t)
    /\ UNCHANGED <<value, entryVars, args, entry, fromEntry, status>>

\* condition.Add(&waiter), and the read lock is released.
AddWaiter(t) ==
    /\ kpc[t] = "add"
    /\ queue' = [queue EXCEPT ![entry[t]] = Append(@, t)]
    /\ args' = [args EXCEPT ![t].added = TRUE]
    /\ Goto(t, IF args[t].op = "switch" THEN "clear" ELSE "wait")
    /\ UNCHANGED <<wordVars, table, alive, ref_count, leaving, entry, fromEntry, status>>

Queued(t) == entry[t] # NULL /\ t \in ToSet(queue[entry[t]])

\* waiter.Wait(): a timeout or a signal, before anybody notifies ...
GiveUp(t, error) ==
    /\ kpc[t] = "wait"
    /\ Queued(t) /\ t \notin leaving
    /\ IF error = "B_TIMED_OUT" THEN args[t].timed ELSE t \in SignalThreads
    /\ leaving' = leaving \cup {t}
    /\ status' = [status EXCEPT ![t] = error]
    /\ UNCHANGED <<wordVars, table, alive, ref_count, queue, kpc, args, entry, fromEntry>>

\* ... and the end of it, unless a notifier takes the waiter out first.
Leave(t) ==
    /\ t \in leaving
    /\ Queued(t)
    /\ \E i \in DOMAIN queue[entry[t]] :
          /\ queue[entry[t]][i] = t
          /\ queue' = [queue EXCEPT ![entry[t]] = RemoveAt(@, i)]
    /\ UNCHANGED <<wordVars, table, alive, ref_count, leaving, callVars>>

\* waiter.Wait() returns.  A lock that failed looks at EntriesCount().
WaitReturn(t) ==
    /\ kpc[t] = "wait"
    /\ ~Queued(t)
    /\ leaving' = leaving \ {t}
    /\ status' = [status EXCEPT ![t] = IF t \in leaving THEN @ ELSE "B_OK"]
    /\ Goto(t, IF args[t].op = "lock" /\ t \in leaving /\ queue[entry[t]] = <<>>
               THEN "unset" ELSE "put")
    /\ UNCHANGED <<wordVars, table, alive, ref_count, queue, args, entry, fromEntry>>

-------------------------------------------------------------------------------
(* Unblocking. *)

\* user_mutex_unblock() returns, or was not called.
AfterUnblock(t) ==
    Goto(t, IF args[t].op = "switch" /\ args[t].added THEN "wait" ELSE "put")

\* user_mutex_switch_lock(): release "from".
ClearFrom(t) ==
    /\ kpc[t] = "clear"
    /\ word' = [word EXCEPT ![args[t].from] = @ \ {"LOCKED"}]
    /\ IF "WAITING" \in word[args[t].from] THEN Goto(t, "find_from") ELSE AfterUnblock(t)
    /\ UNCHANGED <<value, entryVars, args, entry, fromEntry, status>>

\* get_user_mutex_entry() for "from", which inserts none.
FindFrom(t) ==
    LET e == table[args[t].from]
    IN  /\ kpc[t] = "find_from"
        /\ \/ /\ e # NULL
              /\ ref_count' = [ref_count EXCEPT ![e] = @ + 1]
              /\ fromEntry' = [fromEntry EXCEPT ![t] = e]
              /\ Goto(t, "unblock")
           \/ e = NULL /\ AfterUnblock(t) /\ UNCHANGED <<ref_count, fromEntry>>
        /\ UNCHANGED <<wordVars, table, alive, queue, leaving, args, entry, status>>

\* _user_mutex_unblock(): find the entry; the table stays read-locked if there
\* is none ...
FindEntry(t) ==
    LET e == table[args[t].at]
    IN  /\ kpc[t] = "find"
        /\ \/ e # NULL /\ Found(t, e)
           \/ e = NULL /\ Goto(t, "find_null")
                       /\ UNCHANGED <<table, alive, ref_count, queue, entry>>
        /\ UNCHANGED <<wordVars, leaving, args, fromEntry, status>>

\* ... until WAITING is reset.
FindNull(t) ==
    /\ kpc[t] = "find_null"
    /\ word' = [word EXCEPT ![args[t].at] = @ \ {"WAITING"}]
    /\ args' = [args EXCEPT ![t] = NoCall]
    /\ Goto(t, "idle")
    /\ UNCHANGED <<value, entryVars, entry, fromEntry, status>>

\* user_mutex_unblock(), entry write-locked from here on.
user_mutex_unblock(t) ==
    /\ kpc[t] = "unblock"
    /\ WriteLockable(UnblockedEntry(t))
    /\ \/ /\ queue[UnblockedEntry(t)] = <<>>
          /\ word' = [word EXCEPT ![UnblockedWord(t)] = @ \ {"WAITING"}]
          /\ AfterUnblock(t)
       \/ /\ queue[UnblockedEntry(t)] # <<>>
          /\ Goto(t, IF args[t].all THEN "notify" ELSE "hand_off")
          /\ UNCHANGED word
    /\ UNCHANGED <<value, entryVars, args, entry, fromEntry, status>>

\* Lock the mutex for the waiter, if nobody has locked it meanwhile.
HandOff(t) ==
    LET a == UnblockedWord(t)
    IN  /\ kpc[t] = "hand_off"
        /\ word' = [word EXCEPT ![a] = @ \cup {"LOCKED"}]
        /\ \/ "LOCKED" \in word[a] /\ AfterUnblock(t) /\ UNCHANGED args
           \/ /\ "LOCKED" \notin word[a]
              /\ args' = [args EXCEPT ![t].all = "DISABLED" \in word[a]]
              /\ Goto(t, "notify")
        /\ UNCHANGED <<value, entryVars, entry, fromEntry, status>>

\* The positions in an entry's queue of the threads that can be notified.
Notifiable(e) == {i \in DOMAIN queue[e] : queue[e][i] \notin leaving}

\* NotifyOne() takes out everybody up to the first it can notify, NotifyAll()
\* everybody: what is left of the queue.
Unnotified(e, all) ==
    IF all \/ Notifiable(e) = {} THEN <<>>
    ELSE SubSeq(queue[e], Min(Notifiable(e)) + 1, Len(queue[e]))

NotifyWaiters(t) ==
    LET e == UnblockedEntry(t)
    IN  /\ kpc[t] = "notify"
        /\ queue' = [queue EXCEPT ![e] = Unnotified(e, args[t].all)]
        /\ Goto(t, IF ~args[t].all /\ Notifiable(e) = {} THEN "undo" ELSE "last")
        /\ UNCHANGED <<wordVars, table, alive, ref_count, leaving, args, entry, fromEntry,
                       status>>

\* Mutant: the mutex stays locked for nobody.
UndoHandOff_Missing(t) ==
    /\ kpc[t] = "undo"
    /\ Goto(t, "last")
    /\ UNCHANGED <<wordVars, entryVars, args, entry, fromEntry, status>>

\* Nobody was there to be notified.
UndoHandOff(t) ==
    /\ kpc[t] = "undo"
    /\ word' = [word EXCEPT ![UnblockedWord(t)] = @ \ {"LOCKED"}]
    /\ Goto(t, "last")
    /\ UNCHANGED <<value, entryVars, args, entry, fromEntry, status>>

\* Mutant: WAITING is reset with the first waiter.
UnblockLast_Always(t) ==
    /\ kpc[t] = "last"
    /\ word' = [word EXCEPT ![UnblockedWord(t)] = @ \ {"WAITING"}]
    /\ AfterUnblock(t)
    /\ UNCHANGED <<value, entryVars, args, entry, fromEntry, status>>

UnblockLast(t) ==
    /\ kpc[t] = "last"
    /\ word' = IF queue[UnblockedEntry(t)] = <<>>
               THEN [word EXCEPT ![UnblockedWord(t)] = @ \ {"WAITING"}] ELSE word
    /\ AfterUnblock(t)
    /\ UNCHANGED <<value, entryVars, args, entry, fromEntry, status>>

-------------------------------------------------------------------------------
(* Semaphores. *)

\* user_mutex_sem_acquire_locked(), entry read-locked: the loop of compare-and-
\* swaps ends with a unit or with the value -1.
user_mutex_sem_acquire_locked(t) ==
    LET s == args[t].at
    IN  /\ kpc[t] = "prepare"
        /\ s \in Sems
        /\ ReadLockable(entry[t])
        /\ \/ /\ value[s] > 0
              /\ value' = [value EXCEPT ![s] = @ - 1]
              /\ status' = [status EXCEPT ![t] = "B_OK"]
              /\ Goto(t, "put")
           \/ /\ value[s] <= 0
              /\ value' = [value EXCEPT ![s] = -1]
              /\ Goto(t, "add")
              /\ UNCHANGED status
        /\ UNCHANGED <<word, entryVars, args, entry, fromEntry>>

\* Mutant: a unit nobody waits for is added to the contended value.
user_mutex_sem_release_One(t) ==
    LET s == args[t].at
    IN  /\ kpc[t] = "sem_release"
        /\ WriteLockable(entry[t])
        /\ queue' = [queue EXCEPT ![entry[t]] = Unnotified(entry[t], FALSE)]
        /\ \/ /\ Notifiable(entry[t]) = {}
              /\ value' = [value EXCEPT ![s] = @ + 1]
              /\ Goto(t, "put")
           \/ Notifiable(entry[t]) # {} /\ Goto(t, "sem_last") /\ UNCHANGED value
        /\ UNCHANGED <<word, table, alive, ref_count, leaving, args, entry, fromEntry, status>>

\* user_mutex_sem_release(), entry write-locked: give the unit to a waiter or,
\* if there is none, to the value.
user_mutex_sem_release(t) ==
    LET s == args[t].at
    IN  /\ kpc[t] = "sem_release"
        /\ WriteLockable(entry[t])
        /\ queue' = [queue EXCEPT ![entry[t]] = Unnotified(entry[t], FALSE)]
        /\ \/ /\ Notifiable(entry[t]) = {}
              /\ value' = [value EXCEPT ![s] = @ + (IF @ < 0 THEN 2 ELSE 1)]
              /\ Goto(t, "put")
           \/ Notifiable(entry[t]) # {} /\ Goto(t, "sem_last") /\ UNCHANGED value
        /\ UNCHANGED <<word, table, alive, ref_count, leaving, args, entry, fromEntry, status>>

\* The last waiter was notified: mark the semaphore uncontended.
SemReleaseLast(t) ==
    /\ kpc[t] = "sem_last"
    /\ value' = [value EXCEPT ![args[t].at] =
                    IF queue[entry[t]] = <<>> /\ @ = -1 THEN 0 ELSE @]
    /\ Goto(t, "put")
    /\ UNCHANGED <<word, entryVars, args, entry, fromEntry, status>>

-------------------------------------------------------------------------------
\* The steps of a system call that has begun, but for GiveUp().
KernelStep(t) ==
    \/ get_user_mutex_entry(t) \/ InsertEntry(t) \/ put_user_mutex_entry(t) \/ RemoveEntry(t)
    \/ user_mutex_prepare_to_lock(t) \/ UnsetWaiting(t) \/ AddWaiter(t) \/ Leave(t)
    \/ WaitReturn(t)
    \/ FindEntry(t) \/ FindNull(t) \/ user_mutex_unblock(t) \/ HandOff(t) \/ NotifyWaiters(t)
    \/ UndoHandOff(t) \/ UnblockLast(t)

SwitchStep(t) == ClearFrom(t) \/ FindFrom(t)

SemStep(t) ==
    user_mutex_sem_acquire_locked(t) \/ user_mutex_sem_release(t) \/ SemReleaseLast(t)

KernelGiveUp(t) == \E error \in {"B_TIMED_OUT", "B_INTERRUPTED"} : GiveUp(t, error)

-------------------------------------------------------------------------------
\* The threads with a reference to entry e, once for each reference.
HoldsEntry(t, e) == entry[t] = e /\ ~(kpc[t] = "put_remove" /\ fromEntry[t] = NULL)
HoldsFrom(t, e) == fromEntry[t] = e /\ kpc[t] # "put_remove"

\* An entry has as many references as threads use it, and is the entry of the
\* address they use it for: no entry is freed under a thread, and two threads
\* that use one address meet in one entry.
ReferencesAreExact ==
    /\ \A e \in alive :
          ref_count[e] = Cardinality({t \in Threads : HoldsEntry(t, e)})
                         + Cardinality({t \in Threads : HoldsFrom(t, e)})
    /\ \A t \in Threads : \A e \in Entries :
          /\ HoldsEntry(t, e) => e \in alive /\ table[args[t].at] = e
          /\ HoldsFrom(t, e) => e \in alive /\ table[args[t].from] = e

\* The threads that wait for an address and have neither been notified nor
\* given up.
BlockedAt(a) == {t \in Threads : args[t].at = a /\ Queued(t) /\ t \notin leaving}
===============================================================================
