---------------------------- MODULE PthreadProofs -----------------------------
(***************************************************************************)
(* The safety of mutexes, condition variables and unnamed semaphores of    *)
(* user space, for any number of threads, addresses and entries: libroot's *)
(* atomic operations and the kernel's user mutexes together never give a   *)
(* mutex to two threads, forget a waiter, lose a unit or a signal, or free *)
(* an entry that is in use.                                                *)
(***************************************************************************)
EXTENDS Pthread, QueueLemmas

-------------------------------------------------------------------------------
(* Where a thread can be. *)

NoEntryPcs == {"idle", "get", "insert", "find", "find_null"}
UnblockPcs == {"unblock", "hand_off", "notify", "undo", "last"}
PutPcs == {"put", "put_remove"}

\* The system call a thread is in, and how far it can be.
CallIsSound(t) ==
    /\ args[t].op = "none" => kpc[t] = "idle"
    /\ args[t].op = "lock" =>
          /\ args[t].at \in Mutexes
          /\ kpc[t] \in {"get", "insert", "prepare", "unset", "add", "wait"} \cup PutPcs
    /\ args[t].op = "switch" =>
          /\ args[t].at \in Conds
          /\ args[t].from \in Mutexes
          /\ kpc[t] \in {"get", "insert", "prepare", "unset", "add", "clear", "find_from", "wait"}
                        \cup UnblockPcs \cup PutPcs
    /\ args[t].op = "unblock" =>
          args[t].at \in Words /\ kpc[t] \in {"find", "find_null"} \cup UnblockPcs \cup PutPcs
    /\ args[t].op = "sem_acquire" =>
          args[t].at \in Sems /\ kpc[t] \in {"get", "insert", "prepare", "add", "wait"} \cup PutPcs
    /\ args[t].op = "sem_release" =>
          args[t].at \in Sems /\ kpc[t] \in {"get", "insert", "sem_release", "sem_last"} \cup PutPcs
    /\ args[t].all => args[t].op = "unblock" /\ args[t].at \in Conds /\ kpc[t] # "hand_off"
    /\ entry[t] = NULL <=> kpc[t] \in NoEntryPcs
    /\ fromEntry[t] # NULL =>
          args[t].op = "switch" /\ kpc[t] \in UnblockPcs \cup {"wait"} \cup PutPcs
    /\ args[t].op = "switch" /\ kpc[t] \in UnblockPcs => fromEntry[t] # NULL
    /\ t \in leaving => kpc[t] = "wait" /\ status[t] # "B_OK"
    /\ t \in leaving /\ status[t] = "B_TIMED_OUT" => args[t].timed
    /\ args[t].op = "lock" /\ kpc[t] \in {"unset"} \cup PutPcs /\ status[t] = "B_TIMED_OUT" =>
          args[t].timed

\* Which system call each of libroot's functions is in.
UserIsSound(t) ==
    /\ upc[t] = "idle" =>
          /\ args[t].op \in {"none", "unblock", "sem_release"}
          /\ target[t] = NULL /\ cond[t] = NULL
    /\ upc[t] \in {"own", "unlock"} => args[t].op = "none" /\ target[t] \in Mutexes
    /\ upc[t] \in {"lock", "relock"} =>
          /\ args[t].op \in {"none", "lock"} /\ target[t] \in Mutexes
          /\ args[t].op = "lock" => args[t].at = target[t]
    /\ upc[t] \in {"unlock", "lock", "sem"} => cond[t] = NULL
    /\ upc[t] \in {"cond_lock", "cond_done", "cond_reset"} =>
          args[t].op = "none" /\ cond[t] \in Conds /\ target[t] = NULL
    /\ upc[t] = "relock" =>
          /\ cond[t] \in Conds
          /\ args[t].op = "lock" => ~args[t].timed
          /\ args[t].op = "none" => status[t] # "B_TIMED_OUT"
    /\ upc[t] \in {"own", "relock"} /\ cond[t] \in Conds => target[t] = MutexOf[cond[t]]
    /\ upc[t] = "cond" =>
          /\ args[t].op \in {"none", "switch"} /\ cond[t] \in Conds /\ target[t] = NULL
          /\ args[t].op = "switch" => args[t].at = cond[t] /\ args[t].from = MutexOf[cond[t]]
    /\ upc[t] = "sem" =>
          /\ args[t].op \in {"none", "sem_acquire"} /\ target[t] \in Sems
          /\ args[t].op = "sem_acquire" => args[t].at = target[t]
    /\ upc[t] # "post"

CallsAreSound == \A t \in Threads : CallIsSound(t) /\ UserIsSound(t)

\* Nobody disables a user mutex here.
NoneIsDisabled == \A w \in Words : "DISABLED" \notin word[w]

-------------------------------------------------------------------------------
(* Entries, their queues and their locks. *)

\* Each entry is the entry of one address at most, and while somebody relies on
\* an address having none nobody inserts one.
TableIsSound ==
    /\ \A a \in Addresses : table[a] # NULL => table[a] \in alive
    /\ \A a, b \in Addresses : table[a] = table[b] /\ table[a] # NULL => a = b
    /\ \A t \in Threads : kpc[t] = "find_null" => table[args[t].at] = NULL

\* Who is queued is so once, in its own entry, and will wait or waits already.
QueuesAreSound ==
    /\ \A e \in Entries : IsInjective(queue[e])
    /\ \A e \in Entries : \A t \in ToSet(queue[e]) :
          /\ entry[t] = e
          /\ args[t].added
          /\ \/ kpc[t] = "wait"
             \/ args[t].op = "switch" /\ kpc[t] \in UnblockPcs \cup {"clear", "find_from"}
    /\ \A t \in Threads : kpc[t] = "undo" => queue[UnblockedEntry(t)] = <<>>

\* The entry a thread in WritePcs has write-locked.
WriteLocked(t) == IF kpc[t] = "sem_last" THEN entry[t] ELSE UnblockedEntry(t)

\* A write-locked entry is locked by one thread only.
LocksAreSound ==
    \A t \in Threads : kpc[t] \in WritePcs =>
        \A u \in Threads \ {t} :
            /\ kpc[u] \in WritePcs => WriteLocked(u) # WriteLocked(t)
            /\ kpc[u] \in ReadPcs => entry[u] # WriteLocked(t)

-------------------------------------------------------------------------------
(* Mutexes. *)

\* LOCKED means that one thread has the mutex.
HeldByOne ==
    \A m \in Mutexes :
        /\ "LOCKED" \in word[m] <=> Holders(m) # {}
        /\ \A t, u \in Holders(m) : t = u

\* A thread that is about to get a mutex or is rid of it is not its owner; one
\* that is about to wait for a condition variable, or has done so, is.
OwnersAreSound ==
    \A t \in Threads :
        /\ upc[t] \in {"own", "lock", "relock", "unlock"} => owner[target[t]] # t
        /\ upc[t] = "cond" => owner[MutexOf[cond[t]]] # t
        /\ upc[t] \in {"cond_lock", "cond_done", "cond_reset"} => owner[MutexOf[cond[t]]] = t
        /\ args[t].op = "unblock" /\ args[t].at \in Mutexes => owner[args[t].at] # t
        /\ args[t].op = "unblock" /\ args[t].at \in Conds /\ SignalLocked =>
              owner[MutexOf[args[t].at]] = t

\* The threads that block for an address, or are about to with its entry locked.
Pending(a) == {t \in Threads : args[t].at = a /\ (Queued(t) \/ kpc[t] = "add")}

\* The threads that will look at the queue of mutex m.
Wakers(m) ==
    {t \in Threads :
        \/ args[t].op = "unblock" /\ args[t].at = m /\ kpc[t] \in {"find", "unblock", "hand_off"}
        \/ args[t].op = "switch" /\ args[t].from = m
              /\ kpc[t] \in {"find_from", "unblock", "hand_off"}}

\* A word for which threads block says so, and for a mutex there is an owner that will
\* see it or a thread on the way to the queue.
WaitersAreMarked ==
    /\ \A w \in Words : Pending(w) # {} => "WAITING" \in word[w]
    /\ \A m \in Mutexes : Pending(m) # {} => "LOCKED" \in word[m] \/ Wakers(m) # {}

-------------------------------------------------------------------------------
(* Semaphores and condition variables. *)

\* A semaphore for which threads block says so.
ValuesAreSound ==
    \A s \in Sems : value[s] >= -1 /\ (Pending(s) # {} => value[s] = -1)

\* The threads that waiter_count counts.
CondWaiters(c) == {t \in Threads : cond[t] = c /\ upc[t] # "cond_reset"}

\* waiter_count is exact, and 0 when the condition variable is reset.
WaiterCountsAreExact ==
    /\ \A c \in Conds : waiter_count[c] = Cardinality(CondWaiters(c))
    /\ \A t \in Threads : upc[t] = "cond_reset" => waiter_count[cond[t]] = 0

\* Only blocked threads are owed a wake-up ...
DebtsAreBounded == \A c \in Conds : due[c] <= Cardinality(CondBlocked(c))

\* ... and, if signals are given with the mutex locked, a signal that is under way
\* pays them.
DebtsArePaid ==
    SignalLocked =>
        \A c \in Conds :
            /\ due[c] # 0 =>
                  \E t \in Threads :
                     /\ args[t].op = "unblock" /\ args[t].at = c
                     /\ kpc[t] \in {"find", "unblock", "hand_off", "notify"}
                     /\ ~args[t].all => due[c] = 1
            /\ \A t \in Threads :
                  /\ args[t].op = "unblock" /\ args[t].at = c
                  /\ kpc[t] \in {"find", "unblock", "hand_off"}
                  => "LOCKED" \notin word[c]

\* The inductive invariant.
IndInv ==
    /\ TypeOK
    /\ CallsAreSound
    /\ NoneIsDisabled
    /\ TableIsSound
    /\ ReferencesAreExact
    /\ QueuesAreSound
    /\ LocksAreSound
    /\ HeldByOne
    /\ OwnersAreSound
    /\ WaitersAreMarked
    /\ ValuesAreSound
    /\ UnitsConserved
    /\ WaiterCountsAreExact
    /\ DebtsAreBounded
    /\ DebtsArePaid

-------------------------------------------------------------------------------
(* Counting. *)

\* A set of threads can be counted.
LEMMA CountThreads ==
    ASSUME NEW S \in SUBSET Threads
    PROVE  /\ IsFiniteSet(S)
           /\ Cardinality(S) \in Nat
           /\ Cardinality(S) <= Cardinality(Threads)
           /\ Cardinality(Threads) \in Nat
           /\ Cardinality(S) = 0 <=> S = {}
           /\ \A t \in S : Cardinality(S \ {t}) = Cardinality(S) - 1
           /\ \A t : t \notin S => Cardinality(S \cup {t}) = Cardinality(S) + 1
<1>1. IsFiniteSet(Threads)
  BY UserMutexAssumption
<1>2. IsFiniteSet(S) /\ Cardinality(S) <= Cardinality(Threads)
  BY <1>1, FS_Subset
<1> QED BY <1>1, <1>2, FS_CardinalityType, FS_EmptySet, FS_AddElement, FS_RemoveElement

One(b) == IF b THEN 1 ELSE 0

\* A set that changes by one thread at most.
LEMMA CountMove ==
    ASSUME NEW S \in SUBSET Threads, NEW T \in SUBSET Threads, NEW t \in Threads,
           \A u \in Threads \ {t} : u \in S <=> u \in T
    PROVE  /\ Cardinality(S) \in Nat /\ Cardinality(T) \in Nat
           /\ Cardinality(T) = Cardinality(S) + One(t \in T) - One(t \in S)
<1>1. Cardinality(S) \in Nat /\ Cardinality(T) \in Nat
  BY CountThreads
<1>2. CASE t \in S <=> t \in T
  <2>1. S = T
    BY <1>2
  <2> QED BY <1>1, <1>2, <2>1 DEF One
<1>3. CASE t \in S /\ t \notin T
  <2>1. T = S \ {t}
    BY <1>3
  <2>2. Cardinality(T) = Cardinality(S) - 1
    BY <1>3, <2>1, CountThreads
  <2> QED BY <1>1, <1>3, <2>2 DEF One
<1>4. CASE t \notin S /\ t \in T
  <2>1. T = S \cup {t}
    BY <1>4
  <2>2. Cardinality(T) = Cardinality(S) + 1
    BY <1>4, <2>1, CountThreads
  <2> QED BY <1>1, <1>4, <2>2 DEF One
<1> QED BY <1>2, <1>3, <1>4

\* The smaller and the greater of two numbers.
LEMMA MinMax ==
    ASSUME NEW a \in Int, NEW b \in Int
    PROVE  /\ Min({a, b}) = IF a <= b THEN a ELSE b
           /\ Max({a, b}) = IF a <= b THEN b ELSE a
<1>1. \A x, y \in Int : x <= y \/ y <= x
  OBVIOUS
<1>2. \A x, y \in Int : x <= y /\ y <= x => x = y
  OBVIOUS
<1>3. \E x \in {a, b} : \A y \in {a, b} : x <= y
  BY <1>1
<1>4. \E x \in {a, b} : \A y \in {a, b} : x >= y
  BY <1>1
<1>5. Min({a, b}) \in {a, b} /\ \A y \in {a, b} : Min({a, b}) <= y
  BY <1>3 DEF Min
<1>6. Max({a, b}) \in {a, b} /\ \A y \in {a, b} : Max({a, b}) >= y
  BY <1>4 DEF Max
<1> QED BY <1>5, <1>6

-------------------------------------------------------------------------------
(* The queue of an entry. *)

\* The rest of a queue behind the first thread that is not leaving.
LEMMA RestOfQueue ==
    ASSUME NEW q \in Seq(Threads), IsInjective(q), NEW L, NEW n \in 1..Len(q), q[n] \notin L,
           \A i \in 1..Len(q) : q[i] \notin L => n <= i
    PROVE  LET r == SubSeq(q, n + 1, Len(q))
           IN  /\ r \in Seq(Threads) /\ IsInjective(r)
               /\ ToSet(r) \subseteq ToSet(q)
               /\ q[n] \in ToSet(q) /\ q[n] \notin ToSet(r)
               /\ \A v \in ToSet(q) \ L : v # q[n] => v \in ToSet(r)
<1> DEFINE r == SubSeq(q, n + 1, Len(q))
<1>1. n \in 0..Len(q) /\ Len(q) \in Nat /\ DOMAIN q = 1..Len(q)
  OBVIOUS
<1>2. r \in Seq(Threads) /\ IsInjective(r) /\ ToSet(r) = ToSet(q) \ {q[i] : i \in 1..n}
  BY <1>1, SuffixFacts
<1> HIDE DEF r
<1>3. q[n] \in ToSet(q)
  BY <1>1 DEF ToSet
<1>4. q[n] \notin ToSet(r)
  BY <1>1, <1>2
<1>5. ASSUME NEW v \in ToSet(q) \ L, v # q[n] PROVE v \in ToSet(r)
  <2>1. ASSUME NEW i \in 1..n, v = q[i] PROVE FALSE
    <3>1. i \in 1..Len(q) /\ n <= i
      BY <1>1, <1>5, <2>1
    <3>2. n = i
      BY <1>1, <3>1
    <3> QED BY <1>5, <2>1, <3>2
  <2> QED BY <1>2, <2>1
<1> QED BY <1>2, <1>3, <1>4, <1>5 DEF r

\* Whom a notification takes out of a queue, and whom of them it wakes: nobody,
\* one, or all.
LEMMA UnnotifiedFacts ==
    ASSUME TypeOK, QueuesAreSound, NEW e \in Entries, NEW all \in BOOLEAN
    PROVE  /\ Unnotified(e, all) \in Seq(Threads) /\ IsInjective(Unnotified(e, all))
           /\ ToSet(Unnotified(e, all)) \subseteq ToSet(queue[e])
           /\ all \/ Notifiable(e) = {} => Unnotified(e, all) = <<>>
           /\ Notifiable(e) = {} <=> ToSet(queue[e]) \subseteq leaving
           /\ ~all /\ Notifiable(e) # {} =>
                 \E u \in ToSet(queue[e]) \ leaving :
                    /\ u \notin ToSet(Unnotified(e, all))
                    /\ \A v \in ToSet(queue[e]) \ leaving :
                          v # u => v \in ToSet(Unnotified(e, all))
<1>1. queue[e] \in Seq(Threads) /\ IsInjective(queue[e])
  BY DEF TypeOK, KernelTypeOK, QueuesAreSound
<1>2. DOMAIN queue[e] = 1..Len(queue[e]) /\ Len(queue[e]) \in Nat
  BY <1>1
<1>3. Notifiable(e) = {} <=> ToSet(queue[e]) \subseteq leaving
  BY DEF Notifiable, ToSet
<1>4. <<>> \in Seq(Threads) /\ IsInjective(<<>>) /\ ToSet(<<>>) = {}
  BY EmptyQueue
<1>5. CASE all \/ Notifiable(e) = {}
  <2>1. Unnotified(e, all) = <<>>
    BY <1>5 DEF Unnotified
  <2> QED BY <1>3, <1>4, <1>5, <2>1
<1>6. CASE ~all /\ Notifiable(e) # {}
  <2> DEFINE n == Min(Notifiable(e))
  <2>1. Notifiable(e) \in SUBSET Nat
    BY <1>2 DEF Notifiable
  <2>2. n \in Notifiable(e) /\ \A i \in Notifiable(e) : n <= i
    BY <1>6, <2>1, MinFacts
  <2>4. Unnotified(e, all) = SubSeq(queue[e], n + 1, Len(queue[e]))
    BY <1>6 DEF Unnotified
  <2> HIDE DEF n
  <2>3. /\ n \in 1..Len(queue[e]) /\ queue[e][n] \notin leaving
        /\ \A i \in 1..Len(queue[e]) : queue[e][i] \notin leaving => n <= i
    BY <1>2, <2>2 DEF Notifiable
  <2>5. LET r == SubSeq(queue[e], n + 1, Len(queue[e]))
        IN  /\ r \in Seq(Threads) /\ IsInjective(r)
            /\ ToSet(r) \subseteq ToSet(queue[e])
            /\ queue[e][n] \in ToSet(queue[e]) /\ queue[e][n] \notin ToSet(r)
            /\ \A v \in ToSet(queue[e]) \ leaving : v # queue[e][n] => v \in ToSet(r)
    BY <1>1, <2>3, RestOfQueue
  <2> QED BY <1>3, <1>6, <2>3, <2>4, <2>5
<1> QED BY <1>5, <1>6

\* Who is queued.
LEMMA QueuedFacts ==
    ASSUME TypeOK, QueuesAreSound
    PROVE  /\ \A e \in Entries : ToSet(queue[e]) \in SUBSET Threads
           /\ \A e \in Entries : queue[e] = <<>> <=> ToSet(queue[e]) = {}
           /\ \A t \in Threads, e \in Entries : t \in ToSet(queue[e]) => Queued(t)
           /\ \A t \in Threads : Queued(t) =>
                 /\ entry[t] \in Entries /\ t \in ToSet(queue[entry[t]]) /\ args[t].added
                 /\ \/ kpc[t] = "wait"
                    \/ args[t].op = "switch" /\ kpc[t] \in UnblockPcs \cup {"clear", "find_from"}
<1>1. \A e \in Entries : queue[e] \in Seq(Threads)
  BY DEF TypeOK, KernelTypeOK
<1>2. /\ \A e \in Entries : ToSet(queue[e]) \in SUBSET Threads
      /\ \A e \in Entries : queue[e] = <<>> <=> ToSet(queue[e]) = {}
  BY <1>1, QueueMembers
<1>3. \A t \in Threads : entry[t] \in Entries \cup {NULL}
  BY DEF TypeOK, KernelTypeOK
<1> QED BY <1>2, <1>3, UserMutexAssumption DEF QueuesAreSound, Queued

-------------------------------------------------------------------------------
(* What a step leaves alone. *)

\* The types of the functions that a thread changes at its own place only.
LEMMA Domains ==
    ASSUME TypeOK
    PROVE  /\ DOMAIN kpc = Threads /\ DOMAIN args = Threads /\ DOMAIN entry = Threads
           /\ DOMAIN fromEntry = Threads /\ DOMAIN status = Threads
           /\ DOMAIN upc = Threads /\ DOMAIN target = Threads /\ DOMAIN cond = Threads
           /\ kpc = [t \in Threads |-> kpc[t]] /\ args = [t \in Threads |-> args[t]]
           /\ entry = [t \in Threads |-> entry[t]]
           /\ fromEntry = [t \in Threads |-> fromEntry[t]]
           /\ status = [t \in Threads |-> status[t]]
           /\ upc = [t \in Threads |-> upc[t]] /\ target = [t \in Threads |-> target[t]]
           /\ cond = [t \in Threads |-> cond[t]]
BY DEF TypeOK, KernelTypeOK

\* Where the threads other than t are.
Frame(t) ==
    \A u \in Threads \ {t} :
        /\ kpc'[u] = kpc[u] /\ args'[u] = args[u] /\ status'[u] = status[u]
        /\ entry'[u] = entry[u] /\ fromEntry'[u] = fromEntry[u]
        /\ u \in leaving' <=> u \in leaving
        /\ upc'[u] = upc[u] /\ target'[u] = target[u] /\ cond'[u] = cond[u]

\* A step of the kernel for t moves nobody else ...
LEMMA KernelFrame ==
    ASSUME TypeOK, NEW t \in Threads, KernelNext(t)
    PROVE  Frame(t)
<1>0. UNCHANGED <<upc, target, cond>>
  BY DEF KernelNext

<1>1. CASE get_user_mutex_entry(t)
  BY <1>1, <1>0, Domains DEF get_user_mutex_entry, Found, Goto, Frame
<1>2. CASE InsertEntry(t)
  BY <1>2, <1>0, Domains DEF InsertEntry, Found, Goto, Frame
<1>3. CASE put_user_mutex_entry(t)
  BY <1>3, <1>0, Domains DEF put_user_mutex_entry, PutDone, PutEntry, Goto, Frame
<1>4. CASE RemoveEntry(t)
  BY <1>4, <1>0, Domains DEF RemoveEntry, PutDone, PutEntry, PutAddress, Goto, Frame
<1>5. CASE user_mutex_prepare_to_lock(t)
  BY <1>5, <1>0, Domains DEF user_mutex_prepare_to_lock, AfterLock, Goto, entryVars, Frame
<1>6. CASE UnsetWaiting(t)
  BY <1>6, <1>0, Domains DEF UnsetWaiting, AfterLock, Goto, entryVars, Frame
<1>7. CASE AddWaiter(t)
  BY <1>7, <1>0, Domains DEF AddWaiter, Goto, wordVars, Frame
<1>8. CASE Leave(t)
  BY <1>8, <1>0, Domains DEF Leave, wordVars, callVars, Frame
<1>9. CASE WaitReturn(t)
  BY <1>9, <1>0, Domains DEF WaitReturn, Goto, wordVars, Frame
<1>10. CASE FindEntry(t)
  BY <1>10, <1>0, Domains DEF FindEntry, Found, Goto, wordVars, Frame
<1>11. CASE FindNull(t)
  BY <1>11, <1>0, Domains DEF FindNull, Goto, entryVars, Frame
<1>12. CASE user_mutex_unblock(t)
  BY <1>12, <1>0, Domains DEF user_mutex_unblock, AfterUnblock, Goto, entryVars, Frame
<1>13. CASE HandOff(t)
  BY <1>13, <1>0, Domains DEF HandOff, AfterUnblock, Goto, entryVars, Frame
<1>14. CASE NotifyWaiters(t)
  BY <1>14, <1>0, Domains DEF NotifyWaiters, Goto, wordVars, Frame
<1>15. CASE UndoHandOff(t)
  BY <1>15, <1>0, Domains DEF UndoHandOff, Goto, entryVars, Frame
<1>16. CASE UnblockLast(t)
  BY <1>16, <1>0, Domains DEF UnblockLast, AfterUnblock, Goto, entryVars, Frame
<1>17. CASE ClearFrom(t)
  BY <1>17, <1>0, Domains DEF ClearFrom, AfterUnblock, Goto, entryVars, Frame
<1>18. CASE FindFrom(t)
  BY <1>18, <1>0, Domains DEF FindFrom, AfterUnblock, Goto, wordVars, Frame
<1>19. CASE user_mutex_sem_acquire_locked(t)
  BY <1>19, <1>0, Domains DEF user_mutex_sem_acquire_locked, Goto, entryVars, Frame
<1>20. CASE user_mutex_sem_release(t)
  BY <1>20, <1>0, Domains DEF user_mutex_sem_release, Goto, Frame
<1>21. CASE SemReleaseLast(t)
  BY <1>21, <1>0, Domains DEF SemReleaseLast, Goto, entryVars, Frame
<1>22. CASE KernelGiveUp(t)
  BY <1>22, <1>0, Domains DEF KernelGiveUp, GiveUp, wordVars, Frame
<1> QED
  BY <1>1, <1>2, <1>3, <1>4, <1>5, <1>6, <1>7, <1>8, <1>9, <1>10, <1>11, <1>12, <1>13, <1>14,
    <1>15, <1>16, <1>17, <1>18, <1>19, <1>20, <1>21, <1>22
     DEF KernelNext, KernelStep, SwitchStep, SemStep

\* ... and neither does a step of t in libroot.
LEMMA UserFrame ==
    ASSUME TypeOK, NEW t \in Threads, UserNext(t)
    PROVE  Frame(t)

<1>1. CASE LockReturn(t)
  BY <1>1, Domains DEF LockReturn, _user_mutex_lock, SystemCall, Goto, UGoto, KernelUnchanged,
     callVars, entryVars, Frame
<1>2. CASE TakeOwnership(t)
  BY <1>2, Domains DEF TakeOwnership, UGoto, KernelUnchanged, callVars, entryVars, Frame
<1>3. CASE UnlockWord(t)
  BY <1>3, Domains DEF UnlockWord, Release, _user_mutex_unblock, SystemCall, Goto, UGoto,
     KernelUnchanged, callVars, entryVars, Frame
<1>4. CASE CondSwitch(t)
  BY <1>4, Domains DEF CondSwitch, _user_mutex_switch_lock, SystemCall, Goto, UGoto, entryVars,
     Frame
<1>5. CASE CondReturn(t)
  BY <1>5, Domains DEF CondReturn, SetLocked, _user_mutex_lock, SystemCall, Goto, UGoto,
     KernelUnchanged, callVars, entryVars, Frame
<1>6. CASE CondLeave(t)
  BY <1>6, Domains DEF CondLeave, UGoto, KernelUnchanged, callVars, entryVars, Frame
<1>7. CASE CondReset(t)
  BY <1>7, Domains DEF CondReset, UGoto, KernelUnchanged, callVars, entryVars, Frame
<1>8. CASE SemReturn(t)
  BY <1>8, Domains DEF SemReturn, UGoto, KernelUnchanged, callVars, entryVars, Frame
<1>9. ASSUME NEW m \in Mutexes, pthread_mutex_lock(t, m) PROVE Frame(t)
  BY <1>9, Domains DEF pthread_mutex_lock, Idle, SetLocked, _user_mutex_lock, SystemCall, Goto,
     UGoto, KernelUnchanged, callVars, entryVars, Frame
<1>10. ASSUME NEW m \in Mutexes, pthread_mutex_trylock(t, m) PROVE Frame(t)
  BY <1>10, Domains DEF pthread_mutex_trylock, Idle, UGoto, KernelUnchanged, callVars,
     entryVars, Frame
<1>11. ASSUME NEW m \in Mutexes, pthread_mutex_unlock(t, m) PROVE Frame(t)
  BY <1>11, Domains DEF pthread_mutex_unlock, Idle, UGoto, KernelUnchanged, callVars, entryVars,
     Frame
<1>12. ASSUME NEW c \in Conds, pthread_cond_wait(t, c) PROVE Frame(t)
  BY <1>12, Domains DEF pthread_cond_wait, Idle, UGoto, KernelUnchanged, callVars, entryVars,
     Frame
<1>13. ASSUME NEW c \in Conds, NEW all \in BOOLEAN, cond_signal(t, c, all) PROVE Frame(t)
  BY <1>13, Domains DEF cond_signal, Idle, Release, _user_mutex_unblock, SystemCall, Goto,
     KernelUnchanged, callVars, entryVars, Frame
<1>14. ASSUME NEW s \in Sems, sem_wait(t, s) PROVE Frame(t)
  BY <1>14, Domains DEF sem_wait, Idle, _user_mutex_sem_acquire, SystemCall, Goto, UGoto,
     KernelUnchanged, callVars, entryVars, Frame
<1>15. ASSUME NEW s \in Sems, sem_post(t, s) PROVE Frame(t)
  BY <1>15, Domains DEF sem_post, Idle, _user_mutex_sem_release, SystemCall, Goto,
     KernelUnchanged, callVars, entryVars, Frame
<1> QED
  BY <1>1, <1>2, <1>3, <1>4, <1>5, <1>6, <1>7, <1>8, <1>9, <1>10, <1>11, <1>12, <1>13, <1>14,
    <1>15 DEF UserNext

-------------------------------------------------------------------------------
(* Types. *)

\* What is where, by type and by the call a thread is in.
LEMMA Typed ==
    ASSUME TypeOK, CallsAreSound, NEW t \in Threads
    PROVE  /\ args[t].at \in Addresses \cup {NULL} /\ args[t].from \in Words \cup {NULL}
           /\ args[t].op \in Calls \cup {"none"}
           /\ args[t].all \in BOOLEAN /\ args[t].added \in BOOLEAN
           /\ entry[t] \in Entries \cup {NULL} /\ fromEntry[t] \in Entries \cup {NULL}
           /\ kpc[t] \notin NoEntryPcs => entry[t] \in Entries
           /\ kpc[t] # "idle" => args[t].at \in Addresses
           /\ kpc[t] \in UnblockPcs =>
                 UnblockedEntry(t) \in Entries /\ UnblockedWord(t) \in Words
           /\ kpc[t] \in {"unset", "find", "find_null"} => args[t].at \in Words
           /\ kpc[t] \in {"clear", "find_from"} => args[t].from \in Mutexes
           /\ kpc[t] \in {"sem_release", "sem_last"} => args[t].at \in Sems
           /\ kpc[t] \in PutPcs => PutEntry(t) \in Entries /\ PutAddress(t) \in Addresses
<1>1. /\ args[t].at \in Addresses \cup {NULL} /\ args[t].from \in Words \cup {NULL}
      /\ args[t].op \in Calls \cup {"none"}
      /\ args[t].all \in BOOLEAN /\ args[t].added \in BOOLEAN
      /\ entry[t] \in Entries \cup {NULL} /\ fromEntry[t] \in Entries \cup {NULL}
  BY DEF TypeOK, KernelTypeOK
<1>2. CallIsSound(t)
  BY DEF CallsAreSound
<1>3. Mutexes \subseteq Words /\ Conds \subseteq Words
  BY PthreadAssumption
<1>4. Words \subseteq Addresses /\ Sems \subseteq Addresses
  BY DEF Addresses
<1>5. kpc[t] \notin NoEntryPcs => entry[t] \in Entries
  BY <1>1, <1>2 DEF CallIsSound
<1>6. /\ kpc[t] # "idle" => args[t].at \in Addresses
      /\ kpc[t] \in {"unset", "find", "find_null"} => args[t].at \in Words
      /\ kpc[t] \in {"clear", "find_from"} => args[t].from \in Mutexes
      /\ kpc[t] \in {"sem_release", "sem_last"} => args[t].at \in Sems
  BY <1>1, <1>2, <1>3, <1>4 DEF CallIsSound, Calls, UnblockPcs, PutPcs
<1>7. kpc[t] \in UnblockPcs => UnblockedEntry(t) \in Entries /\ UnblockedWord(t) \in Words
  BY <1>1, <1>2, <1>3, <1>5
     DEF CallIsSound, Calls, UnblockPcs, PutPcs, NoEntryPcs, UnblockedEntry, UnblockedWord
<1>8. kpc[t] \in PutPcs => PutEntry(t) \in Entries /\ PutAddress(t) \in Addresses
  BY <1>1, <1>2, <1>3, <1>4, <1>5, <1>6
     DEF CallIsSound, PutPcs, NoEntryPcs, PutEntry, PutAddress
<1> QED BY <1>1, <1>5, <1>6, <1>7, <1>8

\* The words and the references keep their types.
LEMMA PutHasReference ==
    ASSUME TypeOK, CallsAreSound, ReferencesAreExact, NEW t \in Threads, kpc[t] = "put"
    PROVE  PutEntry(t) \in alive /\ ref_count[PutEntry(t)] >= 1
<1> DEFINE e == PutEntry(t)
           S == {u \in Threads : HoldsEntry(u, e)}
           F == {u \in Threads : HoldsFrom(u, e)}
<1>1. e \in Entries
  BY Typed DEF PutPcs
<1>2. t \in S \/ t \in F
  BY DEF PutEntry, HoldsEntry, HoldsFrom
<1>3. e \in alive
  BY <1>1, <1>2 DEF ReferencesAreExact
<1>4. ref_count[e] = Cardinality(S) + Cardinality(F)
  BY <1>3 DEF ReferencesAreExact
<1>5. S \in SUBSET Threads /\ F \in SUBSET Threads
  OBVIOUS
<1> HIDE DEF S, F
<1>6. /\ Cardinality(S) \in Nat /\ Cardinality(F) \in Nat
      /\ (Cardinality(S) = 0 <=> S = {}) /\ (Cardinality(F) = 0 <=> F = {})
  BY <1>5, CountThreads
<1> QED BY <1>2, <1>3, <1>4, <1>6

\* How a queue can change: t queues itself, or threads leave it.
QueueMoves(t) ==
    /\ queue' \in [Entries -> Seq(Threads)]
    /\ \A e \in Entries :
          /\ IsInjective(queue'[e])
          /\ ToSet(queue'[e]) \subseteq
                ToSet(queue[e]) \cup (IF kpc[t] = "add" /\ entry[t] = e THEN {t} ELSE {})

\* An assignment to one queue that adds nobody but t, on its way to the queue.
LEMMA OneQueueMoves ==
    ASSUME TypeOK, QueuesAreSound, NEW t \in Threads, NEW e \in Entries, NEW q,
           queue' = [queue EXCEPT ![e] = q], q \in Seq(Threads), IsInjective(q),
           ToSet(q) \subseteq ToSet(queue[e]) \cup
                                 (IF kpc[t] = "add" /\ entry[t] = e THEN {t} ELSE {})
    PROVE  QueueMoves(t)
<1>1. queue \in [Entries -> Seq(Threads)]
  BY DEF TypeOK, KernelTypeOK
<1>2. \A d \in Entries : IsInjective(queue[d])
  BY DEF QueuesAreSound
<1>3. queue'[e] = q /\ \A d \in Entries \ {e} : queue'[d] = queue[d]
  BY <1>1
<1> QED BY <1>1, <1>2, <1>3 DEF QueueMoves

\* No step of the kernel adds a thread to a queue but AddWaiter, and that only itself.
LEMMA QueueStep ==
    ASSUME TypeOK, CallsAreSound, QueuesAreSound, NEW t \in Threads, KernelNext(t)
    PROVE  QueueMoves(t)
<1>0. ASSUME UNCHANGED queue PROVE QueueMoves(t)
  BY <1>0 DEF QueueMoves, TypeOK, KernelTypeOK, QueuesAreSound
<1>1. \A e \in Entries : queue[e] \in Seq(Threads) /\ IsInjective(queue[e])
  BY DEF TypeOK, KernelTypeOK, QueuesAreSound
<1>2. CASE InsertEntry(t)
  <2>1. CASE UNCHANGED queue
    BY <1>0, <2>1
  <2>2. CASE \E e \in Entries : queue' = [queue EXCEPT ![e] = <<>>]
    <3>1. <<>> \in Seq(Threads) /\ IsInjective(<<>>) /\ ToSet(<<>>) = {}
      BY EmptyQueue
    <3> QED BY <2>2, <3>1, OneQueueMoves
  <2> QED BY <1>2, <2>1, <2>2 DEF InsertEntry, Found
<1>3. CASE AddWaiter(t)
  <2>1. kpc[t] = "add" /\ queue' = [queue EXCEPT ![entry[t]] = Append(queue[entry[t]], t)]
    BY <1>3 DEF AddWaiter
  <2>2. entry[t] \in Entries
    BY <2>1, Typed DEF NoEntryPcs
  <2>3. t \notin ToSet(queue[entry[t]])
    BY <2>1, <2>2 DEF QueuesAreSound, UnblockPcs
  <2>4. LET q == Append(queue[entry[t]], t)
        IN  q \in Seq(Threads) /\ IsInjective(q) /\ ToSet(q) = ToSet(queue[entry[t]]) \cup {t}
    BY <1>1, <2>2, <2>3, AppendFacts
  <2> QED BY <2>1, <2>2, <2>4, OneQueueMoves
<1>4. CASE Leave(t)
  <2>1. entry[t] \in Entries
    BY <1>4, Typed DEF Leave, Queued
  <2>2. PICK i \in DOMAIN queue[entry[t]] :
           queue' = [queue EXCEPT ![entry[t]] = RemoveAt(queue[entry[t]], i)]
    BY <1>4 DEF Leave
  <2>3. LET q == RemoveAt(queue[entry[t]], i)
        IN  q \in Seq(Threads) /\ IsInjective(q) /\ ToSet(q) \subseteq ToSet(queue[entry[t]])
    BY <1>1, <2>1, RemoveAtFacts
  <2> QED BY <2>1, <2>2, <2>3, OneQueueMoves
<1>5. ASSUME NEW e \in Entries, NEW all \in BOOLEAN,
             queue' = [queue EXCEPT ![e] = Unnotified(e, all)]
      PROVE  QueueMoves(t)
  BY <1>5, UnnotifiedFacts, OneQueueMoves
<1>6. CASE NotifyWaiters(t)
  <2>1. UnblockedEntry(t) \in Entries /\ args[t].all \in BOOLEAN
    BY <1>6, Typed DEF NotifyWaiters, UnblockPcs
  <2> QED BY <1>5, <1>6, <2>1 DEF NotifyWaiters
<1>7. CASE user_mutex_sem_release(t)
  <2>1. entry[t] \in Entries
    BY <1>7, Typed DEF user_mutex_sem_release, NoEntryPcs
  <2> QED BY <1>5, <1>7, <2>1 DEF user_mutex_sem_release

<1>8. CASE get_user_mutex_entry(t)
  BY <1>8, <1>0 DEF get_user_mutex_entry, Found, Goto
<1>9. CASE put_user_mutex_entry(t)
  BY <1>9, <1>0 DEF put_user_mutex_entry, PutDone, PutEntry, Goto
<1>10. CASE RemoveEntry(t)
  BY <1>10, <1>0 DEF RemoveEntry, PutDone, PutEntry, PutAddress, Goto
<1>11. CASE user_mutex_prepare_to_lock(t)
  BY <1>11, <1>0 DEF user_mutex_prepare_to_lock, AfterLock, Goto, entryVars
<1>12. CASE UnsetWaiting(t)
  BY <1>12, <1>0 DEF UnsetWaiting, AfterLock, Goto, entryVars
<1>13. CASE WaitReturn(t)
  BY <1>13, <1>0 DEF WaitReturn, Goto, wordVars
<1>14. CASE FindEntry(t)
  BY <1>14, <1>0 DEF FindEntry, Found, Goto, wordVars
<1>15. CASE FindNull(t)
  BY <1>15, <1>0 DEF FindNull, Goto, entryVars
<1>16. CASE user_mutex_unblock(t)
  BY <1>16, <1>0 DEF user_mutex_unblock, AfterUnblock, Goto, entryVars
<1>17. CASE HandOff(t)
  BY <1>17, <1>0 DEF HandOff, AfterUnblock, Goto, entryVars
<1>18. CASE UndoHandOff(t)
  BY <1>18, <1>0 DEF UndoHandOff, Goto, entryVars
<1>19. CASE UnblockLast(t)
  BY <1>19, <1>0 DEF UnblockLast, AfterUnblock, Goto, entryVars
<1>20. CASE ClearFrom(t)
  BY <1>20, <1>0 DEF ClearFrom, AfterUnblock, Goto, entryVars
<1>21. CASE FindFrom(t)
  BY <1>21, <1>0 DEF FindFrom, AfterUnblock, Goto, wordVars
<1>22. CASE user_mutex_sem_acquire_locked(t)
  BY <1>22, <1>0 DEF user_mutex_sem_acquire_locked, Goto, entryVars
<1>23. CASE SemReleaseLast(t)
  BY <1>23, <1>0 DEF SemReleaseLast, Goto, entryVars
<1>24. CASE KernelGiveUp(t)
  BY <1>24, <1>0 DEF KernelGiveUp, GiveUp, wordVars
<1> QED
  BY <1>2, <1>3, <1>4, <1>6, <1>7, <1>8, <1>9, <1>10, <1>11, <1>12, <1>13, <1>14, <1>15, <1>16,
    <1>17, <1>18, <1>19, <1>20, <1>21, <1>22, <1>23, <1>24
     DEF KernelNext, KernelStep, SwitchStep, SemStep

KernelPcs ==
    WritePcs \cup ReadPcs \cup NoEntryPcs \cup UnblockPcs \cup PutPcs
      \cup {"prepare", "unset", "wait", "clear", "find_from", "sem_release"}

KernelCalls == [op : Calls \cup {"none"}, at : Addresses \cup {NULL}, from : Words \cup {NULL},
                timed : BOOLEAN, all : BOOLEAN, added : BOOLEAN]

\* The argument of a call changes in one thread and keeps its type.
LEMMA CallTypes ==
    ASSUME args \in [Threads -> KernelCalls], NEW t \in Threads
    PROVE  /\ [args EXCEPT ![t] = NoCall] \in [Threads -> KernelCalls]
           /\ [args EXCEPT ![t].all = TRUE] \in [Threads -> KernelCalls]
           /\ [args EXCEPT ![t].all = FALSE] \in [Threads -> KernelCalls]
           /\ [args EXCEPT ![t].added = TRUE] \in [Threads -> KernelCalls]
<1>1. NoCall \in KernelCalls
  BY DEF NoCall, KernelCalls
<1>2. ASSUME NEW c \in KernelCalls
      PROVE  /\ [c EXCEPT !.all = TRUE] \in KernelCalls /\ [c EXCEPT !.all = FALSE] \in KernelCalls
             /\ [c EXCEPT !.added = TRUE] \in KernelCalls
  BY DEF KernelCalls
<1>3. args[t] \in KernelCalls
  OBVIOUS
<1> QED BY <1>1, <1>2, <1>3

\* The kernel's variables keep their types.
LEMMA KernelTypes ==
    ASSUME TypeOK, CallsAreSound, ReferencesAreExact, QueuesAreSound,
           NEW t \in Threads, KernelNext(t)
    PROVE  KernelTypeOK'
<1>0. queue' \in [Entries -> Seq(Threads)]
  BY QueueStep DEF QueueMoves
<1>t. KernelTypeOK /\ {"LOCKED", "WAITING"} \subseteq Flags
  BY DEF TypeOK, Flags
<1>m. Mutexes \subseteq Words /\ Words \subseteq Addresses
  BY PthreadAssumption DEF Addresses
<1>r. /\ table \in [Addresses -> Entries \cup {NULL}] /\ alive \subseteq Entries
      /\ ref_count \in [Entries -> Nat]
  BY DEF TypeOK, KernelTypeOK
<1>p. kpc \in [Threads -> KernelPcs] /\ args \in [Threads -> KernelCalls]
  BY DEF TypeOK, KernelTypeOK, KernelPcs, KernelCalls, NoEntryPcs, UnblockPcs, PutPcs, WritePcs,
     ReadPcs

<1>1. CASE get_user_mutex_entry(t)
  <2>1. word' \in [Words -> SUBSET Flags] /\ value' \in [Sems -> Int]
    BY <1>1, <1>t, Typed DEF get_user_mutex_entry, Found, Goto, KernelTypeOK, wordVars,
       NoEntryPcs, UnblockPcs, PutPcs
  <2>2. /\ table' \in [Addresses -> Entries \cup {NULL}] /\ alive' \subseteq Entries
        /\ ref_count' \in [Entries -> Nat]
    <3>1. args[t].at \in Addresses /\ table[args[t].at] \in Entries \cup {NULL}
      BY <1>1, <1>t, <1>m, Typed DEF get_user_mutex_entry, KernelTypeOK
    <3>2. \/ UNCHANGED <<table, alive, ref_count>>
          \/ /\ table[args[t].at] # NULL /\ UNCHANGED <<table, alive>>
             /\ ref_count' = [ref_count EXCEPT ![table[args[t].at]] = @ + 1]
      BY <1>1 DEF get_user_mutex_entry, Found
    <3> QED BY <1>r, <3>1, <3>2
  <2>3. kpc' \in [Threads -> KernelPcs] /\ args' \in [Threads -> KernelCalls]
    BY <1>1, <1>p, Typed DEF get_user_mutex_entry, Found, Goto, KernelPcs, KernelCalls,
       WritePcs, ReadPcs, NoCall, NoEntryPcs, UnblockPcs, PutPcs
  <2>4. /\ entry' \in [Threads -> Entries \cup {NULL}]
        /\ fromEntry' \in [Threads -> Entries \cup {NULL}]
        /\ status' \in [Threads -> Results] /\ leaving' \subseteq Threads
    BY <1>1, <1>t, Typed DEF get_user_mutex_entry, Found, Goto, KernelTypeOK, Results,
       NoEntryPcs, UnblockPcs, PutPcs
  <2> QED BY <1>0, <2>1, <2>2, <2>3, <2>4 DEF KernelTypeOK, KernelPcs, KernelCalls,
     NoEntryPcs, UnblockPcs, PutPcs, WritePcs, ReadPcs
<1>2. CASE InsertEntry(t)
  <2>1. word' \in [Words -> SUBSET Flags] /\ value' \in [Sems -> Int]
    BY <1>2, <1>t, Typed DEF InsertEntry, Found, Goto, KernelTypeOK, wordVars, NoEntryPcs,
       UnblockPcs, PutPcs
  <2>2. /\ table' \in [Addresses -> Entries \cup {NULL}] /\ alive' \subseteq Entries
        /\ ref_count' \in [Entries -> Nat]
    <3>1. args[t].at \in Addresses /\ table[args[t].at] \in Entries \cup {NULL}
      BY <1>2, <1>t, Typed DEF InsertEntry, KernelTypeOK
    <3>2. \/ /\ table[args[t].at] # NULL /\ UNCHANGED <<table, alive>>
             /\ ref_count' = [ref_count EXCEPT ![table[args[t].at]] = @ + 1]
          \/ \E e \in Entries :
                /\ alive' = alive \cup {e} /\ table' = [table EXCEPT ![args[t].at] = e]
                /\ ref_count' = [ref_count EXCEPT ![e] = 1]
      BY <1>2 DEF InsertEntry, Found
    <3> QED BY <1>r, <3>1, <3>2
  <2>3. kpc' \in [Threads -> KernelPcs] /\ args' \in [Threads -> KernelCalls]
    BY <1>2, <1>p, Typed DEF InsertEntry, Found, Goto, KernelPcs, KernelCalls, WritePcs,
       ReadPcs, NoCall, NoEntryPcs, UnblockPcs, PutPcs
  <2>4. /\ entry' \in [Threads -> Entries \cup {NULL}]
        /\ fromEntry' \in [Threads -> Entries \cup {NULL}]
        /\ status' \in [Threads -> Results] /\ leaving' \subseteq Threads
    <3>1. args[t].at \in Addresses /\ table[args[t].at] \in Entries \cup {NULL}
      BY <1>2, <1>t, Typed DEF InsertEntry, KernelTypeOK
    <3>2. \E e \in Entries \cup {NULL} : entry' = [entry EXCEPT ![t] = e]
      BY <1>2, <3>1 DEF InsertEntry, Found
    <3> QED BY <1>2, <1>t, <3>2 DEF InsertEntry, KernelTypeOK
  <2> QED BY <1>0, <2>1, <2>2, <2>3, <2>4 DEF KernelTypeOK, KernelPcs, KernelCalls,
     NoEntryPcs, UnblockPcs, PutPcs, WritePcs, ReadPcs
<1>3. CASE put_user_mutex_entry(t)
  <2>1. word' \in [Words -> SUBSET Flags] /\ value' \in [Sems -> Int]
    BY <1>3, <1>t, Typed DEF put_user_mutex_entry, PutDone, PutEntry, Goto, KernelTypeOK,
       wordVars, NoEntryPcs, UnblockPcs, PutPcs
  <2>2. /\ table' \in [Addresses -> Entries \cup {NULL}] /\ alive' \subseteq Entries
        /\ ref_count' \in [Entries -> Nat]
    BY <1>3, <1>t, Typed, PutHasReference DEF put_user_mutex_entry, PutDone, PutEntry, Goto,
       KernelTypeOK, NoEntryPcs, UnblockPcs, PutPcs
  <2>3. kpc' \in [Threads -> KernelPcs] /\ args' \in [Threads -> KernelCalls]
    <3>1. args' = args \/ args' = [args EXCEPT ![t] = NoCall]
      BY <1>3 DEF put_user_mutex_entry, PutDone
    <3>2. args' \in [Threads -> KernelCalls]
      BY <1>p, <3>1, CallTypes
    <3>3. kpc' \in [Threads -> KernelPcs]
      BY <1>3, <1>p DEF put_user_mutex_entry, PutDone, Goto, KernelPcs, WritePcs, NoEntryPcs, PutPcs
    <3> QED BY <3>2, <3>3
  <2>4. /\ entry' \in [Threads -> Entries \cup {NULL}]
        /\ fromEntry' \in [Threads -> Entries \cup {NULL}]
        /\ status' \in [Threads -> Results] /\ leaving' \subseteq Threads
    BY <1>3, <1>t, Typed DEF put_user_mutex_entry, PutDone, PutEntry, Goto, KernelTypeOK,
       Results, NoEntryPcs, UnblockPcs, PutPcs
  <2> QED BY <1>0, <2>1, <2>2, <2>3, <2>4 DEF KernelTypeOK, KernelPcs, KernelCalls,
     NoEntryPcs, UnblockPcs, PutPcs, WritePcs, ReadPcs
<1>4. CASE RemoveEntry(t)
  <2>1. word' \in [Words -> SUBSET Flags] /\ value' \in [Sems -> Int]
    BY <1>4, <1>t, Typed DEF RemoveEntry, PutDone, PutEntry, PutAddress, Goto, KernelTypeOK,
       wordVars, NoEntryPcs, UnblockPcs, PutPcs
  <2>2. /\ table' \in [Addresses -> Entries \cup {NULL}] /\ alive' \subseteq Entries
        /\ ref_count' \in [Entries -> Nat]
    BY <1>4, <1>t, Typed DEF RemoveEntry, PutDone, PutEntry, PutAddress, Goto, KernelTypeOK,
       NoEntryPcs, UnblockPcs, PutPcs
  <2>3. kpc' \in [Threads -> KernelPcs] /\ args' \in [Threads -> KernelCalls]
    <3>1. args' = args \/ args' = [args EXCEPT ![t] = NoCall]
      BY <1>4 DEF RemoveEntry, PutDone
    <3>2. args' \in [Threads -> KernelCalls]
      BY <1>p, <3>1, CallTypes
    <3>3. kpc' \in [Threads -> KernelPcs]
      BY <1>4, <1>p DEF RemoveEntry, PutDone, Goto, KernelPcs, WritePcs, NoEntryPcs, PutPcs
    <3> QED BY <3>2, <3>3
  <2>4. /\ entry' \in [Threads -> Entries \cup {NULL}]
        /\ fromEntry' \in [Threads -> Entries \cup {NULL}]
        /\ status' \in [Threads -> Results] /\ leaving' \subseteq Threads
    BY <1>4, <1>t, Typed DEF RemoveEntry, PutDone, PutEntry, PutAddress, Goto, KernelTypeOK,
       Results, NoEntryPcs, UnblockPcs, PutPcs
  <2> QED BY <1>0, <2>1, <2>2, <2>3, <2>4 DEF KernelTypeOK, KernelPcs, KernelCalls,
     NoEntryPcs, UnblockPcs, PutPcs, WritePcs, ReadPcs
<1>5. CASE user_mutex_prepare_to_lock(t)
  BY <1>5, <1>0, <1>t, Typed DEF user_mutex_prepare_to_lock, AfterLock, Goto, entryVars,
     KernelTypeOK, WritePcs, ReadPcs, NoEntryPcs, UnblockPcs, PutPcs, NoCall, Results
<1>6. CASE UnsetWaiting(t)
  BY <1>6, <1>0, <1>t, Typed DEF UnsetWaiting, AfterLock, Goto, entryVars, KernelTypeOK,
     WritePcs, ReadPcs, NoEntryPcs, UnblockPcs, PutPcs, NoCall, Results
<1>7. CASE AddWaiter(t)
  <2>1. word' \in [Words -> SUBSET Flags] /\ value' \in [Sems -> Int]
    BY <1>7, <1>t, Typed DEF AddWaiter, Goto, wordVars, KernelTypeOK, NoEntryPcs, UnblockPcs,
       PutPcs
  <2>2. /\ table' \in [Addresses -> Entries \cup {NULL}] /\ alive' \subseteq Entries
        /\ ref_count' \in [Entries -> Nat]
    BY <1>7, <1>t, Typed DEF AddWaiter, Goto, wordVars, KernelTypeOK, NoEntryPcs, UnblockPcs,
       PutPcs
  <2>3. kpc' \in [Threads -> KernelPcs] /\ args' \in [Threads -> KernelCalls]
    <3>1. args' = [args EXCEPT ![t].added = TRUE]
      BY <1>7 DEF AddWaiter
    <3>2. args' \in [Threads -> KernelCalls]
      BY <1>p, <3>1, CallTypes
    <3>3. kpc' \in [Threads -> KernelPcs]
      BY <1>7, <1>p DEF AddWaiter, Goto, KernelPcs, WritePcs, NoEntryPcs, PutPcs
    <3> QED BY <3>2, <3>3
  <2>4. /\ entry' \in [Threads -> Entries \cup {NULL}]
        /\ fromEntry' \in [Threads -> Entries \cup {NULL}]
        /\ status' \in [Threads -> Results] /\ leaving' \subseteq Threads
    BY <1>7, <1>t, Typed DEF AddWaiter, Goto, wordVars, KernelTypeOK, Results, NoEntryPcs,
       UnblockPcs, PutPcs
  <2> QED BY <1>0, <2>1, <2>2, <2>3, <2>4 DEF KernelTypeOK, KernelPcs, KernelCalls,
     NoEntryPcs, UnblockPcs, PutPcs, WritePcs, ReadPcs
<1>8. CASE Leave(t)
  BY <1>8, <1>0, <1>t, Typed DEF Leave, wordVars, callVars, KernelTypeOK, WritePcs, ReadPcs,
     NoEntryPcs, UnblockPcs, PutPcs, NoCall, Results
<1>9. CASE WaitReturn(t)
  BY <1>9, <1>0, <1>t, Typed DEF WaitReturn, Goto, wordVars, KernelTypeOK, WritePcs, ReadPcs,
     NoEntryPcs, UnblockPcs, PutPcs, NoCall, Results
<1>10. CASE FindEntry(t)
  <2>1. word' \in [Words -> SUBSET Flags] /\ value' \in [Sems -> Int]
    BY <1>10, <1>t, Typed DEF FindEntry, Found, Goto, wordVars, KernelTypeOK, NoEntryPcs,
       UnblockPcs, PutPcs
  <2>2. /\ table' \in [Addresses -> Entries \cup {NULL}] /\ alive' \subseteq Entries
        /\ ref_count' \in [Entries -> Nat]
    <3>1. args[t].at \in Addresses /\ table[args[t].at] \in Entries \cup {NULL}
      BY <1>10, <1>t, <1>m, Typed DEF FindEntry, KernelTypeOK
    <3>2. \/ UNCHANGED <<table, alive, ref_count>>
          \/ /\ table[args[t].at] # NULL /\ UNCHANGED <<table, alive>>
             /\ ref_count' = [ref_count EXCEPT ![table[args[t].at]] = @ + 1]
      BY <1>10 DEF FindEntry, Found
    <3> QED BY <1>r, <3>1, <3>2
  <2>3. kpc' \in [Threads -> KernelPcs] /\ args' \in [Threads -> KernelCalls]
    BY <1>10, <1>p, Typed DEF FindEntry, Found, Goto, wordVars, KernelPcs, KernelCalls,
       WritePcs, ReadPcs, NoCall, NoEntryPcs, UnblockPcs, PutPcs
  <2>4. /\ entry' \in [Threads -> Entries \cup {NULL}]
        /\ fromEntry' \in [Threads -> Entries \cup {NULL}]
        /\ status' \in [Threads -> Results] /\ leaving' \subseteq Threads
    BY <1>10, <1>t, Typed DEF FindEntry, Found, Goto, wordVars, KernelTypeOK, Results,
       NoEntryPcs, UnblockPcs, PutPcs
  <2> QED BY <1>0, <2>1, <2>2, <2>3, <2>4 DEF KernelTypeOK, KernelPcs, KernelCalls,
     NoEntryPcs, UnblockPcs, PutPcs, WritePcs, ReadPcs
<1>11. CASE FindNull(t)
  BY <1>11, <1>0, <1>t, Typed DEF FindNull, Goto, entryVars, KernelTypeOK, WritePcs, ReadPcs,
     NoEntryPcs, UnblockPcs, PutPcs, NoCall, Results
<1>12. CASE user_mutex_unblock(t)
  BY <1>12, <1>0, <1>t, Typed DEF user_mutex_unblock, AfterUnblock, Goto, entryVars,
     KernelTypeOK, WritePcs, ReadPcs, NoEntryPcs, UnblockPcs, PutPcs, NoCall, Results
<1>13. CASE HandOff(t)
  <2>1. word' \in [Words -> SUBSET Flags] /\ value' \in [Sems -> Int]
    BY <1>13, <1>t, Typed DEF HandOff, AfterUnblock, Goto, entryVars, KernelTypeOK, wordVars,
       NoEntryPcs, UnblockPcs, PutPcs
  <2>2. /\ table' \in [Addresses -> Entries \cup {NULL}] /\ alive' \subseteq Entries
        /\ ref_count' \in [Entries -> Nat]
    BY <1>13, <1>t, Typed DEF HandOff, AfterUnblock, Goto, entryVars, KernelTypeOK,
       NoEntryPcs, UnblockPcs, PutPcs
  <2>3. kpc' \in [Threads -> KernelPcs] /\ args' \in [Threads -> KernelCalls]
    <3>1. \/ args' = args \/ args' = [args EXCEPT ![t].all = TRUE]
          \/ args' = [args EXCEPT ![t].all = FALSE]
      <4>1. CASE "DISABLED" \in word[UnblockedWord(t)]
        BY <1>13, <4>1 DEF HandOff
      <4>2. CASE "DISABLED" \notin word[UnblockedWord(t)]
        BY <1>13, <4>2 DEF HandOff
      <4> QED BY <4>1, <4>2
    <3>2. args' \in [Threads -> KernelCalls]
      BY <1>p, <3>1, CallTypes
    <3>3. kpc' \in [Threads -> KernelPcs]
      BY <1>13, <1>p DEF HandOff, AfterUnblock, Goto, KernelPcs, WritePcs, NoEntryPcs, PutPcs
    <3> QED BY <3>2, <3>3
  <2>4. /\ entry' \in [Threads -> Entries \cup {NULL}]
        /\ fromEntry' \in [Threads -> Entries \cup {NULL}]
        /\ status' \in [Threads -> Results] /\ leaving' \subseteq Threads
    BY <1>13, <1>t, Typed DEF HandOff, AfterUnblock, Goto, entryVars, KernelTypeOK, Results,
       NoEntryPcs, UnblockPcs, PutPcs
  <2> QED BY <1>0, <2>1, <2>2, <2>3, <2>4 DEF KernelTypeOK, KernelPcs, KernelCalls,
     NoEntryPcs, UnblockPcs, PutPcs, WritePcs, ReadPcs
<1>14. CASE NotifyWaiters(t)
  BY <1>14, <1>0, <1>t, Typed DEF NotifyWaiters, Goto, wordVars, KernelTypeOK, WritePcs,
     ReadPcs, NoEntryPcs, UnblockPcs, PutPcs, NoCall, Results
<1>15. CASE UndoHandOff(t)
  BY <1>15, <1>0, <1>t, Typed DEF UndoHandOff, Goto, entryVars, KernelTypeOK, WritePcs, ReadPcs,
     NoEntryPcs, UnblockPcs, PutPcs, NoCall, Results
<1>16. CASE UnblockLast(t)
  BY <1>16, <1>0, <1>t, Typed DEF UnblockLast, AfterUnblock, Goto, entryVars, KernelTypeOK,
     WritePcs, ReadPcs, NoEntryPcs, UnblockPcs, PutPcs, NoCall, Results
<1>17. CASE ClearFrom(t)
  BY <1>17, <1>0, <1>t, Typed DEF ClearFrom, AfterUnblock, Goto, entryVars, KernelTypeOK,
     WritePcs, ReadPcs, NoEntryPcs, UnblockPcs, PutPcs, NoCall, Results
<1>18. CASE FindFrom(t)
  <2>1. word' \in [Words -> SUBSET Flags] /\ value' \in [Sems -> Int]
    BY <1>18, <1>t, Typed DEF FindFrom, AfterUnblock, Goto, wordVars, KernelTypeOK,
       NoEntryPcs, UnblockPcs, PutPcs
  <2>2. /\ table' \in [Addresses -> Entries \cup {NULL}] /\ alive' \subseteq Entries
        /\ ref_count' \in [Entries -> Nat]
    <3>1. args[t].from \in Addresses /\ table[args[t].from] \in Entries \cup {NULL}
      BY <1>18, <1>t, <1>m, Typed DEF FindFrom, KernelTypeOK
    <3>2. \/ UNCHANGED <<table, alive, ref_count>>
          \/ /\ table[args[t].from] # NULL /\ UNCHANGED <<table, alive>>
             /\ ref_count' = [ref_count EXCEPT ![table[args[t].from]] = @ + 1]
      BY <1>18 DEF FindFrom, Found
    <3> QED BY <1>r, <3>1, <3>2
  <2>3. kpc' \in [Threads -> KernelPcs] /\ args' \in [Threads -> KernelCalls]
    BY <1>18, <1>p, Typed DEF FindFrom, AfterUnblock, Goto, wordVars, KernelPcs, KernelCalls,
       WritePcs, ReadPcs, NoCall, NoEntryPcs, UnblockPcs, PutPcs
  <2>4. /\ entry' \in [Threads -> Entries \cup {NULL}]
        /\ fromEntry' \in [Threads -> Entries \cup {NULL}]
        /\ status' \in [Threads -> Results] /\ leaving' \subseteq Threads
    <3>1. table[args[t].from] \in Entries \cup {NULL}
      BY <1>18, <1>t, <1>m, Typed DEF FindFrom, KernelTypeOK
    <3> QED BY <1>18, <1>t, <3>1 DEF FindFrom, AfterUnblock, KernelTypeOK
  <2> QED BY <1>0, <2>1, <2>2, <2>3, <2>4 DEF KernelTypeOK, KernelPcs, KernelCalls,
     NoEntryPcs, UnblockPcs, PutPcs, WritePcs, ReadPcs
<1>19. CASE user_mutex_sem_acquire_locked(t)
  <2>1. word' \in [Words -> SUBSET Flags] /\ value' \in [Sems -> Int]
    BY <1>19, <1>t, Typed DEF user_mutex_sem_acquire_locked, Goto, entryVars, KernelTypeOK,
       wordVars, NoEntryPcs, UnblockPcs, PutPcs
  <2>2. /\ table' \in [Addresses -> Entries \cup {NULL}] /\ alive' \subseteq Entries
        /\ ref_count' \in [Entries -> Nat]
    BY <1>19, <1>t, Typed DEF user_mutex_sem_acquire_locked, Goto, entryVars, KernelTypeOK,
       NoEntryPcs, UnblockPcs, PutPcs
  <2>3. kpc' \in [Threads -> KernelPcs] /\ args' \in [Threads -> KernelCalls]
    BY <1>19, <1>p, Typed DEF user_mutex_sem_acquire_locked, Goto, entryVars, KernelPcs,
       KernelCalls, WritePcs, ReadPcs, NoCall, NoEntryPcs, UnblockPcs, PutPcs
  <2>4. /\ entry' \in [Threads -> Entries \cup {NULL}]
        /\ fromEntry' \in [Threads -> Entries \cup {NULL}]
        /\ status' \in [Threads -> Results] /\ leaving' \subseteq Threads
    BY <1>19, <1>t, Typed DEF user_mutex_sem_acquire_locked, Goto, entryVars, KernelTypeOK,
       Results, NoEntryPcs, UnblockPcs, PutPcs
  <2> QED BY <1>0, <2>1, <2>2, <2>3, <2>4 DEF KernelTypeOK, KernelPcs, KernelCalls,
     NoEntryPcs, UnblockPcs, PutPcs, WritePcs, ReadPcs
<1>20. CASE user_mutex_sem_release(t)
  <2>1. word' \in [Words -> SUBSET Flags] /\ value' \in [Sems -> Int]
    BY <1>20, <1>t, Typed DEF user_mutex_sem_release, Goto, KernelTypeOK, wordVars,
       NoEntryPcs, UnblockPcs, PutPcs
  <2>2. /\ table' \in [Addresses -> Entries \cup {NULL}] /\ alive' \subseteq Entries
        /\ ref_count' \in [Entries -> Nat]
    BY <1>20, <1>t, Typed DEF user_mutex_sem_release, Goto, KernelTypeOK, NoEntryPcs,
       UnblockPcs, PutPcs
  <2>3. kpc' \in [Threads -> KernelPcs] /\ args' \in [Threads -> KernelCalls]
    BY <1>20, <1>p, Typed DEF user_mutex_sem_release, Goto, KernelPcs, KernelCalls, WritePcs,
       ReadPcs, NoCall, NoEntryPcs, UnblockPcs, PutPcs
  <2>4. /\ entry' \in [Threads -> Entries \cup {NULL}]
        /\ fromEntry' \in [Threads -> Entries \cup {NULL}]
        /\ status' \in [Threads -> Results] /\ leaving' \subseteq Threads
    BY <1>20, <1>t, Typed DEF user_mutex_sem_release, Goto, KernelTypeOK, Results, NoEntryPcs,
       UnblockPcs, PutPcs
  <2> QED BY <1>0, <2>1, <2>2, <2>3, <2>4 DEF KernelTypeOK, KernelPcs, KernelCalls,
     NoEntryPcs, UnblockPcs, PutPcs, WritePcs, ReadPcs
<1>21. CASE SemReleaseLast(t)
  BY <1>21, <1>0, <1>t, Typed DEF SemReleaseLast, Goto, entryVars, KernelTypeOK, WritePcs,
     ReadPcs, NoEntryPcs, UnblockPcs, PutPcs, NoCall, Results
<1>22. CASE KernelGiveUp(t)
  BY <1>22, <1>0, <1>t, Typed DEF KernelGiveUp, GiveUp, wordVars, KernelTypeOK, WritePcs,
     ReadPcs, NoEntryPcs, UnblockPcs, PutPcs, NoCall, Results
<1> QED
  BY <1>1, <1>2, <1>3, <1>4, <1>5, <1>6, <1>7, <1>8, <1>9, <1>10, <1>11, <1>12, <1>13, <1>14,
    <1>15, <1>16, <1>17, <1>18, <1>19, <1>20, <1>21, <1>22
     DEF KernelNext, KernelStep, SwitchStep, SemStep

\* How the sets of addresses lie to each other.
LEMMA MutexTypes ==
    /\ Mutexes \subseteq Addresses /\ Conds \subseteq Addresses /\ Sems \subseteq Addresses
    /\ Mutexes \subseteq Words /\ Conds \subseteq Words /\ Words \subseteq Addresses
    /\ \A c \in Conds : MutexOf[c] \in Mutexes
    /\ NULL \notin Addresses /\ NULL \notin Entries /\ NULL \notin Threads
    /\ Mutexes \cap Conds = {} /\ Words \cap Sems = {} /\ Words = Mutexes \cup Conds
BY UserMutexAssumption, PthreadAssumption DEF Addresses

\* System call o begins, for address a and from f.
Begun(t, o, a, f, all, label) ==
    /\ kpc' = [kpc EXCEPT ![t] = label] /\ kpc'[t] = label
    /\ args' \in [Threads -> KernelCalls]
    /\ args'[t].op = o /\ args'[t].at = a /\ args'[t].from = f
    /\ args'[t].all = all /\ args'[t].added = FALSE
    /\ UNCHANGED <<entryVars, entry, fromEntry, status>>

\* What each system call leaves behind when libroot has entered it: _user_mutex_lock,
LEMMA LockCall ==
    ASSUME TypeOK, NEW t \in Threads, NEW a \in Mutexes, NEW b \in BOOLEAN,
           _user_mutex_lock(t, a, b)
    PROVE  Begun(t, "lock", a, NULL, FALSE, "get") /\ args'[t].timed = b
<1> DEFINE call == [NoCall EXCEPT !.op = "lock", !.at = a, !.timed = b]
<1>1. /\ args' = [args EXCEPT ![t] = call] /\ kpc' = [kpc EXCEPT ![t] = "get"]
      /\ UNCHANGED <<entryVars, entry, fromEntry, status>>
  BY DEF _user_mutex_lock, SystemCall, Goto
<1>2. args \in [Threads -> KernelCalls] /\ DOMAIN kpc = Threads
  BY DEF TypeOK, KernelTypeOK, KernelCalls
<1>3. /\ call \in KernelCalls /\ call.op = "lock" /\ call.at = a /\ call.from = NULL
      /\ call.all = FALSE /\ call.added = FALSE /\ call.timed = b
  BY MutexTypes DEF NoCall, KernelCalls, Calls
<1> HIDE DEF call
<1>4. args' \in [Threads -> KernelCalls] /\ args'[t] = call /\ kpc'[t] = "get"
  BY <1>1, <1>2, <1>3
<1> QED BY <1>1, <1>3, <1>4 DEF Begun

\* _user_mutex_switch_lock,
LEMMA SwitchCall ==
    ASSUME TypeOK, NEW t \in Threads, NEW a \in Conds, NEW f \in Mutexes, NEW b \in BOOLEAN,
           _user_mutex_switch_lock(t, f, a, b)
    PROVE  Begun(t, "switch", a, f, FALSE, "get")
<1> DEFINE call == [NoCall EXCEPT !.op = "switch", !.at = a, !.from = f, !.timed = b]
<1>1. /\ args' = [args EXCEPT ![t] = call] /\ kpc' = [kpc EXCEPT ![t] = "get"]
      /\ UNCHANGED <<entryVars, entry, fromEntry, status>>
  BY DEF _user_mutex_switch_lock, SystemCall, Goto
<1>2. args \in [Threads -> KernelCalls] /\ DOMAIN kpc = Threads
  BY DEF TypeOK, KernelTypeOK, KernelCalls
<1>3. /\ call \in KernelCalls /\ call.op = "switch" /\ call.at = a /\ call.from = f
      /\ call.all = FALSE /\ call.added = FALSE
  BY MutexTypes DEF NoCall, KernelCalls, Calls
<1> HIDE DEF call
<1>4. args' \in [Threads -> KernelCalls] /\ args'[t] = call /\ kpc'[t] = "get"
  BY <1>1, <1>2, <1>3
<1> QED BY <1>1, <1>3, <1>4 DEF Begun

\* _user_mutex_unblock,
LEMMA UnblockCall ==
    ASSUME TypeOK, NEW t \in Threads, NEW a \in Words, NEW b \in BOOLEAN,
           _user_mutex_unblock(t, a, b)
    PROVE  Begun(t, "unblock", a, NULL, b, "find")
<1> DEFINE call == [NoCall EXCEPT !.op = "unblock", !.at = a, !.all = b]
<1>1. /\ args' = [args EXCEPT ![t] = call] /\ kpc' = [kpc EXCEPT ![t] = "find"]
      /\ UNCHANGED <<entryVars, entry, fromEntry, status>>
  BY DEF _user_mutex_unblock, SystemCall, Goto
<1>2. args \in [Threads -> KernelCalls] /\ DOMAIN kpc = Threads
  BY DEF TypeOK, KernelTypeOK, KernelCalls
<1>3. /\ call \in KernelCalls /\ call.op = "unblock" /\ call.at = a /\ call.from = NULL
      /\ call.all = b /\ call.added = FALSE
  BY MutexTypes DEF NoCall, KernelCalls, Calls
<1> HIDE DEF call
<1>4. args' \in [Threads -> KernelCalls] /\ args'[t] = call /\ kpc'[t] = "find"
  BY <1>1, <1>2, <1>3
<1> QED BY <1>1, <1>3, <1>4 DEF Begun

\* _user_mutex_sem_acquire,
LEMMA AcquireCall ==
    ASSUME TypeOK, NEW t \in Threads, NEW a \in Sems, NEW b \in BOOLEAN,
           _user_mutex_sem_acquire(t, a, b)
    PROVE  Begun(t, "sem_acquire", a, NULL, FALSE, "get")
<1> DEFINE call == [NoCall EXCEPT !.op = "sem_acquire", !.at = a, !.timed = b]
<1>1. /\ args' = [args EXCEPT ![t] = call] /\ kpc' = [kpc EXCEPT ![t] = "get"]
      /\ UNCHANGED <<entryVars, entry, fromEntry, status>>
  BY DEF _user_mutex_sem_acquire, SystemCall, Goto
<1>2. args \in [Threads -> KernelCalls] /\ DOMAIN kpc = Threads
  BY DEF TypeOK, KernelTypeOK, KernelCalls
<1>3. /\ call \in KernelCalls /\ call.op = "sem_acquire" /\ call.at = a /\ call.from = NULL
      /\ call.all = FALSE /\ call.added = FALSE
  BY MutexTypes DEF NoCall, KernelCalls, Calls
<1> HIDE DEF call
<1>4. args' \in [Threads -> KernelCalls] /\ args'[t] = call /\ kpc'[t] = "get"
  BY <1>1, <1>2, <1>3
<1> QED BY <1>1, <1>3, <1>4 DEF Begun

\* _user_mutex_sem_release.
LEMMA ReleaseCall ==
    ASSUME TypeOK, NEW t \in Threads, NEW a \in Sems,
           _user_mutex_sem_release(t, a)
    PROVE  Begun(t, "sem_release", a, NULL, FALSE, "get")
<1> DEFINE call == [NoCall EXCEPT !.op = "sem_release", !.at = a]
<1>1. /\ args' = [args EXCEPT ![t] = call] /\ kpc' = [kpc EXCEPT ![t] = "get"]
      /\ UNCHANGED <<entryVars, entry, fromEntry, status>>
  BY DEF _user_mutex_sem_release, SystemCall, Goto
<1>2. args \in [Threads -> KernelCalls] /\ DOMAIN kpc = Threads
  BY DEF TypeOK, KernelTypeOK, KernelCalls
<1>3. /\ call \in KernelCalls /\ call.op = "sem_release" /\ call.at = a /\ call.from = NULL
      /\ call.all = FALSE /\ call.added = FALSE
  BY MutexTypes DEF NoCall, KernelCalls, Calls
<1> HIDE DEF call
<1>4. args' \in [Threads -> KernelCalls] /\ args'[t] = call /\ kpc'[t] = "get"
  BY <1>1, <1>2, <1>3
<1> QED BY <1>1, <1>3, <1>4 DEF Begun

Still == UNCHANGED <<entryVars, callVars>>

\* What libroot's functions do, with the system calls they may begin.
LEMMA SetLockedForm ==
    ASSUME TypeOK, NEW t \in Threads, NEW m \in Mutexes, NEW timed, timed \in BOOLEAN, NEW label,
           SetLocked(t, m, timed, label)
    PROVE  \/ /\ word[m] = {} /\ word' = [word EXCEPT ![m] = {"LOCKED"}]
              /\ upc' = [upc EXCEPT ![t] = "own"] /\ Still
           \/ /\ word[m] # {} /\ word' = word
              /\ upc' = [upc EXCEPT ![t] = label] /\ Begun(t, "lock", m, NULL, FALSE, "get")
              /\ args'[t].timed = timed
<1>1. ASSUME _user_mutex_lock(t, m, timed)
      PROVE  Begun(t, "lock", m, NULL, FALSE, "get") /\ args'[t].timed = timed
  BY <1>1, LockCall
<1> QED BY <1>1 DEF SetLocked, UGoto, KernelUnchanged, Still

\* Clearing LOCKED with an atomic AND calls the kernel exactly when WAITING was set.
LEMMA ReleaseForm ==
    ASSUME TypeOK, NEW t \in Threads, NEW w \in Words, NEW all \in BOOLEAN, Release(t, w, all)
    PROVE  /\ word' = [word EXCEPT ![w] = @ \ {"LOCKED"}]
           /\ IF "WAITING" \in word[w] THEN Begun(t, "unblock", w, NULL, all, "find") ELSE Still
<1>1. ASSUME _user_mutex_unblock(t, w, all) PROVE Begun(t, "unblock", w, NULL, all, "find")
  BY <1>1, UnblockCall
<1> QED BY <1>1 DEF Release, KernelUnchanged, Still

\* pthread_mutex_lock: the atomic OR takes a free mutex, or the kernel is called.
LEMMA LockForm ==
    ASSUME TypeOK, NEW t \in Threads, NEW m \in Mutexes, pthread_mutex_lock(t, m)
    PROVE  \/ /\ word[m] = {} /\ word' = [word EXCEPT ![m] = {"LOCKED"}]
              /\ upc' = [upc EXCEPT ![t] = "own"] /\ Still
           \/ /\ word[m] # {} /\ word' = word
              /\ upc' = [upc EXCEPT ![t] = "lock"] /\ Begun(t, "lock", m, NULL, FALSE, "get")
<1>1. (t \in TimedThreads) \in BOOLEAN
  OBVIOUS
<1>2. ASSUME _user_mutex_lock(t, m, t \in TimedThreads)
      PROVE  Begun(t, "lock", m, NULL, FALSE, "get")
  BY <1>1, <1>2, LockCall, Zenon
<1> QED BY <1>2 DEF pthread_mutex_lock, SetLocked, UGoto, KernelUnchanged, Still

\* What a lock does with the status the kernel returned: own, retry or give up.
LEMMA LockReturnForm ==
    ASSUME TypeOK, CallsAreSound, NEW t \in Threads, LockReturn(t)
    PROVE  \/ /\ status[t] = "B_OK" /\ upc' = [upc EXCEPT ![t] = "own"] /\ Still
              /\ UNCHANGED target
           \/ /\ status[t] = "B_INTERRUPTED" /\ UNCHANGED <<upc, target>>
              /\ Begun(t, "lock", target[t], NULL, FALSE, "get")
              /\ upc[t] = "relock" => ~args'[t].timed
           \/ /\ status[t] = "B_TIMED_OUT" /\ upc' = [upc EXCEPT ![t] = "idle"] /\ Still
              /\ target' = [target EXCEPT ![t] = NULL]
<1> DEFINE timed == upc[t] = "lock" /\ t \in TimedThreads
<1>1. timed \in BOOLEAN
  OBVIOUS
<1>2. target[t] \in Mutexes
  BY DEF LockReturn, CallsAreSound, UserIsSound
<1>3. \/ /\ status[t] = "B_OK" /\ upc' = [upc EXCEPT ![t] = "own"] /\ Still
         /\ UNCHANGED target
      \/ /\ status[t] = "B_INTERRUPTED" /\ UNCHANGED <<upc, target>>
         /\ _user_mutex_lock(t, target[t], timed)
      \/ /\ status[t] = "B_TIMED_OUT" /\ upc' = [upc EXCEPT ![t] = "idle"] /\ Still
         /\ target' = [target EXCEPT ![t] = NULL]
  BY DEF LockReturn, UGoto, Still, KernelUnchanged
<1>5. upc[t] = "relock" => ~timed
  OBVIOUS
<1> HIDE DEF timed
<1>4. ASSUME _user_mutex_lock(t, target[t], timed)
      PROVE  Begun(t, "lock", target[t], NULL, FALSE, "get") /\ args'[t].timed = timed
  BY <1>1, <1>2, <1>4, LockCall, Zenon
<1> QED BY <1>3, <1>4, <1>5

\* Back from the wait, the mutex is taken again without a timeout.
LEMMA CondReturnForm ==
    ASSUME TypeOK, CallsAreSound, NEW t \in Threads, CondReturn(t)
    PROVE  /\ MutexOf[cond[t]] \in Mutexes
           /\ \/ /\ word[MutexOf[cond[t]]] = {}
                 /\ word' = [word EXCEPT ![MutexOf[cond[t]]] = {"LOCKED"}]
                 /\ upc' = [upc EXCEPT ![t] = "own"] /\ Still
              \/ /\ word[MutexOf[cond[t]]] # {} /\ word' = word
                 /\ upc' = [upc EXCEPT ![t] = "relock"]
                 /\ Begun(t, "lock", MutexOf[cond[t]], NULL, FALSE, "get")
                 /\ ~args'[t].timed
<1>1. SetLocked(t, MutexOf[cond[t]], FALSE, "relock") /\ MutexOf[cond[t]] \in Mutexes
  BY MutexTypes DEF CondReturn, CallsAreSound, UserIsSound
<1>2. FALSE \in BOOLEAN
  OBVIOUS
<1>3. ASSUME _user_mutex_lock(t, MutexOf[cond[t]], FALSE)
      PROVE  Begun(t, "lock", MutexOf[cond[t]], NULL, FALSE, "get") /\ args'[t].timed = FALSE
  BY <1>1, <1>2, <1>3, LockCall, Zenon
<1> QED BY <1>1, <1>3 DEF SetLocked, UGoto, KernelUnchanged, Still

\* A wait switches from the mutex of its condition variable.
LEMMA SwitchForm ==
    ASSUME TypeOK, CallsAreSound, NEW t \in Threads, CondSwitch(t)
    PROVE  Begun(t, "switch", cond[t], MutexOf[cond[t]], FALSE, "get")
<1>1. (t \in TimedThreads) \in BOOLEAN
  OBVIOUS
<1>2. cond[t] \in Conds /\ MutexOf[cond[t]] \in Mutexes
  BY MutexTypes DEF CondSwitch, CallsAreSound, UserIsSound
<1>3. _user_mutex_switch_lock(t, MutexOf[cond[t]], cond[t], t \in TimedThreads)
  BY DEF CondSwitch
<1> QED BY <1>1, <1>2, <1>3, SwitchCall, Zenon

\* sem_wait takes a unit that is there, or calls the kernel.
LEMMA SemWaitForm ==
    ASSUME TypeOK, NEW t \in Threads, NEW s \in Sems, sem_wait(t, s)
    PROVE  \/ /\ value[s] > 0 /\ value' = [value EXCEPT ![s] = @ - 1]
              /\ units' = [units EXCEPT ![s] = @ - 1] /\ Still /\ UNCHANGED <<upc, target>>
           \/ /\ value[s] <= 0 /\ Begun(t, "sem_acquire", s, NULL, FALSE, "get")
              /\ target' = [target EXCEPT ![t] = s] /\ upc' = [upc EXCEPT ![t] = "sem"]
              /\ UNCHANGED <<value, units>>
<1>1. (t \in TimedThreads) \in BOOLEAN
  OBVIOUS
<1>2. ASSUME _user_mutex_sem_acquire(t, s, t \in TimedThreads)
      PROVE  Begun(t, "sem_acquire", s, NULL, FALSE, "get")
  BY <1>1, <1>2, AcquireCall, Zenon
<1> QED BY <1>2 DEF sem_wait, UGoto, Still, KernelUnchanged

\* sem_post adds a unit where nobody waits, or calls the kernel.
LEMMA SemPostForm ==
    ASSUME TypeOK, NEW t \in Threads, NEW s \in Sems, sem_post(t, s)
    PROVE  \/ value[s] > -1 /\ value' = [value EXCEPT ![s] = @ + 1] /\ Still
           \/ /\ value[s] <= -1 /\ Begun(t, "sem_release", s, NULL, FALSE, "get")
              /\ UNCHANGED value
<1>2. ASSUME _user_mutex_sem_release(t, s)
      PROVE  Begun(t, "sem_release", s, NULL, FALSE, "get")
  BY <1>2, ReleaseCall
<1> QED BY <1>2 DEF sem_post, Still, KernelUnchanged

\* An unlock releases the mutex its thread has given up.
LEMMA UnlockForm ==
    ASSUME TypeOK, CallsAreSound, NEW t \in Threads, UnlockWord(t)
    PROVE  /\ target[t] \in Mutexes
           /\ word' = [word EXCEPT ![target[t]] = @ \ {"LOCKED"}]
           /\ IF "WAITING" \in word[target[t]]
              THEN Begun(t, "unblock", target[t], NULL, FALSE, "find") ELSE Still
<1>1. target[t] \in Mutexes /\ target[t] \in Words
  BY MutexTypes DEF UnlockWord, CallsAreSound, UserIsSound
<1>2. Release(t, target[t], FALSE) /\ FALSE \in BOOLEAN
  BY DEF UnlockWord
<1> QED BY <1>1, <1>2, ReleaseForm, Zenon

\* A signal or a broadcast releases the word of the condition variable.
LEMMA SignalForm ==
    ASSUME TypeOK, NEW t \in Threads, NEW c \in Conds, NEW all \in BOOLEAN, cond_signal(t, c, all)
    PROVE  /\ word' = [word EXCEPT ![c] = @ \ {"LOCKED"}]
           /\ IF "WAITING" \in word[c] THEN Begun(t, "unblock", c, NULL, all, "find") ELSE Still
<1>1. Release(t, c, all) /\ c \in Words
  BY MutexTypes DEF cond_signal
<1> QED BY <1>1, ReleaseForm

\* A step in libroot starts from outside of the kernel and leaves the entries alone;
\* it may begin a system call.
Begins(t) ==
    /\ kpc[t] = "idle" /\ args[t].op = "none"
    /\ UNCHANGED <<entryVars, entry, fromEntry, status>>
    /\ \/ UNCHANGED <<kpc, args>>
       \/ /\ args' \in [Threads -> KernelCalls]
          /\ \/ kpc' = [kpc EXCEPT ![t] = "find"] /\ args'[t].op = "unblock"
             \/ /\ kpc' = [kpc EXCEPT ![t] = "get"]
                /\ args'[t].op \in {"lock", "switch", "sem_acquire", "sem_release"}

\* A step of libroot leaves the kernel alone or enters one system call.
LEMMA UserBegins ==
    ASSUME TypeOK, CallsAreSound, NEW t \in Threads, UserNext(t)
    PROVE  Begins(t)
<1>0. CallIsSound(t) /\ UserIsSound(t)
  BY DEF CallsAreSound
<1>t. args[t].op \in Calls \cup {"none"}
  BY Typed
<1>k. args[t].op = "none" <=> kpc[t] = "idle"
  BY <1>0, <1>t DEF CallIsSound, Calls, UnblockPcs, PutPcs
<1>u. upc[t] \in {"own", "unlock", "cond_lock", "cond_done", "cond_reset"} => kpc[t] = "idle"
  BY <1>0, <1>k DEF UserIsSound

<1>1. CASE LockReturn(t)
  BY <1>1, <1>k, <1>u, LockReturnForm DEF LockReturn, Begins, Begun, Still, callVars
<1>2. CASE TakeOwnership(t)
  BY <1>2, <1>k, <1>u DEF TakeOwnership, UGoto, KernelUnchanged, Begins, Begun, Still, callVars
<1>3. CASE UnlockWord(t)
  BY <1>3, <1>k, <1>u, UnlockForm DEF UnlockWord, UGoto, Begins, Begun, Still, callVars
<1>4. CASE CondSwitch(t)
  BY <1>4, <1>k, <1>u, SwitchForm DEF CondSwitch, UGoto, Begins, Begun, Still, callVars
<1>5. CASE CondReturn(t)
  BY <1>5, <1>k, <1>u, CondReturnForm DEF CondReturn, Begins, Begun, Still, callVars
<1>6. CASE CondLeave(t)
  BY <1>6, <1>k, <1>u DEF CondLeave, UGoto, KernelUnchanged, Begins, Begun, Still, callVars
<1>7. CASE CondReset(t)
  BY <1>7, <1>k, <1>u DEF CondReset, UGoto, KernelUnchanged, Begins, Begun, Still, callVars
<1>8. CASE SemReturn(t)
  BY <1>8, <1>k, <1>u DEF SemReturn, UGoto, KernelUnchanged, Begins, Begun, Still, callVars
<1>9. ASSUME NEW m \in Mutexes, pthread_mutex_lock(t, m) PROVE Begins(t)
  BY <1>9, <1>k, <1>u, LockForm DEF pthread_mutex_lock, Idle, Begins, Begun, Still, callVars
<1>10. ASSUME NEW m \in Mutexes, pthread_mutex_trylock(t, m) PROVE Begins(t)
  BY <1>10, <1>k, <1>u DEF pthread_mutex_trylock, Idle, UGoto, KernelUnchanged, Begins, Begun,
     Still, callVars
<1>11. ASSUME NEW m \in Mutexes, pthread_mutex_unlock(t, m) PROVE Begins(t)
  BY <1>11, <1>k, <1>u DEF pthread_mutex_unlock, Idle, UGoto, KernelUnchanged, Begins, Begun,
     Still, callVars
<1>12. ASSUME NEW c \in Conds, pthread_cond_wait(t, c) PROVE Begins(t)
  BY <1>12, <1>k, <1>u DEF pthread_cond_wait, Idle, UGoto, KernelUnchanged, Begins, Begun,
     Still, callVars
<1>13. ASSUME NEW c \in Conds, NEW all \in BOOLEAN, cond_signal(t, c, all) PROVE Begins(t)
  <2>1. IF "WAITING" \in word[c] THEN Begun(t, "unblock", c, NULL, all, "find") ELSE Still
    BY <1>13, SignalForm
  <2>2. kpc[t] = "idle"
    BY <1>13 DEF cond_signal, Idle
  <2>3. CASE Begun(t, "unblock", c, NULL, all, "find")
    BY <1>k, <2>2, <2>3 DEF Begins, Begun
  <2> QED BY <1>k, <2>1, <2>2, <2>3 DEF Begins, Still, callVars
<1>14. ASSUME NEW s \in Sems, sem_wait(t, s) PROVE Begins(t)
  BY <1>14, <1>k, <1>u, SemWaitForm DEF sem_wait, Idle, Begins, Begun, Still, callVars
<1>15. ASSUME NEW s \in Sems, sem_post(t, s) PROVE Begins(t)
  BY <1>15, <1>k, <1>u, SemPostForm DEF sem_post, Idle, Begins, Begun, Still, callVars
<1> QED
  BY <1>1, <1>2, <1>3, <1>4, <1>5, <1>6, <1>7, <1>8, <1>9, <1>10, <1>11, <1>12, <1>13, <1>14,
    <1>15 DEF UserNext

UserPcs == {"idle", "own", "lock", "unlock", "cond_lock", "cond", "relock", "cond_done",
            "cond_reset", "sem", "post"}

\* The types that both layers keep, counters apart.
LEMMA UserTypes ==
    ASSUME TypeOK, CallsAreSound, NEW t \in Threads, UserNext(t)
    PROVE  /\ KernelTypeOK'
           /\ owner' \in [Mutexes -> Threads \cup {NULL}]
           /\ upc' \in [Threads -> UserPcs]
           /\ target' \in [Threads -> Mutexes \cup Sems \cup {NULL}]
           /\ cond' \in [Threads -> Conds \cup {NULL}]
           /\ units' \in [Sems -> Int]
<1>b. Begins(t)
  BY UserBegins
<1>1. args' \in [Threads -> KernelCalls] /\ kpc' \in [Threads -> KernelPcs]
  <2>1. args \in [Threads -> KernelCalls] /\ kpc \in [Threads -> KernelPcs]
    BY DEF TypeOK, KernelTypeOK, KernelPcs, KernelCalls, WritePcs, ReadPcs, NoEntryPcs,
       UnblockPcs, PutPcs
  <2>2. {"find", "get"} \subseteq KernelPcs
    BY DEF KernelPcs, NoEntryPcs
  <2> QED BY <1>b, <2>1, <2>2 DEF Begins
<1>u. UserIsSound(t)
  BY DEF CallsAreSound
<1>w. word \in [Words -> SUBSET Flags] /\ value \in [Sems -> Int] /\ {"LOCKED"} \in SUBSET Flags
  BY DEF TypeOK, KernelTypeOK, Flags
<1>2. word' \in [Words -> SUBSET Flags] /\ value' \in [Sems -> Int]

  <2>1. CASE LockReturn(t)
    BY <2>1, <1>w, MutexTypes, LockReturnForm DEF LockReturn, wordVars
  <2>2. CASE TakeOwnership(t)
    BY <2>2, <1>w, MutexTypes DEF TakeOwnership, UGoto, KernelUnchanged, wordVars
  <2>3. CASE UnlockWord(t)
    BY <2>3, <1>w, <1>u, MutexTypes DEF UnlockWord, Release, UserIsSound
  <2>4. CASE CondSwitch(t)
    BY <2>4, <1>w, MutexTypes, SwitchForm DEF CondSwitch, UGoto, wordVars
  <2>5. CASE CondReturn(t)
    <3>1. MutexOf[cond[t]] \in Words
      BY <2>5, <1>u, MutexTypes DEF CondReturn, UserIsSound
    <3>2. /\ word' = word \/ word' = [word EXCEPT ![MutexOf[cond[t]]] = {"LOCKED"}]
          /\ value' = value
      BY <2>5 DEF CondReturn, SetLocked
    <3> QED BY <1>w, <3>1, <3>2
  <2>6. CASE CondLeave(t)
    BY <2>6, <1>w, MutexTypes DEF CondLeave, UGoto, KernelUnchanged, wordVars
  <2>7. CASE CondReset(t)
    BY <2>7, <1>w, MutexTypes DEF CondReset, UGoto, KernelUnchanged, wordVars
  <2>8. CASE SemReturn(t)
    BY <2>8, <1>w, MutexTypes DEF SemReturn, UGoto, KernelUnchanged, wordVars
  <2>9. ASSUME NEW m \in Mutexes, pthread_mutex_lock(t, m)
        PROVE  word' \in [Words -> SUBSET Flags] /\ value' \in [Sems -> Int]
    BY <2>9, <1>w, MutexTypes DEF pthread_mutex_lock, SetLocked
  <2>10. ASSUME NEW m \in Mutexes, pthread_mutex_trylock(t, m)
        PROVE  word' \in [Words -> SUBSET Flags] /\ value' \in [Sems -> Int]
    BY <2>10, <1>w, MutexTypes DEF pthread_mutex_trylock, Idle, UGoto, KernelUnchanged,
       wordVars
  <2>11. ASSUME NEW m \in Mutexes, pthread_mutex_unlock(t, m)
        PROVE  word' \in [Words -> SUBSET Flags] /\ value' \in [Sems -> Int]
    BY <2>11, <1>w, MutexTypes DEF pthread_mutex_unlock, Idle, UGoto, KernelUnchanged,
       wordVars
  <2>12. ASSUME NEW c \in Conds, pthread_cond_wait(t, c)
        PROVE  word' \in [Words -> SUBSET Flags] /\ value' \in [Sems -> Int]
    BY <2>12, <1>w, MutexTypes DEF pthread_cond_wait, Idle, UGoto, KernelUnchanged, wordVars
  <2>13. ASSUME NEW c \in Conds, NEW all \in BOOLEAN, cond_signal(t, c, all)
        PROVE  word' \in [Words -> SUBSET Flags] /\ value' \in [Sems -> Int]
    BY <2>13, <1>w, MutexTypes DEF cond_signal, Release
  <2>14. ASSUME NEW s \in Sems, sem_wait(t, s)
        PROVE  word' \in [Words -> SUBSET Flags] /\ value' \in [Sems -> Int]
    BY <2>14, <1>w, MutexTypes, SemWaitForm DEF sem_wait, Idle, wordVars
  <2>15. ASSUME NEW s \in Sems, sem_post(t, s)
        PROVE  word' \in [Words -> SUBSET Flags] /\ value' \in [Sems -> Int]
    BY <2>15, <1>w, MutexTypes, SemPostForm DEF sem_post, Idle, wordVars
  <2> QED
    BY <2>1, <2>2, <2>3, <2>4, <2>5, <2>6, <2>7, <2>8, <2>9, <2>10, <2>11, <2>12, <2>13, <2>14,
      <2>15 DEF UserNext
<1>p. /\ upc \in [Threads -> UserPcs]
      /\ {"idle", "own", "lock", "unlock", "cond_lock", "cond", "relock", "cond_done", "cond_reset",
          "sem"} \subseteq UserPcs
  BY DEF TypeOK, UserPcs
<1>3. upc' \in [Threads -> UserPcs]

  <2>1. CASE LockReturn(t)
    BY <2>1, <1>p, LockReturnForm DEF LockReturn
  <2>2. CASE TakeOwnership(t)
    BY <2>2, <1>p DEF TakeOwnership, UGoto, KernelUnchanged
  <2>3. CASE UnlockWord(t)
    BY <2>3, <1>p, UnlockForm DEF UnlockWord, UGoto
  <2>4. CASE CondSwitch(t)
    BY <2>4, <1>p, SwitchForm DEF CondSwitch, UGoto
  <2>5. CASE CondReturn(t)
    BY <2>5, <1>p, CondReturnForm DEF CondReturn
  <2>6. CASE CondLeave(t)
    BY <2>6, <1>p DEF CondLeave, UGoto, KernelUnchanged
  <2>7. CASE CondReset(t)
    BY <2>7, <1>p DEF CondReset, UGoto, KernelUnchanged
  <2>8. CASE SemReturn(t)
    BY <2>8, <1>p DEF SemReturn, UGoto, KernelUnchanged
  <2>9. ASSUME NEW m \in Mutexes, pthread_mutex_lock(t, m)
        PROVE  upc' \in [Threads -> UserPcs]
    BY <2>9, <1>p, LockForm DEF pthread_mutex_lock, Idle
  <2>10. ASSUME NEW m \in Mutexes, pthread_mutex_trylock(t, m)
        PROVE  upc' \in [Threads -> UserPcs]
    BY <2>10, <1>p DEF pthread_mutex_trylock, Idle, UGoto, KernelUnchanged
  <2>11. ASSUME NEW m \in Mutexes, pthread_mutex_unlock(t, m)
        PROVE  upc' \in [Threads -> UserPcs]
    BY <2>11, <1>p DEF pthread_mutex_unlock, Idle, UGoto, KernelUnchanged
  <2>12. ASSUME NEW c \in Conds, pthread_cond_wait(t, c)
        PROVE  upc' \in [Threads -> UserPcs]
    BY <2>12, <1>p DEF pthread_cond_wait, Idle, UGoto, KernelUnchanged
  <2>13. ASSUME NEW c \in Conds, NEW all \in BOOLEAN, cond_signal(t, c, all)
        PROVE  upc' \in [Threads -> UserPcs]
    BY <2>13, <1>p, SignalForm DEF cond_signal, Idle
  <2>14. ASSUME NEW s \in Sems, sem_wait(t, s)
        PROVE  upc' \in [Threads -> UserPcs]
    BY <2>14, <1>p, SemWaitForm DEF sem_wait, Idle
  <2>15. ASSUME NEW s \in Sems, sem_post(t, s)
        PROVE  upc' \in [Threads -> UserPcs]
    BY <2>15, <1>p, SemPostForm DEF sem_post, Idle
  <2> QED
    BY <2>1, <2>2, <2>3, <2>4, <2>5, <2>6, <2>7, <2>8, <2>9, <2>10, <2>11, <2>12, <2>13, <2>14,
      <2>15 DEF UserNext
<1>o. /\ owner \in [Mutexes -> Threads \cup {NULL}]
      /\ target \in [Threads -> Mutexes \cup Sems \cup {NULL}]
      /\ cond \in [Threads -> Conds \cup {NULL}] /\ units \in [Sems -> Int]
  BY DEF TypeOK
<1>4. /\ owner' \in [Mutexes -> Threads \cup {NULL}]
      /\ target' \in [Threads -> Mutexes \cup Sems \cup {NULL}]
      /\ cond' \in [Threads -> Conds \cup {NULL}] /\ units' \in [Sems -> Int]
  <2> DEFINE Goal == /\ owner' \in [Mutexes -> Threads \cup {NULL}]
                     /\ target' \in [Threads -> Mutexes \cup Sems \cup {NULL}]
                     /\ cond' \in [Threads -> Conds \cup {NULL}] /\ units' \in [Sems -> Int]

  <2>1. CASE LockReturn(t)
    BY <2>1, <1>o, <1>u, MutexTypes, LockReturnForm DEF LockReturn, UserIsSound
  <2>2. CASE TakeOwnership(t)
    BY <2>2, <1>o, <1>u, MutexTypes DEF TakeOwnership, UGoto, KernelUnchanged, UserIsSound
  <2>3. CASE UnlockWord(t)
    BY <2>3, <1>o, <1>u, MutexTypes, UnlockForm DEF UnlockWord, UGoto, UserIsSound
  <2>4. CASE CondSwitch(t)
    BY <2>4, <1>o, <1>u, MutexTypes, SwitchForm DEF CondSwitch, UGoto, UserIsSound
  <2>5. CASE CondReturn(t)
    BY <2>5, <1>o, <1>u, MutexTypes, CondReturnForm DEF CondReturn, UserIsSound
  <2>6. CASE CondLeave(t)
    BY <2>6, <1>o, <1>u, MutexTypes DEF CondLeave, UGoto, KernelUnchanged, UserIsSound
  <2>7. CASE CondReset(t)
    BY <2>7, <1>o, <1>u, MutexTypes DEF CondReset, UGoto, KernelUnchanged, UserIsSound
  <2>8. CASE SemReturn(t)
    BY <2>8, <1>o, <1>u, MutexTypes DEF SemReturn, UGoto, KernelUnchanged, UserIsSound
  <2>9. ASSUME NEW m \in Mutexes, pthread_mutex_lock(t, m) PROVE Goal
    BY <2>9, <1>o, <1>u, MutexTypes, LockForm DEF pthread_mutex_lock, Idle, UserIsSound
  <2>10. ASSUME NEW m \in Mutexes, pthread_mutex_trylock(t, m) PROVE Goal
    BY <2>10, <1>o, <1>u, MutexTypes DEF pthread_mutex_trylock, Idle, UGoto, KernelUnchanged,
       UserIsSound
  <2>11. ASSUME NEW m \in Mutexes, pthread_mutex_unlock(t, m) PROVE Goal
    BY <2>11, <1>o, <1>u, MutexTypes DEF pthread_mutex_unlock, Idle, UGoto, KernelUnchanged,
       UserIsSound
  <2>12. ASSUME NEW c \in Conds, pthread_cond_wait(t, c) PROVE Goal
    BY <2>12, <1>o, <1>u, MutexTypes DEF pthread_cond_wait, Idle, UGoto, KernelUnchanged,
       UserIsSound
  <2>13. ASSUME NEW c \in Conds, NEW all \in BOOLEAN, cond_signal(t, c, all) PROVE Goal
    BY <2>13, <1>o, <1>u, MutexTypes, SignalForm DEF cond_signal, Idle, UserIsSound
  <2>14. ASSUME NEW s \in Sems, sem_wait(t, s) PROVE Goal
    BY <2>14, <1>o, <1>u, MutexTypes, SemWaitForm DEF sem_wait, Idle, UserIsSound
  <2>15. ASSUME NEW s \in Sems, sem_post(t, s) PROVE Goal
    BY <2>15, <1>o, <1>u, MutexTypes, SemPostForm DEF sem_post, Idle, UserIsSound
  <2> QED
    BY <2>1, <2>2, <2>3, <2>4, <2>5, <2>6, <2>7, <2>8, <2>9, <2>10, <2>11, <2>12, <2>13, <2>14,
      <2>15 DEF UserNext
<1>5. KernelTypeOK'
  <2>1. KernelTypeOK
    BY DEF TypeOK
  <2>2. UNCHANGED <<table, alive, ref_count, queue, leaving, entry, fromEntry, status>>
    BY <1>b DEF Begins, entryVars
  <2> QED BY <1>1, <1>2, <2>1, <2>2 DEF KernelTypeOK, KernelPcs, KernelCalls, NoEntryPcs,
     UnblockPcs, PutPcs, WritePcs, ReadPcs
<1> QED BY <1>3, <1>4, <1>5

-------------------------------------------------------------------------------
(* Where the threads are after a step. *)

\* A step of t cannot disturb where the other threads are.
LEMMA OthersAreSound ==
    ASSUME CallsAreSound, NEW t \in Threads, Frame(t), CallIsSound(t)', UserIsSound(t)'
    PROVE  CallsAreSound'
<1>1. ASSUME NEW u \in Threads \ {t} PROVE CallIsSound(u)' /\ UserIsSound(u)'
  <2>1. CallIsSound(u) /\ UserIsSound(u)
    BY DEF CallsAreSound
  <2>2. CallIsSound(u)'
    BY <2>1 DEF Frame, CallIsSound
  <2>3. UserIsSound(u)'
    BY <2>1 DEF Frame, UserIsSound
  <2> QED BY <2>2, <2>3
<1> QED BY <1>1 DEF CallsAreSound

\* In the kernel a thread goes on with its call, or returns from it.
GoesOn(t) ==
    \/ /\ args'[t].op = "none" /\ kpc'[t] = "idle" /\ entry'[t] = NULL /\ fromEntry'[t] = NULL
       /\ status'[t] = status[t] /\ kpc[t] \in {"find_null"} \cup PutPcs
    \/ /\ kpc'[t] # "idle" /\ args'[t].timed = args[t].timed
       /\ args'[t].op = args[t].op /\ args'[t].at = args[t].at /\ args'[t].from = args[t].from

\* A step of the kernel keeps its system call or ends it.
LEMMA KernelGoesOn ==
    ASSUME TypeOK, CallsAreSound, NEW t \in Threads, KernelNext(t)
    PROVE  GoesOn(t)
<1>0. CallIsSound(t)
  BY DEF CallsAreSound
<1>a. args[t] \in KernelCalls /\ NoCall.op = "none"
  BY DEF TypeOK, KernelTypeOK, KernelCalls, NoCall

<1>1. CASE get_user_mutex_entry(t)
  BY <1>1, <1>0, <1>a, Domains DEF get_user_mutex_entry, Found, Goto, GoesOn, CallIsSound,
     KernelCalls, NoEntryPcs, PutPcs
<1>2. CASE InsertEntry(t)
  BY <1>2, <1>0, <1>a, Domains DEF InsertEntry, Found, Goto, GoesOn, CallIsSound, KernelCalls,
     NoEntryPcs, PutPcs
<1>3. CASE put_user_mutex_entry(t)
  BY <1>3, <1>0, <1>a, Domains DEF put_user_mutex_entry, PutDone, PutEntry, Goto, GoesOn,
     CallIsSound, KernelCalls, NoEntryPcs, PutPcs
<1>4. CASE RemoveEntry(t)
  BY <1>4, <1>0, <1>a, Domains DEF RemoveEntry, PutDone, PutEntry, PutAddress, Goto, GoesOn,
     CallIsSound, KernelCalls, NoEntryPcs, PutPcs
<1>5. CASE user_mutex_prepare_to_lock(t)
  BY <1>5, <1>0, <1>a, Domains DEF user_mutex_prepare_to_lock, AfterLock, Goto, entryVars,
     GoesOn, CallIsSound, KernelCalls, NoEntryPcs, PutPcs
<1>6. CASE UnsetWaiting(t)
  BY <1>6, <1>0, <1>a, Domains DEF UnsetWaiting, AfterLock, Goto, entryVars, GoesOn,
     CallIsSound, KernelCalls, NoEntryPcs, PutPcs
<1>7. CASE AddWaiter(t)
  BY <1>7, <1>0, <1>a, Domains DEF AddWaiter, Goto, wordVars, GoesOn, CallIsSound, KernelCalls,
     NoEntryPcs, PutPcs
<1>8. CASE Leave(t)
  BY <1>8, <1>0, <1>a, Domains DEF Leave, wordVars, callVars, GoesOn, CallIsSound, KernelCalls,
     NoEntryPcs, PutPcs
<1>9. CASE WaitReturn(t)
  BY <1>9, <1>0, <1>a, Domains DEF WaitReturn, Goto, wordVars, GoesOn, CallIsSound, KernelCalls,
     NoEntryPcs, PutPcs
<1>10. CASE FindEntry(t)
  BY <1>10, <1>0, <1>a, Domains DEF FindEntry, Found, Goto, wordVars, GoesOn, CallIsSound,
     KernelCalls, NoEntryPcs, PutPcs
<1>11. CASE FindNull(t)
  BY <1>11, <1>0, <1>a, Domains DEF FindNull, Goto, entryVars, GoesOn, CallIsSound, KernelCalls,
     NoEntryPcs, UnblockPcs, PutPcs
<1>12. CASE user_mutex_unblock(t)
  BY <1>12, <1>0, <1>a, Domains DEF user_mutex_unblock, AfterUnblock, Goto, entryVars, GoesOn,
     CallIsSound, KernelCalls, NoEntryPcs, PutPcs
<1>13. CASE HandOff(t)
  BY <1>13, <1>0, <1>a, Domains DEF HandOff, AfterUnblock, Goto, entryVars, GoesOn, CallIsSound,
     KernelCalls, NoEntryPcs, PutPcs
<1>14. CASE NotifyWaiters(t)
  BY <1>14, <1>0, <1>a, Domains DEF NotifyWaiters, Goto, wordVars, GoesOn, CallIsSound,
     KernelCalls, NoEntryPcs, PutPcs
<1>15. CASE UndoHandOff(t)
  BY <1>15, <1>0, <1>a, Domains DEF UndoHandOff, Goto, entryVars, GoesOn, CallIsSound,
     KernelCalls, NoEntryPcs, PutPcs
<1>16. CASE UnblockLast(t)
  BY <1>16, <1>0, <1>a, Domains DEF UnblockLast, AfterUnblock, Goto, entryVars, GoesOn,
     CallIsSound, KernelCalls, NoEntryPcs, PutPcs
<1>17. CASE ClearFrom(t)
  BY <1>17, <1>0, <1>a, Domains DEF ClearFrom, AfterUnblock, Goto, entryVars, GoesOn,
     CallIsSound, KernelCalls, NoEntryPcs, PutPcs
<1>18. CASE FindFrom(t)
  BY <1>18, <1>0, <1>a, Domains DEF FindFrom, AfterUnblock, Goto, wordVars, GoesOn, CallIsSound,
     KernelCalls, NoEntryPcs, PutPcs
<1>19. CASE user_mutex_sem_acquire_locked(t)
  BY <1>19, <1>0, <1>a, Domains DEF user_mutex_sem_acquire_locked, Goto, entryVars, GoesOn,
     CallIsSound, KernelCalls, NoEntryPcs, PutPcs
<1>20. CASE user_mutex_sem_release(t)
  BY <1>20, <1>0, <1>a, Domains DEF user_mutex_sem_release, Goto, GoesOn, CallIsSound,
     KernelCalls, NoEntryPcs, PutPcs
<1>21. CASE SemReleaseLast(t)
  BY <1>21, <1>0, <1>a, Domains DEF SemReleaseLast, Goto, entryVars, GoesOn, CallIsSound,
     KernelCalls, NoEntryPcs, PutPcs
<1>22. CASE KernelGiveUp(t)
  BY <1>22, <1>0, <1>a, Domains DEF KernelGiveUp, GiveUp, wordVars, GoesOn, CallIsSound,
     KernelCalls, NoEntryPcs, PutPcs
<1> QED
  BY <1>1, <1>2, <1>3, <1>4, <1>5, <1>6, <1>7, <1>8, <1>9, <1>10, <1>11, <1>12, <1>13, <1>14,
    <1>15, <1>16, <1>17, <1>18, <1>19, <1>20, <1>21, <1>22
     DEF KernelNext, KernelStep, SwitchStep, SemStep

\* A step of the kernel takes its thread to a place its system call has.
LEMMA KernelCallIsSound ==
    ASSUME TypeOK, CallsAreSound, NoneIsDisabled, NEW t \in Threads, KernelNext(t)
    PROVE  CallIsSound(t)'
<1>0. CallIsSound(t)
  BY DEF CallsAreSound
<1>a. args[t] \in KernelCalls /\ NoCall.op = "none" /\ NoCall.all = FALSE
  BY DEF TypeOK, KernelTypeOK, KernelCalls, NoCall
<1>g. GoesOn(t)
  BY KernelGoesOn
<1>t. \A a \in Addresses : table[a] # NULL => table[a] \in Entries
  BY DEF TypeOK, KernelTypeOK

<1>1. CASE get_user_mutex_entry(t)
  BY <1>1, <1>0, <1>a, <1>t, Domains, Typed, MutexTypes DEF get_user_mutex_entry, Found, Goto,
     CallIsSound, NoEntryPcs, UnblockPcs, PutPcs
<1>2. CASE InsertEntry(t)
  BY <1>2, <1>0, <1>a, <1>t, Domains, Typed, MutexTypes DEF InsertEntry, Found, Goto,
     CallIsSound, NoEntryPcs, UnblockPcs, PutPcs
<1>3. CASE put_user_mutex_entry(t)
  BY <1>3, <1>0, <1>a, <1>t, Domains, Typed, MutexTypes DEF put_user_mutex_entry, PutDone,
     PutEntry, Goto, CallIsSound, NoEntryPcs, UnblockPcs, PutPcs
<1>4. CASE RemoveEntry(t)
  BY <1>4, <1>0, <1>a, <1>t, Domains, Typed, MutexTypes DEF RemoveEntry, PutDone, PutEntry,
     PutAddress, Goto, CallIsSound, NoEntryPcs, UnblockPcs, PutPcs
<1>5. CASE user_mutex_prepare_to_lock(t)
  BY <1>5, <1>0, <1>a, <1>t, Domains, Typed, MutexTypes DEF user_mutex_prepare_to_lock,
     AfterLock, Goto, entryVars, CallIsSound, NoEntryPcs, UnblockPcs, PutPcs
<1>6. CASE UnsetWaiting(t)
  BY <1>6, <1>0, <1>a, <1>t, Domains, Typed, MutexTypes DEF UnsetWaiting, AfterLock, Goto,
     entryVars, CallIsSound, NoEntryPcs, UnblockPcs, PutPcs
<1>7. CASE AddWaiter(t)
  BY <1>7, <1>0, <1>a, <1>t, Domains, Typed, MutexTypes DEF AddWaiter, Goto, wordVars,
     CallIsSound, NoEntryPcs, UnblockPcs, PutPcs
<1>8. CASE Leave(t)
  BY <1>8, <1>0, <1>a, <1>t, Domains, Typed, MutexTypes DEF Leave, wordVars, callVars,
     CallIsSound, NoEntryPcs, UnblockPcs, PutPcs
<1>9. CASE WaitReturn(t)
  BY <1>9, <1>0, <1>a, <1>t, Domains, Typed, MutexTypes DEF WaitReturn, Goto, wordVars,
     CallIsSound, NoEntryPcs, UnblockPcs, PutPcs
<1>10. CASE FindEntry(t)
  BY <1>10, <1>0, <1>a, <1>t, Domains, Typed, MutexTypes DEF FindEntry, Found, Goto, wordVars,
     CallIsSound, NoEntryPcs, UnblockPcs, PutPcs
<1>11. CASE FindNull(t)
  BY <1>11, <1>0, <1>a, <1>t, Domains, Typed, MutexTypes DEF FindNull, Goto, entryVars,
     CallIsSound, NoEntryPcs, UnblockPcs, PutPcs
<1>12. CASE user_mutex_unblock(t)
  BY <1>12, <1>0, <1>a, <1>t, Domains, Typed, MutexTypes DEF user_mutex_unblock, AfterUnblock,
     Goto, entryVars, CallIsSound, NoEntryPcs, UnblockPcs, PutPcs
<1>13. CASE HandOff(t)
  <2>1. kpc[t] = "hand_off" /\ UnblockedWord(t) \in Words
    BY <1>13, Typed DEF HandOff, UnblockPcs
  <2>2. "DISABLED" \notin word[UnblockedWord(t)]
    BY <2>1 DEF NoneIsDisabled
  <2>3. args' = args \/ args' = [args EXCEPT ![t].all = FALSE]
    <3>1. ("DISABLED" \in word[UnblockedWord(t)]) = FALSE
      BY <2>2
    <3>2. args' = args \/ args' = [args EXCEPT ![t].all = "DISABLED" \in word[UnblockedWord(t)]]
      BY <1>13 DEF HandOff
    <3> QED BY <3>1, <3>2
  <2>4. /\ args'[t].all => args[t].all
        /\ args'[t].op = args[t].op /\ args'[t].at = args[t].at /\ args'[t].from = args[t].from
    BY <1>a, <2>3, Domains DEF KernelCalls
  <2>5. /\ kpc'[t] \in {"wait", "put", "notify"} /\ (kpc'[t] = "wait" => args[t].op = "switch")
        /\ UNCHANGED <<entry, fromEntry, leaving, status>>
    BY <1>13, Domains DEF HandOff, AfterUnblock, Goto, entryVars
  <2> QED BY <1>0, <2>1, <2>4, <2>5 DEF CallIsSound, NoEntryPcs, UnblockPcs, PutPcs
<1>14. CASE NotifyWaiters(t)
  BY <1>14, <1>0, <1>a, <1>t, Domains, Typed, MutexTypes DEF NotifyWaiters, Goto, wordVars,
     CallIsSound, NoEntryPcs, UnblockPcs, PutPcs
<1>15. CASE UndoHandOff(t)
  BY <1>15, <1>0, <1>a, <1>t, Domains, Typed, MutexTypes DEF UndoHandOff, Goto, entryVars,
     CallIsSound, NoEntryPcs, UnblockPcs, PutPcs
<1>16. CASE UnblockLast(t)
  BY <1>16, <1>0, <1>a, <1>t, Domains, Typed, MutexTypes DEF UnblockLast, AfterUnblock, Goto,
     entryVars, CallIsSound, NoEntryPcs, UnblockPcs, PutPcs
<1>17. CASE ClearFrom(t)
  BY <1>17, <1>0, <1>a, <1>t, Domains, Typed, MutexTypes DEF ClearFrom, AfterUnblock, Goto,
     entryVars, CallIsSound, NoEntryPcs, UnblockPcs, PutPcs
<1>18. CASE FindFrom(t)
  <2>1. kpc[t] = "find_from" /\ args[t].from \in Addresses /\ args[t].op = "switch"
    BY <1>0, <1>18, Typed, MutexTypes DEF FindFrom, CallIsSound, UnblockPcs, PutPcs, Calls
  <2> QED BY <1>18, <1>0, <1>t, <2>1, Domains, MutexTypes DEF FindFrom, AfterUnblock, Goto,
     wordVars, CallIsSound, NoEntryPcs, UnblockPcs, PutPcs
<1>19. CASE user_mutex_sem_acquire_locked(t)
  BY <1>19, <1>0, <1>a, <1>t, Domains, Typed, MutexTypes DEF user_mutex_sem_acquire_locked,
     Goto, entryVars, CallIsSound, NoEntryPcs, UnblockPcs, PutPcs
<1>20. CASE user_mutex_sem_release(t)
  BY <1>20, <1>0, <1>a, <1>t, Domains, Typed, MutexTypes DEF user_mutex_sem_release, Goto,
     CallIsSound, NoEntryPcs, UnblockPcs, PutPcs
<1>21. CASE SemReleaseLast(t)
  BY <1>21, <1>0, <1>a, <1>t, Domains, Typed, MutexTypes DEF SemReleaseLast, Goto, entryVars,
     CallIsSound, NoEntryPcs, UnblockPcs, PutPcs
<1>22. CASE KernelGiveUp(t)
  BY <1>22, <1>0, <1>a, <1>t, Domains, Typed, MutexTypes DEF KernelGiveUp, GiveUp, wordVars,
     CallIsSound, NoEntryPcs, UnblockPcs, PutPcs
<1> QED
  BY <1>1, <1>2, <1>3, <1>4, <1>5, <1>6, <1>7, <1>8, <1>9, <1>10, <1>11, <1>12, <1>13, <1>14,
    <1>15, <1>16, <1>17, <1>18, <1>19, <1>20, <1>21, <1>22
     DEF KernelNext, KernelStep, SwitchStep, SemStep

\* A system call begins in order.
LEMMA BegunIsSound ==
    ASSUME TypeOK, CallsAreSound, NEW t \in Threads, kpc[t] = "idle",
           NEW o, NEW a, NEW f, NEW all \in BOOLEAN, NEW label, Begun(t, o, a, f, all, label),
           \/ o = "lock" /\ a \in Mutexes /\ ~all /\ label = "get"
           \/ o = "switch" /\ a \in Conds /\ f \in Mutexes /\ ~all /\ label = "get"
           \/ o = "unblock" /\ a \in Words /\ (all => a \in Conds) /\ label = "find"
           \/ o \in {"sem_acquire", "sem_release"} /\ a \in Sems /\ ~all /\ label = "get"
    PROVE  CallIsSound(t)'
<1>1. entry[t] = NULL /\ fromEntry[t] = NULL /\ t \notin leaving
  BY DEF CallsAreSound, CallIsSound, NoEntryPcs, UnblockPcs, PutPcs
<1> QED BY <1>1 DEF Begun, CallIsSound, NoEntryPcs, UnblockPcs, PutPcs, entryVars

\* After a step in libroot a thread is where it can be.
LEMMA UserCallIsSound ==
    ASSUME TypeOK, CallsAreSound, NEW t \in Threads, UserNext(t)
    PROVE  CallIsSound(t)' /\ UserIsSound(t)'
<1> DEFINE Goal == CallIsSound(t)' /\ UserIsSound(t)'
<1>0. CallIsSound(t) /\ UserIsSound(t)
  BY DEF CallsAreSound
<1>b. kpc[t] = "idle" /\ args[t].op = "none"
  BY UserBegins DEF Begins
<1>s. ASSUME Still PROVE CallIsSound(t)' /\ args' = args /\ status' = status
  BY <1>0, <1>s DEF Still, callVars, entryVars, CallIsSound
<1>c. /\ cond[t] \in Conds \cup {NULL} /\ NULL \notin Conds /\ NULL \notin Mutexes
      /\ NULL \notin Sems
  BY MutexTypes DEF TypeOK
<1>f. FALSE \in BOOLEAN
  OBVIOUS

<1>1. CASE LockReturn(t)
  <2>1. CASE status[t] = "B_OK" /\ upc' = [upc EXCEPT ![t] = "own"] /\ Still /\ UNCHANGED target
    <3>1. UserIsSound(t)'
      BY <1>1, <1>0, <1>b, <1>c, <1>s, <2>1, Domains, MutexTypes
         DEF LockReturn, UserIsSound
    <3> QED BY <1>s, <2>1, <3>1
  <2>2. CASE /\ status[t] = "B_INTERRUPTED" /\ UNCHANGED <<upc, target>>
             /\ Begun(t, "lock", target[t], NULL, FALSE, "get")
             /\ upc[t] = "relock" => ~args'[t].timed
    <3>1. target[t] \in Mutexes
      BY <1>1, <1>0, MutexTypes DEF LockReturn, UserIsSound
    <3>2. CallIsSound(t)'
      BY <1>b, <1>f, <2>2, <3>1, BegunIsSound, Zenon
    <3>3. UserIsSound(t)'
      BY <1>1, <1>0, <1>b, <1>c, <2>2, <3>1, Domains, MutexTypes
         DEF LockReturn, UserIsSound, Begun
    <3> QED BY <3>2, <3>3
  <2>3. CASE /\ status[t] = "B_TIMED_OUT" /\ upc' = [upc EXCEPT ![t] = "idle"] /\ Still
             /\ target' = [target EXCEPT ![t] = NULL]
    <3>1. UserIsSound(t)'
      BY <1>1, <1>0, <1>b, <1>c, <1>s, <2>3, Domains, MutexTypes
         DEF LockReturn, UserIsSound
    <3> QED BY <1>s, <2>3, <3>1
  <2> QED BY <1>1, <2>1, <2>2, <2>3, LockReturnForm
<1>2. CASE TakeOwnership(t)
  <2>1. Still
    BY <1>2 DEF TakeOwnership, UGoto, KernelUnchanged, Still
  <2>2. UserIsSound(t)'
    BY <1>2, <1>0, <1>b, <1>c, <1>s, <2>1, Domains, MutexTypes DEF TakeOwnership, UGoto,
       KernelUnchanged, UserIsSound
  <2> QED BY <1>s, <2>1, <2>2
<1>3. CASE UnlockWord(t)
  <2>1. CASE Still
    <3>1. UserIsSound(t)'
      BY <1>3, <1>0, <1>b, <1>c, <1>s, <2>1, Domains, MutexTypes
         DEF UnlockWord, UGoto, UserIsSound
    <3> QED BY <1>s, <2>1, <3>1
  <2>2. CASE Begun(t, "unblock", target[t], NULL, FALSE, "find")
    <3>1. target[t] \in Words
      BY <1>3, <1>0, MutexTypes DEF UnlockWord, UserIsSound
    <3>2. CallIsSound(t)'
      BY <1>b, <1>f, <2>2, <3>1, BegunIsSound, Zenon
    <3>3. UserIsSound(t)'
      BY <1>3, <1>0, <1>b, <1>c, <2>2, <3>1, Domains, MutexTypes
         DEF UnlockWord, UGoto, UserIsSound, Begun
    <3> QED BY <3>2, <3>3
  <2> QED BY <1>3, <2>1, <2>2, UnlockForm
<1>4. CASE CondSwitch(t)
  <2>1. CASE Begun(t, "switch", cond[t], MutexOf[cond[t]], FALSE, "get")
    <3>1. cond[t] \in Conds /\ MutexOf[cond[t]] \in Mutexes
      BY <1>4, <1>0, MutexTypes DEF CondSwitch, UserIsSound
    <3>2. CallIsSound(t)'
      BY <1>b, <1>f, <2>1, <3>1, BegunIsSound, Zenon
    <3>3. UserIsSound(t)'
      BY <1>4, <1>0, <1>b, <1>c, <2>1, <3>1, Domains, MutexTypes
         DEF CondSwitch, UGoto, UserIsSound, Begun
    <3> QED BY <3>2, <3>3
  <2> QED BY <1>4, <2>1, SwitchForm
<1>5. CASE CondReturn(t)
  <2>1. CASE upc' = [upc EXCEPT ![t] = "own"] /\ Still
    <3>1. UserIsSound(t)'
      BY <1>5, <1>0, <1>b, <1>c, <1>s, <2>1, Domains, MutexTypes
         DEF CondReturn, UserIsSound
    <3> QED BY <1>s, <2>1, <3>1
  <2>2. CASE /\ upc' = [upc EXCEPT ![t] = "relock"]
             /\ Begun(t, "lock", MutexOf[cond[t]], NULL, FALSE, "get") /\ ~args'[t].timed
    <3>1. cond[t] \in Conds /\ MutexOf[cond[t]] \in Mutexes
      BY <1>5, <1>0, MutexTypes DEF CondReturn, UserIsSound
    <3>2. CallIsSound(t)'
      BY <1>b, <1>f, <2>2, <3>1, BegunIsSound, Zenon
    <3>3. UserIsSound(t)'
      BY <1>5, <1>0, <1>b, <1>c, <2>2, <3>1, Domains, MutexTypes
         DEF CondReturn, UserIsSound, Begun
    <3> QED BY <3>2, <3>3
  <2> QED BY <1>5, <2>1, <2>2, CondReturnForm
<1>6. CASE CondLeave(t)
  <2>1. Still
    BY <1>6 DEF CondLeave, UGoto, KernelUnchanged, Still
  <2>2. UserIsSound(t)'
    BY <1>6, <1>0, <1>b, <1>c, <1>s, <2>1, Domains, MutexTypes DEF CondLeave, UGoto,
       KernelUnchanged, UserIsSound
  <2> QED BY <1>s, <2>1, <2>2
<1>7. CASE CondReset(t)
  <2>1. Still
    BY <1>7 DEF CondReset, UGoto, KernelUnchanged, Still
  <2>2. UserIsSound(t)'
    BY <1>7, <1>0, <1>b, <1>c, <1>s, <2>1, Domains, MutexTypes DEF CondReset, UGoto,
       KernelUnchanged, UserIsSound
  <2> QED BY <1>s, <2>1, <2>2
<1>8. CASE SemReturn(t)
  <2>1. Still
    BY <1>8 DEF SemReturn, UGoto, KernelUnchanged, Still
  <2>2. UserIsSound(t)'
    BY <1>8, <1>0, <1>b, <1>c, <1>s, <2>1, Domains, MutexTypes DEF SemReturn, UGoto,
       KernelUnchanged, UserIsSound
  <2> QED BY <1>s, <2>1, <2>2
<1>9. ASSUME NEW m \in Mutexes, pthread_mutex_lock(t, m) PROVE Goal
  <2>1. CASE upc' = [upc EXCEPT ![t] = "own"] /\ Still
    <3>1. UserIsSound(t)'
      BY <1>9, <1>0, <1>b, <1>c, <1>s, <2>1, Domains, MutexTypes
         DEF pthread_mutex_lock, Idle, UserIsSound
    <3> QED BY <1>s, <2>1, <3>1
  <2>2. CASE /\ upc' = [upc EXCEPT ![t] = "lock"]
             /\ Begun(t, "lock", m, NULL, FALSE, "get")
    <3>1. m \in Mutexes
      BY <1>9, <1>0, MutexTypes DEF pthread_mutex_lock, UserIsSound
    <3>2. CallIsSound(t)'
      BY <1>b, <1>f, <2>2, <3>1, BegunIsSound, Zenon
    <3>3. UserIsSound(t)'
      BY <1>9, <1>0, <1>b, <1>c, <2>2, <3>1, Domains, MutexTypes
         DEF pthread_mutex_lock, Idle, UserIsSound, Begun
    <3> QED BY <3>2, <3>3
  <2> QED BY <1>9, <2>1, <2>2, LockForm
<1>10. ASSUME NEW m \in Mutexes, pthread_mutex_trylock(t, m) PROVE Goal
  <2>1. Still
    BY <1>10 DEF pthread_mutex_trylock, Idle, UGoto, KernelUnchanged, Still
  <2>2. UserIsSound(t)'
    BY <1>10, <1>0, <1>b, <1>c, <1>s, <2>1, Domains, MutexTypes DEF pthread_mutex_trylock, Idle,
       UGoto, KernelUnchanged, UserIsSound
  <2> QED BY <1>s, <2>1, <2>2
<1>11. ASSUME NEW m \in Mutexes, pthread_mutex_unlock(t, m) PROVE Goal
  <2>1. Still
    BY <1>11 DEF pthread_mutex_unlock, Idle, UGoto, KernelUnchanged, Still
  <2>2. UserIsSound(t)'
    BY <1>11, <1>0, <1>b, <1>c, <1>s, <2>1, Domains, MutexTypes DEF pthread_mutex_unlock, Idle,
       UGoto, KernelUnchanged, UserIsSound
  <2> QED BY <1>s, <2>1, <2>2
<1>12. ASSUME NEW c \in Conds, pthread_cond_wait(t, c) PROVE Goal
  <2>1. Still
    BY <1>12 DEF pthread_cond_wait, Idle, UGoto, KernelUnchanged, Still
  <2>2. UserIsSound(t)'
    BY <1>12, <1>0, <1>b, <1>c, <1>s, <2>1, Domains, MutexTypes DEF pthread_cond_wait, Idle,
       UGoto, KernelUnchanged, UserIsSound
  <2> QED BY <1>s, <2>1, <2>2
<1>13. ASSUME NEW c \in Conds, NEW all \in BOOLEAN, cond_signal(t, c, all) PROVE Goal
  <2>1. CASE Still
    <3>1. UserIsSound(t)'
      BY <1>13, <1>0, <1>b, <1>c, <1>s, <2>1, Domains, MutexTypes
         DEF cond_signal, Idle, UserIsSound
    <3> QED BY <1>s, <2>1, <3>1
  <2>2. CASE Begun(t, "unblock", c, NULL, all, "find")
    <3>1. c \in Words /\ c \in Conds /\ all \in BOOLEAN
      BY <1>13, <1>0, MutexTypes DEF cond_signal, UserIsSound
    <3>2. CallIsSound(t)'
      BY <1>b, <1>f, <2>2, <3>1, BegunIsSound, Zenon
    <3>3. UserIsSound(t)'
      BY <1>13, <1>0, <1>b, <1>c, <2>2, <3>1, Domains, MutexTypes
         DEF cond_signal, Idle, UserIsSound, Begun
    <3> QED BY <3>2, <3>3
  <2> QED BY <1>13, <2>1, <2>2, SignalForm
<1>14. ASSUME NEW s \in Sems, sem_wait(t, s) PROVE Goal
  <2>1. CASE Still /\ UNCHANGED <<upc, target>>
    <3>1. UserIsSound(t)'
      BY <1>14, <1>0, <1>b, <1>c, <1>s, <2>1, Domains, MutexTypes
         DEF sem_wait, Idle, UserIsSound
    <3> QED BY <1>s, <2>1, <3>1
  <2>2. CASE /\ Begun(t, "sem_acquire", s, NULL, FALSE, "get")
             /\ target' = [target EXCEPT ![t] = s] /\ upc' = [upc EXCEPT ![t] = "sem"]
    <3>1. s \in Sems
      BY <1>14, <1>0, MutexTypes DEF sem_wait, UserIsSound
    <3>2. CallIsSound(t)'
      BY <1>b, <1>f, <2>2, <3>1, BegunIsSound, Zenon
    <3>3. UserIsSound(t)'
      BY <1>14, <1>0, <1>b, <1>c, <2>2, <3>1, Domains, MutexTypes
         DEF sem_wait, Idle, UserIsSound, Begun
    <3> QED BY <3>2, <3>3
  <2> QED BY <1>14, <2>1, <2>2, SemWaitForm
<1>15. ASSUME NEW s \in Sems, sem_post(t, s) PROVE Goal
  <2>1. CASE Still
    <3>1. UserIsSound(t)'
      BY <1>15, <1>0, <1>b, <1>c, <1>s, <2>1, Domains, MutexTypes
         DEF sem_post, Idle, UserIsSound
    <3> QED BY <1>s, <2>1, <3>1
  <2>2. CASE Begun(t, "sem_release", s, NULL, FALSE, "get")
    <3>1. s \in Sems
      BY <1>15, <1>0, MutexTypes DEF sem_post, UserIsSound
    <3>2. CallIsSound(t)'
      BY <1>b, <1>f, <2>2, <3>1, BegunIsSound, Zenon
    <3>3. UserIsSound(t)'
      BY <1>15, <1>0, <1>b, <1>c, <2>2, <3>1, Domains, MutexTypes
         DEF sem_post, Idle, UserIsSound, Begun
    <3> QED BY <3>2, <3>3
  <2> QED BY <1>15, <2>1, <2>2, SemPostForm
<1> QED
  BY <1>1, <1>2, <1>3, <1>4, <1>5, <1>6, <1>7, <1>8, <1>9, <1>10, <1>11, <1>12, <1>13, <1>14,
    <1>15 DEF UserNext

\* After a step of the kernel so is the thread it is for.
LEMMA KernelUserIsSound ==
    ASSUME TypeOK, CallsAreSound, NoneIsDisabled, NEW t \in Threads, KernelNext(t)
    PROVE  UserIsSound(t)'
<1>0. CallIsSound(t) /\ UserIsSound(t)
  BY DEF CallsAreSound
<1>1. GoesOn(t) /\ UNCHANGED <<upc, target, cond>>
  BY KernelGoesOn DEF KernelNext
<1>2. args[t].op \in Calls \cup {"none"}
  BY Typed
<1>3. args'[t].op # "none" \/ kpc'[t] = "idle"
  BY KernelCallIsSound DEF CallIsSound
<1>4. CASE kpc'[t] # "idle"
  BY <1>0, <1>1, <1>3, <1>4 DEF GoesOn, UserIsSound
<1>5. CASE kpc'[t] = "idle"
  BY <1>0, <1>1, <1>2, <1>5 DEF GoesOn, CallIsSound, UserIsSound, UnblockPcs, PutPcs, Calls
<1> QED BY <1>4, <1>5

\* Every thread is where it can be.
LEMMA CallsStaySound ==
    ASSUME TypeOK, CallsAreSound, NoneIsDisabled, NEW t \in Threads,
           KernelNext(t) \/ UserNext(t)
    PROVE  CallsAreSound' /\ Frame(t)
<1>1. CASE KernelNext(t)
  BY <1>1, KernelFrame, KernelCallIsSound, KernelUserIsSound, OthersAreSound
<1>2. CASE UserNext(t)
  BY <1>2, UserFrame, UserCallIsSound, OthersAreSound
<1> QED BY <1>1, <1>2

-------------------------------------------------------------------------------
(* Entries and references after a step. *)

\* How many threads refer to an entry changes by what t does.
LEMMA HoldersMove ==
    ASSUME NEW t \in Threads, Frame(t), NEW e
    PROVE  /\ Cardinality({u \in Threads : HoldsEntry(u, e)}) \in Nat
           /\ Cardinality({u \in Threads : HoldsFrom(u, e)}) \in Nat
           /\ Cardinality({u \in Threads : HoldsEntry(u, e)}') =
                Cardinality({u \in Threads : HoldsEntry(u, e)})
                  + (IF HoldsEntry(t, e)' THEN 1 ELSE 0) - (IF HoldsEntry(t, e) THEN 1 ELSE 0)
           /\ Cardinality({u \in Threads : HoldsFrom(u, e)}') =
                Cardinality({u \in Threads : HoldsFrom(u, e)})
                  + (IF HoldsFrom(t, e)' THEN 1 ELSE 0) - (IF HoldsFrom(t, e) THEN 1 ELSE 0)
<1> DEFINE S == {u \in Threads : HoldsEntry(u, e)}
           T == {u \in Threads : HoldsEntry(u, e)'}
           F == {u \in Threads : HoldsFrom(u, e)}
           G == {u \in Threads : HoldsFrom(u, e)'}
<1>1. \A u \in Threads \ {t} : /\ u \in S <=> u \in T
                               /\ u \in F <=> u \in G
  BY DEF Frame, HoldsEntry, HoldsFrom
<1>2. S \in SUBSET Threads /\ T \in SUBSET Threads /\ F \in SUBSET Threads /\ G \in SUBSET Threads
  OBVIOUS
<1>3. /\ t \in S <=> HoldsEntry(t, e)
      /\ t \in T <=> HoldsEntry(t, e)'
      /\ t \in F <=> HoldsFrom(t, e)
      /\ t \in G <=> HoldsFrom(t, e)'
  OBVIOUS
<1>6. {u \in Threads : HoldsEntry(u, e)}' = T /\ {u \in Threads : HoldsFrom(u, e)}' = G
  OBVIOUS
<1> HIDE DEF S, T, F, G
<1>4. /\ Cardinality(S) \in Nat
      /\ Cardinality(T) = Cardinality(S) + (IF t \in T THEN 1 ELSE 0) - (IF t \in S THEN 1 ELSE 0)
  BY <1>1, <1>2, CountMove DEF One
<1>5. /\ Cardinality(F) \in Nat
      /\ Cardinality(G) = Cardinality(F) + (IF t \in G THEN 1 ELSE 0) - (IF t \in F THEN 1 ELSE 0)
  BY <1>1, <1>2, CountMove DEF One
<1>7. Cardinality({u \in Threads : HoldsEntry(u, e)}) \in Nat
  BY <1>4 DEF S
<1>8. Cardinality({u \in Threads : HoldsFrom(u, e)}) \in Nat
  BY <1>5 DEF F
<1>9. Cardinality({u \in Threads : HoldsEntry(u, e)}') =
        Cardinality({u \in Threads : HoldsEntry(u, e)})
          + (IF HoldsEntry(t, e)' THEN 1 ELSE 0) - (IF HoldsEntry(t, e) THEN 1 ELSE 0)
  <2>1. Cardinality(T) = Cardinality(S)
          + (IF HoldsEntry(t, e)' THEN 1 ELSE 0) - (IF HoldsEntry(t, e) THEN 1 ELSE 0)
    BY <1>3, <1>4
  <2> QED BY <1>6, <2>1 DEF S
<1>10. Cardinality({u \in Threads : HoldsFrom(u, e)}') =
        Cardinality({u \in Threads : HoldsFrom(u, e)})
          + (IF HoldsFrom(t, e)' THEN 1 ELSE 0) - (IF HoldsFrom(t, e) THEN 1 ELSE 0)
  <2>1. Cardinality(G) = Cardinality(F)
          + (IF HoldsFrom(t, e)' THEN 1 ELSE 0) - (IF HoldsFrom(t, e) THEN 1 ELSE 0)
    BY <1>3, <1>5
  <2> QED BY <1>6, <2>1 DEF F
<1> QED BY <1>7, <1>8, <1>9, <1>10

\* Nobody refers to an entry that is not allocated or that has no reference.
LEMMA NobodyRefers ==
    ASSUME TypeOK, ReferencesAreExact, NEW e \in Entries, e \notin alive \/ ref_count[e] = 0
    PROVE  \A u \in Threads : ~HoldsEntry(u, e) /\ ~HoldsFrom(u, e)
<1> DEFINE S == {u \in Threads : HoldsEntry(u, e)}
           F == {u \in Threads : HoldsFrom(u, e)}
<1>1. CASE e \notin alive
  BY <1>1 DEF ReferencesAreExact
<1>2. CASE e \in alive /\ ref_count[e] = 0
  <2>1. Cardinality(S) + Cardinality(F) = 0
    BY <1>2 DEF ReferencesAreExact
  <2>2. S \in SUBSET Threads /\ F \in SUBSET Threads
    OBVIOUS
  <2>4. \A u \in Threads : (HoldsEntry(u, e) => u \in S) /\ (HoldsFrom(u, e) => u \in F)
    OBVIOUS
  <2> HIDE DEF S, F
  <2>3. S = {} /\ F = {}
    BY <2>1, <2>2, CountThreads
  <2> QED BY <2>3, <2>4
<1> QED BY <1>1, <1>2

\* What t must do for the references to stay exact.
Refers(t, e) == (IF HoldsEntry(t, e) THEN 1 ELSE 0) + (IF HoldsFrom(t, e) THEN 1 ELSE 0)

RefersRightly(t) ==
    \A e \in Entries :
        /\ HoldsEntry(t, e) => e \in alive /\ table[args[t].at] = e
        /\ HoldsFrom(t, e) => e \in alive /\ table[args[t].from] = e

\* Reference counts stay exact when a step of t changes them by its own references.
LEMMA ReferencesStay ==
    ASSUME TypeOK, ReferencesAreExact, NEW t \in Threads, Frame(t), alive' \subseteq Entries,
           RefersRightly(t)',
           \A e \in alive' :
              \/ e \in alive /\ ref_count'[e] = ref_count[e] + Refers(t, e)' - Refers(t, e)
              \/ e \notin alive /\ ref_count'[e] = Refers(t, e)',
           \A u \in Threads \ {t}, e \in Entries :
              /\ HoldsEntry(u, e) => e \in alive' /\ table'[args[u].at] = e
              /\ HoldsFrom(u, e) => e \in alive' /\ table'[args[u].from] = e
    PROVE  ReferencesAreExact'
<1>1. ASSUME NEW e \in alive'
      PROVE  ref_count'[e] = Cardinality({u \in Threads : HoldsEntry(u, e)}')
                             + Cardinality({u \in Threads : HoldsFrom(u, e)}')
  <2>1. e \in Entries
    OBVIOUS
  <2>0. /\ Cardinality({u \in Threads : HoldsEntry(u, e)}) \in Nat
        /\ Cardinality({u \in Threads : HoldsFrom(u, e)}) \in Nat
        /\ Cardinality({u \in Threads : HoldsEntry(u, e)}') =
             Cardinality({u \in Threads : HoldsEntry(u, e)})
               + (IF HoldsEntry(t, e)' THEN 1 ELSE 0) - (IF HoldsEntry(t, e) THEN 1 ELSE 0)
        /\ Cardinality({u \in Threads : HoldsFrom(u, e)}') =
             Cardinality({u \in Threads : HoldsFrom(u, e)})
               + (IF HoldsFrom(t, e)' THEN 1 ELSE 0) - (IF HoldsFrom(t, e) THEN 1 ELSE 0)
    BY HoldersMove
  <2>2. CASE e \in alive /\ ref_count'[e] = ref_count[e] + Refers(t, e)' - Refers(t, e)
    <3>1. ref_count[e] = Cardinality({u \in Threads : HoldsEntry(u, e)})
                         + Cardinality({u \in Threads : HoldsFrom(u, e)})
      BY <2>2 DEF ReferencesAreExact
    <3> QED BY <2>0, <2>2, <3>1 DEF Refers
  <2>3. CASE e \notin alive /\ ref_count'[e] = Refers(t, e)'
    <3>1. \A u \in Threads : ~HoldsEntry(u, e) /\ ~HoldsFrom(u, e)
      BY <2>1, <2>3, NobodyRefers
    <3>2. {u \in Threads : HoldsEntry(u, e)} = {} /\ {u \in Threads : HoldsFrom(u, e)} = {}
      BY <3>1
    <3>3. /\ Cardinality({u \in Threads : HoldsEntry(u, e)}) = 0
          /\ Cardinality({u \in Threads : HoldsFrom(u, e)}) = 0
      BY <3>2, FS_EmptySet
    <3>4. ~HoldsEntry(t, e) /\ ~HoldsFrom(t, e)
      BY <3>1
    <3> QED BY <2>0, <2>3, <3>3, <3>4 DEF Refers
  <2> QED BY <2>2, <2>3
<1>2. ASSUME NEW u \in Threads \ {t}, NEW e \in Entries
      PROVE  /\ HoldsEntry(u, e)' => e \in alive' /\ table'[args'[u].at] = e
             /\ HoldsFrom(u, e)' => e \in alive' /\ table'[args'[u].from] = e
  BY DEF Frame, HoldsEntry, HoldsFrom
<1>3. \A u \in Threads, e \in Entries :
         /\ HoldsEntry(u, e)' => e \in alive' /\ table'[args'[u].at] = e
         /\ HoldsFrom(u, e)' => e \in alive' /\ table'[args'[u].from] = e
  BY <1>2 DEF RefersRightly
<1> QED BY <1>1, <1>3 DEF ReferencesAreExact

\* A step that leaves the table and the references alone.
Quiet(t) ==
    /\ UNCHANGED <<table, alive, ref_count, entry, fromEntry>>
    /\ kpc'[t] # "find_null"
    /\ kpc[t] # "put_remove" /\ kpc'[t] # "put_remove"
    /\ entry[t] = NULL => fromEntry[t] = NULL
    /\ entry[t] # NULL => args'[t].at = args[t].at /\ args'[t].from = args[t].from

TableAndReferences == TableIsSound /\ ReferencesAreExact

\* A step that neither gets nor puts an entry keeps the table and the references.
LEMMA QuietStep ==
    ASSUME TypeOK, TableAndReferences, NEW t \in Threads, Frame(t), Quiet(t)
    PROVE  TableAndReferences'
<1>1. TableIsSound /\ ReferencesAreExact /\ NULL \notin Entries
  BY MutexTypes DEF TableAndReferences
<1>2. TableIsSound'
  BY <1>1 DEF TableIsSound, Quiet, Frame
<1>3. \A e \in Entries : /\ HoldsEntry(t, e)' <=> HoldsEntry(t, e)
                         /\ HoldsFrom(t, e)' <=> HoldsFrom(t, e)
  BY DEF Quiet, HoldsEntry, HoldsFrom
<1>4. \A e \in Entries : Refers(t, e)' = Refers(t, e) /\ Refers(t, e) \in Nat
  BY <1>3 DEF Refers
<1>5. alive \subseteq Entries /\ \A e \in alive : ref_count[e] \in Nat
  BY DEF TypeOK, KernelTypeOK
<1>6. RefersRightly(t)'
  BY <1>1, <1>3 DEF RefersRightly, ReferencesAreExact, Quiet, HoldsEntry, HoldsFrom
<1>7. \A e \in alive' :
        e \in alive /\ ref_count'[e] = ref_count[e] + Refers(t, e)' - Refers(t, e)
  BY <1>4, <1>5 DEF Quiet
<1>8. \A u \in Threads \ {t}, e \in Entries :
         /\ HoldsEntry(u, e) => e \in alive' /\ table'[args[u].at] = e
         /\ HoldsFrom(u, e) => e \in alive' /\ table'[args[u].from] = e
  BY <1>1 DEF ReferencesAreExact, Quiet
<1>9. ReferencesAreExact'
  BY <1>1, <1>5, <1>6, <1>7, <1>8, ReferencesStay DEF Quiet
<1> QED BY <1>2, <1>9 DEF TableAndReferences

\* A thread takes a reference to the entry of an address.
LEMMA TakeReference ==
    ASSUME TypeOK, TableAndReferences, NEW t \in Threads, Frame(t), NEW e \in Entries,
           UNCHANGED <<table, alive>>, ref_count' = [ref_count EXCEPT ![e] = @ + 1],
           args'[t].at = args[t].at, args'[t].from = args[t].from,
           kpc[t] # "put_remove", kpc'[t] \notin {"find_null", "put_remove"},
           \/ /\ entry[t] = NULL /\ fromEntry[t] = NULL /\ fromEntry'[t] = NULL
              /\ entry'[t] = e /\ table[args[t].at] = e /\ args[t].at \in Addresses
           \/ /\ fromEntry[t] = NULL /\ entry'[t] = entry[t] /\ fromEntry'[t] = e
              /\ table[args[t].from] = e /\ args[t].from \in Addresses
    PROVE  TableAndReferences'
<1>1. TableIsSound /\ ReferencesAreExact /\ NULL \notin Entries
  BY MutexTypes DEF TableAndReferences
<1>2. TableIsSound'
  BY <1>1 DEF TableIsSound, Frame
<1>3. e \in alive
  BY <1>1 DEF TableIsSound
<1>5. ref_count \in [Entries -> Nat] /\ alive \subseteq Entries
  BY DEF TypeOK, KernelTypeOK
<1>4. /\ Refers(t, e)' = Refers(t, e) + 1 /\ Refers(t, e) \in Nat
      /\ \A d \in Entries \ {e} : Refers(t, d)' = Refers(t, d) /\ Refers(t, d) \in Nat
  BY <1>1 DEF Refers, HoldsEntry, HoldsFrom
<1>6. RefersRightly(t)'
  BY <1>1, <1>3 DEF RefersRightly, ReferencesAreExact, HoldsEntry, HoldsFrom
<1>7. ASSUME NEW d \in alive'
      PROVE  d \in alive /\ ref_count'[d] = ref_count[d] + Refers(t, d)' - Refers(t, d)
  <2>1. d \in alive /\ d \in Entries /\ ref_count[d] \in Nat
    BY <1>5
  <2>2. CASE d = e
    BY <1>4, <1>5, <2>1, <2>2
  <2>3. CASE d # e
    BY <1>4, <1>5, <2>1, <2>3
  <2> QED BY <2>2, <2>3
<1>8. \A u \in Threads \ {t}, d \in Entries :
         /\ HoldsEntry(u, d) => d \in alive' /\ table'[args[u].at] = d
         /\ HoldsFrom(u, d) => d \in alive' /\ table'[args[u].from] = d
  BY <1>1 DEF ReferencesAreExact
<1>9. ReferencesAreExact'
  BY <1>1, <1>5, <1>6, <1>7, <1>8, ReferencesStay
<1> QED BY <1>2, <1>9 DEF TableAndReferences

\* A thread inserts an entry, with a reference to it.
LEMMA NewEntry ==
    ASSUME TypeOK, TableAndReferences, NEW t \in Threads, Frame(t), NEW e \in Entries \ alive,
           TableWritable, args[t].at \in Addresses, table[args[t].at] = NULL,
           alive' = alive \cup {e}, table' = [table EXCEPT ![args[t].at] = e],
           ref_count' = [ref_count EXCEPT ![e] = 1],
           args'[t].at = args[t].at, args'[t].from = args[t].from,
           kpc'[t] \notin {"find_null", "put_remove"}, fromEntry[t] = NULL, fromEntry'[t] = NULL,
           entry[t] = NULL, entry'[t] = e
    PROVE  TableAndReferences'
<1>1. TableIsSound /\ ReferencesAreExact /\ NULL \notin Entries
  BY MutexTypes DEF TableAndReferences
<1>5. /\ ref_count \in [Entries -> Nat] /\ alive \subseteq Entries
      /\ table \in [Addresses -> Entries \cup {NULL}]
  BY DEF TypeOK, KernelTypeOK
<1>a. table'[args[t].at] = e /\ \A a \in Addresses : a # args[t].at => table'[a] = table[a]
  BY <1>5
<1>2. TableIsSound'
  <2>1. \A a \in Addresses : table'[a] # NULL => table'[a] \in alive'
    BY <1>1, <1>a DEF TableIsSound
  <2>2. \A a \in Addresses : a # args[t].at => table'[a] # e
    BY <1>1, <1>a DEF TableIsSound
  <2>3. \A a, b \in Addresses : table'[a] = table'[b] /\ table'[a] # NULL => a = b
    BY <1>1, <1>a, <2>2 DEF TableIsSound
  <2>4. \A u \in Threads : kpc'[u] # "find_null"
    BY DEF TableWritable, Frame
  <2> QED BY <2>1, <2>3, <2>4 DEF TableIsSound
<1>3. \A u \in Threads : ~HoldsEntry(u, e) /\ ~HoldsFrom(u, e)
  BY <1>1, NobodyRefers
<1>4. /\ Refers(t, e)' = 1
      /\ \A d \in Entries \ {e} : Refers(t, d)' = 0 /\ Refers(t, d) = 0
  BY <1>1 DEF Refers, HoldsEntry, HoldsFrom
<1>6. RefersRightly(t)'
  BY <1>1, <1>a DEF RefersRightly, HoldsEntry, HoldsFrom
<1>7. ASSUME NEW d \in alive'
      PROVE  \/ d \in alive /\ ref_count'[d] = ref_count[d] + Refers(t, d)' - Refers(t, d)
             \/ d \notin alive /\ ref_count'[d] = Refers(t, d)'
  <2>1. CASE d = e
    BY <1>4, <1>5, <2>1
  <2>2. CASE d # e
    BY <1>4, <1>5, <2>2
  <2> QED BY <2>1, <2>2
<1>8. ASSUME NEW u \in Threads \ {t}, NEW d \in Entries
      PROVE  /\ HoldsEntry(u, d) => d \in alive' /\ table'[args[u].at] = d
             /\ HoldsFrom(u, d) => d \in alive' /\ table'[args[u].from] = d
  <2>1. args[u].at \in Addresses \cup {NULL} /\ args[u].from \in Addresses \cup {NULL}
    BY MutexTypes DEF TypeOK, KernelTypeOK
  <2>2. \A a \in Addresses \cup {NULL} : table[a] = d => table'[a] = d
    BY <1>1, <1>5, <1>a
  <2>3. /\ HoldsEntry(u, d) => d \in alive /\ table[args[u].at] = d
        /\ HoldsFrom(u, d) => d \in alive /\ table[args[u].from] = d
    BY <1>1 DEF ReferencesAreExact
  <2> QED BY <2>1, <2>2, <2>3
<1>9. ReferencesAreExact'
  BY <1>1, <1>5, <1>6, <1>7, <1>8, ReferencesStay
<1> QED BY <1>2, <1>9 DEF TableAndReferences

\* put_user_mutex_entry() drops a reference.
LEMMA DropReference ==
    ASSUME TypeOK, CallsAreSound, TableAndReferences, NEW t \in Threads, Frame(t),
           put_user_mutex_entry(t)
    PROVE  TableAndReferences'
<1>p. kpc[t] = "put" /\ PutEntry(t) \in Entries /\ entry[t] \in Entries
  BY Typed DEF put_user_mutex_entry, PutPcs, NoEntryPcs
<1>e. PICK e \in Entries : e = PutEntry(t)
  BY <1>p
<1>1. TableIsSound /\ ReferencesAreExact /\ NULL \notin Entries
  BY MutexTypes DEF TableAndReferences
<1>5. ref_count \in [Entries -> Nat] /\ alive \subseteq Entries
  BY DEF TypeOK, KernelTypeOK
<1>0. kpc[t] = "put" /\ UNCHANGED <<table, alive>> /\ ref_count' = [ref_count EXCEPT ![e] = @ - 1]
  BY <1>e DEF put_user_mutex_entry
<1>k. \/ /\ kpc'[t] = "put_remove" /\ args'[t] = args[t]
         /\ entry'[t] = entry[t] /\ fromEntry'[t] = fromEntry[t]
      \/ /\ kpc'[t] = "put" /\ args'[t] = args[t] /\ fromEntry[t] # NULL
         /\ entry'[t] = entry[t] /\ fromEntry'[t] = NULL
      \/ /\ kpc'[t] = "idle" /\ fromEntry[t] = NULL
         /\ entry'[t] = NULL /\ fromEntry'[t] = NULL
  BY <1>0, Domains DEF put_user_mutex_entry, PutDone, Goto
<1>2. TableIsSound'
  BY <1>0, <1>1, <1>k DEF TableIsSound, Frame
<1>4. /\ Refers(t, e)' = Refers(t, e) - 1 /\ Refers(t, e) \in Nat
      /\ \A d \in Entries \ {e} : Refers(t, d)' = Refers(t, d) /\ Refers(t, d) \in Nat
  BY <1>0, <1>1, <1>p, <1>e, <1>k DEF Refers, HoldsEntry, HoldsFrom, PutEntry
<1>6. RefersRightly(t)'
  BY <1>0, <1>1, <1>k DEF RefersRightly, ReferencesAreExact, HoldsEntry, HoldsFrom
<1>7. ASSUME NEW d \in alive'
      PROVE  d \in alive /\ ref_count'[d] = ref_count[d] + Refers(t, d)' - Refers(t, d)
  <2>1. d \in alive /\ d \in Entries /\ ref_count[d] \in Nat
    BY <1>0, <1>5
  <2>2. CASE d = e
    BY <1>0, <1>4, <1>5, <2>1, <2>2
  <2>3. CASE d # e
    BY <1>0, <1>4, <1>5, <2>1, <2>3
  <2> QED BY <2>2, <2>3
<1>8. \A u \in Threads \ {t}, d \in Entries :
         /\ HoldsEntry(u, d) => d \in alive' /\ table'[args[u].at] = d
         /\ HoldsFrom(u, d) => d \in alive' /\ table'[args[u].from] = d
  BY <1>0, <1>1 DEF ReferencesAreExact
<1>9. ReferencesAreExact'
  BY <1>0, <1>1, <1>5, <1>6, <1>7, <1>8, ReferencesStay
<1> QED BY <1>2, <1>9 DEF TableAndReferences

\* The entry is removed only if nobody refers to it.
LEMMA RemoveUnused ==
    ASSUME TypeOK, CallsAreSound, TableAndReferences, NEW t \in Threads, Frame(t), RemoveEntry(t)
    PROVE  TableAndReferences'
<1> DEFINE e == PutEntry(t)
           a == PutAddress(t)
<1>1. TableIsSound /\ ReferencesAreExact /\ NULL \notin Entries /\ NULL \notin Addresses
  BY MutexTypes DEF TableAndReferences
<1>5. /\ ref_count \in [Entries -> Nat] /\ alive \subseteq Entries
      /\ table \in [Addresses -> Entries \cup {NULL}]
  BY DEF TypeOK, KernelTypeOK
<1>0. /\ kpc[t] = "put_remove" /\ TableWritable /\ UNCHANGED ref_count
      /\ \/ /\ table[a] = e /\ ref_count[e] = 0
            /\ table' = [table EXCEPT ![a] = NULL] /\ alive' = alive \ {e}
         \/ UNCHANGED <<table, alive>>
  BY DEF RemoveEntry
<1>e. e \in Entries /\ entry[t] \in Entries /\ a \in Addresses
  BY <1>0, Typed DEF PutPcs, NoEntryPcs
<1>k. \/ /\ kpc'[t] = "put" /\ args'[t] = args[t] /\ fromEntry[t] # NULL
         /\ entry'[t] = entry[t] /\ fromEntry'[t] = NULL
      \/ /\ kpc'[t] = "idle" /\ fromEntry[t] = NULL
         /\ entry'[t] = NULL /\ fromEntry'[t] = NULL
  BY <1>0, Domains DEF RemoveEntry, PutDone, Goto
<1>4. \A d \in Entries : Refers(t, d)' = Refers(t, d) /\ Refers(t, d) \in Nat
  BY <1>0, <1>1, <1>e, <1>k DEF Refers, HoldsEntry, HoldsFrom
<1>b. /\ \A d \in Entries : HoldsEntry(t, d)' => HoldsEntry(t, d) /\ args'[t] = args[t]
      /\ \A d \in Entries : ~HoldsFrom(t, d)'
  BY <1>0, <1>1, <1>k DEF HoldsEntry, HoldsFrom
<1> HIDE DEF e, a
<1>n. \A u \in Threads : kpc'[u] # "find_null"
  BY <1>0, <1>k DEF TableWritable, Frame
<1>2. CASE /\ table[a] = e /\ ref_count[e] = 0
           /\ table' = [table EXCEPT ![a] = NULL] /\ alive' = alive \ {e}
  <2>1. \A u \in Threads : ~HoldsEntry(u, e) /\ ~HoldsFrom(u, e)
    BY <1>1, <1>e, <1>2, NobodyRefers
  <2>2. table'[a] = NULL /\ \A b \in Addresses : b # a => table'[b] = table[b]
    BY <1>2, <1>5, <1>e
  <2>3. \A b \in Addresses : b # a => table[b] # e
    BY <1>1, <1>2, <1>e DEF TableIsSound
  <2>4. TableIsSound'
    BY <1>1, <1>2, <1>n, <2>2, <2>3 DEF TableIsSound
  <2>5. ASSUME NEW u \in Threads, NEW d \in Entries
        PROVE  /\ HoldsEntry(u, d) => d \in alive' /\ table'[args[u].at] = d
               /\ HoldsFrom(u, d) => d \in alive' /\ table'[args[u].from] = d
    <3>1. args[u].at \in Addresses \cup {NULL} /\ args[u].from \in Addresses \cup {NULL}
      BY MutexTypes DEF TypeOK, KernelTypeOK
    <3>2. \A b \in Addresses \cup {NULL} : table[b] = d /\ d # e => table'[b] = d
      BY <1>1, <1>2, <1>5, <1>e, <2>2
    <3>3. /\ HoldsEntry(u, d) => d \in alive /\ table[args[u].at] = d /\ d # e
          /\ HoldsFrom(u, d) => d \in alive /\ table[args[u].from] = d /\ d # e
      BY <1>1, <2>1 DEF ReferencesAreExact
    <3> QED BY <1>2, <3>1, <3>2, <3>3
  <2>6. RefersRightly(t)'
    BY <1>b, <2>5 DEF RefersRightly
  <2>7. \A d \in alive' : d \in alive /\ ref_count'[d] = ref_count[d] + Refers(t, d)' - Refers(t, d)
    BY <1>0, <1>2, <1>4, <1>5
  <2>8. ReferencesAreExact'
    BY <1>1, <1>2, <1>5, <2>5, <2>6, <2>7, ReferencesStay
  <2> QED BY <2>4, <2>8 DEF TableAndReferences
<1>3. CASE UNCHANGED <<table, alive>>
  <2>4. TableIsSound'
    BY <1>1, <1>3, <1>n DEF TableIsSound
  <2>5. \A u \in Threads, d \in Entries :
           /\ HoldsEntry(u, d) => d \in alive' /\ table'[args[u].at] = d
           /\ HoldsFrom(u, d) => d \in alive' /\ table'[args[u].from] = d
    BY <1>1, <1>3 DEF ReferencesAreExact
  <2>6. RefersRightly(t)'
    BY <1>b, <2>5 DEF RefersRightly
  <2>7. \A d \in alive' : d \in alive /\ ref_count'[d] = ref_count[d] + Refers(t, d)' - Refers(t, d)
    BY <1>0, <1>3, <1>4, <1>5
  <2>8. ReferencesAreExact'
    BY <1>1, <1>3, <1>5, <2>5, <2>6, <2>7, ReferencesStay
  <2> QED BY <2>4, <2>8 DEF TableAndReferences
<1> QED BY <1>0, <1>2, <1>3

\* No entry is freed under a thread, and the table stays sound: in the kernel ...
LEMMA KernelReferences ==
    ASSUME TypeOK, CallsAreSound, NoneIsDisabled, TableAndReferences,
           NEW t \in Threads, KernelNext(t)
    PROVE  TableAndReferences'
<1>f. Frame(t) /\ CallIsSound(t)
  BY KernelFrame DEF CallsAreSound
<1>g. GoesOn(t) /\ kpc[t] # "find_null" /\ kpc[t] \notin PutPcs =>
        args'[t].at = args[t].at /\ args'[t].from = args[t].from
  BY KernelGoesOn DEF GoesOn
<1>t. /\ \A a \in Addresses : table[a] # NULL => table[a] \in Entries
      /\ \A u \in Threads : entry[u] \in Entries \cup {NULL} /\ fromEntry[u] \in Entries \cup {NULL}
  BY DEF TypeOK, KernelTypeOK
<1>h. GoesOn(t)
  BY KernelGoesOn
<1>q. ASSUME Quiet(t) PROVE TableAndReferences'
  BY <1>f, <1>q, QuietStep

<1>1. CASE get_user_mutex_entry(t)
  <2>0. /\ kpc[t] = "get" /\ args[t].at \in Addresses /\ entry[t] = NULL /\ fromEntry[t] = NULL
        /\ args' = args /\ fromEntry' = fromEntry
    BY <1>1, <1>f, Typed DEF get_user_mutex_entry, CallIsSound, NoEntryPcs, UnblockPcs, PutPcs
  <2>1. CASE table[args[t].at] # NULL /\ Found(t, table[args[t].at])
    <3>1. table[args[t].at] \in Entries
      BY <1>t, <2>0, <2>1
    <3>2. entry'[t] = table[args[t].at] /\ kpc'[t] \notin {"find_null", "put_remove"}
      BY <2>1, Domains DEF Found, Goto
    <3> QED BY <1>f, <2>0, <2>1, <3>1, <3>2, TakeReference DEF Found
  <2>2. CASE Goto(t, "insert") /\ UNCHANGED <<table, alive, ref_count, queue, entry>>
    BY <1>q, <2>0, <2>2, Domains DEF Goto, Quiet
  <2> QED BY <1>1, <2>1, <2>2 DEF get_user_mutex_entry
<1>2. CASE InsertEntry(t)
  <2>0. /\ kpc[t] = "insert" /\ args[t].at \in Addresses /\ entry[t] = NULL /\ fromEntry[t] = NULL
        /\ args' = args /\ fromEntry' = fromEntry /\ TableWritable
    BY <1>2, <1>f, Typed DEF InsertEntry, CallIsSound, NoEntryPcs, UnblockPcs, PutPcs
  <2>1. CASE table[args[t].at] # NULL /\ Found(t, table[args[t].at])
    <3>1. table[args[t].at] \in Entries
      BY <1>t, <2>0, <2>1
    <3>2. entry'[t] = table[args[t].at] /\ kpc'[t] \notin {"find_null", "put_remove"}
      BY <2>1, Domains DEF Found, Goto
    <3> QED BY <1>f, <2>0, <2>1, <3>1, <3>2, TakeReference DEF Found
  <2>2. ASSUME table[args[t].at] = NULL, NEW e \in Entries \ alive,
               alive' = alive \cup {e}, table' = [table EXCEPT ![args[t].at] = e],
               ref_count' = [ref_count EXCEPT ![e] = 1], entry' = [entry EXCEPT ![t] = e],
               Goto(t, IF args[t].op = "sem_release" THEN "sem_release" ELSE "prepare")
        PROVE  TableAndReferences'
    <3>1. entry'[t] = e /\ kpc'[t] \notin {"find_null", "put_remove"}
      BY <2>2, Domains DEF Goto
    <3> QED BY <1>f, <2>0, <2>2, <3>1, NewEntry
  <2> QED BY <1>2, <2>1, <2>2 DEF InsertEntry
<1>3. CASE put_user_mutex_entry(t)
  BY <1>3, <1>f, DropReference
<1>4. CASE RemoveEntry(t)
  BY <1>4, <1>f, RemoveUnused
<1>5. CASE FindEntry(t)
  <2>0. /\ kpc[t] = "find" /\ args[t].at \in Addresses /\ entry[t] = NULL /\ fromEntry[t] = NULL
        /\ args' = args /\ fromEntry' = fromEntry
    BY <1>5, <1>f, Typed DEF FindEntry, CallIsSound, NoEntryPcs, UnblockPcs, PutPcs
  <2>1. CASE table[args[t].at] # NULL /\ Found(t, table[args[t].at])
    <3>1. table[args[t].at] \in Entries
      BY <1>t, <2>0, <2>1
    <3>2. entry'[t] = table[args[t].at] /\ kpc'[t] \notin {"find_null", "put_remove"}
      BY <2>1, Domains DEF Found, Goto
    <3> QED BY <1>f, <2>0, <2>1, <3>1, <3>2, TakeReference DEF Found
  <2>2. CASE /\ table[args[t].at] = NULL /\ Goto(t, "find_null")
             /\ UNCHANGED <<table, alive, ref_count, queue, entry>>
    <3>1. TableIsSound /\ ReferencesAreExact /\ NULL \notin Entries
      BY MutexTypes DEF TableAndReferences
    <3>2. TableIsSound'
      BY <1>f, <2>0, <2>2, <3>1, Domains DEF TableIsSound, Frame, Goto
    <3>3. \A e \in Entries : Refers(t, e)' = 0 /\ Refers(t, e) = 0
      BY <2>0, <2>2, <3>1 DEF Refers, HoldsEntry, HoldsFrom
    <3>4. RefersRightly(t)'
      BY <2>0, <2>2, <3>1 DEF RefersRightly, HoldsEntry, HoldsFrom
    <3>5. alive' \subseteq Entries /\ \A e \in alive' : ref_count'[e] \in Nat
      BY <2>2 DEF TypeOK, KernelTypeOK
    <3>6. \A e \in alive' :
            e \in alive /\ ref_count'[e] = ref_count[e] + Refers(t, e)' - Refers(t, e)
      BY <2>2, <3>3, <3>5
    <3>7. \A u \in Threads \ {t}, e \in Entries :
             /\ HoldsEntry(u, e) => e \in alive' /\ table'[args[u].at] = e
             /\ HoldsFrom(u, e) => e \in alive' /\ table'[args[u].from] = e
      BY <2>2, <3>1 DEF ReferencesAreExact
    <3>8. ReferencesAreExact'
      BY <1>f, <3>1, <3>4, <3>5, <3>6, <3>7, ReferencesStay
    <3> QED BY <3>2, <3>8 DEF TableAndReferences
  <2> QED BY <1>5, <2>1, <2>2 DEF FindEntry
<1>6. CASE FindFrom(t)
  <2>0. /\ kpc[t] = "find_from" /\ args[t].from \in Addresses /\ fromEntry[t] = NULL
        /\ entry[t] # NULL /\ args' = args /\ entry' = entry /\ UNCHANGED <<table, alive>>
    BY <1>6, <1>f, Typed, MutexTypes
       DEF FindFrom, CallIsSound, NoEntryPcs, UnblockPcs, PutPcs
  <2>1. CASE /\ table[args[t].from] # NULL /\ Goto(t, "unblock")
             /\ ref_count' = [ref_count EXCEPT ![table[args[t].from]] = @ + 1]
             /\ fromEntry' = [fromEntry EXCEPT ![t] = table[args[t].from]]
    <3>1. table[args[t].from] \in Entries
      BY <1>t, <2>0, <2>1
    <3>2. fromEntry'[t] = table[args[t].from] /\ kpc'[t] = "unblock"
      BY <2>1, Domains DEF Goto
    <3> QED BY <1>f, <2>0, <2>1, <3>1, <3>2, TakeReference
  <2>2. CASE AfterUnblock(t) /\ UNCHANGED <<ref_count, fromEntry>>
    BY <1>q, <2>0, <2>2, Domains DEF AfterUnblock, Goto, Quiet
  <2> QED BY <1>6, <2>1, <2>2 DEF FindFrom

<1>7. CASE user_mutex_prepare_to_lock(t)
  BY <1>7, <1>f, <1>h, <1>q, Domains DEF user_mutex_prepare_to_lock, AfterLock, Goto, entryVars,
     Quiet, GoesOn, CallIsSound, NoEntryPcs, UnblockPcs, PutPcs
<1>8. CASE UnsetWaiting(t)
  BY <1>8, <1>f, <1>h, <1>q, Domains DEF UnsetWaiting, AfterLock, Goto, entryVars, Quiet,
     GoesOn, CallIsSound, NoEntryPcs, UnblockPcs, PutPcs
<1>9. CASE AddWaiter(t)
  BY <1>9, <1>f, <1>h, <1>q, Domains DEF AddWaiter, Goto, wordVars, Quiet, GoesOn, CallIsSound,
     NoEntryPcs, UnblockPcs, PutPcs
<1>10. CASE Leave(t)
  BY <1>10, <1>f, <1>h, <1>q, Domains DEF Leave, wordVars, callVars, Quiet, GoesOn, CallIsSound,
     NoEntryPcs, UnblockPcs, PutPcs
<1>11. CASE WaitReturn(t)
  BY <1>11, <1>f, <1>h, <1>q, Domains DEF WaitReturn, Goto, wordVars, Quiet, GoesOn,
     CallIsSound, NoEntryPcs, UnblockPcs, PutPcs
<1>12. CASE FindNull(t)
  BY <1>12, <1>f, <1>h, <1>q, Domains DEF FindNull, Goto, entryVars, Quiet, GoesOn, CallIsSound,
     NoEntryPcs, UnblockPcs, PutPcs
<1>13. CASE user_mutex_unblock(t)
  BY <1>13, <1>f, <1>h, <1>q, Domains DEF user_mutex_unblock, AfterUnblock, Goto, entryVars,
     Quiet, GoesOn, CallIsSound, NoEntryPcs, UnblockPcs, PutPcs
<1>14. CASE HandOff(t)
  BY <1>14, <1>f, <1>h, <1>q, Domains DEF HandOff, AfterUnblock, Goto, entryVars, Quiet, GoesOn,
     CallIsSound, NoEntryPcs, UnblockPcs, PutPcs
<1>15. CASE NotifyWaiters(t)
  BY <1>15, <1>f, <1>h, <1>q, Domains DEF NotifyWaiters, Goto, wordVars, Quiet, GoesOn,
     CallIsSound, NoEntryPcs, UnblockPcs, PutPcs
<1>16. CASE UndoHandOff(t)
  BY <1>16, <1>f, <1>h, <1>q, Domains DEF UndoHandOff, Goto, entryVars, Quiet, GoesOn,
     CallIsSound, NoEntryPcs, UnblockPcs, PutPcs
<1>17. CASE UnblockLast(t)
  BY <1>17, <1>f, <1>h, <1>q, Domains DEF UnblockLast, AfterUnblock, Goto, entryVars, Quiet,
     GoesOn, CallIsSound, NoEntryPcs, UnblockPcs, PutPcs
<1>18. CASE ClearFrom(t)
  BY <1>18, <1>f, <1>h, <1>q, Domains DEF ClearFrom, AfterUnblock, Goto, entryVars, Quiet,
     GoesOn, CallIsSound, NoEntryPcs, UnblockPcs, PutPcs
<1>19. CASE user_mutex_sem_acquire_locked(t)
  BY <1>19, <1>f, <1>h, <1>q, Domains DEF user_mutex_sem_acquire_locked, Goto, entryVars, Quiet,
     GoesOn, CallIsSound, NoEntryPcs, UnblockPcs, PutPcs
<1>20. CASE user_mutex_sem_release(t)
  BY <1>20, <1>f, <1>h, <1>q, Domains DEF user_mutex_sem_release, Goto, Quiet, GoesOn,
     CallIsSound, NoEntryPcs, UnblockPcs, PutPcs
<1>21. CASE SemReleaseLast(t)
  BY <1>21, <1>f, <1>h, <1>q, Domains DEF SemReleaseLast, Goto, entryVars, Quiet, GoesOn,
     CallIsSound, NoEntryPcs, UnblockPcs, PutPcs
<1>22. CASE KernelGiveUp(t)
  BY <1>22, <1>f, <1>h, <1>q, Domains DEF KernelGiveUp, GiveUp, wordVars, Quiet, GoesOn,
     CallIsSound, NoEntryPcs, UnblockPcs, PutPcs
<1> QED
  BY <1>1, <1>2, <1>3, <1>4, <1>5, <1>6, <1>7, <1>8, <1>9, <1>10, <1>11, <1>12, <1>13, <1>14,
    <1>15, <1>16, <1>17, <1>18, <1>19, <1>20, <1>21, <1>22
     DEF KernelNext, KernelStep, SwitchStep, SemStep

\* ... and in libroot.
LEMMA UserReferences ==
    ASSUME TypeOK, CallsAreSound, TableAndReferences, NEW t \in Threads, UserNext(t)
    PROVE  TableAndReferences'
<1>1. Begins(t) /\ Frame(t) /\ CallIsSound(t)
  BY UserBegins, UserFrame DEF CallsAreSound
<1>2. Quiet(t)
  BY <1>1, Domains DEF Begins, Quiet, CallIsSound, NoEntryPcs, UnblockPcs, PutPcs, entryVars
<1> QED BY <1>1, <1>2, QuietStep

-------------------------------------------------------------------------------
(* The flag nobody sets. *)

\* No step sets DISABLED.
LEMMA NoneGetsDisabled ==
    ASSUME TypeOK, CallsAreSound, NoneIsDisabled, NEW t \in Threads, KernelNext(t) \/ UserNext(t)
    PROVE  NoneIsDisabled'
<1>0. word \in [Words -> SUBSET Flags]
  BY DEF TypeOK, KernelTypeOK
<1>k. /\ kpc[t] \in UnblockPcs => UnblockedWord(t) \in Words
      /\ kpc[t] \in {"unset", "find", "find_null"} => args[t].at \in Words
      /\ kpc[t] \in {"clear", "find_from"} => args[t].from \in Words
  BY Typed, MutexTypes

<1>1. CASE get_user_mutex_entry(t)
  BY <1>1, <1>0, <1>k DEF get_user_mutex_entry, Found, Goto, NoneIsDisabled, UnblockPcs,
     wordVars
<1>2. CASE InsertEntry(t)
  BY <1>2, <1>0, <1>k DEF InsertEntry, Found, Goto, NoneIsDisabled, UnblockPcs, wordVars
<1>3. CASE put_user_mutex_entry(t)
  BY <1>3, <1>0, <1>k DEF put_user_mutex_entry, PutDone, PutEntry, Goto, NoneIsDisabled,
     UnblockPcs, wordVars
<1>4. CASE RemoveEntry(t)
  BY <1>4, <1>0, <1>k DEF RemoveEntry, PutDone, PutEntry, PutAddress, Goto, NoneIsDisabled,
     UnblockPcs, wordVars
<1>5. CASE user_mutex_prepare_to_lock(t)
  BY <1>5, <1>0, <1>k DEF user_mutex_prepare_to_lock, AfterLock, Goto, entryVars,
     NoneIsDisabled, UnblockPcs, wordVars
<1>6. CASE UnsetWaiting(t)
  BY <1>6, <1>0, <1>k DEF UnsetWaiting, AfterLock, Goto, entryVars, NoneIsDisabled, UnblockPcs,
     wordVars
<1>7. CASE AddWaiter(t)
  BY <1>7, <1>0, <1>k DEF AddWaiter, Goto, wordVars, NoneIsDisabled, UnblockPcs, wordVars
<1>8. CASE Leave(t)
  BY <1>8, <1>0, <1>k DEF Leave, wordVars, callVars, NoneIsDisabled, UnblockPcs, wordVars
<1>9. CASE WaitReturn(t)
  BY <1>9, <1>0, <1>k DEF WaitReturn, Goto, wordVars, NoneIsDisabled, UnblockPcs, wordVars
<1>10. CASE FindEntry(t)
  BY <1>10, <1>0, <1>k DEF FindEntry, Found, Goto, wordVars, NoneIsDisabled, UnblockPcs,
     wordVars
<1>11. CASE FindNull(t)
  BY <1>11, <1>0, <1>k DEF FindNull, Goto, entryVars, NoneIsDisabled, UnblockPcs, wordVars
<1>12. CASE user_mutex_unblock(t)
  BY <1>12, <1>0, <1>k DEF user_mutex_unblock, AfterUnblock, Goto, entryVars, NoneIsDisabled,
     UnblockPcs, wordVars
<1>13. CASE HandOff(t)
  BY <1>13, <1>0, <1>k DEF HandOff, AfterUnblock, Goto, entryVars, NoneIsDisabled, UnblockPcs,
     wordVars
<1>14. CASE NotifyWaiters(t)
  BY <1>14, <1>0, <1>k DEF NotifyWaiters, Goto, wordVars, NoneIsDisabled, UnblockPcs, wordVars
<1>15. CASE UndoHandOff(t)
  BY <1>15, <1>0, <1>k DEF UndoHandOff, Goto, entryVars, NoneIsDisabled, UnblockPcs, wordVars
<1>16. CASE UnblockLast(t)
  BY <1>16, <1>0, <1>k DEF UnblockLast, AfterUnblock, Goto, entryVars, NoneIsDisabled,
     UnblockPcs, wordVars
<1>17. CASE ClearFrom(t)
  BY <1>17, <1>0, <1>k DEF ClearFrom, AfterUnblock, Goto, entryVars, NoneIsDisabled, UnblockPcs,
     wordVars
<1>18. CASE FindFrom(t)
  BY <1>18, <1>0, <1>k DEF FindFrom, AfterUnblock, Goto, wordVars, NoneIsDisabled, UnblockPcs,
     wordVars
<1>19. CASE user_mutex_sem_acquire_locked(t)
  BY <1>19, <1>0, <1>k DEF user_mutex_sem_acquire_locked, Goto, entryVars, NoneIsDisabled,
     UnblockPcs, wordVars
<1>20. CASE user_mutex_sem_release(t)
  BY <1>20, <1>0, <1>k DEF user_mutex_sem_release, Goto, NoneIsDisabled, UnblockPcs, wordVars
<1>21. CASE SemReleaseLast(t)
  BY <1>21, <1>0, <1>k DEF SemReleaseLast, Goto, entryVars, NoneIsDisabled, UnblockPcs, wordVars
<1>22. CASE KernelGiveUp(t)
  BY <1>22, <1>0, <1>k DEF KernelGiveUp, GiveUp, wordVars, NoneIsDisabled, UnblockPcs, wordVars
<1>23. CASE LockReturn(t)
  BY <1>23, <1>0, MutexTypes, LockReturnForm DEF LockReturn, NoneIsDisabled, UserIsSound,
     CallsAreSound, wordVars, UGoto, Release, SetLocked
<1>24. CASE TakeOwnership(t)
  BY <1>24, <1>0, MutexTypes DEF TakeOwnership, UGoto, KernelUnchanged, NoneIsDisabled,
     UserIsSound, CallsAreSound, wordVars, UGoto, Release, SetLocked
<1>25. CASE UnlockWord(t)
  BY <1>25, <1>0, MutexTypes, UnlockForm DEF UnlockWord, UGoto, NoneIsDisabled, UserIsSound,
     CallsAreSound, wordVars, UGoto, Release, SetLocked
<1>26. CASE CondSwitch(t)
  BY <1>26, <1>0, MutexTypes, SwitchForm DEF CondSwitch, UGoto, NoneIsDisabled, UserIsSound,
     CallsAreSound, wordVars, UGoto, Release, SetLocked
<1>27. CASE CondReturn(t)
  <2>1. \/ word' = word
        \/ \E m \in Words : word' = [word EXCEPT ![m] = {"LOCKED"}]
    BY <1>27, MutexTypes, CondReturnForm
  <2> QED BY <1>0, <2>1 DEF NoneIsDisabled
<1>28. CASE CondLeave(t)
  BY <1>28, <1>0, MutexTypes DEF CondLeave, UGoto, KernelUnchanged, NoneIsDisabled, UserIsSound,
     CallsAreSound, wordVars, UGoto, Release, SetLocked
<1>29. CASE CondReset(t)
  BY <1>29, <1>0, MutexTypes DEF CondReset, UGoto, KernelUnchanged, NoneIsDisabled, UserIsSound,
     CallsAreSound, wordVars, UGoto, Release, SetLocked
<1>30. CASE SemReturn(t)
  BY <1>30, <1>0, MutexTypes DEF SemReturn, UGoto, KernelUnchanged, NoneIsDisabled, UserIsSound,
     CallsAreSound, wordVars, UGoto, Release, SetLocked
<1>31. ASSUME NEW m \in Mutexes, pthread_mutex_lock(t, m) PROVE NoneIsDisabled'
  BY <1>31, <1>0, MutexTypes, LockForm DEF pthread_mutex_lock, Idle, NoneIsDisabled,
     UserIsSound, CallsAreSound, wordVars, UGoto, Release, SetLocked
<1>32. ASSUME NEW m \in Mutexes, pthread_mutex_trylock(t, m) PROVE NoneIsDisabled'
  BY <1>32, <1>0, MutexTypes DEF pthread_mutex_trylock, Idle, UGoto, KernelUnchanged,
     NoneIsDisabled, UserIsSound, CallsAreSound, wordVars, UGoto, Release, SetLocked
<1>33. ASSUME NEW m \in Mutexes, pthread_mutex_unlock(t, m) PROVE NoneIsDisabled'
  BY <1>33, <1>0, MutexTypes DEF pthread_mutex_unlock, Idle, UGoto, KernelUnchanged,
     NoneIsDisabled, UserIsSound, CallsAreSound, wordVars, UGoto, Release, SetLocked
<1>34. ASSUME NEW c \in Conds, pthread_cond_wait(t, c) PROVE NoneIsDisabled'
  BY <1>34, <1>0, MutexTypes DEF pthread_cond_wait, Idle, UGoto, KernelUnchanged,
     NoneIsDisabled, UserIsSound, CallsAreSound, wordVars, UGoto, Release, SetLocked
<1>35. ASSUME NEW c \in Conds, NEW all \in BOOLEAN, cond_signal(t, c, all) PROVE NoneIsDisabled'
  BY <1>35, <1>0, MutexTypes, SignalForm DEF cond_signal, Idle, NoneIsDisabled, UserIsSound,
     CallsAreSound, wordVars, UGoto, Release, SetLocked
<1>36. ASSUME NEW s \in Sems, sem_wait(t, s) PROVE NoneIsDisabled'
  BY <1>36, <1>0, MutexTypes, SemWaitForm DEF sem_wait, Idle, NoneIsDisabled, UserIsSound,
     CallsAreSound, wordVars, UGoto, Release, SetLocked
<1>37. ASSUME NEW s \in Sems, sem_post(t, s) PROVE NoneIsDisabled'
  BY <1>37, <1>0, MutexTypes, SemPostForm DEF sem_post, Idle, NoneIsDisabled, UserIsSound,
     CallsAreSound, wordVars, UGoto, Release, SetLocked
<1> QED
  BY <1>1, <1>2, <1>3, <1>4, <1>5, <1>6, <1>7, <1>8, <1>9, <1>10, <1>11, <1>12, <1>13, <1>14,
    <1>15, <1>16, <1>17, <1>18, <1>19, <1>20, <1>21, <1>22, <1>23, <1>24, <1>25, <1>26,
    <1>27, <1>28, <1>29, <1>30, <1>31, <1>32, <1>33, <1>34, <1>35, <1>36, <1>37
     DEF KernelNext, KernelStep, SwitchStep, SemStep, UserNext

-------------------------------------------------------------------------------
(* The entries' locks and queues after a step. *)

\* Who locks an entry found it not locked.
LockMoves(t) ==
    /\ kpc'[t] \in WritePcs =>
          \/ kpc[t] \in WritePcs /\ WriteLocked(t)' = WriteLocked(t)
          \/ \A u \in Threads \ {t} :
                /\ kpc[u] \in WritePcs => WriteLocked(u) # WriteLocked(t)'
                /\ kpc[u] \in ReadPcs => entry[u] # WriteLocked(t)'
    /\ kpc'[t] \in ReadPcs =>
          \A u \in Threads \ {t} : kpc[u] \in WritePcs => WriteLocked(u) # entry'[t]

\* A thread that takes a lock only where it may leaves every lock sound.
LEMMA LocksStay ==
    ASSUME LocksAreSound, NEW t \in Threads, Frame(t), LockMoves(t)
    PROVE  LocksAreSound'
<1>1. \A u \in Threads \ {t} : WriteLocked(u)' = WriteLocked(u) /\ kpc'[u] = kpc[u]
                               /\ entry'[u] = entry[u]
  BY DEF Frame, WriteLocked, UnblockedEntry
<1>2. ASSUME NEW v \in Threads, NEW u \in Threads \ {v}, kpc'[v] \in WritePcs
      PROVE  /\ kpc'[u] \in WritePcs => WriteLocked(u)' # WriteLocked(v)'
             /\ kpc'[u] \in ReadPcs => entry'[u] # WriteLocked(v)'
  <2>1. CASE v # t /\ u # t
    BY <1>1, <1>2, <2>1 DEF LocksAreSound
  <2>2. CASE v = t
    BY <1>1, <1>2, <2>2 DEF LocksAreSound, LockMoves
  <2>3. CASE u = t
    BY <1>1, <1>2, <2>3 DEF LocksAreSound, LockMoves
  <2> QED BY <2>1, <2>2, <2>3
<1> QED BY <1>2 DEF LocksAreSound

\* What an entry's lock being free for readers or for a writer says of the others.
LEMMA Lockable ==
    ASSUME NEW e
    PROVE  /\ ReadLockable(e) => \A u \in Threads : kpc[u] \in WritePcs => WriteLocked(u) # e
           /\ WriteLockable(e) => /\ \A u \in Threads : kpc[u] \in WritePcs => WriteLocked(u) # e
                                  /\ \A u \in Threads : kpc[u] \in ReadPcs => entry[u] # e
BY DEF ReadLockable, WriteLockable, WriteLocked

\* Every step of the kernel takes an entry's lock only where it may.
LEMMA KernelLockMoves ==
    ASSUME TypeOK, CallsAreSound, NoneIsDisabled, NEW t \in Threads, KernelNext(t)
    PROVE  LockMoves(t)
<1>0. CallIsSound(t)
  BY DEF CallsAreSound
<1>g. args'[t].op = args[t].op \/ kpc'[t] = "idle"
  BY KernelGoesOn DEF GoesOn

<1>1. CASE get_user_mutex_entry(t)
  BY <1>1, <1>0, <1>g, Domains, Lockable DEF get_user_mutex_entry, Found, Goto, LockMoves,
     CallIsSound, WritePcs, ReadPcs, UnblockPcs, PutPcs, WriteLocked, UnblockedEntry
<1>2. CASE InsertEntry(t)
  BY <1>2, <1>0, <1>g, Domains, Lockable DEF InsertEntry, Found, Goto, LockMoves, CallIsSound,
     WritePcs, ReadPcs, UnblockPcs, PutPcs, WriteLocked, UnblockedEntry
<1>3. CASE put_user_mutex_entry(t)
  BY <1>3, <1>0, <1>g, Domains, Lockable DEF put_user_mutex_entry, PutDone, PutEntry, Goto,
     LockMoves, CallIsSound, WritePcs, ReadPcs, UnblockPcs, PutPcs, WriteLocked, UnblockedEntry
<1>4. CASE RemoveEntry(t)
  BY <1>4, <1>0, <1>g, Domains, Lockable DEF RemoveEntry, PutDone, PutEntry, PutAddress, Goto,
     LockMoves, CallIsSound, WritePcs, ReadPcs, UnblockPcs, PutPcs, WriteLocked, UnblockedEntry
<1>5. CASE user_mutex_prepare_to_lock(t)
  BY <1>5, <1>0, <1>g, Domains, Lockable DEF user_mutex_prepare_to_lock, AfterLock, Goto,
     entryVars, LockMoves, CallIsSound, WritePcs, ReadPcs, UnblockPcs, PutPcs, WriteLocked,
     UnblockedEntry
<1>6. CASE UnsetWaiting(t)
  BY <1>6, <1>0, <1>g, Domains, Lockable DEF UnsetWaiting, AfterLock, Goto, entryVars,
     LockMoves, CallIsSound, WritePcs, ReadPcs, UnblockPcs, PutPcs, WriteLocked, UnblockedEntry
<1>7. CASE AddWaiter(t)
  BY <1>7, <1>0, <1>g, Domains, Lockable DEF AddWaiter, Goto, wordVars, LockMoves, CallIsSound,
     WritePcs, ReadPcs, UnblockPcs, PutPcs, WriteLocked, UnblockedEntry
<1>8. CASE Leave(t)
  BY <1>8, <1>0, <1>g, Domains, Lockable DEF Leave, wordVars, callVars, LockMoves, CallIsSound,
     WritePcs, ReadPcs, UnblockPcs, PutPcs, WriteLocked, UnblockedEntry
<1>9. CASE WaitReturn(t)
  BY <1>9, <1>0, <1>g, Domains, Lockable DEF WaitReturn, Goto, wordVars, LockMoves, CallIsSound,
     WritePcs, ReadPcs, UnblockPcs, PutPcs, WriteLocked, UnblockedEntry
<1>10. CASE FindEntry(t)
  BY <1>10, <1>0, <1>g, Domains, Lockable DEF FindEntry, Found, Goto, wordVars, LockMoves,
     CallIsSound, WritePcs, ReadPcs, UnblockPcs, PutPcs, WriteLocked, UnblockedEntry
<1>11. CASE FindNull(t)
  BY <1>11, <1>0, <1>g, Domains, Lockable DEF FindNull, Goto, entryVars, LockMoves, CallIsSound,
     WritePcs, ReadPcs, UnblockPcs, PutPcs, WriteLocked, UnblockedEntry
<1>12. CASE user_mutex_unblock(t)
  BY <1>12, <1>0, <1>g, Domains, Lockable DEF user_mutex_unblock, AfterUnblock, Goto, entryVars,
     LockMoves, CallIsSound, WritePcs, ReadPcs, UnblockPcs, PutPcs, WriteLocked, UnblockedEntry
<1>13. CASE HandOff(t)
  BY <1>13, <1>0, <1>g, Domains, Lockable DEF HandOff, AfterUnblock, Goto, entryVars, LockMoves,
     CallIsSound, WritePcs, ReadPcs, UnblockPcs, PutPcs, WriteLocked, UnblockedEntry
<1>14. CASE NotifyWaiters(t)
  BY <1>14, <1>0, <1>g, Domains, Lockable DEF NotifyWaiters, Goto, wordVars, LockMoves,
     CallIsSound, WritePcs, ReadPcs, UnblockPcs, PutPcs, WriteLocked, UnblockedEntry
<1>15. CASE UndoHandOff(t)
  BY <1>15, <1>0, <1>g, Domains, Lockable DEF UndoHandOff, Goto, entryVars, LockMoves,
     CallIsSound, WritePcs, ReadPcs, UnblockPcs, PutPcs, WriteLocked, UnblockedEntry
<1>16. CASE UnblockLast(t)
  BY <1>16, <1>0, <1>g, Domains, Lockable DEF UnblockLast, AfterUnblock, Goto, entryVars,
     LockMoves, CallIsSound, WritePcs, ReadPcs, UnblockPcs, PutPcs, WriteLocked, UnblockedEntry
<1>17. CASE ClearFrom(t)
  BY <1>17, <1>0, <1>g, Domains, Lockable DEF ClearFrom, AfterUnblock, Goto, entryVars,
     LockMoves, CallIsSound, WritePcs, ReadPcs, UnblockPcs, PutPcs, WriteLocked, UnblockedEntry
<1>18. CASE FindFrom(t)
  BY <1>18, <1>0, <1>g, Domains, Lockable DEF FindFrom, AfterUnblock, Goto, wordVars, LockMoves,
     CallIsSound, WritePcs, ReadPcs, UnblockPcs, PutPcs, WriteLocked, UnblockedEntry
<1>19. CASE user_mutex_sem_acquire_locked(t)
  BY <1>19, <1>0, <1>g, Domains, Lockable DEF user_mutex_sem_acquire_locked, Goto, entryVars,
     LockMoves, CallIsSound, WritePcs, ReadPcs, UnblockPcs, PutPcs, WriteLocked, UnblockedEntry
<1>20. CASE user_mutex_sem_release(t)
  BY <1>20, <1>0, <1>g, Domains, Lockable DEF user_mutex_sem_release, Goto, LockMoves,
     CallIsSound, WritePcs, ReadPcs, UnblockPcs, PutPcs, WriteLocked, UnblockedEntry
<1>21. CASE SemReleaseLast(t)
  BY <1>21, <1>0, <1>g, Domains, Lockable DEF SemReleaseLast, Goto, entryVars, LockMoves,
     CallIsSound, WritePcs, ReadPcs, UnblockPcs, PutPcs, WriteLocked, UnblockedEntry
<1>22. CASE KernelGiveUp(t)
  BY <1>22, <1>0, <1>g, Domains, Lockable DEF KernelGiveUp, GiveUp, wordVars, LockMoves,
     CallIsSound, WritePcs, ReadPcs, UnblockPcs, PutPcs, WriteLocked, UnblockedEntry
<1> QED
  BY <1>1, <1>2, <1>3, <1>4, <1>5, <1>6, <1>7, <1>8, <1>9, <1>10, <1>11, <1>12, <1>13, <1>14,
    <1>15, <1>16, <1>17, <1>18, <1>19, <1>20, <1>21, <1>22
     DEF KernelNext, KernelStep, SwitchStep, SemStep

\* An entry's lock is never held by a writer and by anybody else.
LEMMA LocksStaySound ==
    ASSUME TypeOK, CallsAreSound, NoneIsDisabled, LocksAreSound, NEW t \in Threads,
           KernelNext(t) \/ UserNext(t)
    PROVE  LocksAreSound'
<1>1. CASE KernelNext(t)
  BY <1>1, KernelFrame, KernelLockMoves, LocksStay
<1>2. CASE UserNext(t)
  <2>1. LockMoves(t)
    BY <1>2, UserBegins, Domains DEF Begins, LockMoves, WritePcs, ReadPcs
  <2> QED BY <1>2, <2>1, UserFrame, LocksStay
<1> QED BY <1>1, <1>2

\* A thread that is queued, and what keeps it there.
Waits(t) ==
    /\ args[t].added
    /\ \/ kpc[t] = "wait"
       \/ args[t].op = "switch" /\ kpc[t] \in UnblockPcs \cup {"clear", "find_from"}

\* A thread keeps waiting on its entry until it is off the queue.
LEMMA WaitsOn ==
    ASSUME TypeOK, CallsAreSound, NoneIsDisabled, NEW t \in Threads, KernelNext(t),
           kpc[t] = "add" \/ (Waits(t) /\ Queued(t))
    PROVE  Waits(t)' /\ entry'[t] = entry[t]
<1>0. CallIsSound(t) /\ args[t] \in KernelCalls
  BY DEF CallsAreSound, TypeOK, KernelTypeOK, KernelCalls
<1>g. GoesOn(t)
  BY KernelGoesOn

<1>1. CASE get_user_mutex_entry(t)
  BY <1>1, <1>0, <1>g, Domains DEF get_user_mutex_entry, Found, Goto, Waits, GoesOn,
     CallIsSound, UnblockPcs, PutPcs, KernelCalls
<1>2. CASE InsertEntry(t)
  BY <1>2, <1>0, <1>g, Domains DEF InsertEntry, Found, Goto, Waits, GoesOn, CallIsSound,
     UnblockPcs, PutPcs, KernelCalls
<1>3. CASE put_user_mutex_entry(t)
  BY <1>3, <1>0, <1>g, Domains DEF put_user_mutex_entry, PutDone, PutEntry, Goto, Waits, GoesOn,
     CallIsSound, UnblockPcs, PutPcs, KernelCalls
<1>4. CASE RemoveEntry(t)
  BY <1>4, <1>0, <1>g, Domains DEF RemoveEntry, PutDone, PutEntry, PutAddress, Goto, Waits,
     GoesOn, CallIsSound, UnblockPcs, PutPcs, KernelCalls
<1>5. CASE user_mutex_prepare_to_lock(t)
  BY <1>5, <1>0, <1>g, Domains DEF user_mutex_prepare_to_lock, AfterLock, Goto, entryVars,
     Waits, GoesOn, CallIsSound, UnblockPcs, PutPcs, KernelCalls
<1>6. CASE UnsetWaiting(t)
  BY <1>6, <1>0, <1>g, Domains DEF UnsetWaiting, AfterLock, Goto, entryVars, Waits, GoesOn,
     CallIsSound, UnblockPcs, PutPcs, KernelCalls
<1>7. CASE AddWaiter(t)
  BY <1>7, <1>0, <1>g, Domains DEF AddWaiter, Goto, wordVars, Waits, GoesOn, CallIsSound,
     UnblockPcs, PutPcs, KernelCalls
<1>8. CASE Leave(t)
  BY <1>8, <1>0, <1>g, Domains DEF Leave, wordVars, callVars, Waits, GoesOn, CallIsSound,
     UnblockPcs, PutPcs, KernelCalls
<1>9. CASE WaitReturn(t)
  BY <1>9, <1>0, <1>g, Domains DEF WaitReturn, Goto, wordVars, Waits, GoesOn, CallIsSound,
     UnblockPcs, PutPcs, KernelCalls
<1>10. CASE FindEntry(t)
  BY <1>10, <1>0, <1>g, Domains DEF FindEntry, Found, Goto, wordVars, Waits, GoesOn,
     CallIsSound, UnblockPcs, PutPcs, KernelCalls
<1>11. CASE FindNull(t)
  BY <1>11, <1>0, <1>g, Domains DEF FindNull, Goto, entryVars, Waits, GoesOn, CallIsSound,
     UnblockPcs, PutPcs, KernelCalls
<1>12. CASE user_mutex_unblock(t)
  BY <1>12, <1>0, <1>g, Domains DEF user_mutex_unblock, AfterUnblock, Goto, entryVars, Waits,
     GoesOn, CallIsSound, UnblockPcs, PutPcs, KernelCalls
<1>13. CASE HandOff(t)
  BY <1>13, <1>0, <1>g, Domains DEF HandOff, AfterUnblock, Goto, entryVars, Waits, GoesOn,
     CallIsSound, UnblockPcs, PutPcs, KernelCalls
<1>14. CASE NotifyWaiters(t)
  BY <1>14, <1>0, <1>g, Domains DEF NotifyWaiters, Goto, wordVars, Waits, GoesOn, CallIsSound,
     UnblockPcs, PutPcs, KernelCalls
<1>15. CASE UndoHandOff(t)
  BY <1>15, <1>0, <1>g, Domains DEF UndoHandOff, Goto, entryVars, Waits, GoesOn, CallIsSound,
     UnblockPcs, PutPcs, KernelCalls
<1>16. CASE UnblockLast(t)
  BY <1>16, <1>0, <1>g, Domains DEF UnblockLast, AfterUnblock, Goto, entryVars, Waits, GoesOn,
     CallIsSound, UnblockPcs, PutPcs, KernelCalls
<1>17. CASE ClearFrom(t)
  BY <1>17, <1>0, <1>g, Domains DEF ClearFrom, AfterUnblock, Goto, entryVars, Waits, GoesOn,
     CallIsSound, UnblockPcs, PutPcs, KernelCalls
<1>18. CASE FindFrom(t)
  BY <1>18, <1>0, <1>g, Domains DEF FindFrom, AfterUnblock, Goto, wordVars, Waits, GoesOn,
     CallIsSound, UnblockPcs, PutPcs, KernelCalls
<1>19. CASE user_mutex_sem_acquire_locked(t)
  BY <1>19, <1>0, <1>g, Domains DEF user_mutex_sem_acquire_locked, Goto, entryVars, Waits,
     GoesOn, CallIsSound, UnblockPcs, PutPcs, KernelCalls
<1>20. CASE user_mutex_sem_release(t)
  BY <1>20, <1>0, <1>g, Domains DEF user_mutex_sem_release, Goto, Waits, GoesOn, CallIsSound,
     UnblockPcs, PutPcs, KernelCalls
<1>21. CASE SemReleaseLast(t)
  BY <1>21, <1>0, <1>g, Domains DEF SemReleaseLast, Goto, entryVars, Waits, GoesOn, CallIsSound,
     UnblockPcs, PutPcs, KernelCalls
<1>22. CASE KernelGiveUp(t)
  BY <1>22, <1>0, <1>g, Domains DEF KernelGiveUp, GiveUp, wordVars, Waits, GoesOn, CallIsSound,
     UnblockPcs, PutPcs, KernelCalls
<1> QED
  BY <1>1, <1>2, <1>3, <1>4, <1>5, <1>6, <1>7, <1>8, <1>9, <1>10, <1>11, <1>12, <1>13, <1>14,
    <1>15, <1>16, <1>17, <1>18, <1>19, <1>20, <1>21, <1>22
     DEF KernelNext, KernelStep, SwitchStep, SemStep

\* NotifyWaiters goes to undo its flag only with an empty queue.
LEMMA UndoneIsEmpty ==
    ASSUME TypeOK, CallsAreSound, QueuesAreSound, NEW t \in Threads, KernelNext(t),
           kpc'[t] = "undo"
    PROVE  NotifyWaiters(t) /\ queue'[UnblockedEntry(t)'] = <<>>
<1>0. CallIsSound(t)
  BY DEF CallsAreSound
<1>1. CASE NotifyWaiters(t)
  <2>1. kpc[t] = "notify" /\ args' = args /\ entry' = entry /\ fromEntry' = fromEntry
    BY <1>1 DEF NotifyWaiters
  <2>2. UnblockedEntry(t) \in Entries /\ UnblockedEntry(t)' = UnblockedEntry(t)
    BY <2>1, Typed DEF UnblockPcs, UnblockedEntry
  <2>3. ~args[t].all /\ Notifiable(UnblockedEntry(t)) = {}
    BY <1>1, Domains DEF NotifyWaiters, Goto
  <2>4. Unnotified(UnblockedEntry(t), args[t].all) = <<>>
    BY <2>3 DEF Unnotified
  <2>5. queue' = [queue EXCEPT ![UnblockedEntry(t)] = <<>>]
    BY <1>1, <2>4 DEF NotifyWaiters
  <2>6. DOMAIN queue = Entries
    BY DEF TypeOK, KernelTypeOK
  <2> QED BY <1>1, <2>2, <2>5, <2>6

<1>2. CASE get_user_mutex_entry(t)
  BY <1>2, <1>0, Domains DEF get_user_mutex_entry, Found, Goto, CallIsSound, UnblockPcs, PutPcs
<1>3. CASE InsertEntry(t)
  BY <1>3, <1>0, Domains DEF InsertEntry, Found, Goto, CallIsSound, UnblockPcs, PutPcs
<1>4. CASE put_user_mutex_entry(t)
  BY <1>4, <1>0, Domains DEF put_user_mutex_entry, PutDone, PutEntry, Goto, CallIsSound,
     UnblockPcs, PutPcs
<1>5. CASE RemoveEntry(t)
  BY <1>5, <1>0, Domains DEF RemoveEntry, PutDone, PutEntry, PutAddress, Goto, CallIsSound,
     UnblockPcs, PutPcs
<1>6. CASE user_mutex_prepare_to_lock(t)
  BY <1>6, <1>0, Domains DEF user_mutex_prepare_to_lock, AfterLock, Goto, entryVars,
     CallIsSound, UnblockPcs, PutPcs
<1>7. CASE UnsetWaiting(t)
  BY <1>7, <1>0, Domains DEF UnsetWaiting, AfterLock, Goto, entryVars, CallIsSound, UnblockPcs,
     PutPcs
<1>8. CASE AddWaiter(t)
  BY <1>8, <1>0, Domains DEF AddWaiter, Goto, wordVars, CallIsSound, UnblockPcs, PutPcs
<1>9. CASE Leave(t)
  BY <1>9, <1>0, Domains DEF Leave, wordVars, callVars, CallIsSound, UnblockPcs, PutPcs
<1>10. CASE WaitReturn(t)
  BY <1>10, <1>0, Domains DEF WaitReturn, Goto, wordVars, CallIsSound, UnblockPcs, PutPcs
<1>11. CASE FindEntry(t)
  BY <1>11, <1>0, Domains DEF FindEntry, Found, Goto, wordVars, CallIsSound, UnblockPcs, PutPcs
<1>12. CASE FindNull(t)
  BY <1>12, <1>0, Domains DEF FindNull, Goto, entryVars, CallIsSound, UnblockPcs, PutPcs
<1>13. CASE user_mutex_unblock(t)
  BY <1>13, <1>0, Domains DEF user_mutex_unblock, AfterUnblock, Goto, entryVars, CallIsSound,
     UnblockPcs, PutPcs
<1>14. CASE HandOff(t)
  BY <1>14, <1>0, Domains DEF HandOff, AfterUnblock, Goto, entryVars, CallIsSound, UnblockPcs,
     PutPcs
<1>15. CASE UndoHandOff(t)
  BY <1>15, <1>0, Domains DEF UndoHandOff, Goto, entryVars, CallIsSound, UnblockPcs, PutPcs
<1>16. CASE UnblockLast(t)
  BY <1>16, <1>0, Domains DEF UnblockLast, AfterUnblock, Goto, entryVars, CallIsSound,
     UnblockPcs, PutPcs
<1>17. CASE ClearFrom(t)
  BY <1>17, <1>0, Domains DEF ClearFrom, AfterUnblock, Goto, entryVars, CallIsSound, UnblockPcs,
     PutPcs
<1>18. CASE FindFrom(t)
  BY <1>18, <1>0, Domains DEF FindFrom, AfterUnblock, Goto, wordVars, CallIsSound, UnblockPcs,
     PutPcs
<1>19. CASE user_mutex_sem_acquire_locked(t)
  BY <1>19, <1>0, Domains DEF user_mutex_sem_acquire_locked, Goto, entryVars, CallIsSound,
     UnblockPcs, PutPcs
<1>20. CASE user_mutex_sem_release(t)
  BY <1>20, <1>0, Domains DEF user_mutex_sem_release, Goto, CallIsSound, UnblockPcs, PutPcs
<1>21. CASE SemReleaseLast(t)
  BY <1>21, <1>0, Domains DEF SemReleaseLast, Goto, entryVars, CallIsSound, UnblockPcs, PutPcs
<1>22. CASE KernelGiveUp(t)
  BY <1>22, <1>0, Domains DEF KernelGiveUp, GiveUp, wordVars, CallIsSound, UnblockPcs, PutPcs
<1> QED
  BY <1>1, <1>2, <1>3, <1>4, <1>5, <1>6, <1>7, <1>8, <1>9, <1>10, <1>11, <1>12, <1>13, <1>14,
    <1>15, <1>16, <1>17, <1>18, <1>19, <1>20, <1>21, <1>22
     DEF KernelNext, KernelStep, SwitchStep, SemStep

\* A step of the kernel leaves in the queues only threads that wait there.
LEMMA KernelQueues ==
    ASSUME TypeOK, CallsAreSound, NoneIsDisabled, QueuesAreSound, LocksAreSound,
           NEW t \in Threads, KernelNext(t)
    PROVE  QueuesAreSound'
<1>1. QueueMoves(t) /\ Frame(t) /\ CallIsSound(t)
  BY QueueStep, KernelFrame DEF CallsAreSound
<1>2. \A e \in Entries : ToSet(queue[e]) \in SUBSET Threads
  BY QueuedFacts
<1>3. ASSUME NEW e \in Entries, NEW u, u \in ToSet(queue'[e])
      PROVE  entry'[u] = e /\ Waits(u)'
  <2>1. u \in ToSet(queue[e]) \/ (u = t /\ kpc[t] = "add" /\ entry[t] = e)
    <3>1. ToSet(queue'[e]) \subseteq
            ToSet(queue[e]) \cup (IF kpc[t] = "add" /\ entry[t] = e THEN {t} ELSE {})
      BY <1>1 DEF QueueMoves
    <3> QED BY <1>3, <3>1
  <2>2. u \in Threads
    BY <1>2, <2>1
  <2>3. u \in ToSet(queue[e]) => entry[u] = e /\ Waits(u) /\ Queued(u)
    BY <2>2, QueuedFacts DEF QueuesAreSound, Waits
  <2>4. CASE u = t
    <3>1. Waits(t)' /\ entry'[t] = entry[t]
      BY <2>1, <2>3, <2>4, WaitsOn
    <3> QED BY <2>1, <2>3, <2>4, <3>1
  <2>5. CASE u # t
    BY <1>1, <2>1, <2>2, <2>3, <2>5 DEF Frame, Waits
  <2> QED BY <2>4, <2>5
<1>4. ASSUME NEW u \in Threads, kpc'[u] = "undo" PROVE queue'[UnblockedEntry(u)'] = <<>>
  <2>1. CASE u = t
    BY <1>4, <2>1, UndoneIsEmpty
  <2>2. CASE u # t
    <3>1. kpc[u] = "undo" /\ UnblockedEntry(u)' = UnblockedEntry(u)
      BY <1>1, <1>4, <2>2 DEF Frame, UnblockedEntry
    <3>2. UnblockedEntry(u) \in Entries /\ queue[UnblockedEntry(u)] = <<>>
      BY <3>1, Typed DEF UnblockPcs, QueuesAreSound
    <3>3. ~(kpc[t] = "add" /\ entry[t] = UnblockedEntry(u))
      BY <2>2, <3>1 DEF LocksAreSound, WritePcs, ReadPcs, WriteLocked
    <3>4. ToSet(<<>>) = {}
      BY EmptyQueue
    <3>5. ToSet(queue'[UnblockedEntry(u)]) = {} /\ queue'[UnblockedEntry(u)] \in Seq(Threads)
      BY <1>1, <3>2, <3>3, <3>4 DEF QueueMoves
    <3>6. queue'[UnblockedEntry(u)] = <<>>
      BY <3>5, QueueMembers
    <3> QED BY <3>1, <3>6
  <2> QED BY <2>1, <2>2
<1> QED BY <1>1, <1>3, <1>4 DEF QueuesAreSound, QueueMoves, Waits

\* A step of libroot moves no queue, and no thread in one is in user space.
LEMMA UserQueues ==
    ASSUME TypeOK, CallsAreSound, QueuesAreSound, NEW t \in Threads, UserNext(t)
    PROVE  QueuesAreSound'
<1>1. Begins(t) /\ Frame(t) /\ queue' = queue
  BY UserBegins, UserFrame DEF Begins, entryVars
<1>2. ASSUME NEW e \in Entries, NEW u \in ToSet(queue[e])
      PROVE  entry'[u] = e /\ Waits(u)'
  <2>1. u \in Threads /\ u # t /\ entry[u] = e /\ Waits(u)
    BY <1>1, QueuedFacts DEF QueuesAreSound, Begins, UnblockPcs, Waits
  <2> QED BY <1>1, <2>1 DEF Frame, Waits
<1>3. ASSUME NEW u \in Threads, kpc'[u] = "undo" PROVE queue[UnblockedEntry(u)'] = <<>>
  <2>1. u # t
    BY <1>1, <1>3, Domains DEF Begins
  <2> QED BY <1>1, <1>3, <2>1 DEF Frame, QueuesAreSound, UnblockedEntry
<1> QED BY <1>1, <1>2, <1>3 DEF QueuesAreSound, Waits

\* The queues hold waiting threads only, each once and at its own entry.
LEMMA QueuesStaySound ==
    ASSUME TypeOK, CallsAreSound, NoneIsDisabled, QueuesAreSound, LocksAreSound,
           NEW t \in Threads, KernelNext(t) \/ UserNext(t)
    PROVE  QueuesAreSound'
BY KernelQueues, UserQueues

-------------------------------------------------------------------------------
(* Who is queued after a step. *)

\* What is known of the kernel's data alone.
KernelIsSound ==
    /\ TypeOK /\ CallsAreSound /\ NoneIsDisabled
    /\ TableIsSound /\ ReferencesAreExact /\ QueuesAreSound /\ LocksAreSound

\* The entry a thread uses is the one of the address it uses it for.
LEMMA EntryOf ==
    ASSUME KernelIsSound, NEW t \in Threads
    PROVE  /\ (Queued(t) \/
               kpc[t] \in {"prepare", "unset", "add", "wait", "sem_release", "sem_last"})
              => args[t].at \in Addresses /\ entry[t] \in Entries /\ table[args[t].at] = entry[t]
           /\ kpc[t] \in UnblockPcs =>
                 /\ UnblockedWord(t) \in Words /\ UnblockedWord(t) \in Addresses
                 /\ UnblockedEntry(t) \in Entries
                 /\ table[UnblockedWord(t)] = UnblockedEntry(t)
<1>0. /\ TypeOK /\ CallsAreSound /\ ReferencesAreExact /\ QueuesAreSound /\ CallIsSound(t)
  BY DEF KernelIsSound, CallsAreSound
<1>1. Queued(t) => Waits(t)
  BY <1>0, QueuedFacts DEF Waits
<1>2. ASSUME Queued(t) \/
             kpc[t] \in {"prepare", "unset", "add", "wait", "sem_release", "sem_last"}
      PROVE  args[t].at \in Addresses /\ entry[t] \in Entries /\ table[args[t].at] = entry[t]
  <2>1. kpc[t] \notin NoEntryPcs \cup PutPcs
    BY <1>1, <1>2 DEF Waits, NoEntryPcs, UnblockPcs, PutPcs
  <2>2. entry[t] \in Entries /\ args[t].at \in Addresses
    BY <1>0, <2>1, Typed DEF NoEntryPcs
  <2> QED BY <1>0, <2>1, <2>2 DEF ReferencesAreExact, HoldsEntry, PutPcs
<1>3. ASSUME kpc[t] \in UnblockPcs
      PROVE  /\ UnblockedWord(t) \in Words /\ UnblockedWord(t) \in Addresses
             /\ UnblockedEntry(t) \in Entries
             /\ table[UnblockedWord(t)] = UnblockedEntry(t)
  <2>1. /\ UnblockedWord(t) \in Words /\ UnblockedWord(t) \in Addresses
        /\ UnblockedEntry(t) \in Entries
    BY <1>0, <1>3, Typed, MutexTypes
  <2>2. kpc[t] # "put_remove"
    BY <1>3 DEF UnblockPcs
  <2> QED BY <1>0, <2>1, <2>2
         DEF ReferencesAreExact, HoldsEntry, HoldsFrom, UnblockedWord, UnblockedEntry
<1> QED BY <1>2, <1>3

\* An entry belongs to one address.
LEMMA OneAddress ==
    ASSUME KernelIsSound, NEW a \in Addresses, NEW b \in Addresses, NEW e \in Entries,
           table[a] = e, table[b] = e
    PROVE  a = b
BY MutexTypes DEF KernelIsSound, TableIsSound

\* The queue of an entry holds the threads that are queued for its address.
LEMMA QueueOf ==
    ASSUME KernelIsSound, NEW e \in Entries, NEW a \in Addresses, table[a] = e
    PROVE  /\ \A u : u \in ToSet(queue[e]) <=> u \in Threads /\ args[u].at = a /\ Queued(u)
           /\ ToSet(queue[e]) \ leaving = BlockedAt(a)
           /\ queue[e] = <<>> <=> \A u \in Threads : args[u].at = a => ~Queued(u)
<1>0. TypeOK /\ QueuesAreSound
  BY DEF KernelIsSound
<1>1. ASSUME NEW u \in ToSet(queue[e]) PROVE u \in Threads /\ args[u].at = a /\ Queued(u)
  <2>1. u \in Threads /\ entry[u] = e /\ Queued(u)
    BY <1>0, QueuedFacts DEF QueuesAreSound
  <2> QED BY <2>1, EntryOf, OneAddress
<1>2. ASSUME NEW u \in Threads, args[u].at = a, Queued(u) PROVE u \in ToSet(queue[e])
  BY <1>2, EntryOf DEF Queued
<1>3. \A u : u \in ToSet(queue[e]) <=> u \in Threads /\ args[u].at = a /\ Queued(u)
  BY <1>1, <1>2
<1>4. queue[e] = <<>> <=> ToSet(queue[e]) = {}
  BY <1>0, QueuedFacts
<1> QED BY <1>3, <1>4 DEF BlockedAt

\* Whom a notification of all or one of the threads at an address takes out.
Notifies(a, all) ==
    /\ \A u \in Threads : /\ Queued(u)' => Queued(u)
                          /\ args[u].at # a /\ Queued(u) => Queued(u)'
    /\ all \/ BlockedAt(a) = {} => \A u \in Threads : args[u].at = a => ~Queued(u)'
    /\ ~all /\ BlockedAt(a) # {} =>
          \E u \in BlockedAt(a) :
             ~Queued(u)' /\ \A v \in BlockedAt(a) : v # u => Queued(v)'

\* Notifying an entry's queue wakes one thread that is blocked at its address, or all.
LEMMA Notification ==
    ASSUME KernelIsSound, NEW e \in Entries, NEW a \in Addresses, table[a] = e,
           NEW all \in BOOLEAN, queue' = [queue EXCEPT ![e] = Unnotified(e, all)],
           entry' = entry
    PROVE  /\ Notifiable(e) = {} <=> BlockedAt(a) = {}
           /\ Notifies(a, all)
<1>0. TypeOK /\ QueuesAreSound /\ DOMAIN queue = Entries
  BY DEF KernelIsSound, TypeOK, KernelTypeOK
<1>1. /\ \A u : u \in ToSet(queue[e]) <=> u \in Threads /\ args[u].at = a /\ Queued(u)
      /\ ToSet(queue[e]) \ leaving = BlockedAt(a)
  BY QueueOf
<1>2. /\ ToSet(Unnotified(e, all)) \subseteq ToSet(queue[e])
      /\ all \/ Notifiable(e) = {} => Unnotified(e, all) = <<>>
      /\ Notifiable(e) = {} <=> ToSet(queue[e]) \subseteq leaving
      /\ ~all /\ Notifiable(e) # {} =>
            \E u \in ToSet(queue[e]) \ leaving :
               /\ u \notin ToSet(Unnotified(e, all))
               /\ \A v \in ToSet(queue[e]) \ leaving :
                     v # u => v \in ToSet(Unnotified(e, all))
  BY <1>0, UnnotifiedFacts
<1>3. Notifiable(e) = {} <=> BlockedAt(a) = {}
  BY <1>1, <1>2
<1>4. queue'[e] = Unnotified(e, all) /\ \A d \in Entries : d # e => queue'[d] = queue[d]
  BY <1>0
<1>e. e # NULL
  BY MutexTypes
<1>5. ASSUME NEW u \in Threads
      PROVE  /\ args[u].at = a /\ Queued(u) => entry[u] = e
             /\ args[u].at = a => (Queued(u)' => u \in ToSet(Unnotified(e, all)))
             /\ args[u].at = a /\ Queued(u) /\ u \in ToSet(Unnotified(e, all)) => Queued(u)'
             /\ args[u].at # a => (Queued(u)' <=> Queued(u))
             /\ Queued(u)' => Queued(u)
  <2>1. entry'[u] = entry[u] /\ entry[u] \in Entries \cup {NULL}
    BY <1>0 DEF TypeOK, KernelTypeOK
  <2>2. CASE entry[u] = e
    <3>1. Queued(u)' <=> u \in ToSet(Unnotified(e, all))
      BY <1>4, <1>e, <2>1, <2>2 DEF Queued
    <3>2. Queued(u) <=> u \in ToSet(queue[e])
      BY <1>e, <2>2 DEF Queued
    <3> QED BY <1>1, <1>2, <2>2, <3>1, <3>2
  <2>3. CASE entry[u] # e
    <3>1. Queued(u)' <=> Queued(u)
      BY <1>4, <2>1, <2>3 DEF Queued
    <3>2. args[u].at = a => ~Queued(u)
      BY <2>3, EntryOf
    <3> QED BY <3>1, <3>2, <2>3
  <2> QED BY <2>2, <2>3
<1>6. ToSet(<<>>) = {}
  BY EmptyQueue
<1>7. all \/ BlockedAt(a) = {} => \A u \in Threads : args[u].at = a => ~Queued(u)'
  BY <1>2, <1>3, <1>5, <1>6
<1>8. ASSUME ~all, BlockedAt(a) # {}
      PROVE  \E u \in BlockedAt(a) : ~Queued(u)' /\ \A v \in BlockedAt(a) : v # u => Queued(v)'
  <2>1. PICK u \in BlockedAt(a) :
           /\ u \notin ToSet(Unnotified(e, all))
           /\ \A v \in BlockedAt(a) : v # u => v \in ToSet(Unnotified(e, all))
    BY <1>1, <1>2, <1>3, <1>8
  <2>2. \A v \in BlockedAt(a) : v \in Threads /\ args[v].at = a /\ Queued(v)
    BY DEF BlockedAt
  <2> QED BY <1>5, <2>1, <2>2
<1> QED BY <1>3, <1>5, <1>7, <1>8 DEF Notifies

\* The two notifiers.
LEMMA UnblockNotifies ==
    ASSUME KernelIsSound, NEW t \in Threads, NotifyWaiters(t)
    PROVE  /\ UnblockedWord(t) \in Words
           /\ BlockedAt(UnblockedWord(t)) = {} <=> Notifiable(UnblockedEntry(t)) = {}
           /\ Notifies(UnblockedWord(t), args[t].all)
<1>1. TypeOK /\ CallsAreSound /\ args[t].all \in BOOLEAN
  BY Typed DEF KernelIsSound
<1>2. /\ UnblockedWord(t) \in Words /\ UnblockedWord(t) \in Addresses
      /\ UnblockedEntry(t) \in Entries /\ table[UnblockedWord(t)] = UnblockedEntry(t)
  BY EntryOf DEF NotifyWaiters, UnblockPcs
<1>3. queue' = [queue EXCEPT ![UnblockedEntry(t)] = Unnotified(UnblockedEntry(t), args[t].all)]
      /\ entry' = entry
  BY DEF NotifyWaiters
<1> QED BY <1>1, <1>2, <1>3, Notification, Zenon

\* Releasing a semaphore in the kernel wakes one of those blocked at its address.
LEMMA ReleaseNotifies ==
    ASSUME KernelIsSound, NEW t \in Threads, user_mutex_sem_release(t)
    PROVE  /\ args[t].at \in Sems
           /\ BlockedAt(args[t].at) = {} <=> Notifiable(entry[t]) = {}
           /\ Notifies(args[t].at, FALSE)
<1>1. TypeOK /\ CallsAreSound /\ FALSE \in BOOLEAN
  BY DEF KernelIsSound
<1>2. args[t].at \in Addresses /\ entry[t] \in Entries /\ table[args[t].at] = entry[t]
  BY EntryOf DEF user_mutex_sem_release
<1>4. args[t].at \in Sems
  BY <1>1, Typed DEF user_mutex_sem_release
<1>3. queue' = [queue EXCEPT ![entry[t]] = Unnotified(entry[t], FALSE)] /\ entry' = entry
  BY DEF user_mutex_sem_release
<1> QED BY <1>1, <1>2, <1>3, <1>4, Notification, Zenon

\* Who is queued after a step of the kernel: t may queue itself or leave, and
\* notified threads are taken out.
QueuedOnly(t, v) == Queued(v)' => Queued(v) \/ (v = t /\ kpc[t] = "add")

QueuedStill(t, v) ==
    \/ Queued(v) => Queued(v)'
    \/ v = t /\ Leave(t)
    \/ v # t /\ NotifyWaiters(t) /\ args[v].at = UnblockedWord(t)
    \/ v # t /\ user_mutex_sem_release(t) /\ args[v].at = args[t].at

\* Who is put on a queue and who is taken off it by a step of the kernel.
LEMMA QueuedMoves ==
    ASSUME KernelIsSound, NEW t \in Threads, KernelNext(t), NEW v \in Threads
    PROVE  QueuedOnly(t, v) /\ QueuedStill(t, v)
<1>0. /\ TypeOK /\ CallsAreSound /\ NoneIsDisabled /\ QueuesAreSound /\ ReferencesAreExact
      /\ CallIsSound(t) /\ Frame(t) /\ DOMAIN queue = Entries
  BY KernelFrame DEF KernelIsSound, CallsAreSound, TypeOK, KernelTypeOK
<1>a. Queued(v) => entry[v] \in Entries /\ v \in ToSet(queue[entry[v]]) /\ Waits(v)
  BY <1>0, QueuedFacts DEF Waits
<1>b. Queued(v) => entry'[v] = entry[v]
  BY <1>0, <1>a, WaitsOn DEF Frame
<1>n. NULL \notin Entries /\ \A u \in Threads : entry[u] \in Entries \cup {NULL}
  BY <1>0, MutexTypes DEF TypeOK, KernelTypeOK
<1>o. QueuedOnly(t, v)
  <2>1. SUFFICES ASSUME Queued(v)' PROVE Queued(v) \/ (v = t /\ kpc[t] = "add")
    BY DEF QueuedOnly
  <2>2. QueueMoves(t) /\ QueuesAreSound'
    BY <1>0, QueueStep, KernelQueues DEF KernelIsSound
  <2>3. PICK e \in Entries : e = entry'[v]
    BY <1>0, <2>1, KernelTypes DEF KernelTypeOK, Queued
  <2>4. v \in ToSet(queue'[e])
    BY <2>1, <2>3 DEF Queued
  <2>5. v \in ToSet(queue[e]) \/ (v = t /\ kpc[t] = "add")
    BY <2>2, <2>4 DEF QueueMoves
  <2> QED BY <1>0, <2>5, QueuedFacts
<1> SUFFICES QueuedStill(t, v)
  BY <1>o
<1>s. ASSUME UNCHANGED queue PROVE QueuedStill(t, v)
  BY <1>a, <1>b, <1>s DEF Queued, QueuedStill

<1>1. CASE InsertEntry(t)
  <2>1. CASE UNCHANGED queue
    BY <1>s, <2>1
  <2>2. CASE \E e \in Entries \ alive : queue' = [queue EXCEPT ![e] = <<>>]
    <3>1. PICK e \in Entries \ alive : queue' = [queue EXCEPT ![e] = <<>>]
      BY <2>2
    <3>2. \A d \in Entries : d # e => queue'[d] = queue[d]
      BY <1>0, <3>1
    <3>3. Queued(v) => HoldsEntry(v, entry[v])
      BY <1>a DEF Waits, HoldsEntry, UnblockPcs
    <3>4. Queued(v) => entry[v] # e
      BY <1>0, <1>a, <3>3 DEF ReferencesAreExact
    <3> QED BY <1>a, <1>b, <3>2, <3>4 DEF Queued, QueuedStill
  <2> QED BY <1>1, <2>1, <2>2 DEF InsertEntry, Found
<1>2. CASE AddWaiter(t)
  <2>1. kpc[t] = "add" /\ queue' = [queue EXCEPT ![entry[t]] = Append(queue[entry[t]], t)]
    BY <1>2 DEF AddWaiter
  <2>2. entry[t] \in Entries
    BY <1>0, <2>1, Typed DEF NoEntryPcs
  <2>3. /\ queue[entry[t]] \in Seq(Threads) /\ IsInjective(queue[entry[t]])
        /\ t \notin ToSet(queue[entry[t]])
    BY <1>0, <2>1, <2>2 DEF TypeOK, KernelTypeOK, QueuesAreSound, UnblockPcs
  <2>4. ToSet(Append(queue[entry[t]], t)) = ToSet(queue[entry[t]]) \cup {t}
    BY <2>3, AppendFacts
  <2>5. \A d \in Entries : ToSet(queue[d]) \subseteq ToSet(queue'[d])
    BY <1>0, <2>1, <2>2, <2>4
  <2> QED BY <1>a, <1>b, <2>5, <1>n DEF Queued, QueuedStill
<1>3. CASE Leave(t)
  <2>1. entry[t] \in Entries
    BY <1>0, <1>3, <1>n DEF Leave, Queued
  <2>2. PICK i \in DOMAIN queue[entry[t]] :
           /\ queue[entry[t]][i] = t
           /\ queue' = [queue EXCEPT ![entry[t]] = RemoveAt(queue[entry[t]], i)]
    BY <1>3 DEF Leave
  <2>3. queue[entry[t]] \in Seq(Threads) /\ IsInjective(queue[entry[t]])
    BY <1>0, <2>1 DEF TypeOK, KernelTypeOK, QueuesAreSound
  <2>4. ToSet(RemoveAt(queue[entry[t]], i)) = ToSet(queue[entry[t]]) \ {t}
    BY <2>2, <2>3, RemoveAtFacts
  <2>5. \A d \in Entries : ToSet(queue[d]) \subseteq ToSet(queue'[d]) \cup {t}
    BY <1>0, <2>1, <2>2, <2>4
  <2> QED BY <1>3, <1>a, <1>b, <2>5, <1>n DEF Queued, QueuedStill
<1>4. CASE NotifyWaiters(t)
  <2>1. Notifies(UnblockedWord(t), args[t].all) /\ kpc[t] = "notify"
    BY <1>4, UnblockNotifies DEF NotifyWaiters
  <2>2. CASE v # t
    BY <1>4, <2>1, <2>2 DEF Notifies, QueuedStill
  <2>3. CASE v = t
    <3>1. Queued(t) => args[t].at # UnblockedWord(t)
      BY <1>0, <1>a, <2>1, <2>3, MutexTypes DEF Waits, UnblockedWord, CallIsSound
    <3> QED BY <2>1, <2>3, <3>1 DEF Notifies, QueuedStill
  <2> QED BY <2>2, <2>3
<1>5. CASE user_mutex_sem_release(t)
  <2>1. Notifies(args[t].at, FALSE) /\ kpc[t] = "sem_release"
    BY <1>5, ReleaseNotifies DEF user_mutex_sem_release
  <2>2. CASE v # t
    BY <1>5, <2>1, <2>2 DEF Notifies, QueuedStill
  <2>3. CASE v = t
    BY <1>a, <2>1, <2>3 DEF Waits, UnblockPcs, QueuedStill
  <2> QED BY <2>2, <2>3

<1>6. CASE get_user_mutex_entry(t)
  BY <1>6, <1>s DEF get_user_mutex_entry, Found, Goto
<1>7. CASE put_user_mutex_entry(t)
  BY <1>7, <1>s DEF put_user_mutex_entry, PutDone, PutEntry, Goto
<1>8. CASE RemoveEntry(t)
  BY <1>8, <1>s DEF RemoveEntry, PutDone, PutEntry, PutAddress, Goto
<1>9. CASE user_mutex_prepare_to_lock(t)
  BY <1>9, <1>s DEF user_mutex_prepare_to_lock, AfterLock, Goto, entryVars
<1>10. CASE UnsetWaiting(t)
  BY <1>10, <1>s DEF UnsetWaiting, AfterLock, Goto, entryVars
<1>11. CASE WaitReturn(t)
  BY <1>11, <1>s DEF WaitReturn, Goto, wordVars
<1>12. CASE FindEntry(t)
  BY <1>12, <1>s DEF FindEntry, Found, Goto, wordVars
<1>13. CASE FindNull(t)
  BY <1>13, <1>s DEF FindNull, Goto, entryVars
<1>14. CASE user_mutex_unblock(t)
  BY <1>14, <1>s DEF user_mutex_unblock, AfterUnblock, Goto, entryVars
<1>15. CASE HandOff(t)
  BY <1>15, <1>s DEF HandOff, AfterUnblock, Goto, entryVars
<1>16. CASE UndoHandOff(t)
  BY <1>16, <1>s DEF UndoHandOff, Goto, entryVars
<1>17. CASE UnblockLast(t)
  BY <1>17, <1>s DEF UnblockLast, AfterUnblock, Goto, entryVars
<1>18. CASE ClearFrom(t)
  BY <1>18, <1>s DEF ClearFrom, AfterUnblock, Goto, entryVars
<1>19. CASE FindFrom(t)
  BY <1>19, <1>s DEF FindFrom, AfterUnblock, Goto, wordVars
<1>20. CASE user_mutex_sem_acquire_locked(t)
  BY <1>20, <1>s DEF user_mutex_sem_acquire_locked, Goto, entryVars
<1>21. CASE SemReleaseLast(t)
  BY <1>21, <1>s DEF SemReleaseLast, Goto, entryVars
<1>22. CASE KernelGiveUp(t)
  BY <1>22, <1>s DEF KernelGiveUp, GiveUp, wordVars
<1> QED
  BY <1>1, <1>2, <1>3, <1>4, <1>5, <1>6, <1>7, <1>8, <1>9, <1>10, <1>11, <1>12, <1>13, <1>14,
    <1>15, <1>16, <1>17, <1>18, <1>19, <1>20, <1>21, <1>22
     DEF KernelNext, KernelStep, SwitchStep, SemStep

\* Outside of the kernel nothing of this changes.
LEMMA UserQueued ==
    ASSUME TypeOK, CallsAreSound, QueuesAreSound, NEW t \in Threads, UserNext(t),
           NEW v \in Threads
    PROVE  /\ Queued(v)' <=> Queued(v)
           /\ ~Queued(t)
<1>1. Begins(t) /\ queue' = queue /\ entry' = entry
  BY UserBegins DEF Begins, entryVars
<1>2. ~Queued(t)
  BY <1>1, QueuedFacts DEF Begins, UnblockPcs
<1> QED BY <1>1, <1>2 DEF Queued

\* A thread whose wait has ended is off the queue when it leaves.
LEMMA LeavesAtLast ==
    ASSUME KernelIsSound, NEW t \in Threads, Leave(t)
    PROVE  ~Queued(t)'
<1>0. TypeOK /\ QueuesAreSound /\ DOMAIN queue = Entries /\ NULL \notin Entries
  BY MutexTypes DEF KernelIsSound, TypeOK, KernelTypeOK
<1>1. entry[t] \in Entries /\ entry' = entry
  BY <1>0 DEF Leave, Queued, callVars, TypeOK, KernelTypeOK
<1>2. PICK i \in DOMAIN queue[entry[t]] :
         /\ queue[entry[t]][i] = t
         /\ queue' = [queue EXCEPT ![entry[t]] = RemoveAt(queue[entry[t]], i)]
  BY DEF Leave
<1>3. queue[entry[t]] \in Seq(Threads) /\ IsInjective(queue[entry[t]])
  BY <1>0, <1>1 DEF TypeOK, KernelTypeOK, QueuesAreSound
<1>4. ToSet(RemoveAt(queue[entry[t]], i)) = ToSet(queue[entry[t]]) \ {t}
  BY <1>2, <1>3, RemoveAtFacts
<1>5. queue'[entry[t]] = RemoveAt(queue[entry[t]], i)
  BY <1>0, <1>1, <1>2
<1> QED BY <1>1, <1>4, <1>5 DEF Queued

\* AddWaiter puts its thread on the queue.
LEMMA AddsItself ==
    ASSUME KernelIsSound, NEW t \in Threads, AddWaiter(t)
    PROVE  Queued(t)'
<1>0. TypeOK /\ CallsAreSound /\ DOMAIN queue = Entries /\ NULL \notin Entries
  BY MutexTypes DEF KernelIsSound, TypeOK, KernelTypeOK
<1>1. entry[t] \in Entries /\ entry' = entry
  BY <1>0, Typed DEF AddWaiter, NoEntryPcs
<1>2. queue' = [queue EXCEPT ![entry[t]] = Append(queue[entry[t]], t)]
  BY DEF AddWaiter
<1>3. /\ queue[entry[t]] \in Seq(Threads) /\ IsInjective(queue[entry[t]])
      /\ t \notin ToSet(queue[entry[t]])
  BY <1>0, <1>1 DEF TypeOK, KernelTypeOK, KernelIsSound, QueuesAreSound, UnblockPcs, AddWaiter
<1>4. ToSet(Append(queue[entry[t]], t)) = ToSet(queue[entry[t]]) \cup {t}
  BY <1>3, AppendFacts
<1>5. queue'[entry[t]] = Append(queue[entry[t]], t)
  BY <1>0, <1>1, <1>2
<1> QED BY <1>0, <1>1, <1>4, <1>5 DEF Queued

-------------------------------------------------------------------------------
(* Mutexes after a step. *)

Holds(t, m) ==
    \/ owner[m] = t
    \/ upc[t] \in {"own", "unlock"} /\ target[t] = m
    \/ upc[t] \in {"lock", "relock"} /\ target[t] = m /\ Succeeds(t)
    \/ args[t].op = "switch" /\ args[t].from = m
          /\ kpc[t] \in {"get", "insert", "prepare", "unset", "add", "clear"}
    \/ args[t].op = "unblock" /\ args[t].at = m /\ kpc[t] \in {"notify", "undo"}
    \/ args[t].op = "switch" /\ args[t].from = m /\ kpc[t] \in {"notify", "undo"}

\* The holders of a mutex, one at a time.
LEMMA HoldersHold ==
    ASSUME NEW m
    PROVE  /\ \A t \in Threads : t \in Holders(m) <=> Holds(t, m)
           /\ \A t \in Threads : t \in Holders(m)' <=> Holds(t, m)'
           /\ Holders(m) \subseteq Threads /\ Holders(m)' \subseteq Threads
<1>1. \A t \in Threads : t \in Holders(m) <=> Holds(t, m)
  BY DEF Holders, Holds, Unblockers, WritePcs
<1>2. \A t \in Threads : t \in Holders(m)' <=> Holds(t, m)'
  BY DEF Holders, Holds, Unblockers, WritePcs
<1> QED BY <1>1, <1>2 DEF Holders

\* The lock and the hold of t change together.
HeldMoves(t, m) ==
    \/ /\ "LOCKED" \in word'[m] <=> "LOCKED" \in word[m]
       /\ Holds(t, m)' <=> Holds(t, m)
    \/ "LOCKED" \notin word[m] /\ "LOCKED" \in word'[m] /\ Holds(t, m)'
    \/ "LOCKED" \notin word'[m] /\ Holds(t, m) /\ ~Holds(t, m)'

HeldByOneAt(m) ==
    /\ "LOCKED" \in word[m] <=> Holders(m) # {}
    /\ \A t, u \in Holders(m) : t = u

\* A mutex stays held by one when t alone changes what it holds, together with LOCKED.
LEMMA HeldStays ==
    ASSUME NEW m, HeldByOneAt(m), NEW t \in Threads, HeldMoves(t, m),
           \A u \in Threads \ {t} : Holds(u, m)' <=> Holds(u, m)
    PROVE  HeldByOneAt(m)'
<1>1. /\ \A u \in Threads : u \in Holders(m) <=> Holds(u, m)
      /\ \A u \in Threads : u \in Holders(m)' <=> Holds(u, m)'
      /\ Holders(m) \subseteq Threads /\ Holders(m)' \subseteq Threads
  BY HoldersHold
<1>2. /\ "LOCKED" \in word[m] <=> \E u \in Threads : Holds(u, m)
      /\ \A u, v \in Threads : Holds(u, m) /\ Holds(v, m) => u = v
  BY <1>1 DEF HeldByOneAt
<1>3. /\ "LOCKED" \in word'[m] <=> \E u \in Threads : Holds(u, m)'
      /\ \A u, v \in Threads : Holds(u, m)' /\ Holds(v, m)' => u = v
  <2>1. CASE /\ "LOCKED" \in word'[m] <=> "LOCKED" \in word[m]
             /\ Holds(t, m)' <=> Holds(t, m)
    <3>1. \A u \in Threads : Holds(u, m)' <=> Holds(u, m)
      BY <2>1
    <3> QED BY <1>2, <2>1, <3>1
  <2>2. CASE "LOCKED" \notin word[m] /\ "LOCKED" \in word'[m] /\ Holds(t, m)'
    <3>1. \A u \in Threads \ {t} : ~Holds(u, m)'
      BY <1>2, <2>2
    <3> QED BY <2>2, <3>1
  <2>3. CASE "LOCKED" \notin word'[m] /\ Holds(t, m) /\ ~Holds(t, m)'
    <3>1. \A u \in Threads : ~Holds(u, m)'
      BY <1>2, <2>3
    <3> QED BY <2>3, <3>1
  <2> QED BY <2>1, <2>2, <2>3 DEF HeldMoves
<1> QED BY <1>1, <1>3 DEF HeldByOneAt

\* A step of the kernel gives a mutex to another thread only by notifying it.
LEMMA OthersHold ==
    ASSUME KernelIsSound, NEW t \in Threads, KernelNext(t), NEW u \in Threads \ {t},
           NEW m \in Mutexes, ~(NotifyWaiters(t) /\ UnblockedWord(t) = m /\ args[u].at = m)
    PROVE  Holds(u, m)' <=> Holds(u, m)
<1>0. /\ TypeOK /\ CallsAreSound /\ CallIsSound(u) /\ UserIsSound(u) /\ CallIsSound(t)
      /\ Frame(t) /\ owner' = owner
  BY KernelFrame DEF KernelIsSound, CallsAreSound, KernelNext
<1>1. QueuedOnly(t, u) /\ QueuedStill(t, u)
  BY QueuedMoves
<1>2. user_mutex_sem_release(t) => args[t].at \in Sems
  BY ReleaseNotifies
<1>3. upc[u] \in {"lock", "relock"} /\ target[u] = m /\ kpc[u] = "wait" => args[u].at = m
  BY <1>0 DEF UserIsSound, CallIsSound
<1>4. upc[u] \in {"lock", "relock"} /\ target[u] = m => (Succeeds(u)' <=> Succeeds(u))
  BY <1>0, <1>1, <1>2, <1>3, MutexTypes DEF QueuedOnly, QueuedStill, Succeeds, Frame
<1> QED BY <1>0, <1>4 DEF Holds, Frame

\* A step of the kernel takes or releases a mutex for its own thread, or hands it on.
LEMMA KernelHolds ==
    ASSUME KernelIsSound, OwnersAreSound, NEW t \in Threads, KernelNext(t), NEW m \in Mutexes
    PROVE  HeldMoves(t, m) \/ (NotifyWaiters(t) /\ UnblockedWord(t) = m)
<1>0. /\ TypeOK /\ CallsAreSound /\ CallIsSound(t) /\ UserIsSound(t) /\ NoneIsDisabled
      /\ args[t].op \in Calls \cup {"none"} /\ args[t] \in KernelCalls
      /\ word \in [Words -> SUBSET Flags]
  BY Typed DEF KernelIsSound, CallsAreSound, TypeOK, KernelTypeOK, KernelCalls
<1>1. UNCHANGED <<owner, upc, target>> /\ GoesOn(t)
  BY <1>0, KernelGoesOn DEF KernelNext
<1>2. /\ args[t].op = "switch" => upc[t] = "cond" /\ args[t].from = MutexOf[cond[t]]
      /\ args[t].op = "lock" => upc[t] \in {"lock", "relock"} /\ target[t] = args[t].at
      /\ args[t].op = "unblock" => upc[t] = "idle"
      /\ args[t].op \in {"sem_acquire", "sem_release"} => upc[t] \in {"idle", "sem"}
  BY <1>0 DEF UserIsSound, TypeOK
<1>3. /\ args[t].op = "switch" => owner[args[t].from] # t
      /\ args[t].op = "unblock" /\ args[t].at = m => owner[m] # t
  BY <1>2 DEF OwnersAreSound
<1>4. QueuedOnly(t, t) /\ QueuedStill(t, t)
  BY QueuedMoves
<1>5. m \in Words /\ m \notin Conds /\ m \notin Sems
  BY MutexTypes
<1>6. /\ AddWaiter(t) => Queued(t)'
      /\ Leave(t) => ~Queued(t)'
  BY AddsItself, LeavesAtLast
<1>7. /\ kpc[t] \in UnblockPcs => UnblockedWord(t) \in Words
      /\ kpc[t] \in {"unset", "find", "find_null"} => args[t].at \in Words
  BY <1>0, Typed, MutexTypes
<1>8. kpc[t] # "idle" =>
        (Holds(t, m) <=>
           \/ owner[m] = t
           \/ args[t].op = "lock" /\ args[t].at = m /\ Succeeds(t)
           \/ args[t].op = "switch" /\ args[t].from = m
                 /\ kpc[t] \in {"get", "insert", "prepare", "unset", "add", "clear", "notify", "undo"}
           \/ args[t].op = "unblock" /\ args[t].at = m /\ kpc[t] \in {"notify", "undo"})
  BY <1>0, <1>2 DEF Holds, CallIsSound, UserIsSound, Calls
<1>9. kpc'[t] # "idle" =>
        (Holds(t, m)' <=>
           \/ owner[m] = t
           \/ args[t].op = "lock" /\ args[t].at = m /\ Succeeds(t)'
           \/ args[t].op = "switch" /\ args[t].from = m
                 /\ kpc'[t] \in {"get", "insert", "prepare", "unset", "add", "clear", "notify", "undo"}
           \/ args[t].op = "unblock" /\ args[t].at = m /\ kpc'[t] \in {"notify", "undo"})
  <2>1. CallIsSound(t)'
    BY <1>0, KernelCallIsSound
  <2>2. kpc'[t] # "idle" => args'[t].op # "none"
    BY <2>1 DEF CallIsSound
  <2>3. kpc'[t] # "idle" => /\ args'[t].op = args[t].op
                            /\ args'[t].at = args[t].at /\ args'[t].from = args[t].from
    BY <1>1 DEF GoesOn
  <2> QED BY <1>0, <1>1, <1>2, <2>2, <2>3 DEF Holds, UserIsSound, Calls

<1>10. CASE get_user_mutex_entry(t)
  BY <1>10, <1>0, <1>1, <1>2, <1>3, <1>5, <1>7, Domains DEF get_user_mutex_entry, Found, Goto,
     HeldMoves, Holds, Succeeds, GoesOn, CallIsSound, UnblockPcs, PutPcs, NoEntryPcs, wordVars,
     UnblockedWord
<1>11. CASE InsertEntry(t)
  BY <1>11, <1>0, <1>1, <1>2, <1>3, <1>5, <1>7, Domains DEF InsertEntry, Found, Goto, HeldMoves,
     Holds, Succeeds, GoesOn, CallIsSound, UnblockPcs, PutPcs, NoEntryPcs, wordVars,
     UnblockedWord
<1>12. CASE put_user_mutex_entry(t)
  BY <1>12, <1>0, <1>1, <1>2, <1>3, <1>5, <1>7, Domains DEF put_user_mutex_entry, PutDone,
     PutEntry, Goto, HeldMoves, Holds, Succeeds, GoesOn, CallIsSound, UnblockPcs, PutPcs,
     NoEntryPcs, wordVars, UnblockedWord
<1>13. CASE RemoveEntry(t)
  BY <1>13, <1>0, <1>1, <1>2, <1>3, <1>5, <1>7, Domains DEF RemoveEntry, PutDone, PutEntry,
     PutAddress, Goto, HeldMoves, Holds, Succeeds, GoesOn, CallIsSound, UnblockPcs, PutPcs,
     NoEntryPcs, wordVars, UnblockedWord
<1>14. CASE user_mutex_prepare_to_lock(t)
  <2>1. /\ kpc[t] = "prepare" /\ args[t].at \in Words /\ args[t].op \in {"lock", "switch"}
        /\ word' = [word EXCEPT ![args[t].at] = @ \cup {"LOCKED", "WAITING"}]
    BY <1>14, <1>0, MutexTypes DEF user_mutex_prepare_to_lock, CallIsSound, UnblockPcs, PutPcs,
       Calls
  <2>2. /\ kpc'[t] \in {"unset", "put", "clear", "add"}
        /\ args[t].op = "lock" => kpc'[t] # "clear"
        /\ args[t].op = "switch" => kpc'[t] # "put"
        /\ kpc'[t] = "add" <=> "LOCKED" \in word[args[t].at]
        /\ kpc'[t] # "add" => status'[t] = "B_OK"
    BY <1>14, <1>0, <2>1, Domains DEF user_mutex_prepare_to_lock, AfterLock, Goto, NoneIsDisabled
  <2>3. /\ args[t].at = m => "LOCKED" \in word'[m]
        /\ args[t].at # m => word'[m] = word[m]
    BY <1>0, <1>5, <2>1
  <2>4. ~Succeeds(t) /\ (Succeeds(t)' <=> kpc'[t] \in {"unset", "put"})
    BY <2>1, <2>2 DEF Succeeds
  <2>5. args[t].op = "switch" => args[t].at # m
    BY <1>0, <1>5 DEF CallIsSound
  <2> QED BY <1>8, <1>9, <2>1, <2>2, <2>3, <2>4, <2>5 DEF HeldMoves
<1>15. CASE UnsetWaiting(t)
  BY <1>15, <1>0, <1>1, <1>2, <1>3, <1>5, <1>7, Domains DEF UnsetWaiting, AfterLock, Goto,
     entryVars, HeldMoves, Holds, Succeeds, GoesOn, CallIsSound, UnblockPcs, PutPcs, NoEntryPcs,
     wordVars, UnblockedWord
<1>16. CASE AddWaiter(t)
  BY <1>16, <1>0, <1>1, <1>3, <1>5, <1>7, <1>8, <1>9, Domains, <1>6 DEF AddWaiter, Goto,
     wordVars, HeldMoves, Succeeds, CallIsSound, UnblockPcs, PutPcs, NoEntryPcs, wordVars,
     UnblockedWord
<1>17. CASE Leave(t)
  BY <1>17, <1>0, <1>1, <1>2, <1>3, <1>5, <1>7, Domains DEF Leave, wordVars, callVars,
     HeldMoves, Holds, Succeeds, GoesOn, CallIsSound, UnblockPcs, PutPcs, NoEntryPcs, wordVars,
     UnblockedWord
<1>18. CASE WaitReturn(t)
  BY <1>18, <1>0, <1>1, <1>2, <1>3, <1>5, <1>7, Domains DEF WaitReturn, Goto, wordVars,
     HeldMoves, Holds, Succeeds, GoesOn, CallIsSound, UnblockPcs, PutPcs, NoEntryPcs, wordVars,
     UnblockedWord
<1>19. CASE FindEntry(t)
  BY <1>19, <1>0, <1>1, <1>2, <1>3, <1>5, <1>7, Domains DEF FindEntry, Found, Goto, wordVars,
     HeldMoves, Holds, Succeeds, GoesOn, CallIsSound, UnblockPcs, PutPcs, NoEntryPcs, wordVars,
     UnblockedWord
<1>20. CASE FindNull(t)
  BY <1>20, <1>0, <1>1, <1>2, <1>5, <1>7, <1>8, Domains DEF FindNull, Goto, entryVars,
     HeldMoves, Holds, Succeeds, GoesOn, CallIsSound, UnblockPcs, PutPcs, NoEntryPcs, wordVars,
     UnblockedWord, UserIsSound, NoCall
<1>21. CASE user_mutex_unblock(t)
  BY <1>21, <1>0, <1>1, <1>3, <1>5, <1>7, <1>8, <1>9, Domains DEF user_mutex_unblock,
     AfterUnblock, Goto, entryVars, HeldMoves, Succeeds, CallIsSound, UnblockPcs, PutPcs,
     NoEntryPcs, wordVars, UnblockedWord
<1>22. CASE HandOff(t)
  <2>1. /\ kpc[t] = "hand_off" /\ UnblockedWord(t) \in Words
        /\ word' = [word EXCEPT ![UnblockedWord(t)] = @ \cup {"LOCKED"}]
    BY <1>22, <1>7 DEF HandOff, UnblockPcs
  <2>2. /\ args[t].op \in {"switch", "unblock"}
        /\ UnblockedWord(t) = IF args[t].op = "switch" THEN args[t].from ELSE args[t].at
    <3>1. args[t].op \in {"switch", "unblock"}
      BY <1>0, <2>1 DEF CallIsSound, UnblockPcs, PutPcs, Calls
    <3> QED BY <3>1 DEF UnblockedWord
  <2>3. /\ "LOCKED" \in word[UnblockedWord(t)] => kpc'[t] \in {"wait", "put"}
        /\ "LOCKED" \notin word[UnblockedWord(t)] => kpc'[t] = "notify"
    BY <1>22, <1>0, Domains DEF HandOff, AfterUnblock, Goto
  <2>4. /\ UnblockedWord(t) = m => "LOCKED" \in word'[m]
        /\ UnblockedWord(t) # m => word'[m] = word[m]
    BY <1>0, <1>5, <2>1
  <2> QED BY <1>8, <1>9, <2>1, <2>2, <2>3, <2>4 DEF HeldMoves
<1>23. CASE NotifyWaiters(t)
  BY <1>23, <1>0, <1>1, <1>2, <1>3, <1>5, <1>7, Domains DEF NotifyWaiters, Goto, wordVars,
     HeldMoves, Holds, Succeeds, GoesOn, CallIsSound, UnblockPcs, PutPcs, NoEntryPcs, wordVars,
     UnblockedWord
<1>24. CASE UndoHandOff(t)
  <2>1. /\ kpc[t] = "undo" /\ UnblockedWord(t) \in Words /\ kpc'[t] = "last"
        /\ word' = [word EXCEPT ![UnblockedWord(t)] = @ \ {"LOCKED"}]
    BY <1>24, <1>0, <1>7, Domains DEF UndoHandOff, UnblockPcs, Goto
  <2>2. /\ args[t].op \in {"switch", "unblock"}
        /\ UnblockedWord(t) = IF args[t].op = "switch" THEN args[t].from ELSE args[t].at
    <3>1. args[t].op \in {"switch", "unblock"}
      BY <1>0, <2>1 DEF CallIsSound, UnblockPcs, PutPcs, Calls
    <3> QED BY <3>1 DEF UnblockedWord
  <2>4. /\ UnblockedWord(t) = m => "LOCKED" \notin word'[m]
        /\ UnblockedWord(t) # m => word'[m] = word[m]
    BY <1>0, <1>5, <2>1
  <2> QED BY <1>3, <1>8, <1>9, <2>1, <2>2, <2>4 DEF HeldMoves
<1>25. CASE UnblockLast(t)
  BY <1>25, <1>0, <1>1, <1>3, <1>5, <1>7, <1>8, <1>9, Domains DEF UnblockLast, AfterUnblock,
     Goto, entryVars, HeldMoves, Succeeds, CallIsSound, UnblockPcs, PutPcs, NoEntryPcs,
     wordVars, UnblockedWord
<1>26. CASE ClearFrom(t)
  <2>1. /\ kpc[t] = "clear" /\ args[t].op = "switch" /\ args[t].from \in Words
        /\ kpc'[t] \in {"find_from", "wait", "put"}
        /\ word' = [word EXCEPT ![args[t].from] = @ \ {"LOCKED"}]
    BY <1>26, <1>0, Domains, MutexTypes
       DEF ClearFrom, AfterUnblock, Goto, CallIsSound, UnblockPcs, PutPcs, Calls
  <2>4. /\ args[t].from = m => "LOCKED" \notin word'[m]
        /\ args[t].from # m => word'[m] = word[m]
    BY <1>0, <1>5, <2>1
  <2> QED BY <1>3, <1>8, <1>9, <2>1, <2>4 DEF HeldMoves
<1>27. CASE FindFrom(t)
  BY <1>27, <1>0, <1>1, <1>3, <1>5, <1>7, <1>8, <1>9, Domains DEF FindFrom, AfterUnblock, Goto,
     wordVars, HeldMoves, Succeeds, CallIsSound, UnblockPcs, PutPcs, NoEntryPcs, wordVars,
     UnblockedWord
<1>28. CASE user_mutex_sem_acquire_locked(t)
  <2>1. /\ kpc[t] = "prepare" /\ args[t].op = "sem_acquire" /\ word' = word
        /\ kpc'[t] \in {"put", "add"}
    BY <1>28, <1>0, Domains, MutexTypes
       DEF user_mutex_sem_acquire_locked, Goto, CallIsSound, UnblockPcs, PutPcs, Calls
  <2> QED BY <1>8, <1>9, <2>1 DEF HeldMoves
<1>29. CASE user_mutex_sem_release(t)
  BY <1>29, <1>0, <1>1, <1>3, <1>5, <1>7, <1>8, <1>9, Domains DEF user_mutex_sem_release, Goto,
     HeldMoves, Succeeds, CallIsSound, UnblockPcs, PutPcs, NoEntryPcs, wordVars, UnblockedWord
<1>30. CASE SemReleaseLast(t)
  BY <1>30, <1>0, <1>1, <1>3, <1>5, <1>7, <1>8, <1>9, Domains DEF SemReleaseLast, Goto,
     entryVars, HeldMoves, Succeeds, CallIsSound, UnblockPcs, PutPcs, NoEntryPcs, wordVars,
     UnblockedWord
<1>31. CASE KernelGiveUp(t)
  BY <1>31, <1>0, <1>1, <1>2, <1>3, <1>5, <1>7, Domains DEF KernelGiveUp, GiveUp, wordVars,
     HeldMoves, Holds, Succeeds, GoesOn, CallIsSound, UnblockPcs, PutPcs, NoEntryPcs, wordVars,
     UnblockedWord
<1> QED
  BY <1>10, <1>11, <1>12, <1>13, <1>14, <1>15, <1>16, <1>17, <1>18, <1>19, <1>20, <1>21, <1>22,
    <1>23, <1>24, <1>25, <1>26, <1>27, <1>28, <1>29, <1>30, <1>31
     DEF KernelNext, KernelStep, SwitchStep, SemStep

\* A waiter that is notified has the mutex from then on.
LEMMA NotifiedHolds ==
    ASSUME KernelIsSound, NEW t \in Threads, KernelNext(t), NotifyWaiters(t), NEW m \in Mutexes,
           UnblockedWord(t) = m, NEW v \in Threads \ {t}
    PROVE  Holds(v, m)' <=> Holds(v, m) \/ (v \in BlockedAt(m) /\ ~Queued(v)')
<1>0. /\ TypeOK /\ CallsAreSound /\ CallIsSound(v) /\ UserIsSound(v) /\ Frame(t)
      /\ QueuesAreSound /\ UNCHANGED <<owner, leaving>> /\ args[v].op \in Calls \cup {"none"}
      /\ upc[v] \in UserPcs
  BY KernelFrame, Typed DEF KernelIsSound, CallsAreSound, KernelNext, NotifyWaiters, TypeOK, UserPcs
<1>1. CASE args[v].at # m
  <2>1. Holds(v, m)' <=> Holds(v, m)
    BY <1>1, OthersHold
  <2> QED BY <1>1, <2>1 DEF BlockedAt
<1>2. CASE args[v].at = m
  <2>1. Queued(v)' => Queued(v)
    BY UnblockNotifies DEF Notifies
  <2>2. ASSUME Queued(v)
        PROVE  kpc[v] = "wait" /\ upc[v] \in {"lock", "relock"} /\ target[v] = m
    <3>1. Waits(v)
      BY <1>0, <2>2, QueuedFacts DEF Waits
    <3>2. args[v].op = "lock" /\ kpc[v] = "wait"
      BY <1>0, <1>2, <3>1, MutexTypes DEF Waits, CallIsSound, UnblockPcs, PutPcs, Calls
    <3> QED BY <1>0, <1>2, <3>2 DEF UserIsSound, UserPcs
  <2>3. v \in BlockedAt(m) <=> Queued(v) /\ v \notin leaving
    BY <1>2 DEF BlockedAt
  <2>4. Succeeds(v)' <=> Succeeds(v) \/ (kpc[v] = "wait" /\ Queued(v) /\ ~Queued(v)' /\ v \notin leaving)
    BY <1>0, <2>1 DEF Succeeds, Frame
  <2>5. CASE Queued(v) /\ ~Queued(v)' /\ v \notin leaving
    <3>1. Holds(v, m)'
      BY <1>0, <2>2, <2>4, <2>5 DEF Holds, Frame
    <3> QED BY <2>3, <2>5, <3>1
  <2>6. CASE ~(Queued(v) /\ ~Queued(v)' /\ v \notin leaving)
    <3>1. Succeeds(v)' <=> Succeeds(v)
      BY <2>4, <2>6
    <3>2. Holds(v, m)' <=> Holds(v, m)
      BY <1>0, <3>1 DEF Holds, Frame
    <3> QED BY <2>3, <2>6, <3>2
  <2> QED BY <2>5, <2>6
<1> QED BY <1>1, <1>2

\* A mutex is handed over to one waiter, or kept until that is undone.
LEMMA HandOver ==
    ASSUME KernelIsSound, OwnersAreSound, NEW t \in Threads, KernelNext(t), NotifyWaiters(t),
           NEW m \in Mutexes, UnblockedWord(t) = m, HeldByOneAt(m)
    PROVE  HeldByOneAt(m)'
<1>0. /\ TypeOK /\ CallsAreSound /\ CallIsSound(t) /\ UserIsSound(t) /\ kpc[t] = "notify"
      /\ UNCHANGED <<owner, leaving, word, upc, target, args>>
      /\ args[t].op \in Calls \cup {"none"} /\ upc[t] \in UserPcs
      /\ args[t].all \in BOOLEAN
  BY Typed DEF KernelIsSound, CallsAreSound, KernelNext, NotifyWaiters, wordVars, TypeOK, UserPcs
<1>1. /\ args[t].op \in {"switch", "unblock"} /\ ~args[t].all
      /\ IF args[t].op = "switch" THEN args[t].from = m ELSE args[t].at = m
  BY <1>0, MutexTypes DEF CallIsSound, UnblockPcs, PutPcs, Calls, UnblockedWord
<1>2. Holds(t, m) /\ owner[m] # t
  <2>1. args[t].op = "switch" => upc[t] = "cond" /\ args[t].from = MutexOf[cond[t]]
    BY <1>0 DEF UserIsSound, UserPcs
  <2> QED BY <1>0, <1>1, <2>1 DEF Holds, OwnersAreSound
<1>3. \A v \in Threads \ {t} :
        Holds(v, m)' <=> Holds(v, m) \/ (v \in BlockedAt(m) /\ ~Queued(v)')
  BY NotifiedHolds
<1>4. /\ \A u \in Threads : u \in Holders(m) <=> Holds(u, m)
      /\ \A u \in Threads : u \in Holders(m)' <=> Holds(u, m)'
      /\ Holders(m) \subseteq Threads /\ Holders(m)' \subseteq Threads
  BY HoldersHold
<1>5. "LOCKED" \in word[m] /\ \A v \in Threads \ {t} : ~Holds(v, m)
  BY <1>2, <1>4 DEF HeldByOneAt
<1>6. Notifies(m, args[t].all) /\ (BlockedAt(m) = {} <=> Notifiable(UnblockedEntry(t)) = {})
  BY UnblockNotifies
<1>7. kpc'[t] = IF BlockedAt(m) = {} THEN "undo" ELSE "last"
  BY <1>0, <1>1, <1>6, Domains DEF NotifyWaiters, Goto
<1>8. BlockedAt(m) \subseteq Threads
  BY DEF BlockedAt
<1>9. CASE BlockedAt(m) = {}
  <2>1. Holds(t, m)'
    BY <1>0, <1>1, <1>7, <1>9 DEF Holds
  <2>2. \A v \in Threads \ {t} : ~Holds(v, m)'
    BY <1>3, <1>5, <1>9
  <2> QED BY <1>0, <1>4, <1>5, <2>1, <2>2 DEF HeldByOneAt
<1>10. CASE BlockedAt(m) # {}
  <2>1. PICK u \in BlockedAt(m) :
           ~Queued(u)' /\ \A v \in BlockedAt(m) : v # u => Queued(v)'
    BY <1>1, <1>6, <1>10 DEF Notifies
  <2>2. u # t
    <3>1. Queued(t) => args[t].op = "switch"
      BY <1>0, QueuedFacts DEF KernelIsSound
    <3> QED BY <1>0, <1>1, <3>1, MutexTypes DEF BlockedAt, CallIsSound
  <2>3. ~Holds(t, m)'
    <3>1. upc[t] \in {"cond", "idle"}
      BY <1>0, <1>1 DEF UserIsSound, UserPcs
    <3> QED BY <1>0, <1>1, <1>2, <1>7, <1>10, <3>1 DEF Holds
  <2>4. Holds(u, m)' /\ \A v \in Threads \ {t} : Holds(v, m)' => v = u
    BY <1>3, <1>5, <1>8, <2>1, <2>2
  <2>5. \A v \in Threads : Holds(v, m)' <=> v = u
    BY <1>8, <2>3, <2>4
  <2> QED BY <1>0, <1>4, <1>5, <1>8, <2>5 DEF HeldByOneAt
<1> QED BY <1>9, <1>10

\* The kernel never gives a mutex to a second thread.
LEMMA KernelHeldByOne ==
    ASSUME KernelIsSound, OwnersAreSound, HeldByOne, NEW t \in Threads, KernelNext(t)
    PROVE  HeldByOne'
<1>1. ASSUME NEW m \in Mutexes PROVE HeldByOneAt(m)'
  <2>1. HeldByOneAt(m)
    BY DEF HeldByOne, HeldByOneAt
  <2>2. CASE NotifyWaiters(t) /\ UnblockedWord(t) = m
    BY <2>1, <2>2, HandOver
  <2>3. CASE ~(NotifyWaiters(t) /\ UnblockedWord(t) = m)
    <3>1. \A u \in Threads \ {t} : Holds(u, m)' <=> Holds(u, m)
      BY <2>3, OthersHold
    <3>2. HeldMoves(t, m)
      BY <2>3, KernelHolds
    <3> QED BY <2>1, <3>1, <3>2, HeldStays
  <2> QED BY <2>2, <2>3
<1> QED BY <1>1 DEF HeldByOne, HeldByOneAt

\* In libroot a thread changes the owner only from and to itself or nobody:
\* assert(mutex->owner == -1) cannot fail.
LEMMA OwnerMoves ==
    ASSUME TypeOK, CallsAreSound, HeldByOne, OwnersAreSound, NEW t \in Threads, UserNext(t),
           NEW m \in Mutexes
    PROVE  owner'[m] = owner[m] \/ (owner[m] \in {t, NULL} /\ owner'[m] \in {t, NULL})
<1>0. owner \in [Mutexes -> Threads \cup {NULL}] /\ UserIsSound(t)
  BY DEF TypeOK, CallsAreSound
<1> DEFINE Goal == owner'[m] = owner[m] \/ (owner[m] \in {t, NULL} /\ owner'[m] \in {t, NULL})
<1>1. CASE TakeOwnership(t)
  <2>1. /\ target[t] \in Mutexes /\ owner' = [owner EXCEPT ![target[t]] = t]
        /\ upc[t] = "own"
    BY <1>0, <1>1 DEF TakeOwnership, UserIsSound
  <2>2. Holds(t, target[t])
    BY <2>1 DEF Holds
  <2>3. \A u \in Threads : owner[target[t]] = u => Holds(u, target[t])
    BY DEF Holds
  <2>4. \A u, v \in Threads : Holds(u, target[t]) /\ Holds(v, target[t]) => u = v
    BY <2>1, HoldersHold DEF HeldByOne
  <2>5. owner[target[t]] \in {t, NULL}
    BY <1>0, <2>1, <2>2, <2>3, <2>4
  <2> QED BY <1>0, <2>1, <2>5
<1>2. CASE CondSwitch(t)
  <2>1. /\ MutexOf[cond[t]] \in Mutexes /\ owner[MutexOf[cond[t]]] = t
        /\ owner' = [owner EXCEPT ![MutexOf[cond[t]]] = NULL]
    BY <1>0, <1>2, MutexTypes DEF CondSwitch, UserIsSound, OwnersAreSound
  <2> QED BY <1>0, <2>1
<1>3. ASSUME NEW x \in Mutexes, pthread_mutex_unlock(t, x) PROVE Goal
  BY <1>0, <1>3 DEF pthread_mutex_unlock
<1>4. CASE UNCHANGED owner
  BY <1>4
<1> QED
  BY <1>1, <1>2, <1>3, <1>4
     DEF UserNext, LockReturn, UnlockWord, CondReturn, CondLeave, CondReset, SemReturn,
         pthread_mutex_lock, pthread_mutex_trylock, pthread_cond_wait, cond_signal, sem_wait,
         sem_post

\* A step of libroot changes nothing about what the other threads hold.
LEMMA UserOthersHold ==
    ASSUME KernelIsSound, HeldByOne, OwnersAreSound, NEW t \in Threads, UserNext(t),
           NEW u \in Threads \ {t}, NEW m \in Mutexes
    PROVE  Holds(u, m)' <=> Holds(u, m)
<1>0. TypeOK /\ CallsAreSound /\ QueuesAreSound /\ u # NULL /\ Frame(t)
  BY MutexTypes, UserFrame DEF KernelIsSound
<1>1. owner'[m] = u <=> owner[m] = u
  BY <1>0, OwnerMoves
<1>2. Queued(u)' <=> Queued(u)
  BY <1>0, UserQueued
<1>3. Succeeds(u)' <=> Succeeds(u)
  BY <1>0, <1>2 DEF Frame, Succeeds
<1> QED BY <1>0, <1>1, <1>3 DEF Frame, Holds

\* libroot takes a mutex that is free and releases one its thread holds.
LEMMA UserHolds ==
    ASSUME KernelIsSound, HeldByOne, OwnersAreSound, NEW t \in Threads, UserNext(t),
           NEW x \in Mutexes
    PROVE  HeldMoves(t, x)
<1> DEFINE Goal == HeldMoves(t, x)
<1>0. /\ TypeOK /\ CallsAreSound /\ UserIsSound(t) /\ kpc[t] = "idle" /\ args[t].op = "none"
      /\ t \in Threads /\ word \in [Words -> SUBSET Flags] /\ cond[t] \in Conds \cup {NULL}
      /\ owner \in [Mutexes -> Threads \cup {NULL}]
  BY UserBegins DEF KernelIsSound, CallsAreSound, Begins, TypeOK, KernelTypeOK
<1>a. /\ upc[t] \in {"own", "lock", "relock", "unlock"} => owner[target[t]] # t
      /\ upc[t] = "cond" => owner[MutexOf[cond[t]]] # t
      /\ upc[t] \in {"cond_lock", "cond_done", "cond_reset"} => owner[MutexOf[cond[t]]] = t
  BY DEF OwnersAreSound
<1>b. x \in Words /\ x \notin Conds /\ x \notin Sems /\ x # NULL
  BY MutexTypes
<1>c. Holds(t, x) <=>
        \/ owner[x] = t
        \/ upc[t] \in {"own", "unlock"} /\ target[t] = x
        \/ upc[t] \in {"lock", "relock"} /\ target[t] = x /\ status[t] = "B_OK"
  BY <1>0 DEF Holds, Succeeds
<1>d. Still =>
        (Holds(t, x)' <=>
           \/ owner'[x] = t
           \/ upc'[t] \in {"own", "unlock"} /\ target'[t] = x
           \/ upc'[t] \in {"lock", "relock"} /\ target'[t] = x /\ status[t] = "B_OK")
  BY <1>0 DEF Holds, Succeeds, Still, callVars
<1>e. ASSUME NEW o, NEW a, NEW f, NEW all, NEW label, Begun(t, o, a, f, all, label),
             label \in {"get", "find"}
      PROVE  Holds(t, x)' <=>
               \/ owner'[x] = t
               \/ upc'[t] \in {"own", "unlock"} /\ target'[t] = x
               \/ o = "switch" /\ f = x /\ label = "get"
  BY <1>e DEF Holds, Succeeds, Begun

<1>20. CASE LockReturn(t)
  BY <1>20, <1>0, <1>a, <1>b, <1>c, <1>d, <1>e, Domains, MutexTypes, LockReturnForm DEF
     LockReturn, HeldMoves, Still, UserIsSound, wordVars
<1>21. CASE TakeOwnership(t)
  BY <1>21, <1>0, <1>a, <1>b, <1>c, <1>d, <1>e, Domains, MutexTypes DEF TakeOwnership, UGoto,
     KernelUnchanged, HeldMoves, Still, UserIsSound, wordVars
<1>22. CASE CondSwitch(t)
  BY <1>22, <1>0, <1>a, <1>b, <1>c, <1>d, <1>e, Domains, MutexTypes, SwitchForm DEF CondSwitch,
     UGoto, HeldMoves, Still, UserIsSound, wordVars
<1>23. CASE CondLeave(t)
  BY <1>23, <1>0, <1>a, <1>b, <1>c, <1>d, <1>e, Domains, MutexTypes DEF CondLeave, UGoto,
     KernelUnchanged, HeldMoves, Still, UserIsSound, wordVars
<1>24. CASE CondReset(t)
  BY <1>24, <1>0, <1>a, <1>b, <1>c, <1>d, <1>e, Domains, MutexTypes DEF CondReset, UGoto,
     KernelUnchanged, HeldMoves, Still, UserIsSound, wordVars
<1>25. CASE SemReturn(t)
  BY <1>25, <1>0, <1>a, <1>b, <1>c, <1>d, <1>e, Domains, MutexTypes DEF SemReturn, UGoto,
     KernelUnchanged, HeldMoves, Still, UserIsSound, wordVars
<1>26. ASSUME NEW m \in Mutexes, pthread_mutex_trylock(t, m) PROVE Goal
  BY <1>26, <1>0, <1>a, <1>b, <1>c, <1>d, <1>e, Domains, MutexTypes DEF pthread_mutex_trylock,
     Idle, UGoto, KernelUnchanged, HeldMoves, Still, UserIsSound, wordVars
<1>27. ASSUME NEW m \in Mutexes, pthread_mutex_unlock(t, m) PROVE Goal
  BY <1>27, <1>0, <1>a, <1>b, <1>c, <1>d, <1>e, Domains, MutexTypes DEF pthread_mutex_unlock,
     Idle, UGoto, KernelUnchanged, HeldMoves, Still, UserIsSound, wordVars
<1>28. ASSUME NEW c \in Conds, pthread_cond_wait(t, c) PROVE Goal
  BY <1>28, <1>0, <1>a, <1>b, <1>c, <1>d, <1>e, Domains, MutexTypes DEF pthread_cond_wait, Idle,
     UGoto, KernelUnchanged, HeldMoves, Still, UserIsSound, wordVars
<1>29. ASSUME NEW s \in Sems, sem_wait(t, s) PROVE Goal
  BY <1>29, <1>0, <1>a, <1>b, <1>c, <1>d, <1>e, Domains, MutexTypes, SemWaitForm DEF sem_wait,
     Idle, HeldMoves, Still, UserIsSound, wordVars
<1>30. ASSUME NEW s \in Sems, sem_post(t, s) PROVE Goal
  BY <1>30, <1>0, <1>a, <1>b, <1>c, <1>d, <1>e, Domains, MutexTypes, SemPostForm DEF sem_post,
     Idle, HeldMoves, Still, UserIsSound, wordVars
<1>1. CASE UnlockWord(t)
  <2>1. /\ target[t] \in Mutexes /\ target[t] \in Words /\ upc[t] = "unlock"
        /\ upc'[t] = "idle" /\ owner' = owner
        /\ word' = [word EXCEPT ![target[t]] = @ \ {"LOCKED"}]
        /\ Begun(t, "unblock", target[t], NULL, FALSE, "find") \/ Still
    BY <1>0, <1>1, UnlockForm, Domains, MutexTypes DEF UnlockWord, UGoto
  <2> PICK n : n = target[t]
    OBVIOUS
  <2>a. Begun(t, "unblock", n, NULL, FALSE, "find") \/ Still
    BY <2>1
  <2>b. Begun(t, "unblock", n, NULL, FALSE, "find") =>
          (Holds(t, x)' <=>
             \/ owner'[x] = t
             \/ upc'[t] \in {"own", "unlock"} /\ target'[t] = x
             \/ "unblock" = "switch" /\ NULL = x /\ "find" = "get")
    BY <1>e, Zenon
  <2>2. Holds(t, x)' <=> owner[x] = t
    BY <1>d, <2>1, <2>a, <2>b
  <2>3. Holds(t, x) <=> owner[x] = t \/ target[t] = x
    BY <1>c, <2>1
  <2>4. owner[target[t]] # t
    BY <1>a, <2>1
  <2>5. word'[x] = IF x = target[t] THEN word[x] \ {"LOCKED"} ELSE word[x]
    BY <1>0, <1>b, <2>1
  <2> QED BY <2>2, <2>3, <2>4, <2>5 DEF HeldMoves
<1>2. CASE CondReturn(t)
  <2> PICK n : n = MutexOf[cond[t]]
    OBVIOUS
  <2>1. n \in Mutexes /\ n \in Words /\ upc[t] = "cond" /\ target'[t] = n /\ owner' = owner
    BY <1>0, <1>2, CondReturnForm, Domains, MutexTypes DEF CondReturn
  <2>2. Holds(t, x) <=> owner[x] = t
    BY <1>c, <2>1
  <2>3. CASE word[n] = {} /\ word' = [word EXCEPT ![n] = {"LOCKED"}]
             /\ upc'[t] = "own" /\ Still
    <3>1. Holds(t, x)' <=> owner[x] = t \/ n = x
      BY <1>d, <2>1, <2>3
    <3>2. word'[x] = IF x = n THEN {"LOCKED"} ELSE word[x]
      BY <1>0, <1>b, <2>1, <2>3
    <3> QED BY <2>2, <2>3, <3>1, <3>2 DEF HeldMoves
  <2>4. CASE word' = word /\ upc'[t] = "relock" /\ Begun(t, "lock", n, NULL, FALSE, "get")
    <3>a. Begun(t, "lock", n, NULL, FALSE, "get") =>
            (Holds(t, x)' <=>
               \/ owner'[x] = t
               \/ upc'[t] \in {"own", "unlock"} /\ target'[t] = x
               \/ "lock" = "switch" /\ NULL = x /\ "get" = "get")
      BY <1>e, Zenon
    <3>1. Holds(t, x)' <=> owner[x] = t
      BY <2>1, <2>4, <3>a
    <3> QED BY <2>2, <2>4, <3>1 DEF HeldMoves
  <2> QED BY <1>0, <1>2, <2>3, <2>4, CondReturnForm, Domains
<1>3. ASSUME NEW n \in Mutexes, pthread_mutex_lock(t, n) PROVE Goal
  <2>1. /\ n \in Words /\ upc[t] = "idle" /\ target'[t] = n /\ owner' = owner
        /\ owner[n] # t
    BY <1>0, <1>3, Domains, MutexTypes DEF pthread_mutex_lock, Idle
  <2>2. Holds(t, x) <=> owner[x] = t
    BY <1>c, <2>1
  <2>3. CASE word[n] = {} /\ word' = [word EXCEPT ![n] = {"LOCKED"}]
             /\ upc'[t] = "own" /\ Still
    <3>1. Holds(t, x)' <=> owner[x] = t \/ n = x
      BY <1>d, <2>1, <2>3
    <3>2. word'[x] = IF x = n THEN {"LOCKED"} ELSE word[x]
      BY <1>0, <1>b, <2>1, <2>3
    <3> QED BY <2>2, <2>3, <3>1, <3>2 DEF HeldMoves
  <2>4. CASE word' = word /\ upc'[t] = "lock" /\ Begun(t, "lock", n, NULL, FALSE, "get")
    <3>a. Begun(t, "lock", n, NULL, FALSE, "get") =>
            (Holds(t, x)' <=>
               \/ owner'[x] = t
               \/ upc'[t] \in {"own", "unlock"} /\ target'[t] = x
               \/ "lock" = "switch" /\ NULL = x /\ "get" = "get")
      BY <1>e, Zenon
    <3>1. Holds(t, x)' <=> owner[x] = t
      BY <2>1, <2>4, <3>a
    <3> QED BY <2>2, <2>4, <3>1 DEF HeldMoves
  <2> QED BY <1>0, <1>3, <2>3, <2>4, LockForm, Domains
<1>4. ASSUME NEW c \in Conds, NEW all \in BOOLEAN, cond_signal(t, c, all) PROVE Goal
  <2>1. /\ upc[t] = "idle" /\ upc' = upc /\ owner' = owner /\ c # x
    BY <1>0, <1>4, MutexTypes DEF cond_signal, Idle
  <2>a. /\ word' = [word EXCEPT ![c] = @ \ {"LOCKED"}]
        /\ Begun(t, "unblock", c, NULL, all, "find") \/ Still
    <3>1. TypeOK
      BY <1>0
    <3> QED BY <3>1, <1>4, SignalForm, Zenon
  <2>2. Holds(t, x)' <=> owner[x] = t
    BY <1>d, <1>e, <2>1, <2>a
  <2>3. Holds(t, x) <=> owner[x] = t
    BY <1>c, <2>1
  <2>4. word'[x] = word[x]
    BY <1>0, <1>b, <2>1, <2>a
  <2> QED BY <2>2, <2>3, <2>4 DEF HeldMoves
<1> QED
  BY <1>1, <1>2, <1>3, <1>4, <1>20, <1>21, <1>22, <1>23, <1>24, <1>25, <1>26, <1>27, <1>28,
    <1>29, <1>30
     DEF UserNext

\* In libroot too: the flag LOCKED and the threads that have the mutex change together.
LEMMA UserHeldByOne ==
    ASSUME KernelIsSound, HeldByOne, OwnersAreSound, NEW t \in Threads, UserNext(t)
    PROVE  HeldByOne'
<1>1. ASSUME NEW m \in Mutexes PROVE HeldByOneAt(m)'
  <2>1. HeldByOneAt(m)
    BY DEF HeldByOne, HeldByOneAt
  <2>2. HeldMoves(t, m)
    BY UserHolds
  <2>3. \A u \in Threads \ {t} : Holds(u, m)' <=> Holds(u, m)
    BY UserOthersHold
  <2> QED BY <2>1, <2>2, <2>3, HeldStays
<1> QED BY <1>1 DEF HeldByOne, HeldByOneAt

OwnerIsSound(t) ==
    /\ upc[t] \in {"own", "lock", "relock", "unlock"} => owner[target[t]] # t
    /\ upc[t] = "cond" => owner[MutexOf[cond[t]]] # t
    /\ upc[t] \in {"cond_lock", "cond_done", "cond_reset"} => owner[MutexOf[cond[t]]] = t
    /\ args[t].op = "unblock" /\ args[t].at \in Mutexes => owner[args[t].at] # t
    /\ args[t].op = "unblock" /\ args[t].at \in Conds /\ SignalLocked =>
          owner[MutexOf[args[t].at]] = t

\* The kernel changes no owner, and begins no call.
LEMMA KernelOwners ==
    ASSUME TypeOK, CallsAreSound, OwnersAreSound, NEW t \in Threads, KernelNext(t)
    PROVE  OwnersAreSound'
<1>1. UNCHANGED <<owner, upc, target, cond>>
  BY DEF KernelNext
<1>2. ASSUME NEW u \in Threads
      PROVE  args'[u].op = "unblock" => args[u].op = "unblock" /\ args'[u].at = args[u].at
  BY <1>2, KernelGoesOn, KernelFrame DEF GoesOn, Frame
<1>3. ASSUME NEW u \in Threads PROVE OwnerIsSound(u)'
  <2>1. OwnerIsSound(u)
    BY DEF OwnersAreSound, OwnerIsSound
  <2> QED BY <1>1, <1>2, <2>1 DEF OwnerIsSound
<1> QED BY <1>3 DEF OwnersAreSound, OwnerIsSound

\* A step of libroot keeps its own thread's record of what it owns sound,
LEMMA UserOwner ==
    ASSUME TypeOK, CallsAreSound, OwnersAreSound, NEW t \in Threads, UserNext(t)
    PROVE  OwnerIsSound(t)'
<1> DEFINE Goal == OwnerIsSound(t)'
<1>0. /\ TypeOK /\ CallsAreSound /\ UserIsSound(t) /\ OwnerIsSound(t) /\ args[t].op = "none"
      /\ t \in Threads /\ cond[t] \in Conds \cup {NULL} /\ t # NULL
      /\ owner \in [Mutexes -> Threads \cup {NULL}]
  BY UserBegins, MutexTypes
     DEF CallsAreSound, Begins, TypeOK, KernelTypeOK, OwnersAreSound, OwnerIsSound
<1>a. Still => args'[t].op = "none"
  BY <1>0 DEF Still, callVars
<1>b. ASSUME NEW o, NEW a, NEW f, NEW all, NEW label, Begun(t, o, a, f, all, label)
      PROVE  args'[t].op = o /\ args'[t].at = a
  BY <1>b DEF Begun

<1> DEFINE Op == /\ args'[t].op = "unblock" /\ args'[t].at \in Mutexes => owner'[args'[t].at] # t
                 /\ args'[t].op = "unblock" /\ args'[t].at \in Conds /\ SignalLocked =>
                       owner'[MutexOf[args'[t].at]] = t
<1> DEFINE Pc == /\ upc'[t] \in {"own", "lock", "relock", "unlock"} => owner'[target'[t]] # t
                 /\ upc'[t] = "cond" => owner'[MutexOf[cond'[t]]] # t
                 /\ upc'[t] \in {"cond_lock", "cond_done", "cond_reset"} =>
                       owner'[MutexOf[cond'[t]]] = t
<1>c. SUFFICES Op /\ Pc
  BY <1>c DEF OwnerIsSound
<1>d. Pc
  <2> DEFINE Goal2 == Pc
  <2>1. CASE LockReturn(t)
    BY <2>1, <1>0, Domains, MutexTypes DEF LockReturn, UGoto, UserIsSound, OwnerIsSound
  <2>2. CASE TakeOwnership(t)
    BY <2>2, <1>0, Domains, MutexTypes DEF TakeOwnership, UGoto, UserIsSound, OwnerIsSound
  <2>3. CASE UnlockWord(t)
    BY <2>3, <1>0, Domains, MutexTypes DEF UnlockWord, UGoto, UserIsSound, OwnerIsSound
  <2>4. CASE CondSwitch(t)
    BY <2>4, <1>0, Domains, MutexTypes DEF CondSwitch, UGoto, UserIsSound, OwnerIsSound
  <2>5. CASE CondReturn(t)
    BY <2>5, <1>0, Domains, MutexTypes DEF CondReturn, SetLocked, UGoto, UserIsSound,
       OwnerIsSound
  <2>6. CASE CondLeave(t)
    BY <2>6, <1>0, Domains, MutexTypes DEF CondLeave, UGoto, UserIsSound, OwnerIsSound
  <2>7. CASE CondReset(t)
    BY <2>7, <1>0, Domains, MutexTypes DEF CondReset, UGoto, UserIsSound, OwnerIsSound
  <2>8. CASE SemReturn(t)
    BY <2>8, <1>0, Domains, MutexTypes DEF SemReturn, UGoto, UserIsSound, OwnerIsSound
  <2>9. ASSUME NEW m \in Mutexes, pthread_mutex_lock(t, m) PROVE Goal2
    BY <2>9, <1>0, Domains, MutexTypes DEF pthread_mutex_lock, Idle, SetLocked, UGoto,
       UserIsSound, OwnerIsSound
  <2>10. ASSUME NEW m \in Mutexes, pthread_mutex_trylock(t, m) PROVE Goal2
    BY <2>10, <1>0, Domains, MutexTypes DEF pthread_mutex_trylock, Idle, UGoto, UserIsSound,
       OwnerIsSound
  <2>11. ASSUME NEW m \in Mutexes, pthread_mutex_unlock(t, m) PROVE Goal2
    BY <2>11, <1>0, Domains, MutexTypes DEF pthread_mutex_unlock, Idle, UGoto, UserIsSound,
       OwnerIsSound
  <2>12. ASSUME NEW c \in Conds, pthread_cond_wait(t, c) PROVE Goal2
    BY <2>12, <1>0, Domains, MutexTypes DEF pthread_cond_wait, Idle, UGoto, UserIsSound,
       OwnerIsSound
  <2>13. ASSUME NEW c \in Conds, NEW all \in BOOLEAN, cond_signal(t, c, all) PROVE Goal2
    BY <2>13, <1>0, Domains, MutexTypes DEF cond_signal, Idle, UserIsSound, OwnerIsSound
  <2>14. ASSUME NEW s \in Sems, sem_wait(t, s) PROVE Goal2
    BY <2>14, <1>0, Domains, MutexTypes DEF sem_wait, Idle, UGoto, UserIsSound, OwnerIsSound
  <2>15. ASSUME NEW s \in Sems, sem_post(t, s) PROVE Goal2
    BY <2>15, <1>0, Domains, MutexTypes DEF sem_post, Idle, UserIsSound, OwnerIsSound
  <2> QED
    BY <2>1, <2>2, <2>3, <2>4, <2>5, <2>6, <2>7, <2>8, <2>9, <2>10, <2>11, <2>12, <2>13, <2>14,
    <2>15
       DEF UserNext
<1>e. Op
  <2> DEFINE Goal2 == Op
  <2>1. CASE LockReturn(t)
    BY <2>1, <1>0, <1>a, MutexTypes, LockReturnForm DEF LockReturn, UserIsSound, OwnerIsSound,
       Begun
  <2>2. CASE TakeOwnership(t)
    BY <2>2, <1>0, <1>a, MutexTypes DEF TakeOwnership, UGoto, KernelUnchanged, Still, UserIsSound,
       OwnerIsSound, Begun
  <2>3. CASE UnlockWord(t)
    BY <2>3, <1>0, <1>a, MutexTypes, UnlockForm DEF UnlockWord, UGoto, UserIsSound,
       OwnerIsSound, Begun
  <2>4. CASE CondSwitch(t)
    BY <2>4, <1>0, <1>a, MutexTypes, SwitchForm DEF CondSwitch, UGoto, UserIsSound,
       OwnerIsSound, Begun
  <2>5. CASE CondReturn(t)
    BY <2>5, <1>0, <1>a, MutexTypes, CondReturnForm DEF CondReturn, UserIsSound, OwnerIsSound,
       Begun
  <2>6. CASE CondLeave(t)
    BY <2>6, <1>0, <1>a, MutexTypes DEF CondLeave, UGoto, KernelUnchanged, Still, UserIsSound,
       OwnerIsSound, Begun
  <2>7. CASE CondReset(t)
    BY <2>7, <1>0, <1>a, MutexTypes DEF CondReset, UGoto, KernelUnchanged, Still, UserIsSound,
       OwnerIsSound, Begun
  <2>8. CASE SemReturn(t)
    BY <2>8, <1>0, <1>a, MutexTypes DEF SemReturn, UGoto, KernelUnchanged, Still, UserIsSound,
       OwnerIsSound, Begun
  <2>9. ASSUME NEW m \in Mutexes, pthread_mutex_lock(t, m) PROVE Goal2
    BY <2>9, <1>0, <1>a, MutexTypes, LockForm DEF pthread_mutex_lock, Idle, UserIsSound,
       OwnerIsSound, Begun
  <2>10. ASSUME NEW m \in Mutexes, pthread_mutex_trylock(t, m) PROVE Goal2
    BY <2>10, <1>0, <1>a, MutexTypes DEF pthread_mutex_trylock, Idle, UGoto, KernelUnchanged, Still,
       UserIsSound, OwnerIsSound, Begun
  <2>11. ASSUME NEW m \in Mutexes, pthread_mutex_unlock(t, m) PROVE Goal2
    BY <2>11, <1>0, <1>a, MutexTypes DEF pthread_mutex_unlock, Idle, UGoto, KernelUnchanged, Still,
       UserIsSound, OwnerIsSound, Begun
  <2>12. ASSUME NEW c \in Conds, pthread_cond_wait(t, c) PROVE Goal2
    BY <2>12, <1>0, <1>a, MutexTypes DEF pthread_cond_wait, Idle, UGoto, KernelUnchanged, Still,
       UserIsSound, OwnerIsSound, Begun
  <2>13. ASSUME NEW c \in Conds, NEW all \in BOOLEAN, cond_signal(t, c, all) PROVE Goal2
    <3>1. TypeOK
      BY <1>0
    <3>2. Begun(t, "unblock", c, NULL, all, "find") \/ Still
      BY <3>1, <2>13, SignalForm, Zenon
    <3>3. (args'[t].op = "unblock" /\ args'[t].at = c) \/ args'[t].op = "none"
      BY <1>a, <1>b, <3>2, Zenon
    <3>4. UNCHANGED owner /\ (SignalLocked => owner[MutexOf[c]] = t)
      BY <2>13 DEF cond_signal
    <3> QED BY <3>3, <3>4, MutexTypes
  <2>14. ASSUME NEW s \in Sems, sem_wait(t, s) PROVE Goal2
    BY <2>14, <1>0, <1>a, MutexTypes, SemWaitForm DEF sem_wait, Idle, UserIsSound,
       OwnerIsSound, Begun
  <2>15. ASSUME NEW s \in Sems, sem_post(t, s) PROVE Goal2
    BY <2>15, <1>0, <1>a, MutexTypes, SemPostForm DEF sem_post, Idle, UserIsSound,
       OwnerIsSound, Begun
  <2> QED
    BY <2>1, <2>2, <2>3, <2>4, <2>5, <2>6, <2>7, <2>8, <2>9, <2>10, <2>11, <2>12, <2>13, <2>14,
    <2>15
       DEF UserNext
<1> QED BY <1>d, <1>e

\* and everybody else's.
LEMMA UserOwners ==
    ASSUME KernelIsSound, HeldByOne, OwnersAreSound, NEW t \in Threads, UserNext(t)
    PROVE  OwnersAreSound'
<1>0. TypeOK /\ CallsAreSound
  BY DEF KernelIsSound
<1>1. ASSUME NEW u \in Threads \ {t} PROVE OwnerIsSound(u)'
  <2>1. OwnerIsSound(u) /\ UserIsSound(u) /\ u # NULL
    BY <1>0, MutexTypes DEF OwnersAreSound, OwnerIsSound, CallsAreSound
  <2>2. \A m \in Mutexes : owner'[m] = u <=> owner[m] = u
    BY <1>0, <2>1, OwnerMoves
  <2>3. /\ args'[u] = args[u] /\ upc'[u] = upc[u] /\ target'[u] = target[u]
        /\ cond'[u] = cond[u]
    BY <1>0, UserFrame DEF Frame
  <2>4. upc[u] \in {"own", "lock", "relock", "unlock"} => target[u] \in Mutexes
    BY <2>1 DEF UserIsSound
  <2>5. upc[u] \in {"cond", "cond_lock", "cond_done", "cond_reset"} =>
           MutexOf[cond[u]] \in Mutexes
    BY <2>1, MutexTypes DEF UserIsSound
  <2> QED BY <2>1, <2>2, <2>3, <2>4, <2>5, MutexTypes DEF OwnerIsSound
<1>2. OwnerIsSound(t)'
  BY <1>0, UserOwner
<1> QED BY <1>1, <1>2 DEF OwnersAreSound, OwnerIsSound

-------------------------------------------------------------------------------
(* Nobody who waits is forgotten. *)

\* Where a pending thread is.
LEMMA PendingFacts ==
    ASSUME KernelIsSound, NEW a \in Addresses, NEW u \in Pending(a)
    PROVE  /\ u \in Threads /\ args[u].at = a /\ entry[u] \in Entries /\ table[a] = entry[u]
           /\ kpc[u] \notin {"idle", "get", "insert", "find", "find_null", "prepare"}
           /\ args[u].op \in {"lock", "switch", "sem_acquire"}
           /\ a \in Conds => args[u].op = "switch" /\ upc[u] = "cond" /\ cond[u] = a
<1>0. TypeOK /\ CallsAreSound /\ QueuesAreSound
  BY DEF KernelIsSound
<1>1. u \in Threads /\ args[u].at = a /\ (Queued(u) \/ kpc[u] = "add")
  BY DEF Pending
<1>2. entry[u] \in Entries /\ table[a] = entry[u]
  BY <1>1, EntryOf
<1>3. /\ args[u].op \in {"lock", "switch", "sem_acquire"}
      /\ kpc[u] \notin {"idle", "get", "insert", "find", "find_null", "prepare"}
  <2>1. CallIsSound(u) /\ args[u].op \in Calls \cup {"none"}
    BY <1>0, <1>1, Typed DEF CallsAreSound
  <2>2. kpc[u] \in {"wait", "add"} \/ (args[u].op = "switch" /\
                                        kpc[u] \in UnblockPcs \cup {"clear", "find_from"})
    BY <1>0, <1>1, QueuedFacts
  <2> QED BY <2>1, <2>2 DEF CallIsSound, Calls, UnblockPcs, PutPcs
<1>4. ASSUME a \in Conds PROVE args[u].op = "switch" /\ upc[u] = "cond" /\ cond[u] = a
  <2>1. CallIsSound(u) /\ UserIsSound(u)
    BY <1>0, <1>1 DEF CallsAreSound
  <2>2. args[u].op = "switch"
    BY <1>1, <1>3, <1>4, <2>1, MutexTypes DEF CallIsSound
  <2>3. upc[u] \in UserPcs
    BY <1>0, <1>1 DEF TypeOK, UserPcs
  <2> QED BY <1>1, <2>1, <2>2, <2>3 DEF UserIsSound, UserPcs
<1> QED BY <1>1, <1>2, <1>3, <1>4

\* With the entry's lock and an empty queue, nobody waits or is about to.
LEMMA NobodyPends ==
    ASSUME KernelIsSound, NEW a \in Addresses,
           \/ table[a] = NULL
           \/ /\ table[a] \in Entries /\ queue[table[a]] = <<>>
              /\ \A u \in Threads : kpc[u] = "add" => entry[u] # table[a]
    PROVE  Pending(a) = {}
<1>1. SUFFICES ASSUME NEW u \in Pending(a) PROVE FALSE
  OBVIOUS
<1>2. u \in Threads /\ args[u].at = a /\ entry[u] \in Entries /\ table[a] = entry[u]
  BY <1>1, PendingFacts
<1>3. table[a] # NULL
  BY <1>2, MutexTypes
<1>4. ~Queued(u)
  BY <1>2, <1>3, QueueOf
<1>5. kpc[u] # "add"
  BY <1>2, <1>3
<1> QED BY <1>1, <1>4, <1>5 DEF Pending

\* A thread comes to wait for an address in one step only, which marks the address.
LEMMA PendingMoves ==
    ASSUME KernelIsSound, NEW t \in Threads, KernelNext(t), NEW a \in Addresses,
           NEW u \in Threads, u \in Pending(a)', u \notin Pending(a)
    PROVE  /\ u = t /\ kpc[t] = "prepare" /\ args[t].at = a
           /\ a \in Words => {"LOCKED", "WAITING"} \subseteq word'[a]
           /\ a \in Sems => value'[a] = -1
<1>0. TypeOK /\ CallsAreSound /\ Frame(t) /\ CallIsSound(t) /\ GoesOn(t)
  BY KernelFrame, KernelGoesOn DEF KernelIsSound, CallsAreSound
<1>1. args'[u].at = a /\ (Queued(u)' \/ kpc'[u] = "add")
  BY DEF Pending
<1>2. Queued(u)' => Queued(u) \/ (u = t /\ kpc[t] = "add")
  BY QueuedMoves DEF QueuedOnly
<1>3. u = t
  BY <1>0, <1>1, <1>2 DEF Frame, Pending
<1>4. args[t].at = a
  <2>1. entry'[t] # NULL \/ kpc'[t] = "add"
    BY <1>1, <1>3 DEF Queued
  <2> QED BY <1>0, <1>1, <1>3, <2>1 DEF GoesOn
<1>5. kpc'[t] = "add" /\ kpc[t] # "add"
  BY <1>1, <1>2, <1>3, <1>4 DEF Pending
<1>6. a \in Words => a \notin Sems
  BY MutexTypes
<1>7. /\ word \in [Words -> SUBSET Flags] /\ value \in [Sems -> Int]
      /\ kpc \in [Threads -> KernelPcs]
  BY <1>0 DEF TypeOK, KernelTypeOK, KernelPcs, WritePcs, ReadPcs, NoEntryPcs, UnblockPcs, PutPcs
<1>8. user_mutex_prepare_to_lock(t) \/ user_mutex_sem_acquire_locked(t)

  <2>1. CASE get_user_mutex_entry(t)
    BY <2>1, <1>5, <1>7 DEF get_user_mutex_entry, Found, Goto
  <2>2. CASE InsertEntry(t)
    BY <2>2, <1>5, <1>7 DEF InsertEntry, Found, Goto
  <2>3. CASE put_user_mutex_entry(t)
    BY <2>3, <1>5, <1>7 DEF put_user_mutex_entry, PutDone, PutEntry, Goto
  <2>4. CASE RemoveEntry(t)
    BY <2>4, <1>5, <1>7 DEF RemoveEntry, PutDone, PutEntry, PutAddress, Goto
  <2>5. CASE UnsetWaiting(t)
    BY <2>5, <1>5, <1>7 DEF UnsetWaiting, AfterLock, Goto
  <2>6. CASE AddWaiter(t)
    BY <2>6, <1>5, <1>7 DEF AddWaiter, Goto
  <2>7. CASE Leave(t)
    BY <2>7, <1>5, <1>7 DEF Leave, callVars
  <2>8. CASE WaitReturn(t)
    BY <2>8, <1>5, <1>7 DEF WaitReturn, Goto
  <2>9. CASE FindEntry(t)
    BY <2>9, <1>5, <1>7 DEF FindEntry, Found, Goto
  <2>10. CASE FindNull(t)
    BY <2>10, <1>5, <1>7 DEF FindNull, Goto
  <2>11. CASE user_mutex_unblock(t)
    BY <2>11, <1>5, <1>7 DEF user_mutex_unblock, AfterUnblock, Goto
  <2>12. CASE HandOff(t)
    BY <2>12, <1>5, <1>7 DEF HandOff, AfterUnblock, Goto
  <2>13. CASE NotifyWaiters(t)
    BY <2>13, <1>5, <1>7 DEF NotifyWaiters, Goto
  <2>14. CASE UndoHandOff(t)
    BY <2>14, <1>5, <1>7 DEF UndoHandOff, Goto
  <2>15. CASE UnblockLast(t)
    BY <2>15, <1>5, <1>7 DEF UnblockLast, AfterUnblock, Goto
  <2>16. CASE ClearFrom(t)
    BY <2>16, <1>5, <1>7 DEF ClearFrom, AfterUnblock, Goto
  <2>17. CASE FindFrom(t)
    BY <2>17, <1>5, <1>7 DEF FindFrom, AfterUnblock, Goto
  <2>18. CASE user_mutex_sem_release(t)
    BY <2>18, <1>5, <1>7 DEF user_mutex_sem_release, Goto
  <2>19. CASE SemReleaseLast(t)
    BY <2>19, <1>5, <1>7 DEF SemReleaseLast, Goto
  <2>20. CASE KernelGiveUp(t)
    BY <2>20, <1>5, <1>7 DEF KernelGiveUp, GiveUp
  <2> QED
    BY <2>1, <2>2, <2>3, <2>4, <2>5, <2>6, <2>7, <2>8, <2>9, <2>10, <2>11, <2>12, <2>13, <2>14,
    <2>15, <2>16, <2>17, <2>18, <2>19, <2>20
       DEF KernelNext, KernelStep, SwitchStep, SemStep
<1>9. CASE user_mutex_prepare_to_lock(t)
  BY <1>3, <1>4, <1>6, <1>7, <1>9 DEF user_mutex_prepare_to_lock
<1>10. CASE user_mutex_sem_acquire_locked(t)
  BY <1>3, <1>4, <1>5, <1>6, <1>7, <1>10 DEF user_mutex_sem_acquire_locked, Goto
<1> QED BY <1>8, <1>9, <1>10

\* No call of libroot waits right away.
LEMMA UserPending ==
    ASSUME KernelIsSound, NEW t \in Threads, UserNext(t), NEW a \in Addresses
    PROVE  Pending(a)' = Pending(a) /\ t \notin Pending(a)
<1>0. TypeOK /\ CallsAreSound /\ QueuesAreSound /\ Frame(t) /\ Begins(t)
  BY UserFrame, UserBegins DEF KernelIsSound
<1>1. \A u \in Threads : Queued(u)' <=> Queued(u)
  BY <1>0, UserQueued
<1>2. ~Queued(t)
  BY <1>0, UserQueued
<1>3. kpc[t] = "idle" /\ kpc'[t] # "add"
  BY <1>0, Domains DEF Begins
<1>4. t \notin Pending(a) /\ t \notin Pending(a)'
  BY <1>1, <1>2, <1>3 DEF Pending
<1>5. ASSUME NEW u \in Threads \ {t} PROVE u \in Pending(a)' <=> u \in Pending(a)
  BY <1>0, <1>1 DEF Frame, Pending
<1>6. Pending(a) \subseteq Threads /\ Pending(a)' \subseteq Threads
  BY DEF Pending
<1> QED BY <1>4, <1>5, <1>6

\* The kernel resets WAITING only if nobody waits, and LOCKED only if it will wake
\* somebody or nobody waits.
LEMMA EmptyAndLocked ==
    ASSUME KernelIsSound, NEW t \in Threads, NEW a \in Addresses,
           \/ /\ kpc[t] = "unset" /\ args[t].at = a /\ WriteLockable(entry[t])
              /\ queue[entry[t]] = <<>>
           \/ /\ kpc[t] = "unblock" /\ UnblockedWord(t) = a /\ WriteLockable(UnblockedEntry(t))
              /\ queue[UnblockedEntry(t)] = <<>>
           \/ /\ kpc[t] \in {"undo", "last"} /\ UnblockedWord(t) = a
              /\ queue[UnblockedEntry(t)] = <<>>
    PROVE  Pending(a) = {}
<1>1. CASE kpc[t] = "unset" /\ args[t].at = a /\ WriteLockable(entry[t])
           /\ queue[entry[t]] = <<>>
  <2>1. table[a] = entry[t] /\ entry[t] \in Entries
    BY <1>1, EntryOf
  <2>2. \A u \in Threads : kpc[u] = "add" => entry[u] # table[a]
    BY <1>1, <2>1, Lockable DEF ReadPcs
  <2> QED BY <1>1, <2>1, <2>2, NobodyPends
<1>2. CASE /\ kpc[t] = "unblock" /\ UnblockedWord(t) = a /\ WriteLockable(UnblockedEntry(t))
           /\ queue[UnblockedEntry(t)] = <<>>
  <2>1. table[a] = UnblockedEntry(t) /\ UnblockedEntry(t) \in Entries
    BY <1>2, EntryOf DEF UnblockPcs
  <2>2. \A u \in Threads : kpc[u] = "add" => entry[u] # table[a]
    BY <1>2, <2>1, Lockable DEF ReadPcs
  <2> QED BY <1>2, <2>1, <2>2, NobodyPends
<1>3. CASE /\ kpc[t] \in {"undo", "last"} /\ UnblockedWord(t) = a
           /\ queue[UnblockedEntry(t)] = <<>>
  <2>1. table[a] = UnblockedEntry(t) /\ UnblockedEntry(t) \in Entries
    BY <1>3, EntryOf DEF UnblockPcs
  <2>2. WriteLocked(t) = UnblockedEntry(t) /\ kpc[t] \in WritePcs
    BY <1>3 DEF WriteLocked, WritePcs
  <2>3. \A u \in Threads : kpc[u] = "add" => entry[u] # table[a]
    BY <1>3, <2>1, <2>2 DEF KernelIsSound, LocksAreSound, ReadPcs
  <2> QED BY <1>3, <2>1, <2>3, NobodyPends
<1> QED BY <1>1, <1>2, <1>3

\* The kernel clears WAITING only where nobody is or is about to be queued.
LEMMA WaitingStays ==
    ASSUME KernelIsSound, NEW t \in Threads, KernelNext(t), NEW w \in Words,
           "WAITING" \in word[w], "WAITING" \notin word'[w]
    PROVE  Pending(w) = {}
<1> DEFINE Goal == Pending(w) = {}
<1>0. /\ TypeOK /\ CallsAreSound /\ QueuesAreSound /\ w \in Addresses
      /\ word \in [Words -> SUBSET Flags]
  BY MutexTypes DEF KernelIsSound, TypeOK, KernelTypeOK

<1>1. CASE UnsetWaiting(t)
  BY <1>0, <1>1, EmptyAndLocked DEF UnsetWaiting
<1>2. CASE user_mutex_unblock(t)
  BY <1>0, <1>2, EmptyAndLocked DEF user_mutex_unblock
<1>3. CASE UnblockLast(t)
  BY <1>0, <1>3, EmptyAndLocked DEF UnblockLast
<1>4. CASE FindNull(t)
  <2>1. args[t].at = w /\ table[w] = NULL
    BY <1>0, <1>4 DEF FindNull, KernelIsSound, TableIsSound
  <2> QED BY <1>0, <2>1, NobodyPends
<1>5. CASE get_user_mutex_entry(t)
  BY <1>5, <1>0 DEF get_user_mutex_entry, wordVars
<1>6. CASE InsertEntry(t)
  BY <1>6, <1>0 DEF InsertEntry, wordVars
<1>7. CASE put_user_mutex_entry(t)
  BY <1>7, <1>0 DEF put_user_mutex_entry, wordVars
<1>8. CASE RemoveEntry(t)
  BY <1>8, <1>0 DEF RemoveEntry, wordVars
<1>9. CASE user_mutex_prepare_to_lock(t)
  BY <1>9, <1>0 DEF user_mutex_prepare_to_lock, wordVars
<1>10. CASE AddWaiter(t)
  BY <1>10, <1>0 DEF AddWaiter, wordVars
<1>11. CASE Leave(t)
  BY <1>11, <1>0 DEF Leave, wordVars
<1>12. CASE WaitReturn(t)
  BY <1>12, <1>0 DEF WaitReturn, wordVars
<1>13. CASE FindEntry(t)
  BY <1>13, <1>0 DEF FindEntry, wordVars
<1>14. CASE HandOff(t)
  BY <1>14, <1>0 DEF HandOff, wordVars
<1>15. CASE NotifyWaiters(t)
  BY <1>15, <1>0 DEF NotifyWaiters, wordVars
<1>16. CASE UndoHandOff(t)
  BY <1>16, <1>0 DEF UndoHandOff, wordVars
<1>17. CASE ClearFrom(t)
  BY <1>17, <1>0 DEF ClearFrom, wordVars
<1>18. CASE FindFrom(t)
  BY <1>18, <1>0 DEF FindFrom, wordVars
<1>19. CASE user_mutex_sem_acquire_locked(t)
  BY <1>19, <1>0 DEF user_mutex_sem_acquire_locked, wordVars
<1>20. CASE user_mutex_sem_release(t)
  BY <1>20, <1>0 DEF user_mutex_sem_release, wordVars
<1>21. CASE SemReleaseLast(t)
  BY <1>21, <1>0 DEF SemReleaseLast, wordVars
<1>30. CASE KernelGiveUp(t)
  BY <1>30 DEF KernelGiveUp, GiveUp, wordVars
<1> QED
  BY <1>1, <1>2, <1>3, <1>4, <1>5, <1>6, <1>7, <1>8, <1>9, <1>10, <1>11, <1>12, <1>13, <1>14,
    <1>15, <1>16, <1>17, <1>18, <1>19, <1>20, <1>21, <1>30
     DEF KernelNext, KernelStep, SwitchStep, SemStep

\* The kernel clears LOCKED only where nobody is pending or somebody will be woken.
LEMMA LockedStays ==
    ASSUME KernelIsSound, NEW t \in Threads, KernelNext(t), NEW m \in Mutexes,
           "LOCKED" \in word[m], "LOCKED" \notin word'[m]
    PROVE  Pending(m) = {} \/ ("WAITING" \in word[m] => Wakers(m)' # {})
<1> DEFINE Goal == Pending(m) = {} \/ ("WAITING" \in word[m] => Wakers(m)' # {})
<1>0. /\ TypeOK /\ CallsAreSound /\ QueuesAreSound /\ m \in Addresses /\ CallIsSound(t)
      /\ word \in [Words -> SUBSET Flags] /\ m \in Words /\ m \notin Sems
  BY MutexTypes DEF KernelIsSound, TypeOK, KernelTypeOK, CallsAreSound
<1>1. CASE UndoHandOff(t)
  <2>1. UnblockedWord(t) = m /\ kpc[t] = "undo" /\ queue[UnblockedEntry(t)] = <<>>
    BY <1>0, <1>1 DEF UndoHandOff, QueuesAreSound
  <2> QED BY <1>0, <2>1, EmptyAndLocked
<1>2. CASE ClearFrom(t)
  <2>1. args[t].from = m /\ kpc[t] = "clear" /\ UNCHANGED args
    BY <1>0, <1>2 DEF ClearFrom
  <2>2. args[t].op = "switch"
    <3>1. args[t].op \in Calls \cup {"none"}
      BY <1>0, Typed
    <3> QED BY <1>0, <2>1, <3>1 DEF CallIsSound, Calls, UnblockPcs, PutPcs
  <2>3. "WAITING" \in word[m] => kpc'[t] = "find_from"
    BY <1>0, <1>2, <2>1, Domains DEF ClearFrom, Goto
  <2> QED BY <2>1, <2>2, <2>3 DEF Wakers
<1>5. CASE get_user_mutex_entry(t)
  BY <1>5, <1>0 DEF get_user_mutex_entry, wordVars
<1>6. CASE InsertEntry(t)
  BY <1>6, <1>0 DEF InsertEntry, wordVars
<1>7. CASE put_user_mutex_entry(t)
  BY <1>7, <1>0 DEF put_user_mutex_entry, wordVars
<1>8. CASE RemoveEntry(t)
  BY <1>8, <1>0 DEF RemoveEntry, wordVars
<1>9. CASE user_mutex_prepare_to_lock(t)
  BY <1>9, <1>0 DEF user_mutex_prepare_to_lock, wordVars
<1>10. CASE UnsetWaiting(t)
  BY <1>10, <1>0 DEF UnsetWaiting, wordVars
<1>11. CASE AddWaiter(t)
  BY <1>11, <1>0 DEF AddWaiter, wordVars
<1>12. CASE Leave(t)
  BY <1>12, <1>0 DEF Leave, wordVars
<1>13. CASE WaitReturn(t)
  BY <1>13, <1>0 DEF WaitReturn, wordVars
<1>14. CASE FindEntry(t)
  BY <1>14, <1>0 DEF FindEntry, wordVars
<1>15. CASE FindNull(t)
  BY <1>15, <1>0 DEF FindNull, wordVars
<1>16. CASE user_mutex_unblock(t)
  BY <1>16, <1>0 DEF user_mutex_unblock, wordVars
<1>17. CASE HandOff(t)
  BY <1>17, <1>0 DEF HandOff, wordVars
<1>18. CASE NotifyWaiters(t)
  BY <1>18, <1>0 DEF NotifyWaiters, wordVars
<1>19. CASE UnblockLast(t)
  BY <1>19, <1>0 DEF UnblockLast, wordVars
<1>20. CASE FindFrom(t)
  BY <1>20, <1>0 DEF FindFrom, wordVars
<1>21. CASE user_mutex_sem_acquire_locked(t)
  BY <1>21, <1>0 DEF user_mutex_sem_acquire_locked, wordVars
<1>22. CASE user_mutex_sem_release(t)
  BY <1>22, <1>0 DEF user_mutex_sem_release, wordVars
<1>23. CASE SemReleaseLast(t)
  BY <1>23, <1>0 DEF SemReleaseLast, wordVars
<1>30. CASE KernelGiveUp(t)
  BY <1>30 DEF KernelGiveUp, GiveUp, wordVars
<1> QED
  BY <1>1, <1>2, <1>5, <1>6, <1>7, <1>8, <1>9, <1>10, <1>11, <1>12, <1>13, <1>14, <1>15, <1>16,
    <1>17, <1>18, <1>19, <1>20, <1>21, <1>22, <1>23, <1>30
     DEF KernelNext, KernelStep, SwitchStep, SemStep

\* A thread that will look at the queue does so: it finds nobody, or gives the mutex
\* to somebody unless it is taken.
LEMMA WakersStay ==
    ASSUME KernelIsSound, NEW t \in Threads, KernelNext(t), NEW m \in Mutexes,
           NEW v \in Wakers(m)
    PROVE  v \in Wakers(m)' \/ "LOCKED" \in word'[m] \/ Pending(m) = {}
<1> DEFINE Goal == v \in Wakers(m)' \/ "LOCKED" \in word'[m] \/ Pending(m) = {}
<1>0. /\ TypeOK /\ CallsAreSound /\ m \in Addresses /\ CallIsSound(t) /\ Frame(t)
      /\ word \in [Words -> SUBSET Flags] /\ m \in Words /\ m \notin Conds /\ v \in Threads
      /\ args[t].all \in BOOLEAN
  BY MutexTypes, KernelFrame, Typed
     DEF KernelIsSound, TypeOK, KernelTypeOK, CallsAreSound, Wakers
<1>1. CASE v # t
  BY <1>0, <1>1 DEF Frame, Wakers
<1>2. SUFFICES ASSUME v = t PROVE Goal
  BY <1>1
<1>3. /\ kpc[t] \in {"find", "find_from", "unblock", "hand_off"} /\ UnblockedWord(t) = m
      /\ ~args[t].all
      /\ kpc[t] = "find" => args[t].op = "unblock" /\ args[t].at = m
      /\ kpc[t] = "find_from" => args[t].op = "switch" /\ args[t].from = m
      /\ args[t].op \in {"unblock", "switch"}
  BY <1>0, <1>2 DEF Wakers, UnblockedWord, CallIsSound
<1>4. kpc'[t] \in {"unblock", "hand_off"} /\ UNCHANGED args => t \in Wakers(m)'
  BY <1>3 DEF Wakers, UnblockedWord
<1>5. CASE FindEntry(t)
  <2>1. args[t].op = "unblock" /\ args[t].at = m /\ UNCHANGED args
    BY <1>3, <1>5 DEF FindEntry
  <2>2. CASE table[m] = NULL
    BY <1>0, <2>2, NobodyPends
  <2>3. CASE table[m] # NULL
    <3>1. kpc'[t] = "unblock"
      BY <1>0, <1>5, <2>1, <2>3, Domains DEF FindEntry, Found, Goto
    <3> QED BY <1>2, <1>4, <2>1, <3>1
  <2> QED BY <2>2, <2>3
<1>6. CASE FindFrom(t)
  <2>1. args[t].op = "switch" /\ args[t].from = m /\ UNCHANGED args
    BY <1>3, <1>6 DEF FindFrom
  <2>2. CASE table[m] = NULL
    BY <1>0, <2>2, NobodyPends
  <2>3. CASE table[m] # NULL
    <3>1. kpc'[t] = "unblock"
      BY <1>0, <1>6, <2>1, <2>3, Domains DEF FindFrom, Goto
    <3> QED BY <1>2, <1>4, <2>1, <3>1
  <2> QED BY <2>2, <2>3
<1>7. CASE user_mutex_unblock(t)
  <2>1. CASE queue[UnblockedEntry(t)] = <<>>
    BY <1>0, <1>3, <1>7, <2>1, EmptyAndLocked DEF user_mutex_unblock
  <2>2. CASE queue[UnblockedEntry(t)] # <<>>
    <3>1. kpc'[t] = "hand_off" /\ UNCHANGED args
      BY <1>0, <1>3, <1>7, <2>2, Domains DEF user_mutex_unblock, Goto
    <3> QED BY <1>2, <1>4, <3>1
  <2> QED BY <2>1, <2>2
<1>8. CASE HandOff(t)
  BY <1>0, <1>3, <1>8 DEF HandOff
<1>9. CASE Leave(t)
  BY <1>2, <1>3, <1>9 DEF Leave, callVars, Wakers, UnblockedWord
<1>10. kpc[t] \in {"find", "find_from", "unblock", "hand_off"} /\ KernelNext(t)
  BY <1>3
<1>11. FindEntry(t) \/ FindFrom(t) \/ user_mutex_unblock(t) \/ HandOff(t) \/ Leave(t)

  <2>1. CASE get_user_mutex_entry(t)
    BY <2>1, <1>10 DEF get_user_mutex_entry
  <2>2. CASE InsertEntry(t)
    BY <2>2, <1>10 DEF InsertEntry
  <2>3. CASE put_user_mutex_entry(t)
    BY <2>3, <1>10 DEF put_user_mutex_entry
  <2>4. CASE RemoveEntry(t)
    BY <2>4, <1>10 DEF RemoveEntry
  <2>5. CASE user_mutex_prepare_to_lock(t)
    BY <2>5, <1>10 DEF user_mutex_prepare_to_lock
  <2>6. CASE UnsetWaiting(t)
    BY <2>6, <1>10 DEF UnsetWaiting
  <2>7. CASE AddWaiter(t)
    BY <2>7, <1>10 DEF AddWaiter
  <2>8. CASE WaitReturn(t)
    BY <2>8, <1>10 DEF WaitReturn
  <2>9. CASE FindNull(t)
    BY <2>9, <1>10 DEF FindNull
  <2>10. CASE NotifyWaiters(t)
    BY <2>10, <1>10 DEF NotifyWaiters
  <2>11. CASE UndoHandOff(t)
    BY <2>11, <1>10 DEF UndoHandOff
  <2>12. CASE UnblockLast(t)
    BY <2>12, <1>10 DEF UnblockLast
  <2>13. CASE ClearFrom(t)
    BY <2>13, <1>10 DEF ClearFrom
  <2>14. CASE user_mutex_sem_acquire_locked(t)
    BY <2>14, <1>10 DEF user_mutex_sem_acquire_locked
  <2>15. CASE user_mutex_sem_release(t)
    BY <2>15, <1>10 DEF user_mutex_sem_release
  <2>16. CASE SemReleaseLast(t)
    BY <2>16, <1>10 DEF SemReleaseLast
  <2>30. CASE KernelGiveUp(t)
    BY <1>10, <2>30 DEF KernelGiveUp, GiveUp
  <2> QED
    BY <1>10, <2>1, <2>2, <2>3, <2>4, <2>5, <2>6, <2>7, <2>8, <2>9, <2>10, <2>11, <2>12, <2>13,
       <2>14,
    <2>15, <2>16, <2>30
       DEF KernelNext, KernelStep, SwitchStep, SemStep
<1> QED BY <1>5, <1>6, <1>7, <1>8, <1>9, <1>11

\* The kernel leaves no pending waiter unmarked.
LEMMA KernelMarks ==
    ASSUME KernelIsSound, WaitersAreMarked, NEW t \in Threads, KernelNext(t)
    PROVE  WaitersAreMarked'
<1>0. Words \subseteq Addresses /\ Mutexes \subseteq Words /\ Mutexes \cap Sems = {}
  BY MutexTypes
<1>1. ASSUME NEW w \in Words, Pending(w)' # {} PROVE "WAITING" \in word'[w]
  <2>1. PICK u \in Pending(w)' : TRUE
    BY <1>1
  <2>2. u \in Threads
    BY <2>1 DEF Pending
  <2>3. CASE u \in Pending(w)
    BY <2>3, WaitingStays DEF WaitersAreMarked
  <2>4. CASE u \notin Pending(w)
    BY <1>0, <2>1, <2>2, <2>4, PendingMoves
  <2> QED BY <2>3, <2>4
<1>2. ASSUME NEW m \in Mutexes, Pending(m)' # {}
      PROVE  "LOCKED" \in word'[m] \/ Wakers(m)' # {}
  <2>1. PICK u \in Pending(m)' : TRUE
    BY <1>2
  <2>2. u \in Threads
    BY <2>1 DEF Pending
  <2>3. CASE u \in Pending(m)
    <3>1. "WAITING" \in word[m] /\ ("LOCKED" \in word[m] \/ Wakers(m) # {})
      BY <1>0, <2>3 DEF WaitersAreMarked
    <3>2. CASE "LOCKED" \in word[m]
      BY <2>3, <3>1, <3>2, LockedStays
    <3>3. CASE Wakers(m) # {}
      BY <2>3, <3>3, WakersStay
    <3> QED BY <3>1, <3>2, <3>3
  <2>4. CASE u \notin Pending(m)
    BY <1>0, <2>1, <2>2, <2>4, PendingMoves
  <2> QED BY <2>3, <2>4
<1> QED BY <1>1, <1>2 DEF WaitersAreMarked

\* libroot leaves WAITING set where threads block, and unlocks such a mutex to wake one.
LEMMA UserWords ==
    ASSUME KernelIsSound, WaitersAreMarked, WaiterCountsAreExact,
           NEW t \in Threads, UserNext(t), NEW w \in Words, Pending(w) # {}
    PROVE  /\ "WAITING" \in word'[w]
           /\ "LOCKED" \in word[w] /\ w \in Mutexes => "LOCKED" \in word'[w] \/ t \in Wakers(w)'
<1> DEFINE Goal == /\ "WAITING" \in word'[w]
                   /\ "LOCKED" \in word[w] /\ w \in Mutexes =>
                         "LOCKED" \in word'[w] \/ t \in Wakers(w)'
<1>0. /\ TypeOK /\ CallsAreSound /\ UserIsSound(t) /\ word \in [Words -> SUBSET Flags]
      /\ "WAITING" \in word[w]
  BY DEF KernelIsSound, TypeOK, KernelTypeOK, CallsAreSound, WaitersAreMarked
<1>1. CASE UnlockWord(t)
  <2>1. /\ target[t] \in Words /\ word' = [word EXCEPT ![target[t]] = @ \ {"LOCKED"}]
        /\ "WAITING" \in word[target[t]] => Begun(t, "unblock", target[t], NULL, FALSE, "find")
    BY <1>0, <1>1, UnlockForm, MutexTypes
  <2>2. CASE target[t] = w
    <3> PICK n : n = target[t]
      OBVIOUS
    <3>1. Begun(t, "unblock", n, NULL, FALSE, "find") /\ n = w
      BY <1>0, <2>1, <2>2
    <3>2. args'[t].op = "unblock" /\ args'[t].at = w /\ kpc'[t] = "find"
      BY <3>1 DEF Begun
    <3>3. t \in Wakers(w)'
      BY <3>2 DEF Wakers
    <3> QED BY <1>0, <2>1, <2>2, <3>3
  <2>3. CASE target[t] # w
    BY <1>0, <2>1, <2>3
  <2> QED BY <2>2, <2>3
<1>2. ASSUME NEW c \in Conds, NEW all \in BOOLEAN, cond_signal(t, c, all) PROVE Goal
  <2>1. word' = [word EXCEPT ![c] = @ \ {"LOCKED"}] /\ c \in Words /\ c \notin Mutexes
    BY <1>2, MutexTypes DEF cond_signal, Release
  <2> QED BY <1>0, <2>1
<1>3. CASE CondSwitch(t)
  BY <1>0, <1>3, MutexTypes DEF CondSwitch, UserIsSound
<1>4. CASE CondReset(t)
  <2>1. /\ cond[t] \in Conds /\ cond[t] \in Words /\ waiter_count[cond[t]] = 0
        /\ word' = [word EXCEPT ![cond[t]] = {}]
    BY <1>0, <1>4, MutexTypes DEF CondReset, UserIsSound, WaiterCountsAreExact
  <2>2. CondWaiters(cond[t]) = {}
    <3>1. CondWaiters(cond[t]) \in SUBSET Threads /\ Cardinality(CondWaiters(cond[t])) = 0
      BY <2>1 DEF WaiterCountsAreExact, CondWaiters
    <3> QED BY <3>1, CountThreads
  <2>3. cond[t] # w
    <3>1. SUFFICES ASSUME cond[t] = w PROVE FALSE
      OBVIOUS
    <3>2. PICK u \in Pending(w) : TRUE
      OBVIOUS
    <3>3. u \in Threads /\ upc[u] = "cond" /\ cond[u] = w
      BY <2>1, <3>1, <3>2, PendingFacts, MutexTypes
    <3> QED BY <2>2, <3>1, <3>3 DEF CondWaiters
  <2> QED BY <1>0, <2>1, <2>3
<1>5. CASE CondReturn(t)
  BY <1>0, <1>5, CondReturnForm, MutexTypes
<1>6. ASSUME NEW m \in Mutexes, pthread_mutex_lock(t, m) PROVE Goal
  BY <1>0, <1>6, LockForm, MutexTypes
<1>7. ASSUME NEW m \in Mutexes, pthread_mutex_trylock(t, m) PROVE Goal
  BY <1>0, <1>7, MutexTypes DEF pthread_mutex_trylock
<1>8. CASE UNCHANGED word
  BY <1>0, <1>8
<1> QED
  BY <1>1, <1>2, <1>3, <1>4, <1>5, <1>6, <1>7, <1>8
     DEF UserNext, LockReturn, TakeOwnership, CondLeave, SemReturn, pthread_mutex_unlock,
         pthread_cond_wait, sem_wait, sem_post, wordVars

\* libroot leaves no pending waiter unmarked.
LEMMA UserMarks ==
    ASSUME KernelIsSound, WaitersAreMarked, WaiterCountsAreExact,
           NEW t \in Threads, UserNext(t)
    PROVE  WaitersAreMarked'
<1>0. Words \subseteq Addresses /\ Mutexes \subseteq Words /\ TypeOK /\ CallsAreSound
  BY MutexTypes DEF KernelIsSound
<1>1. \A w \in Words : Pending(w)' = Pending(w)
  BY <1>0, UserPending
<1>2. ASSUME NEW m \in Mutexes, NEW v \in Wakers(m) PROVE v \in Wakers(m)'
  <2>1. v \in Threads /\ v # t
    BY <1>0, <1>2, UserBegins DEF Wakers, Begins
  <2> QED BY <1>0, <1>2, <2>1, UserFrame DEF Frame, Wakers
<1>3. \A w \in Words : Pending(w)' # {} => "WAITING" \in word'[w]
  BY <1>1, UserWords
<1>4. ASSUME NEW m \in Mutexes, Pending(m)' # {}
      PROVE  "LOCKED" \in word'[m] \/ Wakers(m)' # {}
  <2>1. Pending(m) # {} /\ m \in Words
    BY <1>0, <1>1, <1>4
  <2>2. "LOCKED" \in word[m] \/ Wakers(m) # {}
    BY <2>1 DEF WaitersAreMarked
  <2> QED BY <1>2, <2>1, <2>2, UserWords
<1> QED BY <1>3, <1>4 DEF WaitersAreMarked

-------------------------------------------------------------------------------
(* Semaphores. *)

\* A sem_post() in the kernel that finds nobody to notify leaves nobody who waits.
LEMMA ReleasedForNobody ==
    ASSUME KernelIsSound, NEW t \in Threads, KernelNext(t), user_mutex_sem_release(t),
           Notifiable(entry[t]) = {}
    PROVE  Pending(args[t].at)' = {}
<1>0. /\ TypeOK /\ CallsAreSound /\ QueuesAreSound /\ kpc[t] = "sem_release"
      /\ WriteLockable(entry[t]) /\ UNCHANGED args
  BY DEF KernelIsSound, user_mutex_sem_release
<1>1. /\ args[t].at \in Sems /\ args[t].at \in Addresses
      /\ \A u \in Threads : args[u].at = args[t].at => ~Queued(u)'
  BY ReleaseNotifies, MutexTypes DEF Notifies
<1>2. SUFFICES ASSUME NEW u \in Threads, args[u].at = args[t].at, Queued(u)' \/ kpc'[u] = "add"
               PROVE  FALSE
  BY <1>0 DEF Pending
<1>3. kpc'[u] = "add"
  BY <1>1, <1>2
<1>4. u # t
  BY <1>0, <1>3, Domains DEF user_mutex_sem_release, Goto
<1>5. kpc[u] = "add"
  BY <1>0, <1>3, <1>4, KernelFrame DEF Frame
<1>6. entry[u] = entry[t]
  BY <1>0, <1>2, <1>5, EntryOf
<1> QED BY <1>0, <1>5, <1>6, Lockable DEF ReadPcs

\* The kernel keeps a semaphore's value at -1 while threads block for it.
LEMMA KernelValues ==
    ASSUME KernelIsSound, ValuesAreSound, NEW t \in Threads, KernelNext(t)
    PROVE  ValuesAreSound'
<1>0. /\ TypeOK /\ CallsAreSound /\ QueuesAreSound /\ LocksAreSound
      /\ value \in [Sems -> Int] /\ Sems \subseteq Addresses
  BY MutexTypes DEF KernelIsSound, TypeOK, KernelTypeOK
<1>1. SUFFICES ASSUME NEW s \in Sems
               PROVE  value'[s] >= -1 /\ (Pending(s)' # {} => value'[s] = -1)
  BY DEF ValuesAreSound
<1>2. value[s] \in Int /\ value[s] >= -1 /\ (Pending(s) # {} => value[s] = -1)
  BY <1>0 DEF ValuesAreSound
<1>3. ASSUME NEW u \in Pending(s)', u \notin Pending(s) PROVE value'[s] = -1
  <2>1. u \in Threads
    BY <1>3 DEF Pending
  <2> QED BY <1>0, <1>3, <2>1, PendingMoves
<1>4. Pending(s)' # {} => value'[s] = -1 \/ Pending(s) # {}
  BY <1>3
<1> DEFINE Goal == value'[s] >= -1 /\ (Pending(s)' # {} => value'[s] = -1)
<1>5. CASE user_mutex_sem_acquire_locked(t)
  BY <1>0, <1>2, <1>4, <1>5 DEF user_mutex_sem_acquire_locked
<1>6. CASE user_mutex_sem_release(t)
  <2>1. CASE Notifiable(entry[t]) = {} /\ args[t].at = s
    <3>1. value' = [value EXCEPT ![s] = @ + (IF @ < 0 THEN 2 ELSE 1)]
      BY <1>6, <2>1 DEF user_mutex_sem_release
    <3>2. value'[s] >= -1
      BY <1>0, <1>2, <3>1
    <3>3. Pending(s)' = {}
      <4>1. Pending(args[t].at)' = {} /\ UNCHANGED args
        BY <1>6, <2>1, ReleasedForNobody DEF user_mutex_sem_release
      <4> QED BY <2>1, <4>1 DEF Pending
    <3> QED BY <3>2, <3>3
  <2>2. CASE ~(Notifiable(entry[t]) = {} /\ args[t].at = s)
    <3>1. value'[s] = value[s]
      BY <1>0, <1>6, <2>2 DEF user_mutex_sem_release
    <3> QED BY <1>2, <1>4, <3>1
  <2> QED BY <2>1, <2>2
<1>7. CASE SemReleaseLast(t)
  <2>1. CASE queue[entry[t]] = <<>> /\ args[t].at = s /\ value[s] = -1
    <3>1. kpc[t] = "sem_last" /\ value'[s] = 0
      BY <1>0, <1>7, <2>1 DEF SemReleaseLast
    <3>2. table[s] = entry[t] /\ entry[t] \in Entries
      BY <2>1, <3>1, EntryOf
    <3>3. WriteLocked(t) = entry[t] /\ kpc[t] \in WritePcs
      BY <3>1 DEF WriteLocked, WritePcs
    <3>4. \A u \in Threads : kpc[u] = "add" => entry[u] # table[s]
      BY <1>0, <3>1, <3>2, <3>3 DEF LocksAreSound, ReadPcs
    <3>5. Pending(s) = {}
      BY <1>0, <2>1, <3>2, <3>4, NobodyPends
    <3>6. Pending(s)' = {}
      BY <1>3, <3>1, <3>5
    <3> QED BY <3>1, <3>6
  <2>2. CASE ~(queue[entry[t]] = <<>> /\ args[t].at = s /\ value[s] = -1)
    <3>1. value'[s] = value[s]
      BY <1>0, <1>7, <2>2 DEF SemReleaseLast
    <3> QED BY <1>2, <1>4, <3>1
  <2> QED BY <2>1, <2>2
<1>8. CASE UNCHANGED value
  BY <1>2, <1>4, <1>8
<1>10. CASE get_user_mutex_entry(t)
  BY <1>10, <1>8 DEF get_user_mutex_entry, wordVars
<1>11. CASE InsertEntry(t)
  BY <1>11, <1>8 DEF InsertEntry, wordVars
<1>12. CASE put_user_mutex_entry(t)
  BY <1>12, <1>8 DEF put_user_mutex_entry, wordVars
<1>13. CASE RemoveEntry(t)
  BY <1>13, <1>8 DEF RemoveEntry, wordVars
<1>14. CASE user_mutex_prepare_to_lock(t)
  BY <1>14, <1>8 DEF user_mutex_prepare_to_lock, wordVars
<1>15. CASE UnsetWaiting(t)
  BY <1>15, <1>8 DEF UnsetWaiting, wordVars
<1>16. CASE AddWaiter(t)
  BY <1>16, <1>8 DEF AddWaiter, wordVars
<1>17. CASE Leave(t)
  BY <1>17, <1>8 DEF Leave, wordVars
<1>18. CASE WaitReturn(t)
  BY <1>18, <1>8 DEF WaitReturn, wordVars
<1>19. CASE FindEntry(t)
  BY <1>19, <1>8 DEF FindEntry, wordVars
<1>20. CASE FindNull(t)
  BY <1>20, <1>8 DEF FindNull, wordVars
<1>21. CASE user_mutex_unblock(t)
  BY <1>21, <1>8 DEF user_mutex_unblock, wordVars
<1>22. CASE HandOff(t)
  BY <1>22, <1>8 DEF HandOff, wordVars
<1>23. CASE NotifyWaiters(t)
  BY <1>23, <1>8 DEF NotifyWaiters, wordVars
<1>24. CASE UndoHandOff(t)
  BY <1>24, <1>8 DEF UndoHandOff, wordVars
<1>25. CASE UnblockLast(t)
  BY <1>25, <1>8 DEF UnblockLast, wordVars
<1>26. CASE ClearFrom(t)
  BY <1>26, <1>8 DEF ClearFrom, wordVars
<1>27. CASE FindFrom(t)
  BY <1>27, <1>8 DEF FindFrom, wordVars
<1>40. CASE KernelGiveUp(t)
  BY <1>8, <1>40 DEF KernelGiveUp, GiveUp, wordVars
<1> QED
  BY <1>5, <1>6, <1>7, <1>10, <1>11, <1>12, <1>13, <1>14, <1>15, <1>16, <1>17, <1>18, <1>19,
     <1>20, <1>21, <1>22,
    <1>23, <1>24, <1>25, <1>26, <1>27, <1>40
     DEF KernelNext, KernelStep, SwitchStep, SemStep

\* libroot never makes a semaphore's value negative, nor raises a negative one.
LEMMA UserValues ==
    ASSUME KernelIsSound, ValuesAreSound, NEW t \in Threads, UserNext(t)
    PROVE  ValuesAreSound'
<1>0. TypeOK /\ value \in [Sems -> Int] /\ Sems \subseteq Addresses
  BY MutexTypes DEF KernelIsSound, TypeOK, KernelTypeOK
<1>1. SUFFICES ASSUME NEW s \in Sems
               PROVE  value'[s] >= -1 /\ (Pending(s)' # {} => value'[s] = -1)
  BY DEF ValuesAreSound
<1>2. /\ value[s] \in Int /\ value[s] >= -1 /\ (Pending(s) # {} => value[s] = -1)
      /\ Pending(s)' = Pending(s)
  BY <1>0, UserPending DEF ValuesAreSound
<1> DEFINE Goal == value'[s] >= -1 /\ (Pending(s)' # {} => value'[s] = -1)
<1>3. ASSUME NEW x \in Sems, sem_wait(t, x) PROVE Goal
  <2>1. (value[x] > 0 /\ value' = [value EXCEPT ![x] = @ - 1]) \/ UNCHANGED value
    BY <1>3 DEF sem_wait
  <2> QED BY <1>0, <1>2, <2>1
<1>4. ASSUME NEW x \in Sems, sem_post(t, x) PROVE Goal
  <2>1. (value[x] > -1 /\ value' = [value EXCEPT ![x] = @ + 1]) \/ UNCHANGED value
    BY <1>4 DEF sem_post
  <2> QED BY <1>0, <1>2, <2>1
<1>5. CASE UNCHANGED value
  BY <1>2, <1>5
<1> QED
  BY <1>3, <1>4, <1>5
     DEF UserNext, LockReturn, TakeOwnership, UnlockWord, CondSwitch, CondReturn, CondLeave,
         CondReset, SemReturn, pthread_mutex_lock, pthread_mutex_trylock, pthread_mutex_unlock,
         pthread_cond_wait, cond_signal, wordVars

\* t is about to return with a unit of s; t has a unit for s in the kernel.
Gets(t, s) == upc[t] = "sem" /\ target[t] = s /\ Succeeds(t)
Gives(t, s) ==
    args[t].op = "sem_release" /\ args[t].at = s /\ kpc[t] \in {"get", "insert", "sem_release"}

Above(v) == IF v <= 0 THEN 0 ELSE v

UnitsAt(s) ==
    units[s] = Above(value[s]) + Cardinality({t \in Threads : Gets(t, s)})
                               + Cardinality({t \in Threads : Gives(t, s)})

\* The units of all semaphores, one semaphore at a time.
LEMMA UnitsAtAll ==
    /\ value \in [Sems -> Int] => (UnitsConserved <=> \A s \in Sems : UnitsAt(s))
    /\ value' \in [Sems -> Int] => (UnitsConserved' <=> \A s \in Sems : UnitsAt(s)')
<1>1. \A v \in Int : Max({v, 0}) = Above(v)
  BY MinMax DEF Above
<1>2. \A s : {t \in Threads : Gets(t, s)} =
               {t \in Threads : upc[t] = "sem" /\ target[t] = s /\ Succeeds(t)}
  BY DEF Gets
<1>3. \A s : {t \in Threads : Gives(t, s)} =
               {t \in Threads : /\ args[t].op = "sem_release" /\ args[t].at = s
                                /\ kpc[t] \in {"get", "insert", "sem_release"}}
  BY DEF Gives
<1>4. value \in [Sems -> Int] => (UnitsConserved <=> \A s \in Sems : UnitsAt(s))
  BY <1>1, <1>2, <1>3 DEF UnitsConserved, UnitsAt
<1>5. \A s : {t \in Threads : Gets(t, s)'} =
               {t \in Threads : upc'[t] = "sem" /\ target'[t] = s /\ Succeeds(t)'}
  BY DEF Gets
<1>6. \A s : {t \in Threads : Gives(t, s)'} =
               {t \in Threads : /\ args'[t].op = "sem_release" /\ args'[t].at = s
                                /\ kpc'[t] \in {"get", "insert", "sem_release"}}
  BY DEF Gives
<1>7. value' \in [Sems -> Int] => (UnitsConserved' <=> \A s \in Sems : UnitsAt(s)')
  BY <1>1, <1>5, <1>6 DEF UnitsConserved, UnitsAt
<1> QED BY <1>4, <1>7

\* One thread at most begins or ceases to have a unit, and one to give one.
LEMMA UnitsMove ==
    ASSUME NEW s, UnitsAt(s), NEW t \in Threads, NEW g \in Threads,
           \A u \in Threads \ {g} : Gets(u, s)' <=> Gets(u, s),
           \A u \in Threads \ {t} : Gives(u, s)' <=> Gives(u, s),
           units[s] \in Int, units'[s] \in Int, value[s] \in Int, value'[s] \in Int,
           units'[s] - units[s] =
               Above(value'[s]) - Above(value[s])
               + (IF Gets(g, s)' THEN 1 ELSE 0) - (IF Gets(g, s) THEN 1 ELSE 0)
               + (IF Gives(t, s)' THEN 1 ELSE 0) - (IF Gives(t, s) THEN 1 ELSE 0)
    PROVE  UnitsAt(s)'
<1> DEFINE A == {u \in Threads : Gets(u, s)}
           B == {u \in Threads : Gives(u, s)}
<1>0. A \in SUBSET Threads /\ B \in SUBSET Threads /\ A' \in SUBSET Threads /\ B' \in SUBSET Threads
  OBVIOUS
<1> PICK A0, A1, B0, B1 : A0 = A /\ A1 = A' /\ B0 = B /\ B1 = B'
  OBVIOUS
<1>1. /\ Cardinality(A0) \in Nat /\ Cardinality(A1) \in Nat
      /\ Cardinality(A1) = Cardinality(A0) + One(g \in A1) - One(g \in A0)
  <2>1. \A u \in Threads \ {g} : u \in A0 <=> u \in A1
    OBVIOUS
  <2>2. A0 \in SUBSET Threads /\ A1 \in SUBSET Threads
    BY <1>0
  <2> QED BY <2>1, <2>2, CountMove
<1>2. /\ Cardinality(B0) \in Nat /\ Cardinality(B1) \in Nat
      /\ Cardinality(B1) = Cardinality(B0) + One(t \in B1) - One(t \in B0)
  <2>1. \A u \in Threads \ {t} : u \in B0 <=> u \in B1
    OBVIOUS
  <2>2. B0 \in SUBSET Threads /\ B1 \in SUBSET Threads
    BY <1>0
  <2> QED BY <2>1, <2>2, CountMove
<1>3. /\ One(g \in A1) = (IF Gets(g, s)' THEN 1 ELSE 0)
      /\ One(g \in A0) = (IF Gets(g, s) THEN 1 ELSE 0)
      /\ One(t \in B1) = (IF Gives(t, s)' THEN 1 ELSE 0)
      /\ One(t \in B0) = (IF Gives(t, s) THEN 1 ELSE 0)
  BY DEF One
<1>4. units[s] = Above(value[s]) + Cardinality(A0) + Cardinality(B0)
  BY DEF UnitsAt
<1>5. Above(value[s]) \in Int /\ Above(value'[s]) \in Int
  BY DEF Above
<1>6. /\ (IF Gets(g, s)' THEN 1 ELSE 0) \in Int /\ (IF Gets(g, s) THEN 1 ELSE 0) \in Int
      /\ (IF Gives(t, s)' THEN 1 ELSE 0) \in Int /\ (IF Gives(t, s) THEN 1 ELSE 0) \in Int
  OBVIOUS
<1>7. units'[s] = Above(value'[s]) + Cardinality(A1) + Cardinality(B1)
  BY <1>1, <1>2, <1>3, <1>4, <1>5, <1>6
<1> QED BY <1>7 DEF UnitsAt

\* Who acquires a semaphore, as libroot sees it and as the kernel does.
LEMMA Acquirer ==
    ASSUME TypeOK, CallsAreSound, NEW u \in Threads
    PROVE  /\ args[u].op = "sem_acquire" => upc[u] = "sem" /\ target[u] = args[u].at
           /\ upc[u] = "sem" /\ kpc[u] # "idle" =>
                 args[u].op = "sem_acquire" /\ target[u] = args[u].at /\ args[u].at \in Sems
           /\ args[u].op = "sem_release" => upc[u] = "idle"
<1>1. CallIsSound(u) /\ UserIsSound(u) /\ upc[u] \in UserPcs
  BY DEF CallsAreSound, TypeOK, UserPcs
<1>2. /\ args[u].op = "sem_acquire" => upc[u] = "sem" /\ target[u] = args[u].at
      /\ args[u].op = "sem_release" => upc[u] = "idle"
  BY <1>1 DEF UserIsSound, UserPcs
<1>3. upc[u] = "sem" /\ kpc[u] # "idle" =>
         args[u].op = "sem_acquire" /\ target[u] = args[u].at /\ args[u].at \in Sems
  BY <1>1 DEF UserIsSound, CallIsSound
<1> QED BY <1>2, <1>3

\* A step of one thread in the kernel gives no other a unit, but that of sem_post().
LEMMA OthersGet ==
    ASSUME KernelIsSound, NEW t \in Threads, KernelNext(t), NEW u \in Threads \ {t},
           NEW s \in Sems
    PROVE  /\ Gives(u, s)' <=> Gives(u, s)
           /\ ~(user_mutex_sem_release(t) /\ args[t].at = s /\ args[u].at = s)
                 => (Gets(u, s)' <=> Gets(u, s))
<1>0. TypeOK /\ CallsAreSound /\ Frame(t) /\ CallIsSound(t)
  BY KernelFrame DEF KernelIsSound, CallsAreSound
<1>1. QueuedOnly(t, u) /\ QueuedStill(t, u)
  BY QueuedMoves
<1>2. NotifyWaiters(t) => UnblockedWord(t) \in Words
  BY UnblockNotifies
<1>3. upc[u] = "sem" /\ target[u] = s /\ kpc[u] = "wait" => args[u].at = s
  BY <1>0, Acquirer
<1>4. ~(user_mutex_sem_release(t) /\ args[t].at = s /\ args[u].at = s)
        => (Gets(u, s)' <=> Gets(u, s))
  <2>1. SUFFICES ASSUME ~(user_mutex_sem_release(t) /\ args[t].at = s /\ args[u].at = s),
                        upc[u] = "sem", target[u] = s
                 PROVE  Succeeds(u)' <=> Succeeds(u)
    BY <1>0 DEF Gets, Frame
  <2>2. kpc[u] = "wait" => (Queued(u)' <=> Queued(u))
    BY <1>0, <1>1, <1>2, <1>3, <2>1, MutexTypes DEF QueuedOnly, QueuedStill
  <2> QED BY <1>0, <2>2 DEF Succeeds, Frame
<1>5. Gives(u, s)' <=> Gives(u, s)
  BY <1>0 DEF Gives, Frame
<1> QED BY <1>4, <1>5

\* Only the acquisition itself changes whether its thread has a unit on the way,
LEMMA GetsItself ==
    ASSUME KernelIsSound, NEW t \in Threads, KernelNext(t), NEW s \in Sems,
           ~user_mutex_sem_acquire_locked(t)
    PROVE  Gets(t, s)' <=> Gets(t, s)
<1> DEFINE Goal == Gets(t, s)' <=> Gets(t, s)
<1>0. /\ TypeOK /\ CallsAreSound /\ QueuesAreSound /\ CallIsSound(t)
      /\ UNCHANGED <<upc, target>> /\ t \in Threads
  BY DEF KernelIsSound, CallsAreSound, KernelNext
<1>1. SUFFICES ASSUME upc[t] = "sem", target[t] = s PROVE Succeeds(t)' <=> Succeeds(t)
  BY <1>0 DEF Gets
<1>2. CASE kpc[t] = "idle"
  <2>1. CASE get_user_mutex_entry(t)
    BY <2>1, <1>2 DEF get_user_mutex_entry
  <2>2. CASE InsertEntry(t)
    BY <2>2, <1>2 DEF InsertEntry
  <2>3. CASE put_user_mutex_entry(t)
    BY <2>3, <1>2 DEF put_user_mutex_entry
  <2>4. CASE RemoveEntry(t)
    BY <2>4, <1>2 DEF RemoveEntry
  <2>5. CASE user_mutex_prepare_to_lock(t)
    BY <2>5, <1>2 DEF user_mutex_prepare_to_lock
  <2>6. CASE UnsetWaiting(t)
    BY <2>6, <1>2 DEF UnsetWaiting
  <2>7. CASE AddWaiter(t)
    BY <2>7, <1>2 DEF AddWaiter
  <2>8. CASE WaitReturn(t)
    BY <2>8, <1>2 DEF WaitReturn
  <2>9. CASE FindEntry(t)
    BY <2>9, <1>2 DEF FindEntry
  <2>10. CASE FindNull(t)
    BY <2>10, <1>2 DEF FindNull
  <2>11. CASE user_mutex_unblock(t)
    BY <2>11, <1>2 DEF user_mutex_unblock
  <2>12. CASE HandOff(t)
    BY <2>12, <1>2 DEF HandOff
  <2>13. CASE NotifyWaiters(t)
    BY <2>13, <1>2 DEF NotifyWaiters
  <2>14. CASE UndoHandOff(t)
    BY <2>14, <1>2 DEF UndoHandOff
  <2>15. CASE UnblockLast(t)
    BY <2>15, <1>2 DEF UnblockLast
  <2>16. CASE ClearFrom(t)
    BY <2>16, <1>2 DEF ClearFrom
  <2>17. CASE FindFrom(t)
    BY <2>17, <1>2 DEF FindFrom
  <2>18. CASE user_mutex_sem_acquire_locked(t)
    BY <2>18, <1>2 DEF user_mutex_sem_acquire_locked
  <2>19. CASE user_mutex_sem_release(t)
    BY <2>19, <1>2 DEF user_mutex_sem_release
  <2>20. CASE SemReleaseLast(t)
    BY <2>20, <1>2 DEF SemReleaseLast
  <2>30. CASE KernelGiveUp(t)
    BY <1>2, <2>30 DEF KernelGiveUp, GiveUp
  <2>31. CASE Leave(t)
    BY <1>0, <1>2, <2>31 DEF Leave, CallIsSound
  <2> QED
    BY <2>1, <2>2, <2>3, <2>4, <2>5, <2>6, <2>7, <2>8, <2>9, <2>10, <2>11, <2>12, <2>13, <2>14,
    <2>15, <2>16, <2>17, <2>18, <2>19, <2>20, <2>30, <2>31
       DEF KernelNext, KernelStep, SwitchStep, SemStep
<1>3. SUFFICES ASSUME kpc[t] # "idle" PROVE Succeeds(t)' <=> Succeeds(t)
  BY <1>2
<1>4. /\ args[t].op = "sem_acquire" /\ args[t].at = s /\ s \notin Words
      /\ kpc[t] \in {"get", "insert", "prepare", "add", "wait"} \cup PutPcs
  <2>1. args[t].op = "sem_acquire" /\ args[t].at = s
    BY <1>0, <1>1, <1>3, Acquirer
  <2> QED BY <1>0, <2>1, MutexTypes DEF CallIsSound
<1> DEFINE Goal2 == Succeeds(t)' <=> Succeeds(t)
<1>5. CASE AddWaiter(t)
  <2>1. Queued(t)' /\ kpc[t] = "add" /\ kpc'[t] = "wait"
    BY <1>0, <1>4, <1>5, AddsItself, Domains DEF AddWaiter, Goto
  <2> QED BY <2>1 DEF Succeeds
<1>6. CASE Leave(t)
  <2>1. t \in leaving /\ t \in leaving' /\ kpc[t] = "wait" /\ kpc'[t] = "wait"
    BY <1>0, <1>6 DEF Leave, callVars, CallIsSound
  <2> QED BY <2>1 DEF Succeeds
<1>7. CASE WaitReturn(t)
  <2>1. /\ kpc[t] = "wait" /\ ~Queued(t) /\ kpc'[t] = "put"
        /\ status'[t] = IF t \in leaving THEN status[t] ELSE "B_OK"
    BY <1>0, <1>4, <1>7, Domains DEF WaitReturn, Goto
  <2>2. t \in leaving => status[t] # "B_OK"
    BY <1>0 DEF CallIsSound
  <2> QED BY <2>1, <2>2 DEF Succeeds
<1>8. CASE KernelGiveUp(t)
  <2>1. kpc[t] = "wait" /\ Queued(t) /\ t \in leaving' /\ kpc'[t] = "wait"
    BY <1>8 DEF KernelGiveUp, GiveUp
  <2> QED BY <2>1 DEF Succeeds
<1>9. CASE get_user_mutex_entry(t) \/ InsertEntry(t)
  <2>1. kpc[t] \in {"get", "insert"} /\ kpc'[t] \in {"insert", "prepare"}
    BY <1>0, <1>4, <1>9, Domains DEF get_user_mutex_entry, InsertEntry, Found, Goto
  <2> QED BY <2>1 DEF Succeeds
<1>10. CASE put_user_mutex_entry(t)
  <2>1. kpc[t] = "put" /\ kpc'[t] \in {"put", "put_remove", "idle"} /\ status' = status
    BY <1>0, <1>10, Domains DEF put_user_mutex_entry, PutDone, Goto
  <2> QED BY <2>1 DEF Succeeds
<1>11. CASE RemoveEntry(t)
  <2>1. kpc[t] = "put_remove" /\ kpc'[t] \in {"put", "put_remove", "idle"} /\ status' = status
    BY <1>0, <1>11, Domains DEF RemoveEntry, PutDone, Goto
  <2> QED BY <2>1 DEF Succeeds
<1>12. CASE user_mutex_prepare_to_lock(t)
  BY <1>12, <1>4 DEF user_mutex_prepare_to_lock, PutPcs
<1>13. CASE UnsetWaiting(t)
  BY <1>13, <1>4 DEF UnsetWaiting, PutPcs
<1>14. CASE FindEntry(t)
  BY <1>14, <1>4 DEF FindEntry, PutPcs
<1>15. CASE FindNull(t)
  BY <1>15, <1>4 DEF FindNull, PutPcs
<1>16. CASE user_mutex_unblock(t)
  BY <1>16, <1>4 DEF user_mutex_unblock, PutPcs
<1>17. CASE HandOff(t)
  BY <1>17, <1>4 DEF HandOff, PutPcs
<1>18. CASE NotifyWaiters(t)
  BY <1>18, <1>4 DEF NotifyWaiters, PutPcs
<1>19. CASE UndoHandOff(t)
  BY <1>19, <1>4 DEF UndoHandOff, PutPcs
<1>20. CASE UnblockLast(t)
  BY <1>20, <1>4 DEF UnblockLast, PutPcs
<1>21. CASE ClearFrom(t)
  BY <1>21, <1>4 DEF ClearFrom, PutPcs
<1>22. CASE FindFrom(t)
  BY <1>22, <1>4 DEF FindFrom, PutPcs
<1>23. CASE user_mutex_sem_release(t)
  BY <1>23, <1>4 DEF user_mutex_sem_release, PutPcs
<1>24. CASE SemReleaseLast(t)
  BY <1>24, <1>4 DEF SemReleaseLast, PutPcs
<1> QED
  BY <1>5, <1>6, <1>7, <1>8, <1>9, <1>10, <1>11, <1>12, <1>13, <1>14, <1>15, <1>16, <1>17,
     <1>18, <1>19, <1>20, <1>21, <1>22, <1>23, <1>24
     DEF KernelNext, KernelStep, SwitchStep, SemStep

\* and only the release whether its thread has one to give.
LEMMA GivesItself ==
    ASSUME KernelIsSound, NEW t \in Threads, KernelNext(t), NEW s \in Sems,
           ~user_mutex_sem_release(t)
    PROVE  Gives(t, s)' <=> Gives(t, s)
<1>0. /\ TypeOK /\ CallsAreSound /\ CallIsSound(t) /\ t \in Threads /\ GoesOn(t)
      /\ args[t].op \in Calls \cup {"none"}
  BY KernelGoesOn, Typed DEF KernelIsSound, CallsAreSound
<1>1. CASE args[t].op # "sem_release"
  BY <1>0, <1>1 DEF GoesOn, Gives
<1>2. SUFFICES ASSUME args[t].op = "sem_release" PROVE Gives(t, s)' <=> Gives(t, s)
  BY <1>1
<1>3. kpc[t] \in {"get", "insert", "sem_release", "sem_last"} \cup PutPcs
  BY <1>0, <1>2 DEF CallIsSound
<1> DEFINE Goal == Gives(t, s)' <=> Gives(t, s)
<1>4. CASE get_user_mutex_entry(t) \/ InsertEntry(t)
  <2>1. /\ kpc[t] \in {"get", "insert"} /\ kpc'[t] \in {"insert", "sem_release"}
        /\ UNCHANGED args
    BY <1>0, <1>2, <1>4, Domains DEF get_user_mutex_entry, InsertEntry, Found, Goto
  <2> QED BY <2>1 DEF Gives
<1>5. CASE put_user_mutex_entry(t)
  <2>1. kpc[t] = "put" /\ kpc'[t] \in {"put", "put_remove", "idle"}
    BY <1>0, <1>5, Domains DEF put_user_mutex_entry, PutDone, Goto
  <2> QED BY <2>1 DEF Gives
<1>6. CASE RemoveEntry(t)
  <2>1. kpc[t] = "put_remove" /\ kpc'[t] \in {"put", "put_remove", "idle"}
    BY <1>0, <1>6, Domains DEF RemoveEntry, PutDone, Goto
  <2> QED BY <2>1 DEF Gives
<1>7. CASE SemReleaseLast(t)
  <2>1. kpc[t] = "sem_last" /\ kpc'[t] = "put"
    BY <1>0, <1>7, Domains DEF SemReleaseLast, Goto
  <2> QED BY <2>1 DEF Gives
<1>8. CASE Leave(t)
  BY <1>0, <1>2, <1>3, <1>8 DEF Leave, CallIsSound, PutPcs
<1>9. CASE KernelGiveUp(t)
  BY <1>3, <1>9 DEF KernelGiveUp, GiveUp, PutPcs
<1>12. CASE user_mutex_prepare_to_lock(t)
  BY <1>12, <1>3 DEF user_mutex_prepare_to_lock, PutPcs
<1>13. CASE UnsetWaiting(t)
  BY <1>13, <1>3 DEF UnsetWaiting, PutPcs
<1>14. CASE AddWaiter(t)
  BY <1>14, <1>3 DEF AddWaiter, PutPcs
<1>15. CASE WaitReturn(t)
  BY <1>15, <1>3 DEF WaitReturn, PutPcs
<1>16. CASE FindEntry(t)
  BY <1>16, <1>3 DEF FindEntry, PutPcs
<1>17. CASE FindNull(t)
  BY <1>17, <1>3 DEF FindNull, PutPcs
<1>18. CASE user_mutex_unblock(t)
  BY <1>18, <1>3 DEF user_mutex_unblock, PutPcs
<1>19. CASE HandOff(t)
  BY <1>19, <1>3 DEF HandOff, PutPcs
<1>20. CASE NotifyWaiters(t)
  BY <1>20, <1>3 DEF NotifyWaiters, PutPcs
<1>21. CASE UndoHandOff(t)
  BY <1>21, <1>3 DEF UndoHandOff, PutPcs
<1>22. CASE UnblockLast(t)
  BY <1>22, <1>3 DEF UnblockLast, PutPcs
<1>23. CASE ClearFrom(t)
  BY <1>23, <1>3 DEF ClearFrom, PutPcs
<1>24. CASE FindFrom(t)
  BY <1>24, <1>3 DEF FindFrom, PutPcs
<1>25. CASE user_mutex_sem_acquire_locked(t)
  BY <1>25, <1>3 DEF user_mutex_sem_acquire_locked, PutPcs
<1> QED
  BY <1>4, <1>5, <1>6, <1>7, <1>8, <1>9, <1>12, <1>13, <1>14, <1>15, <1>16, <1>17, <1>18, <1>19,
     <1>20, <1>21, <1>22, <1>23, <1>24,
    <1>25
     DEF KernelNext, KernelStep, SwitchStep, SemStep

\* The kernel loses and invents no unit.
LEMMA KernelUnits ==
    ASSUME KernelIsSound, ValuesAreSound, UnitsConserved, NEW t \in Threads, KernelNext(t)
    PROVE  UnitsConserved'
<1>0. /\ TypeOK /\ CallsAreSound /\ QueuesAreSound /\ ReferencesAreExact
      /\ value \in [Sems -> Int] /\ units \in [Sems -> Int]
      /\ UNCHANGED units /\ t \in Threads
  BY DEF KernelIsSound, TypeOK, KernelTypeOK, KernelNext
<1>1. value' \in [Sems -> Int]
  BY <1>0, KernelTypes DEF KernelTypeOK
<1>2. SUFFICES ASSUME NEW s \in Sems PROVE UnitsAt(s)'
  BY <1>1, UnitsAtAll
<1>3. UnitsAt(s)
  BY <1>0, UnitsAtAll
<1>4. value[s] \in Int /\ value'[s] \in Int /\ units[s] \in Int /\ units'[s] = units[s]
  BY <1>0, <1>1
<1>5. CASE user_mutex_sem_release(t) /\ args[t].at = s
  <2>1. /\ kpc[t] = "sem_release" /\ UNCHANGED <<leaving, args>>
        /\ kpc'[t] \in {"put", "sem_last"}
    BY <1>0, <1>5, Domains DEF user_mutex_sem_release, Goto
  <2>2. args[t].op = "sem_release" /\ ~Gets(t, s) /\ ~Gets(t, s)'
    <3>1. CallIsSound(t) /\ args[t].op \in Calls \cup {"none"}
      BY <1>0, Typed DEF CallsAreSound
    <3>2. args[t].op = "sem_release"
      BY <2>1, <3>1 DEF CallIsSound, Calls, UnblockPcs, PutPcs
    <3>3. upc[t] = "idle" /\ UNCHANGED upc
      BY <1>0, <3>2, Acquirer DEF KernelNext
    <3> QED BY <3>2, <3>3 DEF Gets
  <2>3. Gives(t, s) /\ ~Gives(t, s)'
    BY <1>5, <2>1, <2>2 DEF Gives
  <2>4. \A u \in Threads \ {t} : Gives(u, s)' <=> Gives(u, s)
    BY OthersGet
  <2>5. /\ BlockedAt(s) = {} <=> Notifiable(entry[t]) = {}
        /\ Notifies(s, FALSE)
    BY <1>5, ReleaseNotifies
  <2>6. ASSUME NEW u \in Threads \ {t}
        PROVE  Gets(u, s)' <=> Gets(u, s) \/ (u \in BlockedAt(s) /\ ~Queued(u)')
    <3>0. /\ Frame(t) /\ CallIsSound(u) /\ args[u].op \in Calls \cup {"none"}
      BY <1>0, KernelFrame, Typed DEF CallsAreSound
    <3>1. CASE args[u].at # s
      BY <3>1, OthersGet DEF BlockedAt
    <3>2. CASE args[u].at = s
      <4>1. Queued(u)' => Queued(u)
        BY <2>5 DEF Notifies
      <4>2. ASSUME Queued(u)
            PROVE  kpc[u] = "wait" /\ upc[u] = "sem" /\ target[u] = s
        <5>1. Waits(u)
          BY <1>0, <4>2, QueuedFacts DEF Waits
        <5>2. args[u].op = "sem_acquire" /\ kpc[u] = "wait"
          BY <3>0, <3>2, <5>1, MutexTypes DEF Waits, CallIsSound, UnblockPcs, PutPcs, Calls
        <5> QED BY <1>0, <3>2, <5>2, Acquirer
      <4>3. u \in BlockedAt(s) <=> Queued(u) /\ u \notin leaving
        BY <3>2 DEF BlockedAt
      <4>4. Succeeds(u)' <=>
              Succeeds(u) \/ (kpc[u] = "wait" /\ Queued(u) /\ ~Queued(u)' /\ u \notin leaving)
        BY <3>0, <4>1 DEF Succeeds, Frame
      <4> QED BY <3>0, <4>2, <4>3, <4>4 DEF Gets, Frame
    <3> QED BY <3>1, <3>2
  <2>7. CASE Notifiable(entry[t]) = {}
    <3>1. value' = [value EXCEPT ![s] = @ + (IF @ < 0 THEN 2 ELSE 1)]
      BY <1>5, <2>7 DEF user_mutex_sem_release
    <3>2. value[s] >= -1
      BY DEF ValuesAreSound
    <3>3. Above(value'[s]) = Above(value[s]) + 1 /\ Above(value[s]) \in Int
      BY <1>0, <1>4, <3>1, <3>2 DEF Above
    <3>4. \A u \in Threads \ {t} : Gets(u, s)' <=> Gets(u, s)
      BY <2>5, <2>6, <2>7
    <3>5. units'[s] - units[s] =
               Above(value'[s]) - Above(value[s])
               + (IF Gets(t, s)' THEN 1 ELSE 0) - (IF Gets(t, s) THEN 1 ELSE 0)
               + (IF Gives(t, s)' THEN 1 ELSE 0) - (IF Gives(t, s) THEN 1 ELSE 0)
      BY <1>4, <2>2, <2>3, <3>3
    <3> QED BY <1>3, <1>4, <2>4, <3>4, <3>5, UnitsMove
  <2>8. CASE Notifiable(entry[t]) # {}
    <3>1. value' = value
      BY <1>5, <2>8 DEF user_mutex_sem_release
    <3>2. PICK g \in BlockedAt(s) :
             ~Queued(g)' /\ \A v \in BlockedAt(s) : v # g => Queued(v)'
      BY <2>5, <2>8 DEF Notifies
    <3>3. g \in Threads \ {t}
      <4>1. g \in Threads /\ Queued(g)
        BY <3>2 DEF BlockedAt
      <4>2. ~Queued(t)
        BY <1>0, <2>1, <2>2, QueuedFacts
      <4> QED BY <4>1, <4>2
    <3>4. Gets(g, s)' /\ ~Gets(g, s)
      <4>1. Gets(g, s)'
        BY <2>6, <3>2, <3>3
      <4>2. Queued(g) /\ kpc[g] \notin {"unset", "put", "put_remove", "idle"}
        BY <1>0, <3>2, <3>3, QueuedFacts DEF BlockedAt, UnblockPcs
      <4> QED BY <4>1, <4>2 DEF Gets, Succeeds
    <3>5. \A u \in Threads \ {g} : Gets(u, s)' <=> Gets(u, s)
      BY <2>2, <2>6, <3>2
    <3>6. units'[s] - units[s] =
               Above(value'[s]) - Above(value[s])
               + (IF Gets(g, s)' THEN 1 ELSE 0) - (IF Gets(g, s) THEN 1 ELSE 0)
               + (IF Gives(t, s)' THEN 1 ELSE 0) - (IF Gives(t, s) THEN 1 ELSE 0)
      <4>1. Above(value[s]) \in Int /\ Above(value'[s]) = Above(value[s])
        BY <1>4, <3>1 DEF Above
      <4> QED BY <1>4, <2>3, <3>4, <4>1
    <3> QED BY <1>3, <1>4, <2>4, <3>3, <3>5, <3>6, UnitsMove
  <2> QED BY <2>7, <2>8
<1>6. SUFFICES ASSUME ~(user_mutex_sem_release(t) /\ args[t].at = s) PROVE UnitsAt(s)'
  BY <1>5
<1>7. \A u \in Threads \ {t} : (Gets(u, s)' <=> Gets(u, s)) /\ (Gives(u, s)' <=> Gives(u, s))
  BY <1>6, OthersGet
<1>8. Gives(t, s)' <=> Gives(t, s)
  <2>1. CASE user_mutex_sem_release(t)
    BY <1>6, <2>1 DEF user_mutex_sem_release, Gives
  <2>2. CASE ~user_mutex_sem_release(t)
    BY <2>2, GivesItself
  <2> QED BY <2>1, <2>2
<1>9. CASE user_mutex_sem_acquire_locked(t)
  <2>1. /\ kpc[t] = "prepare" /\ args[t].at \in Sems
        /\ kpc'[t] \in {"put", "add"} /\ UNCHANGED <<args, upc, target>>
    BY <1>0, <1>9, Domains DEF user_mutex_sem_acquire_locked, Goto, KernelNext
  <2>2. upc[t] = "sem" /\ target[t] = args[t].at
    <3>1. CallIsSound(t) /\ args[t].op \in Calls \cup {"none"}
      BY <1>0, Typed DEF CallsAreSound
    <3>2. args[t].op = "sem_acquire"
      BY <2>1, <3>1, MutexTypes DEF CallIsSound, Calls, UnblockPcs, PutPcs
    <3> QED BY <1>0, <3>2, Acquirer
  <2>3. ~Gets(t, s)
    BY <2>1 DEF Gets, Succeeds
  <2>4. CASE args[t].at # s
    <3>1. ~Gets(t, s)' /\ value'[s] = value[s]
      BY <1>0, <1>9, <2>1, <2>2, <2>4 DEF Gets, user_mutex_sem_acquire_locked
    <3>2. Above(value[s]) \in Int /\ Above(value'[s]) = Above(value[s])
      BY <1>4, <3>1 DEF Above
    <3> QED BY <1>3, <1>4, <1>7, <1>8, <2>3, <3>1, <3>2, UnitsMove
  <2>5. CASE args[t].at = s /\ value[s] > 0
    <3>1. value' = [value EXCEPT ![s] = @ - 1] /\ status'[t] = "B_OK" /\ kpc'[t] = "put"
      BY <1>0, <1>9, <2>5, Domains DEF user_mutex_sem_acquire_locked, Goto
    <3>2. Gets(t, s)'
      BY <2>1, <2>2, <2>5, <3>1 DEF Gets, Succeeds
    <3>3. Above(value[s]) \in Int /\ Above(value'[s]) = Above(value[s]) - 1
      BY <1>0, <1>4, <2>5, <3>1 DEF Above
    <3> QED BY <1>3, <1>4, <1>7, <1>8, <2>3, <3>2, <3>3, UnitsMove
  <2>6. CASE args[t].at = s /\ value[s] <= 0
    <3>1. value' = [value EXCEPT ![s] = -1] /\ kpc'[t] = "add"
      BY <1>0, <1>4, <1>9, <2>6, Domains DEF user_mutex_sem_acquire_locked, Goto
    <3>2. ~Gets(t, s)'
      BY <3>1 DEF Gets, Succeeds
    <3>3. Above(value[s]) = 0 /\ Above(value'[s]) = 0
      BY <1>0, <1>4, <2>6, <3>1 DEF Above
    <3> QED BY <1>3, <1>4, <1>7, <1>8, <2>3, <3>2, <3>3, UnitsMove
  <2> QED BY <1>4, <2>4, <2>5, <2>6
<1>10. SUFFICES ASSUME ~user_mutex_sem_acquire_locked(t) PROVE UnitsAt(s)'
  BY <1>9
<1>11. Gets(t, s)' <=> Gets(t, s)
  BY <1>10, GetsItself
<1>12. Above(value'[s]) = Above(value[s])
  <2> DEFINE Goal == Above(value'[s]) = Above(value[s])
  <2>1. CASE user_mutex_sem_release(t)
    BY <1>0, <1>6, <2>1 DEF user_mutex_sem_release
  <2>2. CASE SemReleaseLast(t)
    <3>1. value'[s] = value[s] \/ (value[s] = -1 /\ value'[s] = 0)
      BY <1>0, <2>2 DEF SemReleaseLast
    <3> QED BY <3>1 DEF Above
  <2>10. CASE get_user_mutex_entry(t)
    BY <2>10 DEF get_user_mutex_entry, wordVars
  <2>11. CASE InsertEntry(t)
    BY <2>11 DEF InsertEntry, wordVars
  <2>12. CASE put_user_mutex_entry(t)
    BY <2>12 DEF put_user_mutex_entry, wordVars
  <2>13. CASE RemoveEntry(t)
    BY <2>13 DEF RemoveEntry, wordVars
  <2>14. CASE user_mutex_prepare_to_lock(t)
    BY <2>14 DEF user_mutex_prepare_to_lock, wordVars
  <2>15. CASE UnsetWaiting(t)
    BY <2>15 DEF UnsetWaiting, wordVars
  <2>16. CASE AddWaiter(t)
    BY <2>16 DEF AddWaiter, wordVars
  <2>17. CASE Leave(t)
    BY <2>17 DEF Leave, wordVars
  <2>18. CASE WaitReturn(t)
    BY <2>18 DEF WaitReturn, wordVars
  <2>19. CASE FindEntry(t)
    BY <2>19 DEF FindEntry, wordVars
  <2>20. CASE FindNull(t)
    BY <2>20 DEF FindNull, wordVars
  <2>21. CASE user_mutex_unblock(t)
    BY <2>21 DEF user_mutex_unblock, wordVars
  <2>22. CASE HandOff(t)
    BY <2>22 DEF HandOff, wordVars
  <2>23. CASE NotifyWaiters(t)
    BY <2>23 DEF NotifyWaiters, wordVars
  <2>24. CASE UndoHandOff(t)
    BY <2>24 DEF UndoHandOff, wordVars
  <2>25. CASE UnblockLast(t)
    BY <2>25 DEF UnblockLast, wordVars
  <2>26. CASE ClearFrom(t)
    BY <2>26 DEF ClearFrom, wordVars
  <2>27. CASE FindFrom(t)
    BY <2>27 DEF FindFrom, wordVars
  <2>40. CASE KernelGiveUp(t)
    BY <2>40 DEF KernelGiveUp, GiveUp, wordVars
  <2> QED
    BY <1>10, <2>1, <2>2, <2>10, <2>11, <2>12, <2>13, <2>14, <2>15, <2>16, <2>17, <2>18, <2>19,
       <2>20, <2>21, <2>22,
    <2>23, <2>24, <2>25, <2>26, <2>27, <2>40
       DEF KernelNext, KernelStep, SwitchStep, SemStep
<1>13. Above(value[s]) \in Int
  BY <1>4 DEF Above
<1>14. units'[s] - units[s] =
               Above(value'[s]) - Above(value[s])
               + (IF Gets(t, s)' THEN 1 ELSE 0) - (IF Gets(t, s) THEN 1 ELSE 0)
               + (IF Gives(t, s)' THEN 1 ELSE 0) - (IF Gives(t, s) THEN 1 ELSE 0)
  BY <1>4, <1>8, <1>11, <1>12, <1>13
<1> QED BY <1>3, <1>4, <1>7, <1>14, UnitsMove

\* libroot loses and invents no unit.
LEMMA UserUnits ==
    ASSUME KernelIsSound, ValuesAreSound, UnitsConserved, NEW t \in Threads, UserNext(t)
    PROVE  UnitsConserved'
<1>0. /\ TypeOK /\ CallsAreSound /\ QueuesAreSound /\ Frame(t) /\ Begins(t) /\ UserIsSound(t)
      /\ value \in [Sems -> Int] /\ units \in [Sems -> Int] /\ t \in Threads
  BY UserFrame, UserBegins DEF KernelIsSound, TypeOK, KernelTypeOK, CallsAreSound
<1>1. value' \in [Sems -> Int] /\ units' \in [Sems -> Int]
  BY <1>0, UserTypes DEF KernelTypeOK
<1>2. SUFFICES ASSUME NEW s \in Sems PROVE UnitsAt(s)'
  BY <1>1, UnitsAtAll
<1>3. UnitsAt(s)
  BY <1>0, UnitsAtAll
<1>4. value[s] \in Int /\ value'[s] \in Int /\ units[s] \in Int /\ units'[s] \in Int
  BY <1>0, <1>1
<1>5. ASSUME NEW u \in Threads \ {t}
      PROVE  (Gets(u, s)' <=> Gets(u, s)) /\ (Gives(u, s)' <=> Gives(u, s))
  <2>1. Queued(u)' <=> Queued(u)
    BY <1>0, UserQueued
  <2>2. Succeeds(u)' <=> Succeeds(u)
    BY <1>0, <2>1 DEF Frame, Succeeds
  <2> QED BY <1>0, <2>2 DEF Frame, Gets, Gives
<1>6. kpc[t] = "idle" /\ ~Gives(t, s) /\ (Gets(t, s) <=> upc[t] = "sem" /\ target[t] = s /\ status[t] = "B_OK")
  BY <1>0 DEF Begins, Gives, Gets, Succeeds
<1>7. Above(value[s]) \in Int /\ Above(value'[s]) \in Int
  BY <1>4 DEF Above
<1> DEFINE Goal == UnitsAt(s)'
<1> DEFINE Balance == units'[s] - units[s] =
               Above(value'[s]) - Above(value[s])
               + (IF Gets(t, s)' THEN 1 ELSE 0) - (IF Gets(t, s) THEN 1 ELSE 0)
               + (IF Gives(t, s)' THEN 1 ELSE 0) - (IF Gives(t, s) THEN 1 ELSE 0)
<1>8. Balance => Goal
  BY <1>3, <1>4, <1>5, UnitsMove
<1>a. Still => args'[t].op = "none" /\ kpc'[t] = "idle"
  BY <1>0 DEF Still, callVars, Begins
<1>b. ASSUME NEW o, NEW a, NEW f, NEW all, NEW label, Begun(t, o, a, f, all, label)
      PROVE  args'[t].op = o /\ args'[t].at = a /\ kpc'[t] = label
  BY <1>b DEF Begun
<1>9. ASSUME NEW x \in Sems, sem_wait(t, x) PROVE Goal
  <2>0. upc[t] = "idle"
    BY <1>9 DEF sem_wait, Idle
  <2>1. CASE /\ value[x] > 0 /\ value' = [value EXCEPT ![x] = @ - 1]
             /\ units' = [units EXCEPT ![x] = @ - 1] /\ Still /\ UNCHANGED <<upc, target>>
    <3>1. ~Gets(t, s) /\ ~Gets(t, s)' /\ ~Gives(t, s)'
      BY <1>6, <1>a, <2>0, <2>1 DEF Gets, Gives
    <3>2. units'[s] - units[s] = Above(value'[s]) - Above(value[s])
      BY <1>0, <1>4, <2>1 DEF Above
    <3> QED BY <1>4, <1>6, <1>7, <1>8, <3>1, <3>2
  <2>2. CASE /\ Begun(t, "sem_acquire", x, NULL, FALSE, "get") /\ UNCHANGED <<value, units>>
    <3>1. args'[t].op = "sem_acquire" /\ kpc'[t] = "get"
      BY <2>2 DEF Begun
    <3>2. ~Gets(t, s) /\ ~Gets(t, s)' /\ ~Gives(t, s)'
      BY <1>6, <2>0, <3>1 DEF Gets, Succeeds, Gives
    <3> QED BY <1>4, <1>6, <1>7, <1>8, <2>2, <3>2
  <2>3. TypeOK
    BY <1>0
  <2> QED BY <1>9, <2>1, <2>2, <2>3, SemWaitForm
<1>10. ASSUME NEW x \in Sems, sem_post(t, x) PROVE Goal
  <2>0. upc[t] = "idle" /\ upc' = upc /\ units' = [units EXCEPT ![x] = @ + 1]
    BY <1>10 DEF sem_post, Idle
  <2>1. CASE value[x] > -1 /\ value' = [value EXCEPT ![x] = @ + 1] /\ Still
    <3>1. ~Gets(t, s) /\ ~Gets(t, s)' /\ ~Gives(t, s)'
      BY <1>6, <1>a, <2>0, <2>1 DEF Gets, Gives
    <3>2. units'[s] - units[s] = Above(value'[s]) - Above(value[s])
      BY <1>0, <1>4, <2>0, <2>1 DEF Above
    <3> QED BY <1>4, <1>6, <1>7, <1>8, <3>1, <3>2
  <2>2. CASE value[x] <= -1 /\ Begun(t, "sem_release", x, NULL, FALSE, "get") /\ UNCHANGED value
    <3>1. args'[t].op = "sem_release" /\ args'[t].at = x /\ kpc'[t] = "get"
      BY <2>2 DEF Begun
    <3>2. ~Gets(t, s) /\ ~Gets(t, s)' /\ (Gives(t, s)' <=> x = s)
      BY <1>6, <2>0, <3>1 DEF Gets, Succeeds, Gives
    <3>3. units'[s] - units[s] = IF x = s THEN 1 ELSE 0
      BY <1>0, <1>4, <2>0
    <3> QED BY <1>4, <1>6, <1>7, <1>8, <2>2, <3>2, <3>3
  <2>3. TypeOK
    BY <1>0
  <2> QED BY <1>10, <2>1, <2>2, <2>3, SemPostForm
<1>11. CASE SemReturn(t)
  <2>1. /\ upc[t] = "sem" /\ upc'[t] = "idle" /\ Still /\ UNCHANGED value /\ target[t] \in Sems
        /\ units' = IF status[t] = "B_OK" THEN [units EXCEPT ![target[t]] = @ - 1] ELSE units
    BY <1>0, <1>11, Domains DEF SemReturn, UGoto, KernelUnchanged, Still, wordVars, UserIsSound
  <2>2. ~Gets(t, s)' /\ ~Gives(t, s)'
    BY <1>a, <2>1 DEF Gets, Gives
  <2>3. units'[s] - units[s] = 0 - (IF Gets(t, s) THEN 1 ELSE 0)
    BY <1>0, <1>4, <1>6, <2>1
  <2> QED BY <1>4, <1>6, <1>7, <1>8, <2>1, <2>2, <2>3
<1>12. SUFFICES ASSUME ~SemReturn(t), ~\E x \in Sems : sem_wait(t, x) \/ sem_post(t, x)
                PROVE  Goal
  BY <1>9, <1>10, <1>11
<1>13. /\ UNCHANGED <<value, units>> /\ upc[t] # "sem" /\ upc'[t] # "sem"
  <2> DEFINE Goal2 == UNCHANGED <<value, units>> /\ upc[t] # "sem" /\ upc'[t] # "sem"
  <2>1. CASE LockReturn(t)
    BY <2>1, <1>0, Domains DEF LockReturn, UGoto, wordVars
  <2>2. CASE TakeOwnership(t)
    BY <2>2, <1>0, Domains DEF TakeOwnership, UGoto, wordVars
  <2>3. CASE UnlockWord(t)
    BY <2>3, <1>0, Domains DEF UnlockWord, UGoto, wordVars
  <2>4. CASE CondSwitch(t)
    BY <2>4, <1>0, Domains DEF CondSwitch, UGoto, wordVars
  <2>5. CASE CondReturn(t)
    BY <2>5, <1>0, Domains DEF CondReturn, SetLocked, UGoto, wordVars
  <2>6. CASE CondLeave(t)
    BY <2>6, <1>0, Domains DEF CondLeave, UGoto, wordVars
  <2>7. CASE CondReset(t)
    BY <2>7, <1>0, Domains DEF CondReset, UGoto, wordVars
  <2>8. ASSUME NEW m \in Mutexes, pthread_mutex_lock(t, m) PROVE Goal2
    BY <2>8, <1>0, Domains DEF pthread_mutex_lock, Idle, SetLocked, UGoto, wordVars
  <2>9. ASSUME NEW m \in Mutexes, pthread_mutex_trylock(t, m) PROVE Goal2
    BY <2>9, <1>0, Domains DEF pthread_mutex_trylock, Idle, UGoto, wordVars
  <2>10. ASSUME NEW m \in Mutexes, pthread_mutex_unlock(t, m) PROVE Goal2
    BY <2>10, <1>0, Domains DEF pthread_mutex_unlock, Idle, UGoto, wordVars
  <2>11. ASSUME NEW c \in Conds, pthread_cond_wait(t, c) PROVE Goal2
    BY <2>11, <1>0, Domains DEF pthread_cond_wait, Idle, UGoto, wordVars
  <2>12. ASSUME NEW c \in Conds, NEW all \in BOOLEAN, cond_signal(t, c, all) PROVE Goal2
    BY <2>12, <1>0, Domains DEF cond_signal, Idle, wordVars
  <2> QED
    BY <1>12, <2>1, <2>2, <2>3, <2>4, <2>5, <2>6, <2>7, <2>8, <2>9, <2>10, <2>11, <2>12
       DEF UserNext
<1>14. args'[t].op # "sem_release"
  <2> DEFINE Goal2 == args'[t].op # "sem_release"
  <2>1. CASE LockReturn(t)
    BY <2>1, <1>0, <1>a, LockReturnForm DEF LockReturn, Begun
  <2>2. CASE TakeOwnership(t)
    BY <2>2, <1>0, <1>a DEF TakeOwnership, UGoto, KernelUnchanged, Still, Begun
  <2>3. CASE UnlockWord(t)
    BY <2>3, <1>0, <1>a, UnlockForm DEF UnlockWord, UGoto, Begun
  <2>4. CASE CondSwitch(t)
    BY <2>4, <1>0, <1>a, SwitchForm DEF CondSwitch, UGoto, Begun
  <2>5. CASE CondReturn(t)
    BY <2>5, <1>0, <1>a, CondReturnForm DEF CondReturn, Begun
  <2>6. CASE CondLeave(t)
    BY <2>6, <1>0, <1>a DEF CondLeave, UGoto, KernelUnchanged, Still, Begun
  <2>7. CASE CondReset(t)
    BY <2>7, <1>0, <1>a DEF CondReset, UGoto, KernelUnchanged, Still, Begun
  <2>8. ASSUME NEW m \in Mutexes, pthread_mutex_lock(t, m) PROVE Goal2
    BY <2>8, <1>0, <1>a, LockForm DEF pthread_mutex_lock, Idle, Begun
  <2>9. ASSUME NEW m \in Mutexes, pthread_mutex_trylock(t, m) PROVE Goal2
    BY <2>9, <1>0, <1>a DEF pthread_mutex_trylock, Idle, UGoto, KernelUnchanged, Still, Begun
  <2>10. ASSUME NEW m \in Mutexes, pthread_mutex_unlock(t, m) PROVE Goal2
    BY <2>10, <1>0, <1>a DEF pthread_mutex_unlock, Idle, UGoto, KernelUnchanged, Still, Begun
  <2>11. ASSUME NEW c \in Conds, pthread_cond_wait(t, c) PROVE Goal2
    BY <2>11, <1>0, <1>a DEF pthread_cond_wait, Idle, UGoto, KernelUnchanged, Still, Begun
  <2>12. ASSUME NEW c \in Conds, NEW all \in BOOLEAN, cond_signal(t, c, all) PROVE Goal2
    <3>1. TypeOK
      BY <1>0
    <3>2. Begun(t, "unblock", c, NULL, all, "find") \/ Still
      BY <3>1, <2>12, SignalForm, Zenon
    <3>3. args'[t].op = "unblock" \/ args'[t].op = "none"
      BY <1>a, <1>b, <3>2, Zenon
    <3> QED BY <3>3
  <2> QED
    BY <1>12, <2>1, <2>2, <2>3, <2>4, <2>5, <2>6, <2>7, <2>8, <2>9, <2>10, <2>11, <2>12
       DEF UserNext
<1>15. ~Gets(t, s) /\ ~Gets(t, s)' /\ ~Gives(t, s)'
  BY <1>13, <1>14 DEF Gets, Gives
<1> QED BY <1>4, <1>6, <1>7, <1>8, <1>13, <1>15

-------------------------------------------------------------------------------
(* Condition variables. *)

\* One thread at most begins or ceases to be a waiter.
LEMMA WaitersMove ==
    ASSUME NEW t \in Threads, Frame(t), NEW c
    PROVE  /\ Cardinality(CondWaiters(c)) \in Nat
           /\ Cardinality(CondWaiters(c)') =
                Cardinality(CondWaiters(c))
                + (IF t \in CondWaiters(c)' THEN 1 ELSE 0) - (IF t \in CondWaiters(c) THEN 1 ELSE 0)
<1> PICK S, T : S = CondWaiters(c) /\ T = CondWaiters(c)'
  OBVIOUS
<1>1. S \in SUBSET Threads /\ T \in SUBSET Threads
  BY DEF CondWaiters
<1>2. \A u \in Threads \ {t} : u \in S <=> u \in T
  BY DEF CondWaiters, Frame
<1>3. /\ Cardinality(S) \in Nat
      /\ Cardinality(T) = Cardinality(S) + One(t \in T) - One(t \in S)
  BY <1>1, <1>2, CountMove
<1>4. /\ One(t \in T) = (IF t \in CondWaiters(c)' THEN 1 ELSE 0)
      /\ One(t \in S) = (IF t \in CondWaiters(c) THEN 1 ELSE 0)
  BY DEF One
<1> QED BY <1>3, <1>4

\* pthread_cond_t::waiter_count counts the threads between its increment and its
\* decrement, both with the mutex locked.
LEMMA UserWaiters ==
    ASSUME TypeOK, CallsAreSound, OwnersAreSound, WaiterCountsAreExact,
           NEW t \in Threads, UserNext(t)
    PROVE  /\ WaiterCountsAreExact'
           /\ waiter_count' \in [Conds -> 0..Cardinality(Threads)]
<1>0. /\ UserIsSound(t) /\ Frame(t) /\ cond \in [Threads -> Conds \cup {NULL}]
      /\ waiter_count = [c \in Conds |-> waiter_count[c]] /\ DOMAIN waiter_count = Conds
      /\ \A c \in Conds : waiter_count[c] \in Int
      /\ upc \in [Threads -> UserPcs] /\ Cardinality(Threads) \in Nat
  BY UserFrame, CountThreads DEF TypeOK, CallsAreSound, UserPcs
<1>1. \A c \in Conds : waiter_count[c] = Cardinality(CondWaiters(c))
  BY DEF WaiterCountsAreExact
<1>2. \A u \in Threads : upc[u] = "cond_reset" => waiter_count[cond[u]] = 0
  BY DEF WaiterCountsAreExact
<1> DEFINE Changes == \A c \in Conds :
               waiter_count'[c] = waiter_count[c] + (IF t \in CondWaiters(c)' THEN 1 ELSE 0)
                                                  - (IF t \in CondWaiters(c) THEN 1 ELSE 0)
           Resets == \A u \in Threads : upc'[u] = "cond_reset" => waiter_count'[cond'[u]] = 0
           Counts == /\ DOMAIN waiter_count' = Conds
                     /\ waiter_count' = [c \in Conds |-> waiter_count'[c]]
           Goal == Changes /\ Resets /\ Counts
<1>3. SUFFICES Goal
  <2>1. ASSUME NEW c \in Conds PROVE waiter_count'[c] = Cardinality(CondWaiters(c)')
    <3>1. /\ Cardinality(CondWaiters(c)) \in Nat
          /\ Cardinality(CondWaiters(c)') =
                Cardinality(CondWaiters(c))
                + (IF t \in CondWaiters(c)' THEN 1 ELSE 0) - (IF t \in CondWaiters(c) THEN 1 ELSE 0)
      BY <1>0, WaitersMove
    <3>2. waiter_count'[c] = waiter_count[c] + (IF t \in CondWaiters(c)' THEN 1 ELSE 0)
                                             - (IF t \in CondWaiters(c) THEN 1 ELSE 0)
      BY <1>3
    <3>3. waiter_count[c] = Cardinality(CondWaiters(c))
      BY <1>1
    <3> QED BY <3>1, <3>2, <3>3
  <2>2. ASSUME NEW c \in Conds PROVE Cardinality(CondWaiters(c)') \in 0..Cardinality(Threads)
    <3> PICK S : S = CondWaiters(c)'
      OBVIOUS
    <3>1. S \in SUBSET Threads
      BY DEF CondWaiters
    <3> QED BY <3>1, CountThreads
  <2>3. waiter_count' \in [Conds -> 0..Cardinality(Threads)]
    BY <1>3, <2>1, <2>2
  <2>4. WaiterCountsAreExact'
    BY <1>3, <2>1 DEF WaiterCountsAreExact
  <2> QED BY <2>3, <2>4
<1>4. ASSUME NEW c \in Conds, pthread_cond_wait(t, c) PROVE Goal
  <2>1. /\ upc[t] = "idle" /\ cond[t] = NULL /\ cond'[t] = c /\ upc'[t] = "cond_lock"
        /\ waiter_count' = [waiter_count EXCEPT ![c] = @ + 1]
        /\ owner[MutexOf[c]] = t
    BY <1>0, <1>4, Domains DEF pthread_cond_wait, Idle, UGoto, UserIsSound
  <2>2. \A x \in Conds : (t \in CondWaiters(x)' <=> x = c) /\ t \notin CondWaiters(x)
    BY <2>1, MutexTypes DEF CondWaiters
  <2>3. Changes
    BY <1>0, <2>1, <2>2
  <2>4. ASSUME NEW u \in Threads, upc'[u] = "cond_reset" PROVE waiter_count'[cond'[u]] = 0
    <3>1. u # t /\ upc[u] = "cond_reset" /\ cond'[u] = cond[u]
      BY <1>0, <2>1, <2>4 DEF Frame
    <3>2. cond[u] \in Conds /\ cond[u] # c
      BY <2>1, <3>1 DEF OwnersAreSound, CallsAreSound, UserIsSound
    <3> QED BY <1>0, <1>2, <2>1, <3>1, <3>2
  <2> QED BY <1>0, <2>1, <2>3, <2>4
<1>5. CASE CondLeave(t)
  <2>0. upc[t] = "cond_done" /\ cond[t] \in Conds
    BY <1>0, <1>5 DEF CondLeave, UserIsSound
  <2> PICK c \in Conds : c = cond[t]
    BY <2>0
  <2>1. /\ waiter_count' = [waiter_count EXCEPT ![c] = @ - 1]
        /\ waiter_count[c] = 1 => upc'[t] = "cond_reset" /\ cond'[t] = c
        /\ waiter_count[c] # 1 => upc'[t] = "idle" /\ cond'[t] = NULL
    BY <1>0, <1>5, Domains DEF CondLeave, UGoto
  <2>2. \A x \in Conds : (t \in CondWaiters(x) <=> x = c) /\ t \notin CondWaiters(x)'
    BY <2>0, <2>1, MutexTypes DEF CondWaiters
  <2>3. Changes
    BY <1>0, <2>1, <2>2
  <2>4. waiter_count[c] # 0
    <3>1. CondWaiters(c) \in SUBSET Threads /\ CondWaiters(c) # {}
      BY <2>2 DEF CondWaiters
    <3> QED BY <1>1, <3>1, CountThreads
  <2>5. ASSUME NEW u \in Threads, upc'[u] = "cond_reset" PROVE waiter_count'[cond'[u]] = 0
    <3>1. CASE u = t
      BY <1>0, <2>1, <2>5, <3>1
    <3>2. CASE u # t
      <4>1. upc[u] = "cond_reset" /\ cond'[u] = cond[u]
        BY <1>0, <2>5, <3>2 DEF Frame
      <4>2. cond[u] \in Conds /\ waiter_count[cond[u]] = 0
        BY <1>2, <4>1 DEF CallsAreSound, UserIsSound
      <4> QED BY <1>0, <2>1, <2>4, <4>1, <4>2
    <3> QED BY <3>1, <3>2
  <2> QED BY <1>0, <2>1, <2>3, <2>5
<1>6. CASE CondReset(t)
  <2>1. /\ upc[t] = "cond_reset" /\ cond'[t] = NULL /\ upc'[t] = "idle"
        /\ waiter_count' = waiter_count
    BY <1>0, <1>6, Domains DEF CondReset, UGoto
  <2>2. \A x \in Conds : t \notin CondWaiters(x)' /\ t \notin CondWaiters(x)
    BY <2>1, MutexTypes DEF CondWaiters
  <2>3. Changes
    BY <1>0, <2>1, <2>2
  <2>4. Resets
    BY <1>0, <1>2, <2>1 DEF Frame
  <2> QED BY <1>0, <2>1, <2>3, <2>4
<1>7. SUFFICES ASSUME ~CondLeave(t), ~CondReset(t), ~\E c \in Conds : pthread_cond_wait(t, c)
               PROVE  Goal
  BY <1>4, <1>5, <1>6
<1>8. UNCHANGED <<waiter_count, cond>> /\ upc[t] # "cond_reset" /\ upc'[t] # "cond_reset"
  <2> DEFINE Goal2 == UNCHANGED <<waiter_count, cond>> /\ upc[t] # "cond_reset"
                      /\ upc'[t] # "cond_reset"
  <2>1. CASE LockReturn(t)
    BY <2>1, <1>0, Domains DEF LockReturn, UGoto
  <2>2. CASE TakeOwnership(t)
    BY <2>2, <1>0, Domains DEF TakeOwnership, UGoto
  <2>3. CASE UnlockWord(t)
    BY <2>3, <1>0, Domains DEF UnlockWord, UGoto
  <2>4. CASE CondSwitch(t)
    BY <2>4, <1>0, Domains DEF CondSwitch, UGoto
  <2>5. CASE CondReturn(t)
    BY <2>5, <1>0, Domains DEF CondReturn, SetLocked, UGoto
  <2>6. CASE SemReturn(t)
    BY <2>6, <1>0, Domains DEF SemReturn, UGoto
  <2>7. ASSUME NEW m \in Mutexes, pthread_mutex_lock(t, m) PROVE Goal2
    BY <2>7, <1>0, Domains DEF pthread_mutex_lock, Idle, SetLocked, UGoto
  <2>8. ASSUME NEW m \in Mutexes, pthread_mutex_trylock(t, m) PROVE Goal2
    BY <2>8, <1>0, Domains DEF pthread_mutex_trylock, Idle, UGoto
  <2>9. ASSUME NEW m \in Mutexes, pthread_mutex_unlock(t, m) PROVE Goal2
    BY <2>9, <1>0, Domains DEF pthread_mutex_unlock, Idle, UGoto
  <2>10. ASSUME NEW c \in Conds, NEW all \in BOOLEAN, cond_signal(t, c, all) PROVE Goal2
    BY <2>10, <1>0, Domains DEF cond_signal, Idle
  <2>11. ASSUME NEW s \in Sems, sem_wait(t, s) PROVE Goal2
    BY <2>11, <1>0, Domains DEF sem_wait, Idle, UGoto
  <2>12. ASSUME NEW s \in Sems, sem_post(t, s) PROVE Goal2
    BY <2>12, <1>0, Domains DEF sem_post, Idle
  <2> QED
    BY <1>7, <2>1, <2>2, <2>3, <2>4, <2>5, <2>6, <2>7, <2>8, <2>9, <2>10, <2>11, <2>12
       DEF UserNext
<1>9. \A x \in Conds : t \in CondWaiters(x)' <=> t \in CondWaiters(x)
  BY <1>8 DEF CondWaiters
<1>10. Changes
  BY <1>0, <1>8, <1>9
<1>11. Resets
  BY <1>0, <1>2, <1>8 DEF Frame
<1> QED BY <1>0, <1>8, <1>10, <1>11

\* The threads blocked at a condition variable and their number.
LEMMA CondBlockedFacts ==
    ASSUME NEW c
    PROVE  /\ CondBlocked(c) \in SUBSET Threads /\ CondBlocked(c)' \in SUBSET Threads
           /\ Cardinality(CondBlocked(c)) \in 0..Cardinality(Threads)
           /\ Cardinality(CondBlocked(c)') \in 0..Cardinality(Threads)
           /\ Cardinality(CondBlocked(c)) = 0 <=> CondBlocked(c) = {}
           /\ Cardinality(CondBlocked(c)') = 0 <=> CondBlocked(c)' = {}
           /\ Cardinality(Threads) \in Nat
           /\ CondBlocked(c) \subseteq Pending(c) /\ CondBlocked(c)' \subseteq Pending(c)'
<1> PICK S, T : S = CondBlocked(c) /\ T = CondBlocked(c)'
  OBVIOUS
<1>1. S \in SUBSET Threads /\ T \in SUBSET Threads
  BY DEF CondBlocked, BlockedAt
<1>2. CondBlocked(c) \subseteq Pending(c) /\ CondBlocked(c)' \subseteq Pending(c)'
  BY DEF CondBlocked, BlockedAt, Pending
<1> QED BY <1>1, <1>2, CountThreads

\* No call of libroot blocks or wakes anybody right away.
LEMMA UserCondBlocked ==
    ASSUME KernelIsSound, NEW t \in Threads, UserNext(t), NEW c
    PROVE  CondBlocked(c)' = CondBlocked(c)
<1>0. TypeOK /\ CallsAreSound /\ QueuesAreSound /\ Frame(t)
  BY UserFrame DEF KernelIsSound
<1>1. \A u \in Threads : Queued(u)' <=> Queued(u)
  BY <1>0, UserQueued
<1>2. ~Queued(t)
  BY <1>0, UserQueued
<1>3. \A u \in Threads : u \in CondBlocked(c)' <=> u \in CondBlocked(c)
  BY <1>0, <1>1, <1>2 DEF CondBlocked, BlockedAt, Frame
<1>4. CondBlocked(c) \in SUBSET Threads /\ CondBlocked(c)' \in SUBSET Threads
  BY CondBlockedFacts
<1> QED BY <1>3, <1>4

\* What a step of the kernel owes: no more than was owed before, nor than there
\* are blocked threads.
LEMMA OwedFacts ==
    ASSUME TypeOK, NEW t \in Threads, NEW c \in Conds, KernelNext(t)
    PROVE  /\ due'[c] \in Nat /\ due[c] \in Nat /\ due'[c] <= due[c]
           /\ due'[c] <= Cardinality(CondBlocked(c)')
           /\ Cardinality(CondBlocked(c)') <= Cardinality(Threads)
           /\ due'[c] # 0 /\ Notified(c) # {} => due'[c] < due[c]
<1> PICK N, B : N = Cardinality(Notified(c)) /\ B = Cardinality(CondBlocked(c)')
  OBVIOUS
<1>1. N \in Nat /\ (Notified(c) # {} => N >= 1)
  <2>1. Notified(c) \in SUBSET Threads
    BY DEF Notified, CondBlocked, BlockedAt
  <2> QED BY <2>1, CountThreads
<1>2. B \in Nat /\ B <= Cardinality(Threads) /\ Cardinality(Threads) \in Nat
  BY CondBlockedFacts
<1>3. due[c] \in Nat
  BY <1>2 DEF TypeOK
<1>4. PICK had \in Int : had = N + (IF Unhindered(t, c) THEN 1 ELSE 0)
  BY <1>1
<1>5. had >= N
  BY <1>1, <1>4
<1>6. due'[c] = Max({0, Min({due[c] - had, B})})
  BY <1>4 DEF KernelNext, Owed
<1>7. due[c] - had \in Int /\ B \in Int
  BY <1>2, <1>3, <1>4
<1>8. PICK low \in Int : low = Min({due[c] - had, B}) /\ low <= due[c] - had /\ low <= B
  BY <1>7, MinMax
<1>9. Max({0, low}) = IF 0 <= low THEN low ELSE 0
  <2>1. 0 \in Int /\ low \in Int
    OBVIOUS
  <2> QED BY <2>1, MinMax
<1>10. due'[c] = IF 0 <= low THEN low ELSE 0
  BY <1>6, <1>8, <1>9
<1> QED BY <1>1, <1>2, <1>3, <1>5, <1>8, <1>10

\* The kernel keeps the signals that are owed within their bound.
LEMMA KernelDebts ==
    ASSUME TypeOK, NEW t \in Threads, KernelNext(t)
    PROVE  DebtsAreBounded' /\ due' \in [Conds -> 0..Cardinality(Threads)]
<1>1. \A c \in Conds : /\ due'[c] \in 0..Cardinality(Threads)
                       /\ due'[c] <= Cardinality(CondBlocked(c)')
  <2> TAKE c \in Conds
  <2> QED BY OwedFacts, CondBlockedFacts
<1>2. due' = [c \in Conds |-> due'[c]]
  BY DEF KernelNext
<1> QED BY <1>1, <1>2 DEF DebtsAreBounded

\* A signal adds one wake-up at most, and never more than there are blocked threads.
LEMMA SignalDebt ==
    ASSUME KernelIsSound, NEW t \in Threads, NEW c \in Conds, NEW all \in BOOLEAN,
           cond_signal(t, c, all)
    PROVE  /\ due'[c] \in Nat /\ due'[c] <= Cardinality(CondBlocked(c))
           /\ ~all => due'[c] <= due[c] + 1
           /\ due' = [x \in Conds |-> IF x = c THEN due'[c] ELSE due[x]]
<1> PICK B : B = Cardinality(CondBlocked(c))
  OBVIOUS
<1>1. B \in Nat
  BY CondBlockedFacts
<1>2. due[c] \in Int /\ due[c] >= 0 /\ due = [x \in Conds |-> due[x]]
  BY CountThreads DEF KernelIsSound, TypeOK
<1>3. PICK low : low = Min({due[c] + 1, B})
  OBVIOUS
<1>4. low = IF due[c] + 1 <= B THEN due[c] + 1 ELSE B
  BY <1>1, <1>2, <1>3, MinMax
<1>5. due' = [due EXCEPT ![c] = IF all THEN B ELSE low]
  BY <1>3 DEF cond_signal
<1>6. due'[c] = IF all THEN B ELSE low
  BY <1>2, <1>5
<1>7. due' = [x \in Conds |-> IF x = c THEN due'[c] ELSE due[x]]
  BY <1>2, <1>5, <1>6
<1>8. low \in Nat /\ low <= B /\ low <= due[c] + 1
  BY <1>1, <1>2, <1>4
<1> QED BY <1>1, <1>6, <1>7, <1>8

\* libroot owes no more signals than there are threads blocked.
LEMMA UserDebts ==
    ASSUME KernelIsSound, DebtsAreBounded, NEW t \in Threads, UserNext(t)
    PROVE  DebtsAreBounded' /\ due' \in [Conds -> 0..Cardinality(Threads)]
<1>0. due \in [Conds -> 0..Cardinality(Threads)]
  BY DEF KernelIsSound, TypeOK
<1>1. \A c \in Conds : /\ CondBlocked(c)' = CondBlocked(c)
                       /\ Cardinality(CondBlocked(c)) \in 0..Cardinality(Threads)
                       /\ Cardinality(Threads) \in Nat
                       /\ due[c] <= Cardinality(CondBlocked(c))
  BY UserCondBlocked, CondBlockedFacts DEF DebtsAreBounded
<1> DEFINE Goal == DebtsAreBounded' /\ due' \in [Conds -> 0..Cardinality(Threads)]
<1>2. ASSUME NEW c \in Conds, NEW all \in BOOLEAN, cond_signal(t, c, all) PROVE Goal
  <2>1. /\ due'[c] \in Nat /\ due'[c] <= Cardinality(CondBlocked(c))
        /\ due' = [x \in Conds |-> IF x = c THEN due'[c] ELSE due[x]]
    BY <1>2, SignalDebt
  <2>2. due'[c] \in 0..Cardinality(Threads)
    BY <1>1, <2>1
  <2>3. \A x \in Conds : /\ due'[x] \in 0..Cardinality(Threads)
                         /\ due'[x] <= Cardinality(CondBlocked(x))
    BY <1>0, <1>1, <2>1, <2>2
  <2>4. due' \in [Conds -> 0..Cardinality(Threads)]
    BY <2>1, <2>3
  <2>5. \A x \in Conds : due'[x] <= Cardinality(CondBlocked(x)')
    BY <1>1, <2>3
  <2> QED BY <2>4, <2>5 DEF DebtsAreBounded
<1>3. CASE UNCHANGED due
  BY <1>0, <1>1, <1>3 DEF DebtsAreBounded
<1> QED
  BY <1>2, <1>3
     DEF UserNext, LockReturn, TakeOwnership, UnlockWord, CondSwitch, CondReturn, CondLeave,
         CondReset, SemReturn, pthread_mutex_lock, pthread_mutex_trylock, pthread_mutex_unlock,
         pthread_cond_wait, sem_wait, sem_post

\* A thread that signals c, if it must own the mutex for that.
Signals(t, c) == args[t].op = "unblock" /\ args[t].at = c

\* With the mutex locked a signaller is alone: nobody else signals, and nobody is
\* on its way to wait.
LEMMA SignalsAlone ==
    ASSUME KernelIsSound, HeldByOne, OwnersAreSound, SignalLocked, NEW c \in Conds,
           NEW t \in Threads, Signals(t, c), NEW u \in Threads
    PROVE  /\ Signals(u, c) \/ owner[MutexOf[c]] = u => u = t
           /\ args[u].op = "switch" /\ args[u].at = c =>
                 kpc[u] \notin {"get", "insert", "prepare", "unset", "add", "clear"}
<1>0. TypeOK /\ CallsAreSound /\ CallIsSound(u) /\ UserIsSound(u) /\ upc[u] \in UserPcs
      /\ MutexOf[c] \in Mutexes
  BY MutexTypes DEF KernelIsSound, CallsAreSound, TypeOK, UserPcs
<1>1. owner[MutexOf[c]] = t
  BY DEF OwnersAreSound, Signals
<1>2. Signals(u, c) => owner[MutexOf[c]] = u
  BY DEF OwnersAreSound, Signals
<1>3. ASSUME args[u].op = "switch", args[u].at = c,
             kpc[u] \in {"get", "insert", "prepare", "unset", "add", "clear"}
      PROVE  FALSE
  <2>1. args[u].from = MutexOf[c]
    BY <1>0, <1>3 DEF UserIsSound, UserPcs
  <2>2. Holds(u, MutexOf[c]) /\ Holds(t, MutexOf[c])
    BY <1>1, <1>3, <2>1 DEF Holds
  <2>3. u = t
    BY <1>0, <2>2, HoldersHold DEF HeldByOne
  <2> QED BY <1>3, <2>3 DEF Signals
<1> QED BY <1>1, <1>2, <1>3

\* A blocked thread that is notified has had its wake-up.
LEMMA KernelPays ==
    ASSUME KernelIsSound, HeldByOne, OwnersAreSound, DebtsArePaid, SignalLocked,
           NEW t \in Threads, KernelNext(t), NEW c \in Conds, Signals(t, c),
           kpc[t] \in {"find", "unblock", "hand_off", "notify"}, ~args[t].all => due[c] = 1,
           due'[c] # 0
    PROVE  /\ Signals(t, c)' /\ kpc'[t] \in {"find", "unblock", "hand_off", "notify"}
           /\ args'[t].all <=> args[t].all
<1> DEFINE Goal == /\ Signals(t, c)' /\ kpc'[t] \in {"find", "unblock", "hand_off", "notify"}
                   /\ args'[t].all <=> args[t].all
<1>0. /\ TypeOK /\ CallsAreSound /\ NoneIsDisabled /\ CallIsSound(t) /\ c \in Addresses
      /\ word \in [Words -> SUBSET Flags] /\ c \in Words
      /\ args[t].all \in BOOLEAN /\ args \in [Threads -> KernelCalls]
  BY MutexTypes, Typed
     DEF KernelIsSound, TypeOK, KernelTypeOK, CallsAreSound, KernelCalls
<1>1. /\ due'[c] \in Nat /\ due[c] \in Nat /\ CondBlocked(c)' # {}
      /\ Notified(c) # {} => due'[c] < due[c]
  <2>1. TypeOK
    BY <1>0
  <2> QED BY <2>1, OwedFacts, CondBlockedFacts
<1>2. Pending(c) # {} /\ \E u \in Threads : args'[u].at = c /\ Queued(u)'
  <2>1. PICK u \in CondBlocked(c)' : TRUE
    BY <1>1
  <2>2. u \in Threads /\ u \in Pending(c)'
    BY <2>1, CondBlockedFacts
  <2>3. u \in Pending(c)
    BY <1>0, <2>2, PendingMoves
  <2>4. args'[u].at = c /\ Queued(u)'
    BY <2>1 DEF CondBlocked, BlockedAt
  <2> QED BY <2>2, <2>3, <2>4
<1>3. args[t].op = "unblock" /\ args[t].at = c /\ UnblockedWord(t) = c
  BY DEF Signals, UnblockedWord
<1>4. UNCHANGED args /\ kpc'[t] \in {"find", "unblock", "hand_off", "notify"} => Goal
  BY DEF Signals
<1>5. CASE FindEntry(t)
  <2>1. CASE table[c] = NULL
    BY <1>0, <1>2, <2>1, NobodyPends
  <2>2. CASE table[c] # NULL
    <3>1. kpc'[t] = "unblock" /\ UNCHANGED args
      BY <1>0, <1>3, <1>5, <2>2, Domains DEF FindEntry, Found, Goto
    <3> QED BY <1>4, <3>1
  <2> QED BY <2>1, <2>2
<1>6. CASE user_mutex_unblock(t)
  <2>1. CASE queue[UnblockedEntry(t)] = <<>>
    BY <1>0, <1>2, <1>3, <1>6, <2>1, EmptyAndLocked DEF user_mutex_unblock
  <2>2. CASE queue[UnblockedEntry(t)] # <<>>
    <3>1. kpc'[t] \in {"notify", "hand_off"} /\ UNCHANGED args
      BY <1>0, <1>6, <2>2, Domains DEF user_mutex_unblock, Goto
    <3> QED BY <1>4, <3>1
  <2> QED BY <2>1, <2>2
<1>7. CASE HandOff(t)
  <2>1. "LOCKED" \notin word[c] /\ "DISABLED" \notin word[c]
    BY <1>0, <1>3, <1>7 DEF HandOff, DebtsArePaid, NoneIsDisabled
  <2>2. kpc'[t] = "notify" /\ args' = [args EXCEPT ![t].all = "DISABLED" \in word[c]]
    BY <1>0, <1>3, <1>7, <2>1, Domains DEF HandOff, Goto
  <2>3. ~args[t].all
    BY <1>0, <1>7 DEF HandOff, CallIsSound
  <2>4. args'[t].op = args[t].op /\ args'[t].at = args[t].at /\ ~args'[t].all
    BY <1>0, <2>1, <2>2 DEF KernelCalls
  <2> QED BY <1>3, <2>2, <2>3, <2>4 DEF Signals
<1>8. CASE NotifyWaiters(t)
  <2>1. Notifies(c, args[t].all) /\ UNCHANGED <<args, leaving>>
    BY <1>3, <1>8, UnblockNotifies DEF NotifyWaiters
  <2>2. ~args[t].all /\ BlockedAt(c) # {}
    BY <1>2, <2>1 DEF Notifies
  <2>3. PICK u \in BlockedAt(c) : ~Queued(u)'
    BY <2>1, <2>2 DEF Notifies
  <2>4. u \in Pending(c) /\ u \in Threads /\ u \notin leaving /\ Queued(u)
    BY <2>3 DEF BlockedAt, Pending
  <2>5. args[u].op = "switch" /\ args[u].at = c
    BY <1>0, <2>4, PendingFacts
  <2>6. kpc[u] # "clear"
    BY <2>4, <2>5, SignalsAlone
  <2>7. u \in CondBlocked(c) /\ u \notin CondBlocked(c)'
    BY <2>3, <2>6 DEF CondBlocked, BlockedAt
  <2>8. u \in Notified(c)
    BY <2>1, <2>4, <2>7 DEF Notified
  <2>9. due'[c] < due[c] /\ due[c] = 1
    BY <1>1, <2>2, <2>8
  <2> QED BY <1>1, <2>9
<1>9. FindEntry(t) \/ user_mutex_unblock(t) \/ HandOff(t) \/ NotifyWaiters(t)
  <2>0. KernelNext(t)
    OBVIOUS
  <2>1. CASE Leave(t)
    BY <1>0, <2>1 DEF Leave, CallIsSound
  <2>2. CASE KernelGiveUp(t)
    BY <2>2 DEF KernelGiveUp, GiveUp
  <2>3. CASE get_user_mutex_entry(t)
    BY <2>3 DEF get_user_mutex_entry
  <2>4. CASE InsertEntry(t)
    BY <2>4 DEF InsertEntry
  <2>5. CASE put_user_mutex_entry(t)
    BY <2>5 DEF put_user_mutex_entry
  <2>6. CASE RemoveEntry(t)
    BY <2>6 DEF RemoveEntry
  <2>7. CASE user_mutex_prepare_to_lock(t)
    BY <2>7 DEF user_mutex_prepare_to_lock
  <2>8. CASE UnsetWaiting(t)
    BY <2>8 DEF UnsetWaiting
  <2>9. CASE AddWaiter(t)
    BY <2>9 DEF AddWaiter
  <2>10. CASE WaitReturn(t)
    BY <2>10 DEF WaitReturn
  <2>11. CASE FindNull(t)
    BY <2>11 DEF FindNull
  <2>12. CASE UndoHandOff(t)
    BY <2>12 DEF UndoHandOff
  <2>13. CASE UnblockLast(t)
    BY <2>13 DEF UnblockLast
  <2>14. CASE ClearFrom(t)
    BY <2>14 DEF ClearFrom
  <2>15. CASE FindFrom(t)
    BY <2>15 DEF FindFrom
  <2>16. CASE user_mutex_sem_acquire_locked(t)
    BY <2>16 DEF user_mutex_sem_acquire_locked
  <2>17. CASE user_mutex_sem_release(t)
    BY <2>17 DEF user_mutex_sem_release
  <2>18. CASE SemReleaseLast(t)
    BY <2>18 DEF SemReleaseLast
  <2> QED
    BY <2>0, <2>1, <2>2, <2>3, <2>4, <2>5, <2>6, <2>7, <2>8, <2>9, <2>10, <2>11, <2>12, <2>13,
       <2>14, <2>15, <2>16,
    <2>17, <2>18
       DEF KernelNext, KernelStep, SwitchStep, SemStep
<1> QED BY <1>5, <1>6, <1>7, <1>8, <1>9

\* While a signal is under way nobody locks the condition variable.
LEMMA KernelLeavesUnlocked ==
    ASSUME KernelIsSound, HeldByOne, OwnersAreSound, DebtsArePaid, SignalLocked,
           NEW t \in Threads, KernelNext(t), NEW c \in Conds, NEW u \in Threads, Signals(u, c)',
           kpc'[u] \in {"find", "unblock", "hand_off"}
    PROVE  "LOCKED" \notin word'[c]
<1> DEFINE Goal == "LOCKED" \notin word'[c]
<1>0. /\ TypeOK /\ CallsAreSound /\ CallIsSound(t) /\ Frame(t) /\ GoesOn(t)
      /\ word \in [Words -> SUBSET Flags] /\ c \in Words /\ c \notin Mutexes
      /\ args[t].op \in Calls \cup {"none"} /\ t \in Threads
  BY MutexTypes, KernelFrame, KernelGoesOn, Typed
     DEF KernelIsSound, TypeOK, KernelTypeOK, CallsAreSound
<1>1. Signals(u, c) /\ kpc[u] \in {"find", "unblock", "hand_off"}
  <2>1. CASE u # t
    BY <1>0, <2>1 DEF Frame, Signals
  <2>2. CASE u = t
    <3>1. Signals(t, c)
      BY <1>0, <2>2 DEF GoesOn, Signals
    <3> DEFINE Goal2 == kpc[t] \in {"find", "unblock", "hand_off"}
    <3>0. kpc'[t] \in {"find", "unblock", "hand_off"}
      BY <2>2
    <3>a. SUFFICES Goal2
      BY <2>2, <3>1
    <3>2. CASE FindEntry(t) \/ user_mutex_unblock(t) \/ HandOff(t)
      BY <3>2 DEF FindEntry, user_mutex_unblock, HandOff
    <3>3. CASE FindFrom(t)
      BY <1>0, <3>1, <3>3 DEF FindFrom, CallIsSound, Signals, UnblockPcs, PutPcs
    <3>4. CASE get_user_mutex_entry(t) \/ InsertEntry(t)
      BY <1>0, <3>1, <3>4
         DEF get_user_mutex_entry, InsertEntry, CallIsSound, Signals, UnblockPcs, PutPcs
    <3>5. CASE ClearFrom(t)
      BY <1>0, <3>1, <3>5 DEF ClearFrom, CallIsSound, Signals, UnblockPcs, PutPcs
    <3>6. CASE put_user_mutex_entry(t)
      BY <3>6, <1>0, <3>0, Domains DEF put_user_mutex_entry, PutDone, PutEntry, Goto
    <3>7. CASE RemoveEntry(t)
      BY <3>7, <1>0, <3>0, Domains DEF RemoveEntry, PutDone, PutEntry, PutAddress, Goto
    <3>8. CASE user_mutex_prepare_to_lock(t)
      BY <3>8, <1>0, <3>0, Domains DEF user_mutex_prepare_to_lock, AfterLock, Goto
    <3>9. CASE UnsetWaiting(t)
      BY <3>9, <1>0, <3>0, Domains DEF UnsetWaiting, AfterLock, Goto
    <3>10. CASE AddWaiter(t)
      BY <3>10, <1>0, <3>0, Domains DEF AddWaiter, Goto
    <3>11. CASE Leave(t)
      BY <3>11, <1>0, <3>0, Domains DEF Leave, callVars
    <3>12. CASE WaitReturn(t)
      BY <3>12, <1>0, <3>0, Domains DEF WaitReturn, Goto
    <3>13. CASE FindNull(t)
      BY <3>13, <1>0, <3>0, Domains DEF FindNull, Goto
    <3>14. CASE NotifyWaiters(t)
      BY <3>14, <1>0, <3>0, Domains DEF NotifyWaiters, Goto
    <3>15. CASE UndoHandOff(t)
      BY <3>15, <1>0, <3>0, Domains DEF UndoHandOff, Goto
    <3>16. CASE UnblockLast(t)
      BY <3>16, <1>0, <3>0, Domains DEF UnblockLast, AfterUnblock, Goto
    <3>17. CASE user_mutex_sem_acquire_locked(t)
      BY <3>17, <1>0, <3>0, Domains DEF user_mutex_sem_acquire_locked, Goto
    <3>18. CASE user_mutex_sem_release(t)
      BY <3>18, <1>0, <3>0, Domains DEF user_mutex_sem_release, Goto
    <3>19. CASE SemReleaseLast(t)
      BY <3>19, <1>0, <3>0, Domains DEF SemReleaseLast, Goto
    <3>20. CASE KernelGiveUp(t)
      BY <3>20, <1>0, <3>0, Domains DEF KernelGiveUp, GiveUp
    <3> QED
      BY <3>2, <3>3, <3>4, <3>5, <3>6, <3>7, <3>8, <3>9, <3>10, <3>11, <3>12, <3>13, <3>14,
         <3>15, <3>16, <3>17, <3>18,
    <3>19, <3>20
       DEF KernelNext, KernelStep, SwitchStep, SemStep
  <2> QED BY <2>1, <2>2
<1>2. "LOCKED" \notin word[c]
  BY <1>1 DEF DebtsArePaid, Signals
<1>3. CASE user_mutex_prepare_to_lock(t)
  <2>1. kpc[t] = "prepare" /\ word' = [word EXCEPT ![args[t].at] = @ \cup {"LOCKED", "WAITING"}]
        /\ args[t].at \in Words
    BY <1>3 DEF user_mutex_prepare_to_lock
  <2>2. args[t].at # c
    <3>1. SUFFICES ASSUME args[t].at = c PROVE FALSE
      OBVIOUS
    <3>2. args[t].op = "switch"
      BY <1>0, <2>1, <3>1, MutexTypes DEF CallIsSound, Calls, UnblockPcs, PutPcs
    <3> QED BY <1>1, <2>1, <3>1, <3>2, SignalsAlone
  <2> QED BY <1>0, <1>2, <2>1, <2>2
<1>4. CASE HandOff(t)
  <2>1. UnblockedWord(t) # c
    <3>1. SUFFICES ASSUME UnblockedWord(t) = c PROVE FALSE
      OBVIOUS
    <3>2. kpc[t] = "hand_off"
      BY <1>4 DEF HandOff
    <3>3. Signals(t, c)
      BY <1>0, <3>1, <3>2 DEF UnblockedWord, CallIsSound, Signals, Calls, UnblockPcs, PutPcs
    <3>4. u = t
      BY <1>1, <3>3, SignalsAlone
    <3>5. kpc'[t] \notin {"find", "unblock", "hand_off"}
      BY <1>0, <1>4, Domains DEF HandOff, AfterUnblock, Goto
    <3> QED BY <3>4, <3>5
  <2> QED BY <1>0, <1>2, <1>4, <2>1 DEF HandOff
<1>5. CASE get_user_mutex_entry(t)
  BY <1>5, <1>0, <1>2 DEF get_user_mutex_entry, wordVars
<1>6. CASE InsertEntry(t)
  BY <1>6, <1>0, <1>2 DEF InsertEntry, wordVars
<1>7. CASE put_user_mutex_entry(t)
  BY <1>7, <1>0, <1>2 DEF put_user_mutex_entry, wordVars
<1>8. CASE RemoveEntry(t)
  BY <1>8, <1>0, <1>2 DEF RemoveEntry, wordVars
<1>9. CASE UnsetWaiting(t)
  BY <1>9, <1>0, <1>2 DEF UnsetWaiting, wordVars
<1>10. CASE AddWaiter(t)
  BY <1>10, <1>0, <1>2 DEF AddWaiter, wordVars
<1>11. CASE Leave(t)
  BY <1>11, <1>0, <1>2 DEF Leave, wordVars
<1>12. CASE WaitReturn(t)
  BY <1>12, <1>0, <1>2 DEF WaitReturn, wordVars
<1>13. CASE FindEntry(t)
  BY <1>13, <1>0, <1>2 DEF FindEntry, wordVars
<1>14. CASE FindNull(t)
  BY <1>14, <1>0, <1>2 DEF FindNull, wordVars
<1>15. CASE user_mutex_unblock(t)
  BY <1>15, <1>0, <1>2 DEF user_mutex_unblock, wordVars
<1>16. CASE NotifyWaiters(t)
  BY <1>16, <1>0, <1>2 DEF NotifyWaiters, wordVars
<1>17. CASE UndoHandOff(t)
  BY <1>17, <1>0, <1>2 DEF UndoHandOff, wordVars
<1>18. CASE UnblockLast(t)
  BY <1>18, <1>0, <1>2 DEF UnblockLast, wordVars
<1>19. CASE ClearFrom(t)
  BY <1>19, <1>0, <1>2 DEF ClearFrom, wordVars
<1>20. CASE FindFrom(t)
  BY <1>20, <1>0, <1>2 DEF FindFrom, wordVars
<1>21. CASE user_mutex_sem_acquire_locked(t)
  BY <1>21, <1>0, <1>2 DEF user_mutex_sem_acquire_locked, wordVars
<1>22. CASE user_mutex_sem_release(t)
  BY <1>22, <1>0, <1>2 DEF user_mutex_sem_release, wordVars
<1>23. CASE SemReleaseLast(t)
  BY <1>23, <1>0, <1>2 DEF SemReleaseLast, wordVars
<1>40. CASE KernelGiveUp(t)
  BY <1>2, <1>40 DEF KernelGiveUp, GiveUp, wordVars
<1> QED
  BY <1>3, <1>4, <1>5, <1>6, <1>7, <1>8, <1>9, <1>10, <1>11, <1>12, <1>13, <1>14, <1>15, <1>16,
     <1>17, <1>18,
    <1>19, <1>20, <1>21, <1>22, <1>23, <1>40
     DEF KernelNext, KernelStep, SwitchStep, SemStep

\* A step of the kernel leaves every signal that is owed with somebody to deliver it.
LEMMA KernelDebtsPaid ==
    ASSUME KernelIsSound, HeldByOne, OwnersAreSound, DebtsArePaid, NEW t \in Threads,
           KernelNext(t)
    PROVE  DebtsArePaid'
<1>0. SUFFICES ASSUME SignalLocked, NEW c \in Conds
               PROVE /\ due'[c] # 0 =>
                          \E u \in Threads :
                             /\ Signals(u, c)' /\ kpc'[u] \in {"find", "unblock", "hand_off", "notify"}
                             /\ ~args'[u].all => due'[c] = 1
                     /\ \A u \in Threads :
                          Signals(u, c)' /\ kpc'[u] \in {"find", "unblock", "hand_off"}
                          => "LOCKED" \notin word'[c]
  BY DEF DebtsArePaid, Signals
<1>1. ASSUME due'[c] # 0
      PROVE  \E u \in Threads :
                /\ Signals(u, c)' /\ kpc'[u] \in {"find", "unblock", "hand_off", "notify"}
                /\ ~args'[u].all => due'[c] = 1
  <2>1. /\ TypeOK /\ Frame(t) /\ due'[c] \in Nat /\ due[c] \in Nat /\ due'[c] <= due[c]
    BY <1>0, OwedFacts, KernelFrame DEF KernelIsSound
  <2>2. due[c] # 0
    BY <1>1, <2>1
  <2>3. PICK u \in Threads : /\ Signals(u, c) /\ kpc[u] \in {"find", "unblock", "hand_off", "notify"}
                             /\ ~args[u].all => due[c] = 1
    BY <1>0, <2>2 DEF DebtsArePaid, Signals
  <2>4. CASE u # t
    <3>1. kpc'[u] = kpc[u] /\ args'[u] = args[u]
      BY <2>1, <2>4 DEF Frame
    <3>2. Signals(u, c)' /\ kpc'[u] \in {"find", "unblock", "hand_off", "notify"}
      BY <2>3, <3>1 DEF Signals
    <3>3. ~args'[u].all => due'[c] = 1
      BY <1>1, <2>1, <2>3, <3>1
    <3> QED BY <3>2, <3>3
  <2>5. CASE u = t
    <3>1. /\ Signals(t, c)' /\ kpc'[t] \in {"find", "unblock", "hand_off", "notify"}
          /\ args'[t].all <=> args[t].all
      BY <1>0, <1>1, <2>3, <2>5, KernelPays
    <3>2. ~args'[t].all => due'[c] = 1
      BY <1>1, <2>1, <2>3, <2>5, <3>1
    <3> QED BY <3>1, <3>2
  <2> QED BY <2>4, <2>5
<1>2. \A u \in Threads :
         Signals(u, c)' /\ kpc'[u] \in {"find", "unblock", "hand_off"} => "LOCKED" \notin word'[c]
  BY <1>0, KernelLeavesUnlocked
<1> QED BY <1>1, <1>2

\* Where libroot's calls begin to signal a condition variable.
LEMMA UserSignals ==
    ASSUME KernelIsSound, NEW t \in Threads, UserNext(t), NEW c \in Conds
    PROVE  /\ ~Signals(t, c)
           /\ Signals(t, c)' =>
                 (\E all \in BOOLEAN : cond_signal(t, c, all)) /\ "LOCKED" \notin word'[c]
<1>0. /\ TypeOK /\ CallsAreSound /\ UserIsSound(t) /\ args[t].op = "none"
      /\ word \in [Words -> SUBSET Flags] /\ c \in Words /\ c \notin Mutexes
  BY UserBegins, MutexTypes
     DEF KernelIsSound, CallsAreSound, Begins, TypeOK, KernelTypeOK
<1> DEFINE Goal == Signals(t, c)' => (\E all \in BOOLEAN : cond_signal(t, c, all))
                                     /\ "LOCKED" \notin word'[c]
<1>a. Still => args'[t].op = "none"
  BY <1>0 DEF Still, callVars
<1>b. ASSUME NEW o, NEW a, NEW f, NEW all, NEW label, Begun(t, o, a, f, all, label)
      PROVE  args'[t].op = o /\ args'[t].at = a
  BY <1>b DEF Begun
<1>1. CASE LockReturn(t)
  BY <1>1, <1>0, <1>a, LockReturnForm DEF LockReturn, Begun, Signals
<1>2. CASE TakeOwnership(t)
  BY <1>2, <1>0, <1>a DEF TakeOwnership, UGoto, KernelUnchanged, Still, Begun, Signals
<1>3. CASE UnlockWord(t)
  <2> PICK n : n = target[t]
    OBVIOUS
  <2>1. n \in Mutexes /\ (Begun(t, "unblock", n, NULL, FALSE, "find") \/ Still)
    BY <1>0, <1>3, UnlockForm
  <2>2. (args'[t].op = "unblock" /\ args'[t].at = n) \/ args'[t].op = "none"
    BY <1>a, <2>1 DEF Begun
  <2> QED BY <1>0, <2>1, <2>2 DEF Signals
<1>4. CASE CondSwitch(t)
  BY <1>4, <1>0, <1>a, SwitchForm DEF CondSwitch, UGoto, Begun, Signals
<1>5. CASE CondReturn(t)
  BY <1>5, <1>0, <1>a, CondReturnForm DEF CondReturn, Begun, Signals
<1>6. CASE CondLeave(t)
  BY <1>6, <1>0, <1>a DEF CondLeave, UGoto, KernelUnchanged, Still, Begun, Signals
<1>7. CASE CondReset(t)
  BY <1>7, <1>0, <1>a DEF CondReset, UGoto, KernelUnchanged, Still, Begun, Signals
<1>8. CASE SemReturn(t)
  BY <1>8, <1>0, <1>a DEF SemReturn, UGoto, KernelUnchanged, Still, Begun, Signals
<1>9. ASSUME NEW m \in Mutexes, pthread_mutex_lock(t, m) PROVE Goal
  BY <1>9, <1>0, <1>a, LockForm DEF pthread_mutex_lock, Idle, Begun, Signals
<1>10. ASSUME NEW m \in Mutexes, pthread_mutex_trylock(t, m) PROVE Goal
  BY <1>10, <1>0, <1>a DEF pthread_mutex_trylock, Idle, UGoto, KernelUnchanged, Still, Begun,
     Signals
<1>11. ASSUME NEW m \in Mutexes, pthread_mutex_unlock(t, m) PROVE Goal
  BY <1>11, <1>0, <1>a DEF pthread_mutex_unlock, Idle, UGoto, KernelUnchanged, Still, Begun, Signals
<1>12. ASSUME NEW x \in Conds, pthread_cond_wait(t, x) PROVE Goal
  BY <1>12, <1>0, <1>a DEF pthread_cond_wait, Idle, UGoto, KernelUnchanged, Still, Begun, Signals
<1>13. ASSUME NEW s \in Sems, sem_wait(t, s) PROVE Goal
  BY <1>13, <1>0, <1>a, SemWaitForm DEF sem_wait, Idle, Begun, Signals
<1>14. ASSUME NEW s \in Sems, sem_post(t, s) PROVE Goal
  BY <1>14, <1>0, <1>a, SemPostForm DEF sem_post, Idle, Begun, Signals
<1>20. ASSUME NEW x \in Conds, NEW all \in BOOLEAN, cond_signal(t, x, all) PROVE Goal
  <2>1. TypeOK
    BY <1>0
  <2>2. /\ word' = [word EXCEPT ![x] = @ \ {"LOCKED"}]
        /\ Begun(t, "unblock", x, NULL, all, "find") \/ Still
    BY <2>1, <1>20, SignalForm, Zenon
  <2>3. (args'[t].op = "unblock" /\ args'[t].at = x) \/ args'[t].op = "none"
    BY <1>a, <1>b, <2>2, Zenon
  <2>4. Signals(t, c)' => x = c
    BY <2>3 DEF Signals
  <2>5. x = c => "LOCKED" \notin word'[c]
    BY <1>0, <2>2
  <2> QED BY <1>20, <2>4, <2>5
<1>21. Goal
  BY <1>1, <1>2, <1>3, <1>4, <1>5, <1>6, <1>7, <1>8, <1>9, <1>10, <1>11, <1>12, <1>13, <1>14,
    <1>20
     DEF UserNext
<1> QED BY <1>0, <1>21 DEF Signals

\* A signal that libroot sends has a call of the kernel that will deliver it.
LEMMA UserDebtsPaid ==
    ASSUME KernelIsSound, HeldByOne, OwnersAreSound, WaitersAreMarked, DebtsArePaid,
           NEW t \in Threads, UserNext(t)
    PROVE  DebtsArePaid'
<1>0. SUFFICES ASSUME SignalLocked, NEW c \in Conds
               PROVE /\ due'[c] # 0 =>
                          \E u \in Threads :
                             /\ Signals(u, c)' /\ kpc'[u] \in {"find", "unblock", "hand_off", "notify"}
                             /\ ~args'[u].all => due'[c] = 1
                     /\ \A u \in Threads :
                          Signals(u, c)' /\ kpc'[u] \in {"find", "unblock", "hand_off"}
                          => "LOCKED" \notin word'[c]
  BY DEF DebtsArePaid, Signals
<1>1. /\ TypeOK /\ CallsAreSound /\ Frame(t) /\ UserIsSound(t)
      /\ word \in [Words -> SUBSET Flags] /\ c \in Words /\ c \notin Mutexes /\ c \in Addresses
      /\ due \in [Conds -> 0..Cardinality(Threads)]
  BY <1>0, UserFrame, MutexTypes DEF KernelIsSound, TypeOK, KernelTypeOK, CallsAreSound
<1>2. ASSUME NEW u \in Threads, Signals(u, c), kpc[u] \in {"find", "unblock", "hand_off", "notify"}
      PROVE  u # t /\ kpc'[u] = kpc[u] /\ args'[u] = args[u] /\ Signals(u, c)'
  BY <1>0, <1>1, <1>2, UserSignals DEF Frame, Signals
<1>3. ASSUME NEW all \in BOOLEAN, cond_signal(t, c, all), due'[c] # 0
      PROVE  \E u \in Threads :
                /\ Signals(u, c)' /\ kpc'[u] \in {"find", "unblock", "hand_off", "notify"}
                /\ ~args'[u].all => due'[c] = 1
  <2>1. /\ due'[c] \in Nat /\ due'[c] <= Cardinality(CondBlocked(c))
        /\ ~all => due'[c] <= due[c] + 1
    BY <1>0, <1>3, SignalDebt
  <2>2. CondBlocked(c) # {}
    BY <1>3, <2>1, CondBlockedFacts
  <2>3. "WAITING" \in word[c]
    BY <1>1, <2>2, CondBlockedFacts DEF WaitersAreMarked
  <2>4. Begun(t, "unblock", c, NULL, all, "find")
    <3>1. TypeOK
      BY <1>1
    <3> QED BY <1>0, <1>3, <2>3, <3>1, SignalForm, Zenon
  <2>5. /\ args'[t].op = "unblock" /\ args'[t].at = c /\ args'[t].all = all
        /\ kpc'[t] = "find"
    BY <2>4, Zenon DEF Begun
  <2>6. due[c] = 0
    <3>1. owner[MutexOf[c]] = t
      BY <1>0, <1>3 DEF cond_signal
    <3>2. ASSUME due[c] # 0 PROVE FALSE
      <4>1. PICK u \in Threads : Signals(u, c)
        BY <1>0, <3>2 DEF DebtsArePaid, Signals
      <4>2. u = t
        BY <1>0, <3>1, <4>1, SignalsAlone
      <4> QED BY <1>0, <4>1, <4>2, UserSignals
    <3> QED BY <3>2
  <2>7. ~args'[t].all => due'[c] = 1
    <3>1. ~all => due'[c] = 1
      BY <1>3, <2>1, <2>6
    <3> QED BY <2>5, <3>1, Zenon
  <2>8. Signals(t, c)' /\ kpc'[t] \in {"find", "unblock", "hand_off", "notify"}
    BY <2>5 DEF Signals
  <2> QED BY <2>7, <2>8
<1>4. ASSUME UNCHANGED due \/ \E x \in Conds \ {c} : \E all \in BOOLEAN : cond_signal(t, x, all),
             due'[c] # 0
      PROVE  \E u \in Threads :
                /\ Signals(u, c)' /\ kpc'[u] \in {"find", "unblock", "hand_off", "notify"}
                /\ ~args'[u].all => due'[c] = 1
  <2>1. due'[c] = due[c]
    BY <1>0, <1>1, <1>4 DEF cond_signal
  <2>2. PICK u \in Threads : /\ Signals(u, c) /\ kpc[u] \in {"find", "unblock", "hand_off", "notify"}
                             /\ ~args[u].all => due[c] = 1
    BY <1>0, <1>4, <2>1 DEF DebtsArePaid, Signals
  <2> QED BY <1>2, <2>1, <2>2
<1>5. UNCHANGED due \/ \E x \in Conds : \E all \in BOOLEAN : cond_signal(t, x, all)
  BY DEF UserNext, LockReturn, TakeOwnership, UnlockWord, CondSwitch, CondReturn, CondLeave,
         CondReset, SemReturn, pthread_mutex_lock, pthread_mutex_trylock, pthread_mutex_unlock,
         pthread_cond_wait, sem_wait, sem_post
<1>6. ASSUME NEW u \in Threads, Signals(u, c)', kpc'[u] \in {"find", "unblock", "hand_off"}
      PROVE  "LOCKED" \notin word'[c]
  <2>1. CASE u = t
    BY <1>0, <1>6, <2>1, UserSignals
  <2>2. SUFFICES ASSUME u # t PROVE "LOCKED" \notin word'[c]
    BY <2>1
  <2>3. Signals(u, c) /\ kpc[u] \in {"find", "unblock", "hand_off"}
    BY <1>1, <1>6, <2>2 DEF Frame, Signals
  <2>4. "LOCKED" \notin word[c]
    BY <1>0, <2>3 DEF DebtsArePaid, Signals
  <2>5. owner[MutexOf[c]] # t
    BY <1>0, <2>2, <2>3, SignalsAlone
  <2> DEFINE Goal == "LOCKED" \notin word'[c]
  <2>6. CASE CondSwitch(t)
    <3>1. /\ cond[t] \in Conds /\ owner[MutexOf[cond[t]]] = t /\ cond[t] \in Words
          /\ word' = [word EXCEPT ![cond[t]] = IF @ = {} THEN {"LOCKED"} ELSE @]
      BY <1>1, <2>6, MutexTypes DEF CondSwitch, UserIsSound, OwnersAreSound
    <3> QED BY <1>1, <2>4, <2>5, <3>1
  <2>7. CASE CondReset(t)
    BY <1>1, <2>4, <2>7, MutexTypes DEF CondReset, UserIsSound
  <2>8. CASE CondReturn(t)
    <3>1. CondReturn(t) /\ MutexOf[cond[t]] \in Mutexes
      BY <1>1, <2>8, MutexTypes DEF CondReturn, UserIsSound
    <3> QED BY <1>1, <2>4, <3>1 DEF CondReturn, SetLocked
  <2>9. CASE UnlockWord(t)
    BY <1>1, <2>4, <2>9, MutexTypes DEF UnlockWord, Release, UserIsSound
  <2>10. ASSUME NEW m \in Mutexes, pthread_mutex_lock(t, m) \/ pthread_mutex_trylock(t, m)
         PROVE  Goal
    BY <1>1, <2>4, <2>10 DEF pthread_mutex_lock, pthread_mutex_trylock, SetLocked
  <2>11. ASSUME NEW x \in Conds, NEW all \in BOOLEAN, cond_signal(t, x, all) PROVE Goal
    BY <1>1, <2>4, <2>11, MutexTypes DEF cond_signal, Release
  <2>12. CASE UNCHANGED word
    BY <2>4, <2>12
  <2> QED
    BY <2>6, <2>7, <2>8, <2>9, <2>10, <2>11, <2>12
       DEF UserNext, LockReturn, TakeOwnership, CondLeave, SemReturn, pthread_mutex_unlock,
           pthread_cond_wait, sem_wait, sem_post, wordVars
<1>7. due'[c] # 0 =>
        \E u \in Threads :
           /\ Signals(u, c)' /\ kpc'[u] \in {"find", "unblock", "hand_off", "notify"}
           /\ ~args'[u].all => due'[c] = 1
  BY <1>3, <1>4, <1>5
<1> QED BY <1>6, <1>7

-------------------------------------------------------------------------------
(* The invariant. *)

\* The initial states satisfy the invariant,
LEMMA InitIsSound ==
    ASSUME Init
    PROVE  IndInv
<1> USE MutexTypes
<1>1. /\ word = [w \in Words |-> {}] /\ value \in [Sems -> {0, 1}] /\ units = value
      /\ owner = [m \in Mutexes |-> NULL] /\ waiter_count = [c \in Conds |-> 0]
      /\ upc = [t \in Threads |-> "idle"] /\ target = [t \in Threads |-> NULL]
      /\ cond = [t \in Threads |-> NULL] /\ due = [c \in Conds |-> 0]
  BY DEF Init
<1>2. /\ table = [a \in Addresses |-> NULL] /\ alive = {}
      /\ ref_count = [e \in Entries |-> 0] /\ queue = [e \in Entries |-> <<>>]
      /\ leaving = {} /\ kpc = [t \in Threads |-> "idle"]
      /\ args = [t \in Threads |-> NoCall] /\ entry = [t \in Threads |-> NULL]
      /\ fromEntry = [t \in Threads |-> NULL] /\ status = [t \in Threads |-> "B_OK"]
  BY DEF Init, KernelInit
<1>3. \A t \in Threads :
         /\ args[t].op = "none" /\ args[t].at = NULL /\ args[t].all = FALSE
         /\ upc[t] = "idle" /\ kpc[t] = "idle" /\ entry[t] = NULL /\ fromEntry[t] = NULL
         /\ target[t] = NULL /\ cond[t] = NULL /\ t \notin leaving
  BY <1>1, <1>2 DEF NoCall
<1>4. \A t \in Threads : ~Queued(t)
  BY <1>3 DEF Queued
<1>5. TypeOK
  <2>1. args \in [Threads -> [op : Calls \cup {"none"}, at : Addresses \cup {NULL},
                              from : Words \cup {NULL}, timed : BOOLEAN, all : BOOLEAN,
                              added : BOOLEAN]]
    BY <1>2 DEF NoCall
  <2>2. KernelTypeOK
    BY <1>1, <1>2, <2>1 DEF KernelTypeOK, Results
  <2>3. Cardinality(Threads) \in Nat
    BY CountThreads
  <2> QED BY <1>1, <2>2, <2>3 DEF TypeOK
<1>6. CallsAreSound
  <2> SUFFICES ASSUME NEW t \in Threads PROVE CallIsSound(t) /\ UserIsSound(t)
    BY DEF CallsAreSound
  <2>1. CallIsSound(t)
    BY <1>3 DEF CallIsSound, NoEntryPcs
  <2>2. UserIsSound(t)
    BY <1>3 DEF UserIsSound
  <2> QED BY <2>1, <2>2
<1>7. NoneIsDisabled
  BY <1>1 DEF NoneIsDisabled
<1>8. TableIsSound
  BY <1>2, <1>3 DEF TableIsSound
<1>9. ReferencesAreExact
  BY <1>2, <1>3 DEF ReferencesAreExact, HoldsEntry, HoldsFrom
<1>10. QueuesAreSound
  <2>1. \A e \in Entries : ToSet(queue[e]) = {} /\ IsInjective(queue[e])
    BY <1>2 DEF ToSet, IsInjective
  <2> QED BY <1>3, <2>1 DEF QueuesAreSound
<1>11. LocksAreSound
  BY <1>3 DEF LocksAreSound, WritePcs
<1>12. HeldByOne
  <2>1. \A m \in Mutexes : Holders(m) = {}
    BY <1>1, <1>3 DEF Holders
  <2> QED BY <1>1, <2>1 DEF HeldByOne
<1>13. OwnersAreSound
  BY <1>3 DEF OwnersAreSound
<1>14. \A a \in Addresses : Pending(a) = {}
  BY <1>3, <1>4 DEF Pending
<1>15. WaitersAreMarked
  BY <1>14 DEF WaitersAreMarked
<1>16. ValuesAreSound
  BY <1>1, <1>14 DEF ValuesAreSound
<1>17. UnitsConserved
  <2>1. value \in [Sems -> Int]
    BY <1>1
  <2>2. SUFFICES ASSUME NEW s \in Sems PROVE UnitsAt(s)
    BY <2>1, UnitsAtAll
  <2>3. {t \in Threads : Gets(t, s)} = {} /\ {t \in Threads : Gives(t, s)} = {}
    BY <1>3 DEF Gets, Gives
  <2>4. value[s] \in {0, 1} /\ units[s] = value[s]
    BY <1>1
  <2> QED BY <2>3, <2>4, FS_EmptySet DEF UnitsAt, Above
<1>18. WaiterCountsAreExact
  <2>1. \A c \in Conds : CondWaiters(c) = {} /\ waiter_count[c] = 0
    BY <1>1, <1>3 DEF CondWaiters
  <2> QED BY <1>3, <2>1, FS_EmptySet DEF WaiterCountsAreExact
<1>19. DebtsAreBounded
  <2> SUFFICES ASSUME NEW c \in Conds PROVE due[c] <= Cardinality(CondBlocked(c))
    BY DEF DebtsAreBounded
  <2> QED BY <1>1, CondBlockedFacts
<1>20. DebtsArePaid
  BY <1>1, <1>3 DEF DebtsArePaid
<1> QED
  BY <1>5, <1>6, <1>7, <1>8, <1>9, <1>10, <1>11, <1>12, <1>13, <1>15, <1>16, <1>17, <1>18,
     <1>19, <1>20 DEF IndInv

\* The two parts of a step, of the kernel and of libroot, together.
LEMMA KernelKeepsType ==
    ASSUME KernelIsSound, NEW t \in Threads, KernelNext(t)
    PROVE  TypeOK'
<1>1. TypeOK /\ CallsAreSound /\ ReferencesAreExact /\ QueuesAreSound
  BY DEF KernelIsSound
<1>2. KernelTypeOK'
  BY <1>1, KernelTypes
<1>3. due' \in [Conds -> 0..Cardinality(Threads)]
  BY <1>1, KernelDebts
<1>4. UNCHANGED <<owner, waiter_count, upc, target, cond, units>>
  BY DEF KernelNext
<1> QED BY <1>1, <1>2, <1>3, <1>4 DEF TypeOK

\* The steps of libroot keep the types.
LEMMA UserKeepsType ==
    ASSUME KernelIsSound, OwnersAreSound, WaiterCountsAreExact, DebtsAreBounded,
           NEW t \in Threads, UserNext(t)
    PROVE  TypeOK'
<1>1. TypeOK /\ CallsAreSound
  BY DEF KernelIsSound
<1>2. /\ KernelTypeOK'
      /\ owner' \in [Mutexes -> Threads \cup {NULL}]
      /\ upc' \in [Threads -> UserPcs]
      /\ target' \in [Threads -> Mutexes \cup Sems \cup {NULL}]
      /\ cond' \in [Threads -> Conds \cup {NULL}]
      /\ units' \in [Sems -> Int]
  BY <1>1, UserTypes
<1>3. waiter_count' \in [Conds -> 0..Cardinality(Threads)]
  BY <1>1, UserWaiters
<1>4. due' \in [Conds -> 0..Cardinality(Threads)]
  BY UserDebts
<1> QED BY <1>2, <1>3, <1>4 DEF TypeOK, UserPcs

\* every step of a thread preserves it,
LEMMA StepIsSound ==
    ASSUME IndInv, NEW t \in Threads, KernelNext(t) \/ UserNext(t)
    PROVE  IndInv'
<1>0. /\ TypeOK /\ CallsAreSound /\ NoneIsDisabled /\ TableIsSound /\ ReferencesAreExact
      /\ QueuesAreSound /\ LocksAreSound /\ HeldByOne /\ OwnersAreSound /\ WaitersAreMarked
      /\ ValuesAreSound /\ UnitsConserved /\ WaiterCountsAreExact /\ DebtsAreBounded
      /\ DebtsArePaid /\ KernelIsSound
  BY DEF IndInv, KernelIsSound
<1>1. CallsAreSound' /\ NoneIsDisabled' /\ QueuesAreSound' /\ LocksAreSound'
  BY <1>0, CallsStaySound, NoneGetsDisabled, QueuesStaySound, LocksStaySound
<1>2. TableAndReferences
  BY <1>0 DEF TableAndReferences
<1>3. CASE KernelNext(t)
  <2>1. TypeOK' /\ TableIsSound' /\ ReferencesAreExact'
    BY <1>0, <1>2, <1>3, KernelKeepsType, KernelReferences DEF TableAndReferences
  <2>2. HeldByOne' /\ OwnersAreSound' /\ WaitersAreMarked'
    BY <1>0, <1>3, KernelHeldByOne, KernelOwners, KernelMarks
  <2>3. ValuesAreSound' /\ UnitsConserved'
    BY <1>0, <1>3, KernelValues, KernelUnits
  <2>4. WaiterCountsAreExact'
    BY <1>0, <1>3 DEF KernelNext, WaiterCountsAreExact, CondWaiters
  <2>5. DebtsAreBounded' /\ DebtsArePaid'
    BY <1>0, <1>3, KernelDebts, KernelDebtsPaid
  <2> QED BY <1>1, <2>1, <2>2, <2>3, <2>4, <2>5 DEF IndInv
<1>4. CASE UserNext(t)
  <2>1. TypeOK' /\ TableIsSound' /\ ReferencesAreExact'
    BY <1>0, <1>2, <1>4, UserKeepsType, UserReferences DEF TableAndReferences
  <2>2. HeldByOne' /\ OwnersAreSound' /\ WaitersAreMarked'
    BY <1>0, <1>4, UserHeldByOne, UserOwners, UserMarks
  <2>3. ValuesAreSound' /\ UnitsConserved'
    BY <1>0, <1>4, UserValues, UserUnits
  <2>4. WaiterCountsAreExact'
    BY <1>0, <1>4, UserWaiters
  <2>5. DebtsAreBounded' /\ DebtsArePaid'
    BY <1>0, <1>4, UserDebts, UserDebtsPaid
  <2> QED BY <1>1, <2>1, <2>2, <2>3, <2>4, <2>5 DEF IndInv
<1> QED BY <1>3, <1>4

\* and so does a stuttering step.
LEMMA StutteringIsSound ==
    ASSUME IndInv, UNCHANGED vars
    PROVE  IndInv'
<1>1. /\ UNCHANGED <<word, value>> /\ UNCHANGED <<table, alive, ref_count, queue, leaving>>
      /\ UNCHANGED <<kpc, args, entry, fromEntry, status>>
      /\ UNCHANGED <<owner, waiter_count, upc, target, cond, units, due>>
  BY DEF vars, userVars, kernelVars, wordVars, entryVars, callVars
<1>2. \A t : Queued(t)' <=> Queued(t)
  BY <1>1 DEF Queued
<1>3. \A t : Succeeds(t)' <=> Succeeds(t)
  BY <1>1, <1>2 DEF Succeeds
<1>4. \A t : UnblockedEntry(t)' = UnblockedEntry(t) /\ WriteLocked(t)' = WriteLocked(t)
  BY <1>1 DEF UnblockedEntry, WriteLocked
<1>5. TypeOK' /\ NoneIsDisabled' /\ TableIsSound' /\ OwnersAreSound'
  BY <1>1 DEF IndInv, TypeOK, KernelTypeOK, NoneIsDisabled, TableIsSound, OwnersAreSound
<1>6. CallsAreSound'
  BY <1>1 DEF IndInv, CallsAreSound, CallIsSound, UserIsSound
<1>7. ReferencesAreExact'
  BY <1>1 DEF IndInv, ReferencesAreExact, HoldsEntry, HoldsFrom
<1>8. QueuesAreSound' /\ LocksAreSound'
  BY <1>1, <1>4 DEF IndInv, QueuesAreSound, LocksAreSound
<1>9. HeldByOne'
  <2>1. \A m : Holders(m)' = Holders(m)
    BY <1>1, <1>3 DEF Holders, Unblockers
  <2> QED BY <1>1, <2>1 DEF IndInv, HeldByOne
<1>10. \A a : Pending(a)' = Pending(a) /\ Wakers(a)' = Wakers(a)
  BY <1>1, <1>2 DEF Pending, Wakers
<1>11. WaitersAreMarked' /\ ValuesAreSound'
  BY <1>1, <1>10 DEF IndInv, WaitersAreMarked, ValuesAreSound
<1>12. UnitsConserved'
  BY <1>1, <1>3 DEF IndInv, UnitsConserved
<1>13. WaiterCountsAreExact'
  BY <1>1 DEF IndInv, WaiterCountsAreExact, CondWaiters
<1>14. \A c : CondBlocked(c)' = CondBlocked(c)
  BY <1>1, <1>2 DEF CondBlocked, BlockedAt
<1>15. DebtsAreBounded' /\ DebtsArePaid'
  BY <1>1, <1>14 DEF IndInv, DebtsAreBounded, DebtsArePaid
<1> QED
  BY <1>5, <1>6, <1>7, <1>8, <1>9, <1>11, <1>12, <1>13, <1>15 DEF IndInv

\* The strengthening holds in all behaviours of libroot and the kernel together.
THEOREM PthreadInvariance == Spec => []IndInv
<1>1. Init => IndInv
  BY InitIsSound
<1>2. IndInv /\ [Next]_vars => IndInv'
  BY StepIsSound, StutteringIsSound DEF Next
<1> QED BY <1>1, <1>2, PTL DEF Spec

\* get_user_mutex_entry() and put_user_mutex_entry(): the state has its type; an
\* entry has exactly the references of the threads that use it, and is in the table
\* under their address.
THEOREM EntriesAreConsistent == Spec => []Consistent
<1>1. IndInv => Consistent
  BY DEF IndInv, Consistent
<1> QED BY <1>1, PthreadInvariance, PTL

\* pthread_mutex_lock(), pthread_mutex_unlock(), user_mutex_unblock() and
\* user_mutex_switch_lock(): LOCKED is set exactly if one thread has the mutex, and
\* no two threads have it.
THEOREM MutexesExclude == Spec => []LockedMeansHeld
<1>1. ASSUME IndInv PROVE LockedMeansHeld
  <2>1. SUFFICES ASSUME NEW m \in Mutexes
                 PROVE  Cardinality(Holders(m)) = IF "LOCKED" \in word[m] THEN 1 ELSE 0
    BY DEF LockedMeansHeld
  <2>2. /\ "LOCKED" \in word[m] <=> Holders(m) # {}
        /\ \A t, u \in Holders(m) : t = u
    BY <1>1 DEF IndInv, HeldByOne
  <2>3. CASE Holders(m) = {}
    BY <2>2, <2>3, FS_EmptySet
  <2>4. CASE Holders(m) # {}
    <3>1. PICK t : Holders(m) = {t}
      BY <2>2, <2>4
    <3> QED BY <2>2, <2>4, <3>1, FS_Singleton
  <2> QED BY <2>3, <2>4
<1> QED BY <1>1, PthreadInvariance, PTL

\* user_mutex_prepare_to_lock() and user_mutex_unblock(): who is blocked has left
\* LOCKED and WAITING in the word, or somebody is in the kernel to wake it; the
\* semaphore of a blocked thread has the value -1.
THEOREM BlockedAreRemembered == Spec => []BlockedIsRemembered
<1>1. ASSUME IndInv PROVE BlockedIsRemembered
  <2>1. WaitersAreMarked /\ ValuesAreSound
    BY <1>1 DEF IndInv
  <2>2. \A a : BlockedAt(a) \subseteq Pending(a)
    BY DEF BlockedAt, Pending
  <2>3. \A m : Wakers(m) \subseteq Unblockers(m)
    BY DEF Wakers, Unblockers, WritePcs
  <2>4. ASSUME NEW m \in Mutexes, BlockedAt(m) # {}
        PROVE  {"LOCKED", "WAITING"} \subseteq word[m] \/ Unblockers(m) # {}
    BY <2>1, <2>2, <2>3, <2>4, MutexTypes DEF WaitersAreMarked
  <2>5. ASSUME NEW s \in Sems, BlockedAt(s) # {} PROVE value[s] = -1
    BY <2>1, <2>2, <2>5 DEF ValuesAreSound
  <2> QED BY <2>4, <2>5 DEF BlockedIsRemembered
<1> QED BY <1>1, PthreadInvariance, PTL

\* sem_wait(), sem_post(), user_mutex_sem_acquire() and user_mutex_sem_release(): a
\* unit that was posted and not acquired is in the value, with a thread that will
\* return with it, or with a sem_post() in the kernel.
THEOREM SemaphoreUnitsConserved == Spec => []UnitsConserved
<1>1. IndInv => UnitsConserved
  BY DEF IndInv
<1> QED BY <1>1, PthreadInvariance, PTL

\* pthread_cond_signal() and pthread_cond_broadcast(), given by a thread that owns
\* the mutex: when the call is over the blocked threads it was for have been woken.
THEOREM LockedSignalsWake ==
    ASSUME SignalLocked
    PROVE  Spec => []EverySignalWakes
<1>1. ASSUME IndInv PROVE EverySignalWakes
  BY <1>1 DEF IndInv, DebtsArePaid, EverySignalWakes
<1> QED BY <1>1, PthreadInvariance, PTL
===============================================================================
