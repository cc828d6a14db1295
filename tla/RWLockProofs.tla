----------------------------- MODULE RWLockProofs -----------------------------
(***************************************************************************)
(* The safety of the reader/writer lock for any number of threads and any  *)
(* depth of nesting that the count has room for.                           *)
(***************************************************************************)
EXTENDS RWLock, QueueLemmas

ReadPcs == {"read_block", "timed_block", "timed_out"}

\* A thread is queued once; a queued writer and a queued reader are in the calls
\* they should be in, and nobody has unblocked or cleared them.
QueueIsSound ==
    /\ IsInjective(waiters)
    /\ \A v, w \in ToSet(waiters) : v.thread = w.thread => v = w
    /\ \A w \in ToSet(waiters) :
          LET t == w.thread
          IN  /\ IF w.writer THEN pc[t] = "write_block" ELSE pc[t] \in ReadPcs
              /\ t \notin cleared
              /\ pc[t] \in {"read_block", "write_block"} => wait[t] = Blocked
              /\ pc[t] \in {"timed_block", "timed_out"} => wait[t] # "B_OK"

\* A waiting writer is queued or has the lock, a waiting reader is queued or has
\* been let in.
UnqueuedIsServed ==
    alive => \A t \in Threads : ~Queued(t) =>
        /\ pc[t] = "write_block" => holder = t /\ wait[t] = "B_OK"
        /\ pc[t] \in ReadPcs \cup {"crashed"} => t \in cleared
        /\ pc[t] = "read_block" => wait[t] = "B_OK"

\* What a thread has while it is in a call.
CallsAreSound ==
    \A t \in Threads :
        /\ pc[t] \in Blocking \cup ReadPcs \cup {"crashed"} => reads[t] = 0 /\ writes[t] = 0
        /\ pc[t] \in {"read_slow", "timed_slow"} => reads[t] <= MaxNest
        /\ writes[t] = 0 /\ pc[t] \in {"read_slow", "timed_slow"} => reads[t] = 0

\* While there is a holder it is in the lock alone, or about to be.
HolderIsAlone ==
    alive /\ holder # NoThread =>
        /\ active_readers = 0 /\ pending_readers = 0
        /\ Woken = {}
        /\ writes[holder] > 0 \/ (pc[holder] = "write_block" /\ ~Queued(holder))
        /\ \A t \in Threads \ {holder} : reads[t] = 0 /\ pc[t] # "unlock_slow"

WritersHold == alive => \A t \in Threads : writes[t] > 0 => holder = t

\* Readers queue behind a writer only.
HeadIsWriter == alive /\ holder = NoThread /\ waiters # <<>> => waiters[1].writer

\* Readers are sent to the slow path by a writer, which is still there.
UnlockingIsClaimed == alive /\ Unlocking # {} => Writers # {}

\* Nothing is left of a lock that was destroyed but threads on their way out.
DestroyedIsEmpty ==
    ~alive =>
        /\ waiters = <<>>
        /\ Woken = {}
        /\ \A t \in Threads :
              /\ reads[t] = 0 /\ writes[t] = 0
              /\ pc[t] \in Blocking \cup ReadPcs \cup {"idle", "crashed"}
              /\ pc[t] \in Blocking => wait[t] \notin {"B_OK", Blocked}

IndInv ==
    /\ TypeOK
    /\ QueueIsSound
    /\ UnqueuedIsServed
    /\ CallsAreSound
    /\ HolderIsAlone
    /\ WritersHold
    /\ HeadIsWriter
    /\ UnlockingIsClaimed
    /\ DestroyedIsEmpty
    /\ CountIsExact
    /\ ActiveReadersExact
    /\ PendingReadersExact
    /\ AssertsHold
    /\ WaitersHaveWaker

-------------------------------------------------------------------------------
(* Counting. *)

\* The threads the counters count.
LEMMA SetTypes ==
    /\ Writers \in SUBSET Threads /\ Writers' \in SUBSET Threads
    /\ Slow \in SUBSET Threads /\ Slow' \in SUBSET Threads
    /\ Coming \in SUBSET Threads /\ Coming' \in SUBSET Threads
    /\ Slow \cap Coming = {} /\ Slow' \cap Coming' = {}
    /\ Woken \in SUBSET Threads /\ Woken' \in SUBSET Threads
    /\ Unlocking \in SUBSET Threads /\ Unlocking' \in SUBSET Threads
    /\ ReadLocks \in SUBSET (Threads \X (1 .. MaxNest + 1))
    /\ ReadLocks' \in SUBSET (Threads \X (1 .. MaxNest + 1))
BY DEF Writers, Slow, Coming, Woken, Unlocking, ReadLocks

\* A set of threads can be counted, and one thread more or less is 1 more or less.
LEMMA CountThreads ==
    ASSUME NEW S \in SUBSET Threads
    PROVE  /\ IsFiniteSet(S)
           /\ Cardinality(S) \in Nat
           /\ Cardinality(S) <= Cardinality(Threads)
           /\ Cardinality(S) = 0 <=> S = {}
           /\ \A t \in S : Cardinality(S \ {t}) = Cardinality(S) - 1
           /\ \A t : t \notin S => Cardinality(S \cup {t}) = Cardinality(S) + 1
<1>1. IsFiniteSet(S) /\ Cardinality(S) <= Cardinality(Threads)
  BY FS_Subset, RWLockAssumption
<1> QED BY <1>1, FS_CardinalityType, FS_EmptySet, FS_AddElement, FS_RemoveElement

\* So can sets of read locks.
LEMMA CountLocks ==
    ASSUME NEW S \in SUBSET (Threads \X (1 .. MaxNest + 1))
    PROVE  /\ IsFiniteSet(S)
           /\ Cardinality(S) \in Nat
           /\ Cardinality(S) <= Cardinality(Threads) * (MaxNest + 1)
           /\ Cardinality(S) = 0 <=> S = {}
           /\ \A p \in S : Cardinality(S \ {p}) = Cardinality(S) - 1
           /\ \A p : p \notin S => Cardinality(S \cup {p}) = Cardinality(S) + 1
<1>1. IsFiniteSet(1 .. MaxNest + 1) /\ Cardinality(1 .. MaxNest + 1) = MaxNest + 1
  BY FS_Interval, RWLockAssumption
<1>2. /\ IsFiniteSet(Threads \X (1 .. MaxNest + 1))
      /\ Cardinality(Threads \X (1 .. MaxNest + 1)) = Cardinality(Threads) * (MaxNest + 1)
  BY <1>1, FS_Product, RWLockAssumption
<1>3. IsFiniteSet(S) /\ Cardinality(S) <= Cardinality(Threads) * (MaxNest + 1)
  BY <1>2, FS_Subset
<1> QED BY <1>3, FS_CardinalityType, FS_EmptySet, FS_AddElement, FS_RemoveElement

\* The readers fit below the writers in the count.
LEMMA CountFacts ==
    ASSUME NEW w \in SUBSET Threads, NEW r \in SUBSET (Threads \X (1 .. MaxNest + 1)),
           NEW s \in SUBSET Threads, NEW c \in SUBSET Threads, s \cap c = {},
           NEW n, n = RW_LOCK_WRITER_COUNT_BASE * Cardinality(w)
                      + Cardinality(r) + Cardinality(s) + Cardinality(c)
    PROVE  /\ n \in Nat
           /\ Cardinality(r) + Cardinality(s) + Cardinality(c) < RW_LOCK_WRITER_COUNT_BASE
           /\ Claimed(n) <=> w # {}
           /\ n = 0 <=> w = {} /\ r = {} /\ s = {} /\ c = {}
<1>1. /\ Cardinality(w) \in Nat /\ Cardinality(r) \in Nat
      /\ Cardinality(s) \in Nat /\ Cardinality(c) \in Nat
      /\ Cardinality(w) = 0 <=> w = {}
      /\ Cardinality(r) = 0 <=> r = {}
      /\ Cardinality(s) = 0 <=> s = {}
      /\ Cardinality(c) = 0 <=> c = {}
  BY CountThreads, CountLocks
<1>2. Cardinality(r) + Cardinality(s) + Cardinality(c) < RW_LOCK_WRITER_COUNT_BASE
  <2>1. Cardinality(s \cup c) = Cardinality(s) + Cardinality(c)
    <3>1. Cardinality(s \cup c) = Cardinality(s) + Cardinality(c) - Cardinality({})
      BY CountThreads, FS_Union
    <3> QED BY <1>1, <3>1, FS_EmptySet
  <2>2. Cardinality(s \cup c) <= Cardinality(Threads)
    BY CountThreads
  <2>3. Cardinality(r) <= Cardinality(Threads) * (MaxNest + 1)
    BY CountLocks
  <2> DEFINE m == Cardinality(Threads)
             k == Cardinality(Threads) * (MaxNest + 1)
  <2>4. m \in Nat /\ MaxNest \in Nat
    BY FS_CardinalityType, RWLockAssumption
  <2>5. k \in Nat /\ k + m = m * (MaxNest + 2)
    BY <2>4
  <2>6. k + m < 65536
    BY <2>5, RWLockAssumption DEF RW_LOCK_WRITER_COUNT_BASE
  <2>7. Cardinality(s) + Cardinality(c) <= m /\ Cardinality(r) <= k
    BY <2>1, <2>2, <2>3
  <2> HIDE DEF m, k
  <2> QED BY <1>1, <2>4, <2>5, <2>6, <2>7 DEF RW_LOCK_WRITER_COUNT_BASE
<1> DEFINE W == Cardinality(w)
           R == Cardinality(r) + Cardinality(s) + Cardinality(c)
<1>3. n = 65536 * W + R /\ W \in Nat /\ R \in Nat /\ R < 65536
  BY <1>1, <1>2 DEF RW_LOCK_WRITER_COUNT_BASE
<1>4. R = 0 <=> r = {} /\ s = {} /\ c = {}
  BY <1>1
<1>5. W = 0 <=> w = {}
  BY <1>1
<1> HIDE DEF W, R
<1>6. n \in Nat /\ (n >= 65536 <=> W # 0) /\ (n = 0 <=> W = 0 /\ R = 0)
  BY <1>3
<1> QED BY <1>2, <1>4, <1>5, <1>6 DEF Claimed, RW_LOCK_WRITER_COUNT_BASE

\* A read lock more, and a read lock less.
LEMMA ReadMore ==
    ASSUME TypeOK, NEW t \in Threads, reads[t] <= MaxNest,
           reads' = [reads EXCEPT ![t] = @ + 1]
    PROVE  /\ reads' \in [Threads -> 0 .. MaxNest + 1]
           /\ Cardinality(ReadLocks') = Cardinality(ReadLocks) + 1
<1> DEFINE p == <<t, reads[t] + 1>>
<1>1. reads[t] \in 0 .. MaxNest + 1 /\ MaxNest \in Nat
  BY RWLockAssumption DEF TypeOK
<1>2. reads' \in [Threads -> 0 .. MaxNest + 1]
  BY <1>1 DEF TypeOK
<1>3. p \notin ReadLocks
  BY <1>1 DEF ReadLocks
<1>4. ReadLocks' = ReadLocks \cup {p}
  BY <1>1 DEF ReadLocks, TypeOK
<1> QED BY <1>2, <1>3, <1>4, SetTypes, CountLocks

LEMMA ReadLess ==
    ASSUME TypeOK, NEW t \in Threads, reads[t] > 0, reads' = [reads EXCEPT ![t] = @ - 1]
    PROVE  /\ reads' \in [Threads -> 0 .. MaxNest + 1]
           /\ Cardinality(ReadLocks') = Cardinality(ReadLocks) - 1
<1> DEFINE p == <<t, reads[t]>>
<1>1. reads[t] \in 0 .. MaxNest + 1 /\ MaxNest \in Nat
  BY RWLockAssumption DEF TypeOK
<1>2. reads' \in [Threads -> 0 .. MaxNest + 1]
  BY <1>1 DEF TypeOK
<1>3. p \in ReadLocks
  BY <1>1 DEF ReadLocks
<1>4. ReadLocks' = ReadLocks \ {p}
  BY <1>1 DEF ReadLocks, TypeOK
<1> QED BY <1>3, <1>4, <1>2, SetTypes, CountLocks

\* The count after a step, if it is still exact.
LEMMA CountNext ==
    ASSUME count' = RW_LOCK_WRITER_COUNT_BASE * Cardinality(Writers')
                    + Cardinality(ReadLocks') + Cardinality(Slow') + Cardinality(Coming')
    PROVE  /\ count' \in Nat
           /\ CountIsExact'
           /\ Claimed(count') <=> Writers' # {}
           /\ count' = 0 <=> Writers' = {} /\ ReadLocks' = {} /\ Slow' = {} /\ Coming' = {}
BY SetTypes, CountFacts DEF CountIsExact

\* Who is queued.
LEMMA QueuedFacts ==
    /\ \A t : Queued(t) <=> \E w \in ToSet(waiters) : w.thread = t
    /\ \A t : Queued(t)' <=> \E w \in ToSet(waiters') : w.thread = t
BY DEF Queued, ToSet

LEMMA WaiterTypes ==
    ASSUME TypeOK
    PROVE  \A w \in ToSet(waiters) : w \in Waiter /\ w.thread \in Threads /\ w.writer \in BOOLEAN
<1>1. ToSet(waiters) \subseteq Waiter
  BY QueueMembers DEF TypeOK
<1>2. \A w \in Waiter : w.thread \in Threads /\ w.writer \in BOOLEAN
  BY DEF Waiter
<1> QED BY <1>1, <1>2

\* What the counters say about a lock in use.
LEMMA AliveFacts ==
    ASSUME IndInv, alive
    PROVE  /\ Cardinality(Writers) \in Nat /\ Cardinality(ReadLocks) \in Nat
           /\ Cardinality(Slow) \in Nat /\ Cardinality(Coming) \in Nat
           /\ Cardinality(Woken) \in Nat /\ Cardinality(Unlocking) \in Nat
           /\ count = RW_LOCK_WRITER_COUNT_BASE * Cardinality(Writers)
                      + Cardinality(ReadLocks) + Cardinality(Slow) + Cardinality(Coming)
           /\ Cardinality(ReadLocks) + Cardinality(Slow) + Cardinality(Coming)
                < RW_LOCK_WRITER_COUNT_BASE
           /\ Claimed(count) <=> Writers # {}
           /\ count = 0 <=> Writers = {} /\ ReadLocks = {} /\ Slow = {} /\ Coming = {}
<1>1. count = RW_LOCK_WRITER_COUNT_BASE * Cardinality(Writers)
              + Cardinality(ReadLocks) + Cardinality(Slow) + Cardinality(Coming)
  BY DEF IndInv, CountIsExact
<1> QED BY <1>1, SetTypes, CountThreads, CountLocks, CountFacts

\* Without a holder, a writer is queued, and then so is one at the head.
LEMMA WriterFacts ==
    ASSUME IndInv, alive
    PROVE  /\ holder # NoThread => holder \in Threads /\ holder \in Writers
           /\ holder = NoThread =>
                 /\ \A t \in Threads : writes[t] = 0
                 /\ \A t \in Writers :
                       pc[t] = "write_block" /\ \E w \in ToSet(waiters) : w.thread = t /\ w.writer
                 /\ waiters # <<>> <=> Writers # {}
<1>1. holder # NoThread => holder \in Threads /\ holder \in Writers
  BY DEF IndInv, TypeOK, HolderIsAlone, Writers
<1>2. ASSUME holder = NoThread
      PROVE  /\ \A t \in Threads : writes[t] = 0
             /\ \A t \in Writers :
                   pc[t] = "write_block" /\ \E w \in ToSet(waiters) : w.thread = t /\ w.writer
             /\ waiters # <<>> <=> Writers # {}
  <2>1. \A t \in Threads : writes[t] = 0
    BY <1>2, RWLockAssumption DEF IndInv, WritersHold, TypeOK
  <2>2. ASSUME NEW t \in Writers
        PROVE  pc[t] = "write_block" /\ \E w \in ToSet(waiters) : w.thread = t /\ w.writer
    <3>1. t \in Threads /\ pc[t] = "write_block"
      BY <2>1 DEF Writers
    <3>2. Queued(t)
      BY <1>2, <3>1, RWLockAssumption DEF IndInv, UnqueuedIsServed
    <3>3. PICK w \in ToSet(waiters) : w.thread = t
      BY <3>2, QueuedFacts
    <3>4. w.writer
      BY <3>1, <3>3, QueueMembers DEF IndInv, QueueIsSound, TypeOK, Waiter, ReadPcs
    <3> QED BY <3>1, <3>3, <3>4
  <2>3. ASSUME waiters # <<>> PROVE Writers # {}
    <3>1. waiters[1].writer /\ waiters[1] \in ToSet(waiters) /\ waiters[1] \in Waiter
      BY <1>2, <2>3 DEF IndInv, HeadIsWriter, ToSet, TypeOK
    <3>2. waiters[1].thread \in Threads /\ pc[waiters[1].thread] = "write_block"
      BY <3>1 DEF IndInv, QueueIsSound, Waiter
    <3> QED BY <3>2 DEF Writers
  <2>4. ASSUME Writers # {} PROVE waiters # <<>>
    BY <2>2, <2>4, QueueMembers DEF IndInv, TypeOK
  <2> QED BY <2>1, <2>2, <2>3, <2>4
<1> QED BY <1>1, <1>2

\* What the owner's count says to an owner that is not about to correct it, and
\* to one that is.
LEMMA OwnerFacts ==
    ASSUME IndInv, alive, NEW t \in Threads, writes[t] > 0
    PROVE  /\ holder = t
           /\ reads[t] \in Nat /\ reads[t] < RW_LOCK_WRITER_COUNT_BASE
           /\ writes[t] \in Nat /\ owner_count \in Nat
           /\ pc[t] # "unlock_slow" =>
                 owner_count = RW_LOCK_WRITER_COUNT_BASE * writes[t] + reads[t]
           /\ pc[t] = "unlock_slow" =>
                 owner_count = RW_LOCK_WRITER_COUNT_BASE * writes[t] + reads[t] + 1
<1> DEFINE x == IF pc[t] = "unlock_slow" THEN 1 ELSE 0
<1>1. holder = t /\ owner_count = RW_LOCK_WRITER_COUNT_BASE * writes[t] + reads[t] + x
  BY DEF IndInv, AssertsHold
<1>2. /\ reads[t] \in 0 .. MaxNest + 1 /\ writes[t] \in 0 .. MaxNest /\ owner_count \in Nat
      /\ MaxNest \in Nat
  BY RWLockAssumption DEF IndInv, TypeOK
<1>3. MaxNest + 1 < RW_LOCK_WRITER_COUNT_BASE
  <2>1. Cardinality(Threads) \in Nat /\ Cardinality(Threads) # 0
    BY FS_CardinalityType, FS_EmptySet, RWLockAssumption
  <2>2. MaxNest + 2 <= Cardinality(Threads) * (MaxNest + 2)
    BY <1>2, <2>1
  <2>3. Cardinality(Threads) * (MaxNest + 2) \in Nat
    BY <1>2, <2>1
  <2> QED BY <1>2, <2>2, <2>3, RWLockAssumption DEF RW_LOCK_WRITER_COUNT_BASE
<1>4. writes[t] \in Nat /\ reads[t] \in Nat /\ reads[t] < RW_LOCK_WRITER_COUNT_BASE
  BY <1>2, <1>3 DEF RW_LOCK_WRITER_COUNT_BASE
<1>5. x = 0 => owner_count = RW_LOCK_WRITER_COUNT_BASE * writes[t] + reads[t]
  BY <1>1, <1>4 DEF RW_LOCK_WRITER_COUNT_BASE
<1> QED BY <1>1, <1>2, <1>4, <1>5

-------------------------------------------------------------------------------
\* The initial state satisfies the inductive invariant.
LEMMA IndInvInit == Init => IndInv
<1> SUFFICES ASSUME Init PROVE IndInv
  OBVIOUS
<1>1. waiters \in Seq(Waiter) /\ IsInjective(waiters) /\ ToSet(waiters) = {}
  BY EmptyQueue DEF Init
<1>2. TypeOK
  <2>1. alive \in BOOLEAN
    BY DEF Init
  <2>2. holder \in Threads \cup {NoThread} /\ cleared \subseteq Threads
    BY DEF Init
  <2>3. {count, owner_count, active_readers, pending_readers} \subseteq Nat
    BY DEF Init
  <2>4. wait \in [Threads -> Statuses]
    BY DEF Init, Statuses, Results
  <2>5. pc \in [Threads -> Blocking \cup
          {"idle", "read_slow", "timed_slow", "timed_out", "unlock_slow", "crashed"}]
    BY DEF Init
  <2>6. reads \in [Threads -> 0 .. MaxNest + 1] /\ writes \in [Threads -> 0 .. MaxNest]
    BY RWLockAssumption DEF Init
  <2> QED BY <1>1, <2>1, <2>2, <2>3, <2>4, <2>5, <2>6 DEF TypeOK
<1>3. Writers = {} /\ ReadLocks = {} /\ Slow = {} /\ Coming = {} /\ Woken = {} /\ Unlocking = {}
  BY DEF Init, Writers, ReadLocks, Slow, Coming, Woken, Unlocking
<1>4. CountIsExact /\ ActiveReadersExact /\ PendingReadersExact
  BY <1>3, FS_EmptySet
     DEF Init, CountIsExact, ActiveReadersExact, PendingReadersExact, Claimed,
         RW_LOCK_WRITER_COUNT_BASE
<1>5. QueueIsSound
  BY <1>1 DEF QueueIsSound
<1>6. UnqueuedIsServed /\ CallsAreSound /\ AssertsHold
  BY DEF Init, UnqueuedIsServed, CallsAreSound, AssertsHold, Blocking, ReadPcs
<1> QED
  BY <1>1, <1>2, <1>3, <1>4, <1>5, <1>6
     DEF Init, IndInv, HolderIsAlone, WritersHold, HeadIsWriter, UnlockingIsClaimed,
         DestroyedIsEmpty, WaitersHaveWaker

-------------------------------------------------------------------------------
(* Locking to read. *)

\* The fast path that finds a writer in the count.
LEMMA FastReadSlow ==
    ASSUME IndInv, NEW t \in Threads, NEW slow \in {"read_slow", "timed_slow"},
           FastReadLock(t, slow), Claimed(count)
    PROVE  IndInv'
<1>1. /\ alive /\ pc[t] = "idle"
      /\ pc' = [pc EXCEPT ![t] = slow]
      /\ count' = count + 1
      /\ writes[t] = 0 => reads[t] = 0
      /\ reads[t] <= MaxNest
      /\ UNCHANGED <<holder, owner_count, active_readers, pending_readers, waiters,
                     alive, wait, cleared, reads, writes>>
  BY RWLockAssumption DEF FastReadLock, MayReadLock, Goto, IndInv, TypeOK
<1>2. /\ Writers' = Writers /\ ReadLocks' = ReadLocks /\ Coming' = Coming
      /\ Woken' = Woken /\ Unlocking' = Unlocking
      /\ Slow' = Slow \cup {t} /\ t \notin Slow
  BY <1>1 DEF Writers, ReadLocks, Slow, Coming, Woken, Unlocking, IndInv, TypeOK
<1>3. Cardinality(Slow') = Cardinality(Slow) + 1
  BY <1>2, SetTypes, CountThreads
<1>4. count' \in Nat /\ CountIsExact' /\ Claimed(count')
  <2>1. count' = RW_LOCK_WRITER_COUNT_BASE * Cardinality(Writers')
                 + Cardinality(ReadLocks') + Cardinality(Slow') + Cardinality(Coming')
    BY <1>1, <1>2, <1>3, AliveFacts DEF RW_LOCK_WRITER_COUNT_BASE
  <2> QED BY <2>1, <1>1, <1>2, AliveFacts, CountNext
<1>5. TypeOK'
  BY <1>1, <1>4 DEF IndInv, TypeOK
<1>6. AssertsHold'
  BY <1>1 DEF IndInv, TypeOK, AssertsHold
<1>7. ActiveReadersExact' /\ PendingReadersExact'
  BY <1>1, <1>2, <1>3, <1>4, AliveFacts DEF IndInv, TypeOK, ActiveReadersExact, PendingReadersExact
<1>8. HolderIsAlone' /\ UnlockingIsClaimed'
  BY <1>1, <1>2 DEF IndInv, TypeOK, HolderIsAlone, UnlockingIsClaimed, Queued
<1>9. QueueIsSound'
  BY <1>1, QueueMembers DEF IndInv, TypeOK, QueueIsSound, Waiter, ReadPcs
<1>10. UnqueuedIsServed'
  BY <1>1 DEF IndInv, TypeOK, UnqueuedIsServed, Queued, ReadPcs
<1>11. CallsAreSound'
  BY <1>1 DEF IndInv, TypeOK, CallsAreSound, Blocking, ReadPcs
<1> QED
  BY <1>1, <1>2, <1>4, <1>5, <1>6, <1>7, <1>8, <1>9, <1>10, <1>11
     DEF IndInv, WritersHold, HeadIsWriter, DestroyedIsEmpty, WaitersHaveWaker

\* The fast path that finds none.
LEMMA FastReadDone ==
    ASSUME IndInv, NEW t \in Threads, NEW slow \in {"read_slow", "timed_slow"},
           FastReadLock(t, slow), ~Claimed(count)
    PROVE  IndInv'
<1>1. /\ alive /\ pc[t] = "idle"
      /\ pc' = [pc EXCEPT ![t] = "idle"]
      /\ reads' = [reads EXCEPT ![t] = @ + 1]
      /\ count' = count + 1
      /\ reads[t] <= MaxNest
      /\ UNCHANGED <<holder, owner_count, active_readers, pending_readers, waiters,
                     alive, wait, cleared, writes>>
  BY RWLockAssumption DEF FastReadLock, MayReadLock, ReturnReading, Goto, IndInv, TypeOK
<1>2. pc' = pc
  BY <1>1 DEF IndInv, TypeOK
<1>3. /\ Writers' = Writers /\ Slow' = Slow /\ Coming' = Coming
      /\ Woken' = Woken /\ Unlocking' = Unlocking
  BY <1>1, <1>2 DEF Writers, Slow, Coming, Woken, Unlocking
<1>4. /\ reads' \in [Threads -> 0 .. MaxNest + 1]
      /\ Cardinality(ReadLocks') = Cardinality(ReadLocks) + 1
  BY <1>1, ReadMore DEF IndInv
<1>5. count' \in Nat /\ CountIsExact' /\ ~Claimed(count')
  <2>1. count' = RW_LOCK_WRITER_COUNT_BASE * Cardinality(Writers')
                 + Cardinality(ReadLocks') + Cardinality(Slow') + Cardinality(Coming')
    BY <1>1, <1>3, <1>4, AliveFacts DEF RW_LOCK_WRITER_COUNT_BASE
  <2> QED BY <2>1, <1>1, <1>3, AliveFacts, CountNext
<1>6. Writers = {} /\ holder = NoThread
  BY <1>1, AliveFacts, WriterFacts
<1>7. TypeOK'
  BY <1>1, <1>2, <1>4, <1>5 DEF IndInv, TypeOK
<1>8. CallsAreSound' /\ QueueIsSound' /\ UnqueuedIsServed'
  BY <1>1, <1>2
     DEF IndInv, TypeOK, CallsAreSound, QueueIsSound, UnqueuedIsServed, Queued, Blocking, ReadPcs
<1>9. AssertsHold'
  BY <1>1, <1>2, <1>6, WriterFacts DEF IndInv, AssertsHold, TypeOK
<1>10. ActiveReadersExact' /\ PendingReadersExact'
  BY <1>1, <1>3, <1>5 DEF IndInv, ActiveReadersExact, PendingReadersExact
<1> QED
  BY <1>1, <1>2, <1>3, <1>5, <1>6, <1>7, <1>8, <1>9, <1>10
     DEF IndInv, WritersHold, HolderIsAlone, HeadIsWriter, UnlockingIsClaimed,
         DestroyedIsEmpty, WaitersHaveWaker

\* The slow path of the writer itself.
LEMMA ReadAsWriterStep ==
    ASSUME IndInv, alive, NEW t \in Threads, pc[t] \in {"read_slow", "timed_slow"},
           ReadAsWriter(t), UNCHANGED <<holder, count, alive, writes>>
    PROVE  IndInv'
<1>1. /\ holder = t
      /\ pc' = [pc EXCEPT ![t] = "idle"]
      /\ reads' = [reads EXCEPT ![t] = @ + 1]
      /\ owner_count' = owner_count + 1
      /\ reads[t] <= MaxNest
      /\ writes[t] > 0
      /\ holder # NoThread
      /\ UNCHANGED <<active_readers, pending_readers, waiters, wait, cleared>>
  BY RWLockAssumption
     DEF ReadAsWriter, ReturnReading, Goto, IndInv, CallsAreSound, HolderIsAlone, TypeOK
<1>2. /\ Writers' = Writers /\ Slow' = Slow \ {t} /\ t \in Slow /\ Coming' = Coming
      /\ Woken' = Woken /\ Unlocking' = Unlocking
  BY <1>1 DEF Writers, Slow, Coming, Woken, Unlocking, IndInv, TypeOK
<1>3. /\ reads' \in [Threads -> 0 .. MaxNest + 1]
      /\ Cardinality(ReadLocks') = Cardinality(ReadLocks) + 1
      /\ Cardinality(Slow') = Cardinality(Slow) - 1
  BY <1>1, <1>2, ReadMore, SetTypes, CountThreads DEF IndInv
<1>4. CountIsExact' /\ Claimed(count)
  <2>1. count' = RW_LOCK_WRITER_COUNT_BASE * Cardinality(Writers')
                 + Cardinality(ReadLocks') + Cardinality(Slow') + Cardinality(Coming')
    BY <1>2, <1>3, AliveFacts DEF RW_LOCK_WRITER_COUNT_BASE
  <2> QED BY <1>1, <2>1, AliveFacts, WriterFacts, CountNext
<1>5. TypeOK'
  BY <1>1, <1>3 DEF IndInv, TypeOK
<1>6. QueueIsSound'
  BY <1>1, QueueMembers DEF IndInv, TypeOK, QueueIsSound, Waiter, ReadPcs
<1>7. CallsAreSound' /\ UnqueuedIsServed'
  BY <1>1 DEF IndInv, TypeOK, CallsAreSound, UnqueuedIsServed, Queued, Blocking, ReadPcs
<1>8. AssertsHold'
  <2>1. owner_count = RW_LOCK_WRITER_COUNT_BASE * writes[t] + reads[t]
    BY <1>1, OwnerFacts
  <2>2. owner_count' = RW_LOCK_WRITER_COUNT_BASE * writes'[t] + reads'[t]
    BY <1>1, <2>1 DEF IndInv, TypeOK, RW_LOCK_WRITER_COUNT_BASE
  <2>3. \A u \in Threads : u # t => writes'[u] = 0
    BY <1>1 DEF IndInv, WritersHold, TypeOK
  <2>4. \A u \in Threads : pc'[u] = "unlock_slow" => pc[u] = "unlock_slow"
    BY <1>1 DEF IndInv, TypeOK
  <2>5. pc'[t] = "idle" /\ active_readers' = active_readers /\ holder' = holder
    BY <1>1 DEF IndInv, TypeOK
  <2> QED BY <1>1, <2>2, <2>3, <2>4, <2>5 DEF IndInv, AssertsHold
<1>9. PendingReadersExact'
  <2>1. pending_readers = 0 /\ Cardinality(Slow') \in Nat
    BY <1>1, SetTypes, CountThreads DEF IndInv, HolderIsAlone
  <2> QED BY <1>1, <1>4, <2>1 DEF PendingReadersExact
<1>10. HolderIsAlone'
  BY <1>1, <1>2 DEF IndInv, HolderIsAlone, Queued, TypeOK
<1> QED
  BY <1>1, <1>2, <1>4, <1>5, <1>6, <1>7, <1>8, <1>9, <1>10
     DEF IndInv, WritersHold, HeadIsWriter, UnlockingIsClaimed, ActiveReadersExact,
         DestroyedIsEmpty, WaitersHaveWaker

\* A reader that was promised the lock.
LEMMA ReadAsPendingStep ==
    ASSUME IndInv, alive, NEW t \in Threads, pc[t] \in {"read_slow", "timed_slow"},
           ReadAsPending(t), UNCHANGED <<holder, count, alive, writes>>
    PROVE  IndInv'
<1>1. /\ pc' = [pc EXCEPT ![t] = "idle"]
      /\ reads' = [reads EXCEPT ![t] = @ + 1]
      /\ pending_readers > 0
      /\ pending_readers' = pending_readers - 1
      /\ active_readers' = active_readers + (IF Claimed(count) THEN 1 ELSE 0)
      /\ UNCHANGED <<owner_count, waiters, wait, cleared>>
  BY DEF ReadAsPending, ReturnReading, Goto
<1>2. pending_readers \in Nat /\ active_readers \in Nat
  BY DEF IndInv, TypeOK
<1>3. holder = NoThread
  BY <1>1, <1>2 DEF IndInv, HolderIsAlone
<1>4. writes[t] = 0 /\ reads[t] = 0 /\ MaxNest \in Nat
  BY <1>3, WriterFacts, RWLockAssumption DEF IndInv, CallsAreSound
<1>5. /\ Writers' = Writers /\ Slow' = Slow \ {t} /\ t \in Slow /\ Coming' = Coming
      /\ Woken' = Woken /\ Unlocking' = Unlocking
  BY <1>1 DEF Writers, Slow, Coming, Woken, Unlocking, IndInv, TypeOK
<1>6. /\ reads' \in [Threads -> 0 .. MaxNest + 1]
      /\ Cardinality(ReadLocks') = Cardinality(ReadLocks) + 1
      /\ Cardinality(Slow') = Cardinality(Slow) - 1
  <2>1. reads[t] <= MaxNest
    BY <1>4
  <2> QED BY <1>1, <1>5, <2>1, ReadMore, SetTypes, CountThreads DEF IndInv
<1>7. CountIsExact'
  <2>1. count' = RW_LOCK_WRITER_COUNT_BASE * Cardinality(Writers')
                 + Cardinality(ReadLocks') + Cardinality(Slow') + Cardinality(Coming')
    BY <1>5, <1>6, AliveFacts DEF RW_LOCK_WRITER_COUNT_BASE
  <2> QED BY <2>1, CountNext
<1>8. TypeOK'
  <2>1. pending_readers' \in Nat /\ active_readers' \in Nat
    BY <1>1, <1>2
  <2> QED BY <1>1, <1>6, <2>1 DEF IndInv, TypeOK
<1>9. QueueIsSound'
  BY <1>1, QueueMembers DEF IndInv, TypeOK, QueueIsSound, Waiter, ReadPcs
<1>10. CallsAreSound' /\ UnqueuedIsServed'
  BY <1>1 DEF IndInv, TypeOK, CallsAreSound, UnqueuedIsServed, Queued, Blocking, ReadPcs
<1>11. AssertsHold'
  BY <1>1, <1>2, <1>3, WriterFacts DEF IndInv, AssertsHold, TypeOK
<1>12. ActiveReadersExact' /\ PendingReadersExact'
  BY <1>1, <1>2, <1>3, <1>5, <1>6, AliveFacts
     DEF IndInv, ActiveReadersExact, PendingReadersExact
<1>13. WaitersHaveWaker'
  BY <1>1, <1>2, <1>3, AliveFacts, WriterFacts DEF WaitersHaveWaker
<1> QED
  BY <1>1, <1>3, <1>5, <1>7, <1>8, <1>9, <1>10, <1>11, <1>12, <1>13
     DEF IndInv, WritersHold, HeadIsWriter, HolderIsAlone, UnlockingIsClaimed, DestroyedIsEmpty

\* What appending a waiter does to the queue.
LEMMA EnqueueFacts ==
    ASSUME IndInv, NEW t \in Threads, pc[t] \notin ReadPcs \cup {"write_block"},
           NEW writer \in BOOLEAN,
           NEW label \in Blocking, label = "write_block" <=> writer,
           Enqueue(t, writer, label)
    PROVE  /\ waiters' \in Seq(Waiter)
           /\ waiters' # <<>>
           /\ waiters'[1] = IF waiters = <<>> THEN [thread |-> t, writer |-> writer] ELSE waiters[1]
           /\ ToSet(waiters') = ToSet(waiters) \cup {[thread |-> t, writer |-> writer]}
           /\ wait' = [wait EXCEPT ![t] = Blocked] /\ wait' \in [Threads -> Statuses]
           /\ cleared' = cleared \ {t}
           /\ pc' = [pc EXCEPT ![t] = label]
           /\ \A u : Queued(u)' <=> Queued(u) \/ u = t
           /\ QueueIsSound'
<1> DEFINE e == [thread |-> t, writer |-> writer]
<1>1. /\ waiters' = Append(waiters, e)
      /\ wait' = [wait EXCEPT ![t] = Blocked]
      /\ cleared' = cleared \ {t}
      /\ pc' = [pc EXCEPT ![t] = label]
  BY DEF Enqueue, Goto, thread_prepare_to_block
<1>2. e \in Waiter /\ e.thread = t /\ e.writer = writer
  BY DEF Waiter
<1>3. waiters \in Seq(Waiter) /\ IsInjective(waiters) /\ ToSet(waiters) \subseteq Waiter
  BY QueueMembers DEF IndInv, TypeOK, QueueIsSound
<1>4. \A w \in ToSet(waiters) : w.thread # t
  BY <1>3 DEF IndInv, QueueIsSound, Waiter
<1>5. e \notin ToSet(waiters)
  BY <1>2, <1>4
<1> HIDE DEF e
<1>6. /\ waiters' \in Seq(Waiter)
      /\ ToSet(waiters') = ToSet(waiters) \cup {e}
      /\ IsInjective(waiters')
  BY <1>1, <1>2, <1>3, <1>5, AppendFacts
<1>7. waiters' # <<>> /\ waiters'[1] = IF waiters = <<>> THEN e ELSE waiters[1]
  <2>1. CASE waiters = <<>>
    BY <1>1, <1>2, <2>1
  <2>2. CASE waiters # <<>>
    BY <1>1, <1>2, <1>3, <2>2
  <2> QED BY <2>1, <2>2
<1>8. wait' \in [Threads -> Statuses]
  BY <1>1 DEF IndInv, TypeOK, Statuses
<1>9. \A u : Queued(u)' <=> Queued(u) \/ u = t
  BY <1>2, <1>6, QueuedFacts
<1>10. QueueIsSound'
  <2>1. \A v, w \in ToSet(waiters') : v.thread = w.thread => v = w
    BY <1>2, <1>4, <1>6 DEF IndInv, QueueIsSound
  <2>2. ASSUME NEW w \in ToSet(waiters')
        PROVE  /\ IF w.writer THEN pc'[w.thread] = "write_block" ELSE pc'[w.thread] \in ReadPcs
               /\ w.thread \notin cleared'
               /\ pc'[w.thread] \in {"read_block", "write_block"} => wait'[w.thread] = Blocked
               /\ pc'[w.thread] \in {"timed_block", "timed_out"} => wait'[w.thread] # "B_OK"
    <3>1. CASE w = e
      BY <1>1, <1>2, <3>1 DEF IndInv, TypeOK, Blocking, ReadPcs, Blocked
    <3>2. CASE w # e
      <4>1. w \in ToSet(waiters) /\ w.thread # t /\ w.thread \in Threads
        BY <1>3, <1>4, <1>6, <3>2 DEF Waiter
      <4> QED BY <1>1, <4>1 DEF IndInv, TypeOK, QueueIsSound
    <3> QED BY <3>1, <3>2
  <2> QED BY <1>6, <2>1, <2>2 DEF QueueIsSound
<1> QED BY <1>1, <1>6, <1>7, <1>8, <1>9, <1>10 DEF e

\* A reader that has to wait does so behind a writer.
LEMMA ReadWaitStep ==
    ASSUME IndInv, alive, NEW t \in Threads, pc[t] \in {"read_slow", "timed_slow"},
           NEW label \in {"read_block", "timed_block"},
           ReadWait(t, label), UNCHANGED <<holder, count, alive, writes>>
    PROVE  IndInv'
<1>1. /\ holder # t
      /\ pending_readers = 0
      /\ Enqueue(t, FALSE, label)
      /\ UNCHANGED <<owner_count, active_readers, pending_readers, reads>>
  BY DEF ReadWait
<1>2. /\ waiters' \in Seq(Waiter) /\ waiters' # <<>>
      /\ waiters'[1] = IF waiters = <<>> THEN [thread |-> t, writer |-> FALSE] ELSE waiters[1]
      /\ wait' = [wait EXCEPT ![t] = Blocked] /\ wait' \in [Threads -> Statuses]
      /\ cleared' = cleared \ {t}
      /\ pc' = [pc EXCEPT ![t] = label]
      /\ \A u : Queued(u)' <=> Queued(u) \/ u = t
      /\ QueueIsSound'
  <2>1. label \in Blocking /\ ~(label = "write_block") /\ FALSE \in BOOLEAN
        /\ pc[t] \notin ReadPcs \cup {"write_block"}
    BY DEF Blocking, ReadPcs
  <2> QED BY <1>1, <2>1, EnqueueFacts
<1>3. writes[t] = 0 /\ reads[t] = 0
  BY <1>1 DEF IndInv, WritersHold, CallsAreSound, TypeOK
<1>4. /\ Writers' = Writers /\ Slow' = Slow \ {t} /\ t \in Slow
      /\ Coming' = Coming \cup {t} /\ t \notin Coming
      /\ ReadLocks' = ReadLocks /\ Woken' = Woken /\ Unlocking' = Unlocking
  BY <1>1, <1>2 DEF Writers, Slow, Coming, Woken, Unlocking, ReadLocks, IndInv, TypeOK
<1>5. /\ Cardinality(Slow') = Cardinality(Slow) - 1
      /\ Cardinality(Slow) # 0
      /\ Cardinality(Coming') = Cardinality(Coming) + 1
  BY <1>4, SetTypes, CountThreads
<1>6. CountIsExact'
  <2>1. count' = RW_LOCK_WRITER_COUNT_BASE * Cardinality(Writers')
                 + Cardinality(ReadLocks') + Cardinality(Slow') + Cardinality(Coming')
    BY <1>4, <1>5, AliveFacts DEF RW_LOCK_WRITER_COUNT_BASE
  <2> QED BY <2>1, CountNext
<1>7. Claimed(count) /\ Writers # {}
  BY <1>1, <1>5, AliveFacts DEF IndInv, PendingReadersExact
<1>8. holder = NoThread => waiters # <<>>
  BY <1>7, WriterFacts
<1>9. TypeOK'
  BY <1>1, <1>2 DEF IndInv, TypeOK, Blocking
<1>10. UnqueuedIsServed' /\ CallsAreSound'
  BY <1>1, <1>2, <1>3
     DEF IndInv, TypeOK, UnqueuedIsServed, CallsAreSound, Blocking, ReadPcs
<1>11. ActiveReadersExact'
  BY <1>1, <1>4 DEF IndInv, ActiveReadersExact
<1>12. PendingReadersExact'
  <2>1. Cardinality(Slow') \in Nat
    BY SetTypes, CountThreads
  <2> QED BY <1>1, <1>7, <2>1 DEF PendingReadersExact
<1>13. AssertsHold'
  BY <1>1, <1>2, <1>3 DEF IndInv, TypeOK, AssertsHold
<1>14. HolderIsAlone'
  BY <1>1, <1>2, <1>4 DEF IndInv, TypeOK, HolderIsAlone
<1>15. HeadIsWriter' /\ WaitersHaveWaker'
  BY <1>1, <1>2, <1>8 DEF IndInv, HeadIsWriter, WaitersHaveWaker
<1> QED
  BY <1>1, <1>2, <1>4, <1>6, <1>9, <1>10, <1>11, <1>12, <1>13, <1>14, <1>15
     DEF IndInv, WritersHold, UnlockingIsClaimed, DestroyedIsEmpty

\* A reader that was let in returns.
LEMMA ReadReturnStep ==
    ASSUME IndInv, alive, NEW t \in Threads, pc[t] \in {"read_block", "timed_block"},
           ~Queued(t), ReturnReading(t), UNCHANGED <<lockVars, wait, cleared, writes>>
    PROVE  IndInv'
<1>1. /\ pc' = [pc EXCEPT ![t] = "idle"]
      /\ reads' = [reads EXCEPT ![t] = @ + 1]
      /\ UNCHANGED <<holder, count, owner_count, active_readers, pending_readers, waiters,
                     alive, wait, cleared, writes>>
  BY DEF ReturnReading, Goto, lockVars
<1>2. t \in cleared /\ reads[t] = 0 /\ writes[t] = 0
  BY DEF IndInv, UnqueuedIsServed, CallsAreSound, ReadPcs, Blocking
<1>3. /\ Writers' = Writers /\ Slow' = Slow /\ Unlocking' = Unlocking
      /\ Coming' = Coming \ {t} /\ t \in Coming
      /\ Woken' = Woken \ {t} /\ t \in Woken
  BY <1>1, <1>2 DEF Writers, Slow, Coming, Woken, Unlocking, IndInv, TypeOK
<1>4. holder = NoThread
  BY <1>3 DEF IndInv, HolderIsAlone
<1>5. /\ reads' \in [Threads -> 0 .. MaxNest + 1]
      /\ Cardinality(ReadLocks') = Cardinality(ReadLocks) + 1
      /\ Cardinality(Coming') = Cardinality(Coming) - 1
      /\ Cardinality(Woken') = Cardinality(Woken) - 1
  <2>1. reads[t] <= MaxNest
    BY <1>2, RWLockAssumption
  <2> QED BY <1>1, <1>3, <2>1, ReadMore, SetTypes, CountThreads DEF IndInv
<1>6. CountIsExact'
  <2>1. count' = RW_LOCK_WRITER_COUNT_BASE * Cardinality(Writers')
                 + Cardinality(ReadLocks') + Cardinality(Slow') + Cardinality(Coming')
    BY <1>1, <1>3, <1>5, AliveFacts DEF RW_LOCK_WRITER_COUNT_BASE
  <2> QED BY <2>1, CountNext
<1>7. TypeOK'
  BY <1>1, <1>5 DEF IndInv, TypeOK
<1>8. QueueIsSound'
  BY <1>1, QueuedFacts, QueueMembers DEF IndInv, TypeOK, QueueIsSound, Waiter
<1>9. UnqueuedIsServed' /\ CallsAreSound'
  BY <1>1 DEF IndInv, TypeOK, UnqueuedIsServed, CallsAreSound, Queued, Blocking, ReadPcs
<1>10. ActiveReadersExact' /\ PendingReadersExact'
  BY <1>1, <1>3, <1>5, AliveFacts DEF IndInv, ActiveReadersExact, PendingReadersExact
<1>11. AssertsHold'
  BY <1>1, <1>4, WriterFacts DEF IndInv, TypeOK, AssertsHold
<1> QED
  BY <1>1, <1>3, <1>4, <1>6, <1>7, <1>8, <1>9, <1>10, <1>11
     DEF IndInv, WritersHold, HeadIsWriter, HolderIsAlone, UnlockingIsClaimed,
         DestroyedIsEmpty, WaitersHaveWaker

\* A timeout of a reader, let in or not.
LEMMA TimeOutStep ==
    ASSUME IndInv, alive, NEW t \in Threads, TimeOut(t)
    PROVE  IndInv'
<1>1. /\ pc[t] = "timed_block" /\ wait[t] = Blocked
      /\ wait' = [wait EXCEPT ![t] = "B_TIMED_OUT"]
      /\ UNCHANGED <<holder, count, owner_count, active_readers, pending_readers, waiters,
                     alive, cleared, pc, reads, writes>>
  BY DEF TimeOut, thread_unblock, thread_is_blocked, lockVars
<1>2. /\ UNCHANGED Writers /\ UNCHANGED ReadLocks /\ UNCHANGED Slow /\ UNCHANGED Coming
      /\ UNCHANGED Woken /\ UNCHANGED Unlocking
  BY <1>1 DEF Writers, ReadLocks, Slow, Coming, Woken, Unlocking
<1>3. TypeOK'
  BY <1>1 DEF IndInv, TypeOK, Statuses, Results
<1>4. QueueIsSound'
  BY <1>1, QueueMembers DEF IndInv, TypeOK, QueueIsSound, Waiter
<1>5. UnqueuedIsServed' /\ CallsAreSound' /\ AssertsHold'
  BY <1>1 DEF IndInv, TypeOK, UnqueuedIsServed, CallsAreSound, AssertsHold, Queued
<1>6. CountIsExact' /\ ActiveReadersExact' /\ PendingReadersExact'
  BY <1>1, <1>2 DEF IndInv, CountIsExact, ActiveReadersExact, PendingReadersExact
<1> QED
  BY <1>1, <1>2, <1>3, <1>4, <1>5, <1>6
     DEF IndInv, WritersHold, HeadIsWriter, HolderIsAlone, UnlockingIsClaimed,
         DestroyedIsEmpty, WaitersHaveWaker, Queued

\* A reader that gave up, on its way to the queue; or that went down there.
LEMMA TimedOutStep ==
    ASSUME IndInv, alive, NEW t \in Threads,
           \/ pc[t] = "timed_block" /\ wait[t] \notin {Blocked, "B_OK"} /\ Goto(t, "timed_out")
           \/ pc[t] = "timed_out" /\ ~Queued(t) /\ Goto(t, "crashed"),
           UNCHANGED <<lockVars, wait, cleared, reads, writes>>
    PROVE  IndInv'
<1>1. UNCHANGED <<holder, count, owner_count, active_readers, pending_readers, waiters,
                  alive, wait, cleared, reads, writes>>
  BY DEF lockVars
<1>2. /\ UNCHANGED Writers /\ UNCHANGED ReadLocks /\ UNCHANGED Slow /\ UNCHANGED Coming
      /\ UNCHANGED Woken /\ UNCHANGED Unlocking
  BY <1>1 DEF Goto, Writers, ReadLocks, Slow, Coming, Woken, Unlocking, IndInv, TypeOK
<1>3. TypeOK'
  BY <1>1 DEF Goto, IndInv, TypeOK
<1>4. QueueIsSound'
  <2>1. CASE pc[t] = "timed_block" /\ wait[t] \notin {Blocked, "B_OK"} /\ Goto(t, "timed_out")
    BY <1>1, <2>1, QueueMembers DEF Goto, IndInv, TypeOK, QueueIsSound, Waiter, ReadPcs
  <2>2. CASE pc[t] = "timed_out" /\ ~Queued(t) /\ Goto(t, "crashed")
    <3>1. \A w \in ToSet(waiters) : w.thread # t /\ w.thread \in Threads
      BY <2>2, QueuedFacts, WaiterTypes DEF IndInv
    <3> QED BY <1>1, <2>2, <3>1 DEF Goto, IndInv, TypeOK, QueueIsSound
  <2> QED BY <2>1, <2>2
<1>5. UnqueuedIsServed' /\ CallsAreSound' /\ AssertsHold'
  BY <1>1
     DEF Goto, IndInv, TypeOK, UnqueuedIsServed, CallsAreSound, AssertsHold, Queued, ReadPcs,
         Blocking
<1>6. CountIsExact' /\ ActiveReadersExact' /\ PendingReadersExact'
  BY <1>1, <1>2 DEF IndInv, CountIsExact, ActiveReadersExact, PendingReadersExact
<1>7. HolderIsAlone'
  BY <1>1, <1>2 DEF Goto, IndInv, TypeOK, HolderIsAlone, Queued
<1> QED
  BY <1>1, <1>2, <1>3, <1>4, <1>5, <1>6, <1>7
     DEF IndInv, WritersHold, HeadIsWriter, UnlockingIsClaimed, DestroyedIsEmpty, WaitersHaveWaker

\* A reader that gave up leaves the queue.
LEMMA DequeueStep ==
    ASSUME IndInv, alive, NEW t \in Threads, pc[t] = "timed_out",
           NEW i \in DOMAIN waiters, waiters[i].thread = t, waiters' = RemoveAt(waiters, i),
           count' = count - 1, Goto(t, "idle"),
           UNCHANGED <<holder, owner_count, active_readers, pending_readers, alive,
                       wait, cleared, reads, writes>>
    PROVE  IndInv'
<1>1. pc' = [pc EXCEPT ![t] = "idle"]
  BY DEF Goto
<1>2. /\ waiters \in Seq(Waiter) /\ IsInjective(waiters) /\ ToSet(waiters) \subseteq Waiter
      /\ waiters[i] \in ToSet(waiters)
  BY QueueMembers DEF IndInv, TypeOK, QueueIsSound, ToSet
<1>3. ~waiters[i].writer /\ t \notin cleared
  BY <1>2 DEF IndInv, QueueIsSound
<1>4. /\ waiters' \in Seq(Waiter) /\ IsInjective(waiters')
      /\ ToSet(waiters') = ToSet(waiters) \ {waiters[i]}
      /\ i # 1 => waiters' # <<>> /\ waiters'[1] = waiters[1]
  BY <1>2, RemoveAtFacts, RemoveAtHead
<1>5. \A w \in ToSet(waiters') : w \in ToSet(waiters) /\ w.thread # t /\ w.thread \in Threads
  BY <1>2, <1>4 DEF IndInv, QueueIsSound, Waiter
<1>6. \A u : Queued(u)' <=> Queued(u) /\ u # t
  BY <1>2, <1>4, <1>5, QueuedFacts
<1>7. /\ Writers' = Writers /\ Slow' = Slow /\ Unlocking' = Unlocking
      /\ ReadLocks' = ReadLocks
      /\ Coming' = Coming \ {t} /\ t \in Coming
      /\ Woken' = Woken
  BY <1>1, <1>3 DEF Writers, Slow, Coming, Woken, Unlocking, ReadLocks, IndInv, TypeOK
<1>8. Cardinality(Coming') = Cardinality(Coming) - 1
  BY <1>7, SetTypes, CountThreads
<1>9. count' \in Nat /\ CountIsExact' /\ (Claimed(count') <=> Claimed(count))
  <2>1. count' = RW_LOCK_WRITER_COUNT_BASE * Cardinality(Writers')
                 + Cardinality(ReadLocks') + Cardinality(Slow') + Cardinality(Coming')
    BY <1>7, <1>8, AliveFacts DEF RW_LOCK_WRITER_COUNT_BASE
  <2> QED BY <1>7, <2>1, AliveFacts, CountNext
<1>10. TypeOK'
  BY <1>1, <1>4, <1>9 DEF IndInv, TypeOK
<1>11. QueueIsSound'
  BY <1>1, <1>4, <1>5 DEF IndInv, TypeOK, QueueIsSound
<1>12. UnqueuedIsServed' /\ CallsAreSound' /\ AssertsHold'
  <2>1. UnqueuedIsServed'
    BY <1>1, <1>6 DEF IndInv, TypeOK, UnqueuedIsServed, ReadPcs
  <2>2. CallsAreSound'
    BY <1>1 DEF IndInv, TypeOK, CallsAreSound, ReadPcs, Blocking
  <2>3. AssertsHold'
    BY <1>1 DEF IndInv, TypeOK, AssertsHold
  <2> QED BY <2>1, <2>2, <2>3
<1>13. ActiveReadersExact' /\ PendingReadersExact'
  BY <1>7, <1>9 DEF IndInv, ActiveReadersExact, PendingReadersExact
<1>14. HolderIsAlone'
  BY <1>1, <1>6, <1>7 DEF IndInv, TypeOK, HolderIsAlone
<1>15. waiters # <<>>
  BY <1>2, QueueMembers
<1>16. HeadIsWriter' /\ WaitersHaveWaker'
  BY <1>3, <1>4, <1>15 DEF IndInv, HeadIsWriter, WaitersHaveWaker
<1> QED
  BY <1>7, <1>9, <1>10, <1>11, <1>12, <1>13, <1>14, <1>16
     DEF IndInv, WritersHold, UnlockingIsClaimed, DestroyedIsEmpty

-------------------------------------------------------------------------------
(* Unlocking a read lock. *)

\* The fast path; a reader that finds a writer in the count has more to do.
LEMMA ReadUnlockStep ==
    ASSUME IndInv, NEW t \in Threads, rw_lock_read_unlock(t)
    PROVE  IndInv'
<1>1. /\ alive /\ pc[t] = "idle" /\ reads[t] > 0
      /\ count' = count - 1
      /\ reads' = [reads EXCEPT ![t] = @ - 1]
      /\ pc' = IF Claimed(count) THEN [pc EXCEPT ![t] = "unlock_slow"] ELSE pc
      /\ UNCHANGED <<holder, owner_count, active_readers, pending_readers, waiters,
                     alive, wait, cleared, writes>>
  BY DEF rw_lock_read_unlock, Goto
<1>2. /\ Writers' = Writers /\ Slow' = Slow /\ Coming' = Coming /\ Woken' = Woken
      /\ t \notin Unlocking
      /\ Unlocking' = IF Claimed(count) THEN Unlocking \cup {t} ELSE Unlocking
  BY <1>1 DEF Writers, Slow, Coming, Woken, Unlocking, IndInv, TypeOK
<1>3. /\ reads' \in [Threads -> 0 .. MaxNest + 1]
      /\ Cardinality(ReadLocks') = Cardinality(ReadLocks) - 1
      /\ Cardinality(ReadLocks') \in Nat
      /\ Claimed(count) => Cardinality(Unlocking') = Cardinality(Unlocking) + 1
      /\ ~Claimed(count) => Cardinality(Unlocking') = Cardinality(Unlocking)
  BY <1>1, <1>2, ReadLess, SetTypes, CountThreads, CountLocks DEF IndInv
<1>4. count' \in Nat /\ CountIsExact' /\ (Claimed(count') <=> Claimed(count))
  <2>1. count' = RW_LOCK_WRITER_COUNT_BASE * Cardinality(Writers')
                 + Cardinality(ReadLocks') + Cardinality(Slow') + Cardinality(Coming')
    BY <1>1, <1>2, <1>3, AliveFacts DEF RW_LOCK_WRITER_COUNT_BASE
  <2> QED BY <1>1, <1>2, <2>1, AliveFacts, CountNext
<1>5. holder = t \/ holder = NoThread
  BY <1>1 DEF IndInv, HolderIsAlone
<1>6. TypeOK'
  BY <1>1, <1>3, <1>4 DEF IndInv, TypeOK
<1>7. QueueIsSound'
  BY <1>1, QueueMembers DEF IndInv, TypeOK, QueueIsSound, Waiter, ReadPcs
<1>8. UnqueuedIsServed' /\ CallsAreSound'
  <2>1. UnqueuedIsServed'
    BY <1>1 DEF IndInv, TypeOK, UnqueuedIsServed, ReadPcs, Queued
  <2>2. CallsAreSound'
    BY <1>1 DEF IndInv, TypeOK, CallsAreSound, ReadPcs, Blocking
  <2> QED BY <2>1, <2>2
<1>9. ActiveReadersExact' /\ PendingReadersExact'
  BY <1>1, <1>2, <1>3, <1>4, AliveFacts DEF IndInv, ActiveReadersExact, PendingReadersExact
<1>10. AssertsHold'
  <2>1. ASSUME NEW u \in Threads, alive', writes'[u] > 0
        PROVE  /\ holder' = u
               /\ owner_count' = RW_LOCK_WRITER_COUNT_BASE * writes'[u] + reads'[u]
                                 + (IF pc'[u] = "unlock_slow" THEN 1 ELSE 0)
    <3>1. writes[u] > 0 /\ holder = u /\ u = t /\ Claimed(count)
      BY <1>1, <1>5, <2>1, OwnerFacts, WriterFacts, AliveFacts, RWLockAssumption
    <3>2. /\ owner_count = RW_LOCK_WRITER_COUNT_BASE * writes[t] + reads[t]
          /\ writes[t] \in Nat /\ reads[t] \in Nat
      BY <1>1, <3>1, OwnerFacts
    <3>3. /\ pc'[t] = "unlock_slow" /\ reads'[t] = reads[t] - 1
          /\ UNCHANGED <<owner_count, writes, holder>>
      BY <1>1, <3>1 DEF IndInv, TypeOK
    <3> QED BY <3>1, <3>2, <3>3 DEF RW_LOCK_WRITER_COUNT_BASE
  <2>2. ASSUME NEW u \in Threads, pc'[u] = "unlock_slow", holder' # u
        PROVE  active_readers' > 0
    <3>1. CASE u # t
      BY <1>1, <2>2, <3>1 DEF IndInv, TypeOK, AssertsHold
    <3>2. CASE u = t
      <4>1. holder = NoThread /\ Claimed(count)
        BY <1>1, <1>5, <2>2, <3>2 DEF IndInv, TypeOK
      <4> QED BY <1>1, <1>3, <4>1, AliveFacts DEF IndInv, ActiveReadersExact
    <3> QED BY <3>1, <3>2
  <2> QED BY <2>1, <2>2 DEF AssertsHold
<1>11. HolderIsAlone'
  BY <1>1, <1>2, <1>5 DEF IndInv, TypeOK, HolderIsAlone, Queued
<1>12. UnlockingIsClaimed'
  BY <1>1, <1>2, AliveFacts DEF IndInv, UnlockingIsClaimed
<1> QED
  BY <1>1, <1>2, <1>4, <1>6, <1>7, <1>8, <1>9, <1>10, <1>11, <1>12
     DEF IndInv, WritersHold, HeadIsWriter, DestroyedIsEmpty, WaitersHaveWaker

\* The slow path of an owner, which corrects the owner's count.
LEMMA UnlockAsWriterStep ==
    ASSUME IndInv, alive, NEW t \in Threads, pc[t] = "unlock_slow", holder = t,
           owner_count' = owner_count - 1, Goto(t, "idle"),
           UNCHANGED <<holder, count, active_readers, pending_readers, waiters, alive,
                       wait, cleared, reads, writes>>
    PROVE  IndInv'
<1>1. pc' = [pc EXCEPT ![t] = "idle"] /\ holder # NoThread
  BY RWLockAssumption DEF Goto
<1>2. /\ Writers' = Writers /\ Slow' = Slow /\ Coming' = Coming /\ Woken' = Woken
      /\ ReadLocks' = ReadLocks /\ Unlocking' = Unlocking \ {t}
  BY <1>1 DEF Writers, Slow, Coming, Woken, Unlocking, ReadLocks, IndInv, TypeOK
<1>3. /\ writes[t] > 0 /\ writes[t] \in Nat /\ reads[t] \in Nat
      /\ owner_count = RW_LOCK_WRITER_COUNT_BASE * writes[t] + reads[t] + 1
  <2>1. writes[t] > 0
    BY <1>1 DEF IndInv, HolderIsAlone
  <2> QED BY <2>1, OwnerFacts
<1>4. owner_count' = RW_LOCK_WRITER_COUNT_BASE * writes[t] + reads[t] /\ owner_count' \in Nat
  BY <1>3 DEF RW_LOCK_WRITER_COUNT_BASE
<1>5. TypeOK'
  BY <1>1, <1>4 DEF IndInv, TypeOK
<1>6. QueueIsSound'
  BY <1>1, QueueMembers DEF IndInv, TypeOK, QueueIsSound, Waiter, ReadPcs
<1>7. UnqueuedIsServed'
  BY <1>1 DEF IndInv, TypeOK, UnqueuedIsServed, ReadPcs, Queued
<1>8. CallsAreSound'
  BY <1>1 DEF IndInv, TypeOK, CallsAreSound, ReadPcs, Blocking
<1>9. AssertsHold'
  <2>1. \A u \in Threads : u # t => writes'[u] = 0
    BY DEF IndInv, WritersHold, TypeOK
  <2>2. \A u \in Threads : pc'[u] = "unlock_slow" => u # t /\ pc[u] = "unlock_slow"
    BY <1>1 DEF IndInv, TypeOK
  <2>3. owner_count' = RW_LOCK_WRITER_COUNT_BASE * writes'[t] + reads'[t] + 0
    BY <1>3, <1>4 DEF RW_LOCK_WRITER_COUNT_BASE
  <2> QED BY <2>1, <2>2, <2>3 DEF IndInv, AssertsHold
<1>10. CountIsExact' /\ ActiveReadersExact' /\ PendingReadersExact'
  BY <1>1, <1>2 DEF IndInv, CountIsExact, ActiveReadersExact, PendingReadersExact
<1>11. HolderIsAlone'
  BY <1>1, <1>2 DEF IndInv, TypeOK, HolderIsAlone, Queued
<1> QED
  BY <1>2, <1>5, <1>6, <1>7, <1>8, <1>9, <1>10, <1>11
     DEF IndInv, WritersHold, HeadIsWriter, UnlockingIsClaimed, DestroyedIsEmpty, WaitersHaveWaker

\* Nobody is the writer when a reader that is not comes into the slow path.
LEMMA UnlockerFacts ==
    ASSUME IndInv, alive, NEW t \in Threads, pc[t] = "unlock_slow", holder # t
    PROVE  /\ holder = NoThread /\ Claimed(count) /\ Writers # {}
           /\ waiters # <<>> /\ waiters[1].writer
           /\ active_readers = Cardinality(ReadLocks) + Cardinality(Woken) + Cardinality(Unlocking)
           /\ Cardinality(Unlocking \ {t}) = Cardinality(Unlocking) - 1
           /\ Cardinality(Unlocking \ {t}) \in Nat
<1>1. holder = NoThread
  BY DEF IndInv, HolderIsAlone, TypeOK
<1>2. t \in Unlocking
  BY DEF Unlocking
<1>3. Writers # {} /\ Claimed(count)
  BY <1>2, AliveFacts DEF IndInv, UnlockingIsClaimed
<1>4. waiters # <<>> /\ waiters[1].writer
  BY <1>1, <1>3, WriterFacts DEF IndInv, HeadIsWriter
<1>5. Unlocking \ {t} \in SUBSET Threads
  BY SetTypes
<1> QED
  BY <1>1, <1>2, <1>3, <1>4, <1>5, SetTypes, CountThreads DEF IndInv, ActiveReadersExact

\* One of several readers unlocks, or the last one while others are promised the
\* lock.
LEMMA UnlockNotLastStep ==
    ASSUME IndInv, alive, NEW t \in Threads, pc[t] = "unlock_slow", holder # t,
           active_readers' = active_readers - 1,
           active_readers > 1 \/ pending_readers > 0,
           Goto(t, "idle"),
           UNCHANGED <<holder, count, owner_count, pending_readers, waiters, alive,
                       wait, cleared, reads, writes>>
    PROVE  IndInv'
<1>1. pc' = [pc EXCEPT ![t] = "idle"]
  BY DEF Goto
<1>2. /\ Writers' = Writers /\ Slow' = Slow /\ Coming' = Coming /\ Woken' = Woken
      /\ ReadLocks' = ReadLocks /\ Unlocking' = Unlocking \ {t}
  BY <1>1 DEF Writers, Slow, Coming, Woken, Unlocking, ReadLocks, IndInv, TypeOK
<1>3. /\ active_readers' = Cardinality(ReadLocks') + Cardinality(Woken') + Cardinality(Unlocking')
      /\ active_readers' \in Nat
  BY <1>2, UnlockerFacts, AliveFacts
<1>4. TypeOK'
  BY <1>1, <1>3 DEF IndInv, TypeOK
<1>5. QueueIsSound'
  BY <1>1, QueueMembers DEF IndInv, TypeOK, QueueIsSound, Waiter, ReadPcs
<1>6. UnqueuedIsServed'
  BY <1>1 DEF IndInv, TypeOK, UnqueuedIsServed, ReadPcs, Queued
<1>7. CallsAreSound'
  BY <1>1 DEF IndInv, TypeOK, CallsAreSound, ReadPcs, Blocking
<1>8. AssertsHold'
  <2>1. ASSUME NEW u \in Threads, pc'[u] = "unlock_slow" PROVE active_readers' > 0
    <3>1. Unlocking' # {} /\ Unlocking' \in SUBSET Threads
      BY <2>1, SetTypes DEF Unlocking
    <3>2. Cardinality(Unlocking') # 0 /\ Cardinality(Unlocking') \in Nat
      BY <3>1, CountThreads
    <3> QED BY <1>2, <1>3, <3>2, AliveFacts
  <2>2. \A u \in Threads : writes'[u] = 0
    BY UnlockerFacts, WriterFacts
  <2> QED BY <2>1, <2>2 DEF AssertsHold
<1>9. CountIsExact' /\ ActiveReadersExact' /\ PendingReadersExact'
  BY <1>2, <1>3, UnlockerFacts DEF IndInv, CountIsExact, ActiveReadersExact, PendingReadersExact
<1>10. HolderIsAlone'
  BY UnlockerFacts DEF HolderIsAlone
<1>11. WaitersHaveWaker'
  BY DEF WaitersHaveWaker, IndInv, TypeOK
<1> QED
  BY <1>2, <1>4, <1>5, <1>6, <1>7, <1>8, <1>9, <1>10, <1>11
     DEF IndInv, WritersHold, HeadIsWriter, UnlockingIsClaimed, DestroyedIsEmpty

-------------------------------------------------------------------------------
(* Locking to write. *)

\* The owner locks again, or unlocks one of several write locks.
LEMMA NestStep ==
    ASSUME IndInv, alive, NEW t \in Threads, pc[t] = "idle", writes[t] > 0,
           NEW d \in {1, -1}, writes[t] + d \in 1 .. MaxNest,
           owner_count' = owner_count + RW_LOCK_WRITER_COUNT_BASE * d,
           writes' = [writes EXCEPT ![t] = @ + d],
           UNCHANGED <<holder, count, active_readers, pending_readers, waiters, alive,
                       wait, cleared, pc, reads>>
    PROVE  IndInv'
<1>1. /\ holder = t /\ holder # NoThread
      /\ owner_count = RW_LOCK_WRITER_COUNT_BASE * writes[t] + reads[t]
      /\ writes[t] \in Nat /\ reads[t] \in Nat /\ MaxNest \in Nat
  BY OwnerFacts, RWLockAssumption
<1>2. /\ owner_count' = RW_LOCK_WRITER_COUNT_BASE * (writes[t] + d) + reads[t]
      /\ owner_count' \in Nat
  BY <1>1 DEF RW_LOCK_WRITER_COUNT_BASE
<1>3. /\ writes'[t] = writes[t] + d /\ writes'[t] > 0 /\ writes' \in [Threads -> 0 .. MaxNest]
      /\ \A u \in Threads : u # t => writes'[u] = writes[u]
  BY <1>1 DEF IndInv, TypeOK
<1>4. /\ Writers' = Writers /\ Slow' = Slow /\ Coming' = Coming /\ Woken' = Woken
      /\ ReadLocks' = ReadLocks /\ Unlocking' = Unlocking
  BY <1>3 DEF Writers, Slow, Coming, Woken, Unlocking, ReadLocks
<1>5. TypeOK'
  BY <1>2, <1>3 DEF IndInv, TypeOK
<1>6. QueueIsSound' /\ UnqueuedIsServed'
  BY DEF IndInv, QueueIsSound, UnqueuedIsServed, Queued
<1>7. CallsAreSound'
  BY <1>3 DEF IndInv, CallsAreSound, ReadPcs, Blocking
<1>8. AssertsHold'
  <2>1. owner_count' = RW_LOCK_WRITER_COUNT_BASE * writes'[t] + reads'[t] + 0
    BY <1>1, <1>2, <1>3 DEF RW_LOCK_WRITER_COUNT_BASE
  <2> QED BY <1>1, <1>3, <2>1 DEF IndInv, AssertsHold
<1>9. CountIsExact' /\ ActiveReadersExact' /\ PendingReadersExact'
  BY <1>4 DEF IndInv, CountIsExact, ActiveReadersExact, PendingReadersExact
<1>10. HolderIsAlone' /\ WritersHold'
  BY <1>1, <1>3, <1>4 DEF IndInv, HolderIsAlone, WritersHold
<1> QED
  BY <1>4, <1>5, <1>6, <1>7, <1>8, <1>9, <1>10
     DEF IndInv, HeadIsWriter, UnlockingIsClaimed, DestroyedIsEmpty, WaitersHaveWaker

\* A writer takes a lock that nobody is in for.
LEMMA WriteFreeStep ==
    ASSUME IndInv, alive, NEW t \in Threads, pc[t] = "idle", count = 0,
           holder' = t, count' = count + RW_LOCK_WRITER_COUNT_BASE,
           owner_count' = RW_LOCK_WRITER_COUNT_BASE,
           writes' = [writes EXCEPT ![t] = 1],
           UNCHANGED <<active_readers, pending_readers, waiters, alive, wait, cleared, pc, reads>>
    PROVE  IndInv'
<1>1. Writers = {} /\ ReadLocks = {} /\ Slow = {} /\ Coming = {}
  BY AliveFacts
<1>2. holder = NoThread /\ waiters = <<>> /\ ToSet(waiters) = {}
  BY <1>1, WriterFacts, EmptyQueue
<1>3. Woken = {} /\ Unlocking = {}
  BY <1>1 DEF Woken, IndInv, UnlockingIsClaimed
<1>4. /\ Writers' = Writers \cup {t} /\ Slow' = Slow /\ Coming' = Coming /\ Woken' = Woken
      /\ ReadLocks' = ReadLocks /\ Unlocking' = Unlocking
  BY DEF Writers, Slow, Coming, Woken, Unlocking, ReadLocks, IndInv, TypeOK
<1>5. Cardinality(Writers') = Cardinality(Writers) + 1
  BY <1>1, <1>4, SetTypes, CountThreads
<1>6. count' \in Nat /\ CountIsExact' /\ Claimed(count')
  <2>1. count' = RW_LOCK_WRITER_COUNT_BASE * Cardinality(Writers')
                 + Cardinality(ReadLocks') + Cardinality(Slow') + Cardinality(Coming')
    BY <1>4, <1>5, AliveFacts DEF RW_LOCK_WRITER_COUNT_BASE
  <2> QED BY <1>4, <2>1, CountNext
<1>7. \A u \in Threads : reads[u] = 0 /\ writes[u] = 0
  <2>1. ASSUME NEW u \in Threads, reads[u] # 0 PROVE FALSE
    <3>1. <<u, 1>> \in ReadLocks
      BY <2>1, RWLockAssumption DEF ReadLocks, IndInv, TypeOK
    <3> QED BY <1>1, <3>1
  <2> QED BY <1>2, <2>1, WriterFacts
<1>8. writes' \in [Threads -> 0 .. MaxNest] /\ writes'[t] = 1
      /\ \A u \in Threads : u # t => writes'[u] = 0
  BY <1>7, RWLockAssumption DEF IndInv, TypeOK
<1>9. active_readers = 0 /\ pending_readers = 0
  <2>1. ~Claimed(count)
    BY <1>1, AliveFacts
  <2>2. Cardinality(Slow) = 0
    BY <1>1, FS_EmptySet
  <2> QED BY <1>2, <2>1, <2>2 DEF IndInv, ActiveReadersExact, PendingReadersExact
<1>10. TypeOK'
  BY <1>6, <1>8 DEF IndInv, TypeOK, RW_LOCK_WRITER_COUNT_BASE
<1>11. QueueIsSound' /\ UnqueuedIsServed'
  <2>1. QueueIsSound'
    BY <1>2 DEF IndInv, QueueIsSound
  <2>2. \A u \in Threads : pc[u] # "write_block" /\ pc[u] \notin ReadPcs \cup {"crashed"}
    BY <1>1 DEF Writers, Coming, ReadPcs
  <2> QED BY <2>1, <2>2 DEF UnqueuedIsServed, ReadPcs
<1>12. CallsAreSound'
  BY <1>8 DEF IndInv, CallsAreSound, ReadPcs, Blocking
<1>13. AssertsHold'
  <2>1. owner_count' = RW_LOCK_WRITER_COUNT_BASE * writes'[t] + reads'[t] + 0
    BY <1>7, <1>8 DEF RW_LOCK_WRITER_COUNT_BASE
  <2>2. \A u \in Threads : pc'[u] # "unlock_slow"
    BY <1>3 DEF Unlocking
  <2> QED BY <1>8, <2>1, <2>2 DEF AssertsHold
<1>14. HolderIsAlone'
  BY <1>3, <1>4, <1>7, <1>8, <1>9 DEF HolderIsAlone, Unlocking
<1>15. ActiveReadersExact'
  BY RWLockAssumption DEF ActiveReadersExact
<1>16. PendingReadersExact'
  <2>1. Cardinality(Slow') = 0
    BY <1>1, <1>4, FS_EmptySet
  <2> QED BY <1>6, <1>9, <2>1 DEF PendingReadersExact
<1> QED
  BY <1>2, <1>3, <1>4, <1>6, <1>8, <1>10, <1>11, <1>12, <1>13, <1>14, <1>15, <1>16
     DEF IndInv, WritersHold, HeadIsWriter, UnlockingIsClaimed, DestroyedIsEmpty, WaitersHaveWaker

\* A writer that finds the lock in use queues, and takes note of the readers it
\* has to wait for.
LEMMA WriteWaitStep ==
    ASSUME IndInv, alive, NEW t \in Threads, pc[t] = "idle", holder # t, reads[t] = 0, count # 0,
           count' = count + RW_LOCK_WRITER_COUNT_BASE,
           active_readers' = IF Claimed(count) THEN active_readers ELSE count - pending_readers,
           Enqueue(t, TRUE, "write_block"),
           UNCHANGED <<holder, owner_count, writes, pending_readers, alive, reads>>
    PROVE  IndInv'
<1>1. /\ waiters' \in Seq(Waiter) /\ waiters' # <<>>
      /\ waiters'[1] = IF waiters = <<>> THEN [thread |-> t, writer |-> TRUE] ELSE waiters[1]
      /\ wait' = [wait EXCEPT ![t] = Blocked] /\ wait' \in [Threads -> Statuses]
      /\ cleared' = cleared \ {t}
      /\ pc' = [pc EXCEPT ![t] = "write_block"]
      /\ \A u : Queued(u)' <=> Queued(u) \/ u = t
      /\ QueueIsSound'
  <2>1. "write_block" \in Blocking /\ TRUE \in BOOLEAN /\ pc[t] \notin ReadPcs \cup {"write_block"}
    BY DEF Blocking, ReadPcs
  <2> QED BY <2>1, EnqueueFacts
<1>2. writes[t] = 0
  BY DEF IndInv, WritersHold, TypeOK
<1>3. /\ Writers' = Writers \cup {t} /\ t \notin Writers
      /\ Slow' = Slow /\ Coming' = Coming /\ ReadLocks' = ReadLocks
      /\ Woken' = Woken /\ Unlocking' = Unlocking
  BY <1>1, <1>2 DEF Writers, Slow, Coming, Woken, Unlocking, ReadLocks, IndInv, TypeOK
<1>4. Cardinality(Writers') = Cardinality(Writers) + 1
  BY <1>3, SetTypes, CountThreads
<1>5. count' \in Nat /\ CountIsExact' /\ Claimed(count')
  <2>1. count' = RW_LOCK_WRITER_COUNT_BASE * Cardinality(Writers')
                 + Cardinality(ReadLocks') + Cardinality(Slow') + Cardinality(Coming')
    BY <1>3, <1>4, AliveFacts DEF RW_LOCK_WRITER_COUNT_BASE
  <2> QED BY <1>3, <2>1, CountNext
<1>6. ASSUME ~Claimed(count)
      PROVE  /\ holder = NoThread
             /\ active_readers' = Cardinality(ReadLocks) + Cardinality(Woken)
                                  + Cardinality(Unlocking)
             /\ active_readers' > 0 \/ pending_readers > 0
             /\ Unlocking = {}
  <2>1. Writers = {} /\ holder = NoThread
    BY <1>6, AliveFacts, WriterFacts
  <2>2. ToSet(waiters) = {}
    BY <2>1, WriterFacts, EmptyQueue
  <2>3. Woken = Coming
    BY <2>2, QueuedFacts DEF IndInv, UnqueuedIsServed, Woken, Coming, ReadPcs
  <2>4. Unlocking = {} /\ Cardinality(Unlocking) = 0
    BY <2>1, FS_EmptySet DEF IndInv, UnlockingIsClaimed
  <2>5. pending_readers = Cardinality(Slow)
    BY <1>6 DEF IndInv, PendingReadersExact
  <2>6. Cardinality(Writers) = 0
    BY <2>1, FS_EmptySet
  <2>7. count = Cardinality(ReadLocks) + Cardinality(Slow) + Cardinality(Coming)
    BY <2>6, AliveFacts DEF RW_LOCK_WRITER_COUNT_BASE
  <2> QED BY <1>6, <2>1, <2>3, <2>4, <2>5, <2>7, AliveFacts
<1>7. active_readers' \in Nat
  BY <1>6, AliveFacts DEF IndInv, TypeOK
<1>8. TypeOK'
  BY <1>1, <1>5, <1>7 DEF IndInv, TypeOK, Blocking
<1>9. UnqueuedIsServed'
  BY <1>1 DEF IndInv, TypeOK, UnqueuedIsServed, ReadPcs
<1>10. CallsAreSound'
  BY <1>1, <1>2 DEF IndInv, TypeOK, CallsAreSound, Blocking, ReadPcs
<1>11. ActiveReadersExact'
  BY <1>3, <1>5, <1>6 DEF IndInv, ActiveReadersExact
<1>12. PendingReadersExact'
  BY <1>3, <1>5 DEF IndInv, PendingReadersExact
<1>13. AssertsHold'
  <2>1. ASSUME NEW u \in Threads, alive', writes'[u] > 0
        PROVE  /\ holder' = u
               /\ owner_count' = RW_LOCK_WRITER_COUNT_BASE * writes'[u] + reads'[u]
                                 + (IF pc'[u] = "unlock_slow" THEN 1 ELSE 0)
    <3>1. u # t
      BY <1>2, <2>1 DEF IndInv, TypeOK
    <3> QED BY <1>1, <2>1, <3>1 DEF IndInv, TypeOK, AssertsHold
  <2>2. ASSUME NEW u \in Threads, pc'[u] = "unlock_slow", holder' # u
        PROVE  active_readers' > 0
    <3>1. pc[u] = "unlock_slow" /\ u \in Unlocking
      BY <1>1, <2>2 DEF Unlocking, IndInv, TypeOK
    <3>2. Claimed(count)
      BY <1>6, <3>1
    <3> QED BY <2>2, <3>1, <3>2 DEF IndInv, AssertsHold
  <2> QED BY <2>1, <2>2 DEF AssertsHold
<1>14. HolderIsAlone'
  <2>1. ASSUME holder # NoThread PROVE HolderIsAlone'
    <3>1. Claimed(count) /\ active_readers' = active_readers
      BY <1>6, <2>1
    <3> QED BY <1>1, <1>3, <2>1, <3>1 DEF IndInv, TypeOK, HolderIsAlone
  <2> QED BY <2>1 DEF HolderIsAlone
<1>15. HeadIsWriter'
  BY <1>1 DEF IndInv, HeadIsWriter
<1>16. WaitersHaveWaker'
  <2>1. CASE Claimed(count)
    <3>1. holder = NoThread => waiters # <<>>
      BY <2>1, AliveFacts, WriterFacts
    <3> QED BY <2>1, <3>1 DEF IndInv, WaitersHaveWaker
  <2>2. CASE ~Claimed(count)
    BY <1>6, <2>2 DEF WaitersHaveWaker
  <2> QED BY <2>1, <2>2
<1> QED
  BY <1>1, <1>3, <1>5, <1>8, <1>9, <1>10, <1>11, <1>12, <1>13, <1>14, <1>15, <1>16
     DEF IndInv, WritersHold, UnlockingIsClaimed, DestroyedIsEmpty

\* A writer that was let in returns: it is the holder already.
LEMMA WriteReturnStep ==
    ASSUME IndInv, alive, NEW t \in Threads, WriteBlockReturn(t)
    PROVE  IndInv'
<1>1. pc[t] = "write_block" /\ wait[t] # Blocked
  BY DEF WriteBlockReturn, thread_is_blocked
<1>2. ~Queued(t)
  <2>1. ASSUME NEW w \in ToSet(waiters), w.thread = t PROVE FALSE
    BY <1>1, <2>1 DEF IndInv, QueueIsSound
  <2> QED BY <2>1, QueuedFacts
<1>3. holder = t /\ wait[t] = "B_OK" /\ holder # NoThread
  BY <1>1, <1>2, RWLockAssumption DEF IndInv, UnqueuedIsServed
<1>4. /\ owner_count' = RW_LOCK_WRITER_COUNT_BASE
      /\ writes' = [writes EXCEPT ![t] = 1]
      /\ pc' = [pc EXCEPT ![t] = "idle"]
      /\ UNCHANGED <<holder, count, active_readers, pending_readers, waiters, alive, wait,
                     cleared, reads>>
  BY <1>3 DEF WriteBlockReturn, Goto
<1>5. /\ reads[t] = 0 /\ writes'[t] = 1 /\ writes' \in [Threads -> 0 .. MaxNest]
      /\ \A u \in Threads : u # t => writes'[u] = 0
  BY <1>1, <1>3, <1>4, RWLockAssumption
     DEF IndInv, TypeOK, CallsAreSound, WritersHold, Blocking
<1>6. /\ Writers' = Writers /\ Slow' = Slow /\ Coming' = Coming /\ ReadLocks' = ReadLocks
      /\ Woken' = Woken /\ Unlocking' = Unlocking
  BY <1>1, <1>4, <1>5 DEF Writers, Slow, Coming, Woken, Unlocking, ReadLocks, IndInv, TypeOK
<1>7. TypeOK'
  BY <1>4, <1>5 DEF IndInv, TypeOK, RW_LOCK_WRITER_COUNT_BASE
<1>8. QueueIsSound'
  <2>1. \A w \in ToSet(waiters) : w.thread # t
    BY <1>2, QueuedFacts
  <2>2. \A w \in ToSet(waiters) : w.thread \in Threads
    BY WaiterTypes DEF IndInv
  <2> QED BY <1>4, <2>1, <2>2 DEF IndInv, TypeOK, QueueIsSound
<1>9. UnqueuedIsServed'
  BY <1>4 DEF IndInv, TypeOK, UnqueuedIsServed, Queued, ReadPcs
<1>10. CallsAreSound'
  BY <1>4, <1>5 DEF IndInv, TypeOK, CallsAreSound, Blocking, ReadPcs
<1>11. AssertsHold'
  <2>1. owner_count' = RW_LOCK_WRITER_COUNT_BASE * writes'[t] + reads'[t] + 0
    BY <1>4, <1>5 DEF RW_LOCK_WRITER_COUNT_BASE
  <2>2. pc'[t] = "idle" /\ \A u \in Threads : u # t => pc'[u] = pc[u]
    BY <1>4 DEF IndInv, TypeOK
  <2> QED BY <1>3, <1>4, <1>5, <2>1, <2>2 DEF IndInv, AssertsHold
<1>12. CountIsExact' /\ ActiveReadersExact' /\ PendingReadersExact'
  BY <1>4, <1>6 DEF IndInv, CountIsExact, ActiveReadersExact, PendingReadersExact
<1>13. HolderIsAlone' /\ WritersHold'
  BY <1>3, <1>4, <1>5, <1>6 DEF IndInv, TypeOK, HolderIsAlone, WritersHold
<1> QED
  BY <1>4, <1>6, <1>7, <1>8, <1>9, <1>10, <1>11, <1>12, <1>13
     DEF IndInv, HeadIsWriter, UnlockingIsClaimed, DestroyedIsEmpty, WaitersHaveWaker

-------------------------------------------------------------------------------
(* Letting waiters in. *)

\* What rw_lock_unblock() does to the queue and to the first n waiters.
LEMMA UnblockFacts ==
    ASSUME IndInv, NEW n \in 0 .. Len(waiters), NEW woken,
           \A u : u \in woken <=> \E i \in 1 .. n : u = waiters[i].thread,
           waiters' = SubSeq(waiters, n + 1, Len(waiters)),
           wait' = thread_unblock_all(wait, woken, "B_OK"),
           cleared' = cleared \cup woken,
           \A u \in Threads : pc[u] # "unlock_slow" => pc'[u] = pc[u]
    PROVE  /\ waiters' \in Seq(Waiter)
           /\ QueueIsSound'
           /\ ToSet(waiters') \subseteq ToSet(waiters)
           /\ n < Len(waiters) => waiters' # <<>> /\ waiters'[1] = waiters[n + 1]
           /\ n = Len(waiters) => waiters' = <<>>
           /\ \A u : Queued(u)' <=> Queued(u) /\ u \notin woken
           /\ woken \in SUBSET Threads /\ \A u \in woken : Queued(u)
           /\ Cardinality(woken) = n
           /\ wait' \in [Threads -> Statuses]
           /\ cleared' \in SUBSET Threads
           /\ \A u \in Threads \ woken : wait'[u] = wait[u]
           /\ \A u \in woken : wait[u] = Blocked => wait'[u] = "B_OK"
<1>1. /\ waiters \in Seq(Waiter) /\ IsInjective(waiters)
      /\ Len(waiters) \in Nat /\ DOMAIN waiters = 1 .. Len(waiters)
      /\ n \in Nat /\ n <= Len(waiters)
  BY DEF IndInv, TypeOK, QueueIsSound
<1>2. \A i \in 1 .. n : i \in DOMAIN waiters /\ waiters[i] \in ToSet(waiters)
  BY <1>1 DEF ToSet
<1>3. /\ waiters' \in Seq(Waiter) /\ IsInjective(waiters')
      /\ ToSet(waiters') = ToSet(waiters) \ {waiters[i] : i \in 1 .. n}
      /\ n < Len(waiters) => waiters' # <<>> /\ waiters'[1] = waiters[n + 1]
      /\ n = Len(waiters) => waiters' = <<>>
  BY <1>1, SuffixFacts
<1>4. woken \in SUBSET Threads /\ \A u \in woken : Queued(u)
  BY <1>2, WaiterTypes DEF IndInv, Queued
<1>5. ASSUME NEW w \in ToSet(waiters)
      PROVE  w.thread \in woken <=> w \in {waiters[i] : i \in 1 .. n}
  <2>1. ASSUME w.thread \in woken PROVE w \in {waiters[i] : i \in 1 .. n}
    <3>1. PICK i \in 1 .. n : w.thread = waiters[i].thread
      BY <2>1
    <3>2. w = waiters[i]
      BY <1>2, <3>1 DEF IndInv, QueueIsSound
    <3> QED BY <3>2
  <2>2. ASSUME w \in {waiters[i] : i \in 1 .. n} PROVE w.thread \in woken
    BY <2>2
  <2> QED BY <2>1, <2>2
<1>6. \A w \in ToSet(waiters') : w \in ToSet(waiters) /\ w.thread \notin woken
  BY <1>3, <1>5
<1>7. \A u : Queued(u)' <=> Queued(u) /\ u \notin woken
  BY <1>3, <1>5, <1>6, QueuedFacts
<1>8. Cardinality(woken) = n
  <2> DEFINE f == [i \in 1 .. n |-> waiters[i].thread]
  <2>1. \A i, j \in 1 .. n : f[i] = f[j] => i = j
    <3>1. ASSUME NEW i \in 1 .. n, NEW j \in 1 .. n, f[i] = f[j] PROVE i = j
      <4>1. waiters[i] = waiters[j]
        BY <1>2, <3>1 DEF IndInv, QueueIsSound
      <4>2. i \in DOMAIN waiters /\ j \in DOMAIN waiters
        BY <1>2
      <4>3. IsInjective(waiters)
        BY <1>1
      <4> HIDE DEF f
      <4> QED BY <4>1, <4>2, <4>3 DEF IsInjective
    <3> QED BY <3>1
  <2>2. \A u : u \in woken <=> \E i \in 1 .. n : u = f[i]
    OBVIOUS
  <2> HIDE DEF f
  <2>3. n \in Nat
    BY <1>1
  <2> QED BY <2>1, <2>2, <2>3, PrefixCount
<1>9. /\ wait' \in [Threads -> Statuses]
      /\ \A u \in Threads \ woken : wait'[u] = wait[u]
      /\ \A u \in woken : wait[u] = Blocked => wait'[u] = "B_OK"
  BY <1>4 DEF thread_unblock_all, thread_is_blocked, IndInv, TypeOK, Statuses, Results
<1>10. cleared' \in SUBSET Threads
  BY <1>4 DEF IndInv, TypeOK
<1>11. QueueIsSound'
  <2>1. \A w \in ToSet(waiters') : w.thread \in Threads /\ pc[w.thread] # "unlock_slow"
    BY <1>6, WaiterTypes DEF IndInv, QueueIsSound, ReadPcs
  <2>2. \A w \in ToSet(waiters') :
           /\ pc'[w.thread] = pc[w.thread] /\ wait'[w.thread] = wait[w.thread]
           /\ w.thread \notin cleared' <=> w.thread \notin cleared
    BY <1>6, <1>9, <2>1
  <2> QED BY <1>3, <1>6, <2>2 DEF IndInv, QueueIsSound
<1> QED BY <1>3, <1>4, <1>7, <1>8, <1>9, <1>10, <1>11

\* How many waiters rw_lock_unblock() lets in when there is no holder: all of
\* them if they are readers, the readers in front of the first writer, or the
\* writer at the head if the readers are gone.
LEMMA EligibleFacts ==
    ASSUME IndInv, NEW active \in Nat, NEW n, n = Eligible(NoThread, active)
    PROVE  /\ n \in 0 .. Len(waiters)
           /\ (\A w \in ToSet(waiters) : ~w.writer) => n = Len(waiters)
           /\ waiters # <<>> /\ waiters[1].writer =>
                 n = IF active > 0 \/ pending_readers > 0 THEN 0 ELSE 1
           /\ waiters # <<>> /\ ~waiters[1].writer /\ (\E w \in ToSet(waiters) : w.writer) =>
                 /\ n \in Nat /\ n > 0 /\ n < Len(waiters)
                 /\ n + 1 \in DOMAIN waiters /\ waiters[n + 1].writer
                 /\ \A i \in 1 .. n : ~waiters[i].writer
<1> DEFINE writers == {i \in DOMAIN waiters : waiters[i].writer}
<1>1. /\ waiters \in Seq(Waiter) /\ Len(waiters) \in Nat /\ DOMAIN waiters = 1 .. Len(waiters)
      /\ waiters # <<>> => 1 \in DOMAIN waiters
  BY DEF IndInv, TypeOK
<1>2. /\ writers = {} => n = Len(waiters)
      /\ 1 \in writers => n = IF active > 0 \/ pending_readers > 0 THEN 0 ELSE 1
      /\ writers # {} /\ 1 \notin writers => n = Min(writers) - 1
  BY DEF Eligible
<1>3. writers = {} <=> \A w \in ToSet(waiters) : ~w.writer
  BY DEF ToSet
<1>4. waiters # <<>> => (1 \in writers <=> waiters[1].writer)
  BY <1>1
<1>5. writers \in SUBSET (1 .. Len(waiters))
  BY <1>1
<1>6. ASSUME writers # {}, 1 \notin writers
      PROVE  /\ n \in Nat /\ n > 0 /\ n < Len(waiters)
             /\ n + 1 \in writers
             /\ \A i \in 1 .. n : i \notin writers
  <2>1. writers \in SUBSET Nat
    BY <1>1, <1>5
  <2> HIDE DEF writers
  <2>2. Min(writers) \in writers /\ \A y \in writers : Min(writers) <= y
    BY <1>6, <2>1, MinFacts
  <2>3. Min(writers) \in 1 .. Len(waiters) /\ Min(writers) # 1 /\ n = Min(writers) - 1
    BY <1>2, <1>5, <1>6, <2>2
  <2>4. n \in Nat /\ n > 0 /\ n < Len(waiters) /\ n + 1 = Min(writers)
    BY <1>1, <2>3
  <2> QED BY <2>2, <2>4
<1>7. CASE writers = {}
  BY <1>1, <1>2, <1>3, <1>4, <1>7
<1>8. CASE 1 \in writers
  BY <1>1, <1>2, <1>3, <1>4, <1>8
<1>9. CASE writers # {} /\ 1 \notin writers
  <2>1. /\ n \in Nat /\ n > 0 /\ n < Len(waiters)
        /\ n + 1 \in DOMAIN waiters /\ waiters[n + 1].writer
        /\ \A i \in 1 .. n : ~waiters[i].writer
    BY <1>1, <1>6, <1>9
  <2>2. n \in 0 .. Len(waiters)
    BY <1>1, <2>1
  <2> QED BY <1>3, <1>4, <1>9, <2>1, <2>2
<1> QED BY <1>7, <1>8, <1>9

\* The writer at the head gets a lock that nobody has: it is the holder from now
\* on, before it runs.
LEMMA LetWriterIn ==
    ASSUME IndInv, alive, alive', waiters # <<>>, waiters[1].writer,
           NEW t, t = waiters[1].thread,
           waiters' \in Seq(Waiter), QueueIsSound', \A u : Queued(u)' <=> Queued(u) /\ u # t,
           wait' \in [Threads -> Statuses], \A u \in Threads \ {t} : wait'[u] = wait[u],
           wait[t] = Blocked => wait'[t] = "B_OK",
           cleared' \in SUBSET Threads, cleared' = cleared \cup {t},
           holder' = t,
           active_readers' = 0, pending_readers = 0, UNCHANGED <<pending_readers, reads>>,
           owner_count' \in Nat,
           \A u \in Threads : reads[u] = 0,
           Woken = {},
           holder = NoThread \/ pc[holder] # "write_block",
           writes' \in [Threads -> 0 .. MaxNest], \A u \in Threads : writes'[u] = 0,
           pc' \in [Threads -> Blocking \cup
              {"idle", "read_slow", "timed_slow", "timed_out", "unlock_slow", "crashed"}],
           \A u \in Threads : pc[u] # "unlock_slow" => pc'[u] = pc[u],
           \A u \in Threads : pc[u] = "unlock_slow" => pc'[u] = "idle",
           count' \in Nat, CountIsExact', Claimed(count'), Coming' = Coming
    PROVE  IndInv'
<1>1. waiters[1] \in ToSet(waiters) /\ t \in Threads
  <2>1. waiters \in Seq(Waiter) /\ Len(waiters) \in Nat /\ Len(waiters) # 0
    BY DEF IndInv, TypeOK
  <2>2. waiters[1] \in ToSet(waiters)
    BY <2>1 DEF ToSet
  <2> QED BY <2>2, WaiterTypes DEF IndInv
<1>2. pc[t] = "write_block" /\ wait[t] = Blocked /\ t \notin Coming /\ t # NoThread
  BY <1>1, RWLockAssumption DEF IndInv, QueueIsSound, Coming
<1>3. pc'[t] = "write_block" /\ wait'[t] = "B_OK" /\ ~Queued(t)'
  BY <1>1, <1>2
<1>4. TypeOK'
  BY <1>1 DEF IndInv, TypeOK
<1>5. UnqueuedIsServed'
  <2>1. ASSUME NEW u \in Threads, u # t, ~Queued(u)',
               pc'[u] \in ReadPcs \cup {"write_block", "crashed"}
        PROVE  /\ pc[u] = pc'[u] /\ ~Queued(u) /\ wait'[u] = wait[u] /\ pc'[u] # "write_block"
    <3>1. ~Queued(u) /\ wait'[u] = wait[u]
      BY <2>1
    <3>2. pc[u] = pc'[u]
      BY <2>1 DEF ReadPcs
    <3> QED BY <2>1, <3>1, <3>2, RWLockAssumption
            DEF IndInv, UnqueuedIsServed, ReadPcs
  <2> QED BY <1>3, <2>1 DEF IndInv, UnqueuedIsServed, ReadPcs
<1>6. CallsAreSound'
  BY RWLockAssumption DEF CallsAreSound
<1>7. Woken' = {}
  BY <1>2 DEF Woken
<1>8. HolderIsAlone'
  BY <1>1, <1>3, <1>7 DEF HolderIsAlone
<1>9. holder' = t /\ holder' # NoThread
  BY <1>1, <1>2
<1>10. ActiveReadersExact' /\ HeadIsWriter' /\ WaitersHaveWaker'
  BY <1>9 DEF ActiveReadersExact, HeadIsWriter, WaitersHaveWaker
<1>11. PendingReadersExact'
  <2>1. Cardinality(Slow') \in Nat
    BY SetTypes, CountThreads
  <2> QED BY <2>1 DEF PendingReadersExact
<1>12. AssertsHold' /\ WritersHold'
  BY DEF AssertsHold, WritersHold
<1>13. UnlockingIsClaimed'
  BY DEF UnlockingIsClaimed, Unlocking
<1> QED
  BY <1>4, <1>5, <1>6, <1>8, <1>10, <1>11, <1>12, <1>13 DEF IndInv, DestroyedIsEmpty

\* rw_lock_unblock() without a holder, in terms of the number of waiters it wakes.
LEMMA UnblockUnfolded ==
    ASSUME IndInv, NEW c, NEW active \in Nat, rw_lock_unblock(NoThread, c, active),
           \A u \in Threads : pc[u] # "unlock_slow" => pc'[u] = pc[u]
    PROVE  \E n \in 0 .. Len(waiters), woken \in SUBSET Threads :
              /\ n = Eligible(NoThread, active)
              /\ woken = {waiters[i].thread : i \in 1 .. n}
              /\ cleared' = cleared \cup woken /\ cleared' \in SUBSET Threads
              /\ waiters' \in Seq(Waiter) /\ QueueIsSound'
              /\ n < Len(waiters) => waiters' # <<>> /\ waiters'[1] = waiters[n + 1]
              /\ n = Len(waiters) => waiters' = <<>>
              /\ n = 0 => waiters' = waiters /\ wait' = wait /\ woken = {}
              /\ n = 1 => woken = {waiters[1].thread}
              /\ \A u : Queued(u)' <=> Queued(u) /\ u \notin woken
              /\ \A u \in woken : Queued(u)
              /\ Cardinality(woken) = n
              /\ wait' \in [Threads -> Statuses]
              /\ \A u \in Threads \ woken : wait'[u] = wait[u]
              /\ \A u \in woken : wait[u] = Blocked => wait'[u] = "B_OK"
              /\ n > 0 /\ waiters[1].writer =>
                    holder' = waiters[1].thread /\ active_readers' = active
              /\ ~(n > 0 /\ waiters[1].writer) =>
                    /\ holder' = NoThread
                    /\ active_readers' = IF Claimed(c) THEN active + n ELSE active
<1>1. PICK n : n = Eligible(NoThread, active)
  OBVIOUS
<1>2. PICK woken : woken = {waiters[i].thread : i \in 1 .. n}
  OBVIOUS
<1>3. /\ waiters' = SubSeq(waiters, n + 1, Len(waiters))
      /\ wait' = thread_unblock_all(wait, woken, "B_OK")
      /\ cleared' = cleared \cup woken
      /\ holder' = IF n > 0 /\ Head(waiters).writer THEN Head(waiters).thread ELSE NoThread
      /\ active_readers' = IF ~(n > 0 /\ Head(waiters).writer) /\ Claimed(c)
                           THEN active + n ELSE active
  BY <1>1, <1>2 DEF rw_lock_unblock
<1>4. n \in 0 .. Len(waiters)
  BY <1>1, EligibleFacts
<1>5. waiters \in Seq(Waiter) /\ Len(waiters) \in Nat /\ n \in Nat /\ n <= Len(waiters)
  BY <1>4 DEF IndInv, TypeOK
<1>6. /\ waiters' \in Seq(Waiter) /\ QueueIsSound'
      /\ n < Len(waiters) => waiters' # <<>> /\ waiters'[1] = waiters[n + 1]
      /\ n = Len(waiters) => waiters' = <<>>
      /\ \A u : Queued(u)' <=> Queued(u) /\ u \notin woken
      /\ woken \in SUBSET Threads /\ \A u \in woken : Queued(u)
      /\ Cardinality(woken) = n
      /\ wait' \in [Threads -> Statuses]
      /\ cleared' \in SUBSET Threads
      /\ \A u \in Threads \ woken : wait'[u] = wait[u]
      /\ \A u \in woken : wait[u] = Blocked => wait'[u] = "B_OK"
  <2>1. \A u : u \in woken <=> \E i \in 1 .. n : u = waiters[i].thread
    BY <1>2
  <2> QED BY <1>3, <1>4, <2>1, UnblockFacts
<1>7. n > 0 => Head(waiters) = waiters[1]
  <2>1. n > 0 => waiters # <<>>
    BY <1>5
  <2>2. waiters # <<>> => Head(waiters) = waiters[1]
    BY <1>5, HeadTailProperties
  <2> QED BY <2>1, <2>2
<1>8. ASSUME n = 0 PROVE waiters' = waiters /\ wait' = wait /\ woken = {}
  <2>1. waiters' = waiters
    <3>1. n + 1 = 1
      BY <1>8
    <3> QED BY <1>3, <1>5, <3>1, SubSeqFull
  <2>2. woken = {}
    BY <1>2, <1>8
  <2>3. wait \in [Threads -> Statuses]
    BY DEF IndInv, TypeOK
  <2> QED BY <1>3, <2>1, <2>2, <2>3 DEF thread_unblock_all
<1>9. n = 1 => woken = {waiters[1].thread}
  <2>1. n = 1 => 1 .. n = {1}
    OBVIOUS
  <2> QED BY <1>2, <2>1
<1>10. n > 0 /\ waiters[1].writer => holder' = waiters[1].thread /\ active_readers' = active
  BY <1>3, <1>7
<1>11. ~(n > 0 /\ waiters[1].writer) =>
          /\ holder' = NoThread
          /\ active_readers' = IF Claimed(c) THEN active + n ELSE active
  BY <1>3, <1>7
<1>12. cleared' = cleared \cup woken
  BY <1>3
<1> QED BY <1>1, <1>2, <1>4, <1>6, <1>8, <1>9, <1>10, <1>11, <1>12

\* The last reader in front of a writer unlocks.
LEMMA UnlockLastStep ==
    ASSUME IndInv, alive, NEW t \in Threads, pc[t] = "unlock_slow", holder # t,
           active_readers = 1, rw_lock_unblock(holder, count, 0), Goto(t, "idle"),
           UNCHANGED <<count, owner_count, pending_readers, alive, reads, writes>>
    PROVE  IndInv'
<1>1. /\ holder = NoThread /\ Claimed(count) /\ waiters # <<>> /\ waiters[1].writer
      /\ active_readers = Cardinality(ReadLocks) + Cardinality(Woken) + Cardinality(Unlocking)
      /\ Cardinality(Unlocking \ {t}) = Cardinality(Unlocking) - 1
      /\ Cardinality(Unlocking \ {t}) \in Nat
  BY UnlockerFacts
<1>2. pc' = [pc EXCEPT ![t] = "idle"]
  BY DEF Goto
<1>3. \A u \in Threads : pc[u] # "unlock_slow" => pc'[u] = pc[u]
  BY <1>2 DEF IndInv, TypeOK
<1>4. rw_lock_unblock(NoThread, count, 0) /\ 0 \in Nat
  BY <1>1
<1>5. PICK n \in 0 .. Len(waiters), woken \in SUBSET Threads :
          /\ n = Eligible(NoThread, 0)
          /\ cleared' = cleared \cup woken /\ cleared' \in SUBSET Threads
          /\ waiters' \in Seq(Waiter) /\ QueueIsSound'
          /\ n = 0 => waiters' = waiters /\ wait' = wait /\ woken = {}
          /\ n = 1 => woken = {waiters[1].thread}
          /\ \A u : Queued(u)' <=> Queued(u) /\ u \notin woken
          /\ wait' \in [Threads -> Statuses]
          /\ \A u \in Threads \ woken : wait'[u] = wait[u]
          /\ \A u \in woken : wait[u] = Blocked => wait'[u] = "B_OK"
          /\ n > 0 /\ waiters[1].writer =>
                holder' = waiters[1].thread /\ active_readers' = 0
          /\ ~(n > 0 /\ waiters[1].writer) =>
                /\ holder' = NoThread
                /\ active_readers' = IF Claimed(count) THEN 0 + n ELSE 0
  BY <1>3, <1>4, UnblockUnfolded
<1>6. n = IF pending_readers > 0 THEN 0 ELSE 1
  BY <1>1, <1>4, <1>5, EligibleFacts
<1>7. CASE pending_readers > 0
  <2>1. n = 0
    BY <1>6, <1>7
  <2>2. /\ UNCHANGED <<waiters, wait, cleared, holder>>
        /\ active_readers' = active_readers - 1
    BY <1>1, <1>5, <2>1
  <2> QED BY <1>7, <2>2, UnlockNotLastStep
<1>8. CASE ~(pending_readers > 0)
  <2>1. PICK w : w = waiters[1].thread
    OBVIOUS
  <2>2. n = 1 /\ n > 0 /\ woken = {w} /\ holder' = w /\ active_readers' = 0
    BY <1>1, <1>5, <1>6, <1>8, <2>1
  <2>3. /\ \A u : Queued(u)' <=> Queued(u) /\ u # w
        /\ \A u \in Threads \ {w} : wait'[u] = wait[u]
        /\ wait[w] = Blocked => wait'[w] = "B_OK"
        /\ cleared' = cleared \cup {w}
    BY <1>5, <2>2
  <2>4. pending_readers = 0
    BY <1>8 DEF IndInv, TypeOK
  <2>5. /\ Cardinality(ReadLocks) = 0 /\ Cardinality(Woken) = 0
        /\ Cardinality(Unlocking \ {t}) = 0
    BY <1>1, AliveFacts
  <2>6. ReadLocks = {} /\ Woken = {} /\ Unlocking \ {t} = {}
    <3>1. Unlocking \ {t} \in SUBSET Threads
      BY SetTypes
    <3> QED BY <2>5, <3>1, SetTypes, CountThreads, CountLocks
  <2>7. \A u \in Threads : reads[u] = 0
    <3>1. ASSUME NEW u \in Threads, reads[u] # 0 PROVE FALSE
      <4>1. <<u, 1>> \in ReadLocks
        BY <3>1, RWLockAssumption DEF ReadLocks, IndInv, TypeOK
      <4> QED BY <2>6, <4>1
    <3> QED BY <3>1
  <2>8. \A u \in Threads : writes'[u] = 0
    BY <1>1, WriterFacts
  <2>9. /\ \A u \in Threads : pc[u] = "unlock_slow" => pc'[u] = "idle"
        /\ pc' \in [Threads -> Blocking \cup
              {"idle", "read_slow", "timed_slow", "timed_out", "unlock_slow", "crashed"}]
    BY <1>2, <2>6 DEF Unlocking, IndInv, TypeOK
  <2>10. /\ Writers' = Writers /\ Slow' = Slow /\ Coming' = Coming /\ ReadLocks' = ReadLocks
    BY <1>2 DEF Writers, Slow, Coming, ReadLocks, IndInv, TypeOK
  <2>11. count' \in Nat /\ CountIsExact' /\ Claimed(count')
    BY <1>1, <2>10 DEF IndInv, TypeOK, CountIsExact
  <2>12. writes' \in [Threads -> 0 .. MaxNest] /\ owner_count' \in Nat
    BY DEF IndInv, TypeOK
  <2>13. alive' /\ waiters' \in Seq(Waiter) /\ QueueIsSound' /\ wait' \in [Threads -> Statuses]
         /\ cleared' \in SUBSET Threads
    BY <1>5
  <2> QED
    BY <1>1, <1>3, <2>1, <2>2, <2>3, <2>4, <2>6, <2>7, <2>8, <2>9, <2>10, <2>11, <2>12, <2>13,
       LetWriterIn
<1> QED BY <1>7, <1>8

-------------------------------------------------------------------------------
(* The owner gives up its last write lock. *)

\* What it leaves behind: the count without it, its own read locks and no others,
\* and a queue in which everybody who waits still is.
LEMMA LastUnlockFacts ==
    ASSUME IndInv, alive, NEW t \in Threads, pc[t] = "idle", writes[t] > 0,
           owner_count < 2 * RW_LOCK_WRITER_COUNT_BASE,
           count' = CountWithoutWriter, writes' = [writes EXCEPT ![t] = @ - 1],
           UNCHANGED <<alive, pc, reads>>
    PROVE  /\ holder = t /\ holder # NoThread
           /\ active_readers = 0 /\ pending_readers = 0 /\ Woken = {} /\ Unlocking = {}
           /\ \A u \in Threads : u # t => reads[u] = 0
           /\ reads[t] \in Nat /\ OwnReads = reads[t] /\ Cardinality(ReadLocks) = reads[t]
           /\ writes' \in [Threads -> 0 .. MaxNest] /\ \A u \in Threads : writes'[u] = 0
           /\ Slow' = Slow /\ Coming' = Coming /\ ReadLocks' = ReadLocks /\ Unlocking' = Unlocking
           /\ count' \in Nat /\ CountIsExact' /\ (Claimed(count') <=> Writers' # {})
           /\ count' = RW_LOCK_WRITER_COUNT_BASE * Cardinality(Writers')
                       + Cardinality(ReadLocks') + Cardinality(Slow') + Cardinality(Coming')
           /\ \A u \in Writers' : \E w \in ToSet(waiters) : w.thread = u /\ w.writer
           /\ \A w \in ToSet(waiters) : w.writer => w.thread \in Writers'
           /\ \A u \in Coming : Queued(u)
<1>1. /\ holder = t /\ holder # NoThread
      /\ reads[t] \in Nat /\ reads[t] < RW_LOCK_WRITER_COUNT_BASE
      /\ writes[t] \in Nat
      /\ owner_count = RW_LOCK_WRITER_COUNT_BASE * writes[t] + reads[t]
  BY OwnerFacts, RWLockAssumption
<1>2. writes[t] = 1 /\ OwnReads = reads[t]
  <2>1. writes[t] = 1
    BY <1>1 DEF RW_LOCK_WRITER_COUNT_BASE
  <2> QED BY <1>1, <2>1 DEF OwnReads, RW_LOCK_WRITER_COUNT_BASE
<1>3. /\ active_readers = 0 /\ pending_readers = 0 /\ Woken = {}
      /\ \A u \in Threads : u # t => reads[u] = 0 /\ pc[u] # "unlock_slow"
  BY <1>1 DEF IndInv, HolderIsAlone
<1>4. Unlocking = {}
  BY <1>3 DEF Unlocking
<1>5. /\ writes' \in [Threads -> 0 .. MaxNest]
      /\ \A u \in Threads : writes'[u] = 0 /\ (u # t => writes[u] = 0)
  BY <1>1, <1>2, RWLockAssumption DEF IndInv, TypeOK, WritersHold
<1>6. /\ Writers' = Writers \ {t} /\ t \in Writers
      /\ Slow' = Slow /\ Coming' = Coming /\ ReadLocks' = ReadLocks /\ Unlocking' = Unlocking
  BY <1>5 DEF Writers, Slow, Coming, ReadLocks, Unlocking
<1>7. Cardinality(Writers') = Cardinality(Writers) - 1
  BY <1>6, SetTypes, CountThreads
<1>8. count' = RW_LOCK_WRITER_COUNT_BASE * Cardinality(Writers')
               + Cardinality(ReadLocks') + Cardinality(Slow') + Cardinality(Coming')
  BY <1>6, <1>7, AliveFacts DEF CountWithoutWriter, RW_LOCK_WRITER_COUNT_BASE
<1>9. count' \in Nat /\ CountIsExact' /\ (Claimed(count') <=> Writers' # {})
  BY <1>8, CountNext
<1>10. Cardinality(ReadLocks) = reads[t]
  <2> DEFINE f == [i \in 1 .. reads[t] |-> <<t, i>>]
  <2>1. \A i, j \in 1 .. reads[t] : f[i] = f[j] => i = j
    OBVIOUS
  <2>2. ASSUME NEW p PROVE p \in ReadLocks <=> \E i \in 1 .. reads[t] : p = f[i]
    <3>1. ASSUME p \in ReadLocks PROVE \E i \in 1 .. reads[t] : p = f[i]
      <4>1. /\ p \in Threads \X (1 .. MaxNest + 1) /\ p[2] <= reads[p[1]]
        BY <3>1 DEF ReadLocks
      <4>2. p = <<p[1], p[2]>> /\ p[1] \in Threads /\ p[2] \in 1 .. MaxNest + 1
        BY <4>1
      <4>3. p[1] = t
        BY <1>3, <4>1, <4>2, RWLockAssumption
      <4> QED BY <1>1, <4>1, <4>2, <4>3, RWLockAssumption
    <3>2. ASSUME NEW i \in 1 .. reads[t], p = f[i] PROVE p \in ReadLocks
      BY <1>1, <3>2, RWLockAssumption DEF ReadLocks, IndInv, TypeOK
    <3> QED BY <3>1, <3>2
  <2> HIDE DEF f
  <2> QED BY <1>1, <2>1, <2>2, PrefixCount
<1>11. ASSUME NEW u \in Writers' PROVE \E w \in ToSet(waiters) : w.thread = u /\ w.writer
  <2>1. u \in Threads /\ u # t /\ pc[u] = "write_block"
    BY <1>5, <1>6 DEF Writers
  <2>2. Queued(u)
    BY <1>1, <2>1 DEF IndInv, UnqueuedIsServed
  <2>3. PICK w \in ToSet(waiters) : w.thread = u
    BY <2>2, QueuedFacts
  <2>4. w.writer
    BY <2>1, <2>3, WaiterTypes DEF IndInv, QueueIsSound, ReadPcs
  <2> QED BY <2>3, <2>4
<1>12. ASSUME NEW w \in ToSet(waiters), w.writer PROVE w.thread \in Writers'
  <2>1. w.thread \in Threads /\ pc[w.thread] = "write_block"
    BY <1>12, WaiterTypes DEF IndInv, QueueIsSound
  <2> QED BY <2>1 DEF Writers
<1>13. \A u \in Coming : Queued(u)
  BY <1>3 DEF IndInv, UnqueuedIsServed, Coming, Woken, ReadPcs
<1> QED
  BY <1>1, <1>2, <1>3, <1>4, <1>5, <1>6, <1>8, <1>9, <1>10, <1>11, <1>12, <1>13

\* Nobody has the write lock any more: the first n waiters, all of them readers,
\* are let in beside the owner's read locks.
LEMMA LetReadersIn ==
    ASSUME IndInv, alive, NEW t \in Threads, pc[t] = "idle", writes[t] > 0,
           owner_count < 2 * RW_LOCK_WRITER_COUNT_BASE,
           count' = CountWithoutWriter, writes' = [writes EXCEPT ![t] = @ - 1],
           UNCHANGED <<alive, pc, reads>>,
           owner_count' = 0, holder' = NoThread,
           NEW n \in Nat, NEW woken \in SUBSET Coming, Cardinality(woken) = n,
           waiters' \in Seq(Waiter), QueueIsSound',
           \A u : Queued(u)' <=> Queued(u) /\ u \notin woken,
           wait' \in [Threads -> Statuses], \A u \in Threads \ woken : wait'[u] = wait[u],
           \A u \in woken : wait[u] = Blocked => wait'[u] = "B_OK",
           cleared' = cleared \cup woken,
           active_readers' = IF Claimed(count') THEN reads[t] + n ELSE 0,
           pending_readers' = IF Claimed(count') THEN 0 ELSE Cardinality(Slow),
           waiters' # <<>> => waiters'[1].writer /\ Claimed(count') /\ reads[t] + n > 0
    PROVE  IndInv'
<1>1. /\ holder = t
      /\ Woken = {} /\ Unlocking = {}
      /\ \A u \in Threads : u # t => reads[u] = 0
      /\ reads[t] \in Nat /\ Cardinality(ReadLocks) = reads[t]
      /\ writes' \in [Threads -> 0 .. MaxNest] /\ \A u \in Threads : writes'[u] = 0
      /\ Slow' = Slow /\ Coming' = Coming /\ ReadLocks' = ReadLocks /\ Unlocking' = Unlocking
      /\ count' \in Nat /\ CountIsExact'
      /\ \A u \in Coming : Queued(u)
  BY LastUnlockFacts
<1>2. /\ Coming \in SUBSET Threads /\ cleared' \in SUBSET Threads
      /\ Cardinality(Slow) \in Nat /\ Cardinality(Unlocking') = 0
  BY <1>1, SetTypes, CountThreads, FS_EmptySet DEF IndInv, TypeOK
<1>3. Woken' = woken
  BY <1>1 DEF Woken
<1>4. TypeOK'
  <2>1. active_readers' \in Nat /\ pending_readers' \in Nat
    BY <1>1, <1>2
  <2> QED BY <1>1, <1>2, <2>1 DEF IndInv, TypeOK
<1>5. UnqueuedIsServed'
  <2>1. ASSUME NEW u \in Threads, ~Queued(u)', pc[u] = "write_block" PROVE FALSE
    <3>1. u \notin Coming /\ u # t
      BY <2>1 DEF Coming
    <3>2. ~Queued(u)
      BY <2>1, <3>1
    <3> QED BY <1>1, <2>1, <3>1, <3>2 DEF IndInv, UnqueuedIsServed
  <2>2. ASSUME NEW u \in Threads, ~Queued(u)', pc[u] \in ReadPcs \cup {"crashed"}
        PROVE  u \in cleared' /\ (pc[u] = "read_block" => wait'[u] = "B_OK")
    <3>1. u \in Coming
      BY <2>2 DEF Coming, ReadPcs
    <3>2. u \in woken /\ Queued(u)
      BY <1>1, <2>2, <3>1
    <3>3. pc[u] = "read_block" => wait[u] = Blocked
      BY <3>2, QueuedFacts DEF IndInv, QueueIsSound
    <3> QED BY <3>2, <3>3
  <2> QED BY <2>1, <2>2 DEF UnqueuedIsServed, ReadPcs
<1>6. CallsAreSound'
  <2>1. \A u \in Threads : pc[u] # "idle" => u # t /\ reads[u] = 0 /\ writes'[u] = 0
    BY <1>1
  <2> QED BY <2>1, RWLockAssumption DEF CallsAreSound, Blocking, ReadPcs
<1>7. ActiveReadersExact'
  BY <1>1, <1>2, <1>3 DEF ActiveReadersExact
<1>8. PendingReadersExact'
  BY <1>1, <1>2 DEF PendingReadersExact
<1>9. AssertsHold' /\ WritersHold' /\ UnlockingIsClaimed'
  BY <1>1 DEF AssertsHold, WritersHold, UnlockingIsClaimed, Unlocking
<1>10. HolderIsAlone' /\ HeadIsWriter'
  BY DEF HolderIsAlone, HeadIsWriter
<1>11. WaitersHaveWaker'
  BY DEF WaitersHaveWaker
<1> QED
  BY <1>1, <1>4, <1>5, <1>6, <1>7, <1>8, <1>9, <1>10, <1>11 DEF IndInv, DestroyedIsEmpty

\* All that the count has left is 0: nobody is queued.
LEMMA LastUnlockFree ==
    ASSUME IndInv, alive, NEW t \in Threads, pc[t] = "idle", writes[t] > 0,
           owner_count < 2 * RW_LOCK_WRITER_COUNT_BASE,
           count' = CountWithoutWriter, writes' = [writes EXCEPT ![t] = @ - 1],
           UNCHANGED <<alive, pc, reads>>,
           owner_count' = 0, count' = 0, holder' = NoThread,
           UNCHANGED <<active_readers, pending_readers, waiters, wait, cleared>>
    PROVE  IndInv'
<1>1. /\ active_readers = 0 /\ pending_readers = 0 /\ reads[t] \in Nat
      /\ Slow' = Slow /\ Coming' = Coming
      /\ (Claimed(count') <=> Writers' # {})
      /\ count' = RW_LOCK_WRITER_COUNT_BASE * Cardinality(Writers')
                  + Cardinality(ReadLocks') + Cardinality(Slow') + Cardinality(Coming')
      /\ \A w \in ToSet(waiters) : w.writer => w.thread \in Writers'
  BY LastUnlockFacts
<1>2. Writers' = {} /\ Slow = {} /\ Coming = {}
  BY <1>1, CountNext
<1>3. ToSet(waiters) = {}
  <2>1. ASSUME NEW w \in ToSet(waiters) PROVE FALSE
    <3>1. w.thread \in Threads /\ ~w.writer
      BY <1>1, <1>2, WaiterTypes DEF IndInv
    <3>2. w.thread \in Coming
      BY <3>1 DEF IndInv, QueueIsSound, Coming, ReadPcs
    <3> QED BY <1>2, <3>2
  <2> QED BY <2>1
<1>4. waiters = <<>>
  BY <1>3, QueueMembers DEF IndInv, TypeOK
<1>5. PICK woken : woken = {}
  OBVIOUS
<1>6. Cardinality(woken) = 0 /\ Cardinality(Slow) = 0 /\ 0 \in Nat /\ ~Claimed(count')
  BY <1>1, <1>2, <1>5, FS_EmptySet
<1>7. /\ waiters' \in Seq(Waiter) /\ QueueIsSound' /\ wait' \in [Threads -> Statuses]
      /\ woken \in SUBSET Coming /\ waiters' = <<>>
      /\ cleared' = cleared \cup woken
      /\ \A u : Queued(u)' <=> Queued(u) /\ u \notin woken
  BY <1>4, <1>5 DEF IndInv, TypeOK, QueueIsSound, Queued
<1>8. /\ \A u \in Threads \ woken : wait'[u] = wait[u]
      /\ \A u \in woken : wait[u] = Blocked => wait'[u] = "B_OK"
      /\ active_readers' = 0 /\ pending_readers' = Cardinality(Slow)
  BY <1>1, <1>5, <1>6
<1> QED BY <1>6, <1>7, <1>8, LetReadersIn

\* Writers are left in the count: the first of them waits for the owner's read
\* locks and for the readers that are let in before it, or is let in itself.
LEMMA LastUnlockToWriter ==
    ASSUME IndInv, alive, NEW t \in Threads, pc[t] = "idle", writes[t] > 0,
           owner_count < 2 * RW_LOCK_WRITER_COUNT_BASE,
           count' = CountWithoutWriter, writes' = [writes EXCEPT ![t] = @ - 1],
           UNCHANGED <<alive, pc, reads>>,
           owner_count' = 0, Claimed(count'),
           rw_lock_unblock(NoThread, count', OwnReads), UNCHANGED pending_readers
    PROVE  IndInv'
<1>1. /\ holder = t /\ holder # NoThread
      /\ active_readers = 0 /\ pending_readers = 0 /\ Woken = {} /\ Unlocking = {}
      /\ \A u \in Threads : u # t => reads[u] = 0
      /\ reads[t] \in Nat /\ OwnReads = reads[t]
      /\ writes' \in [Threads -> 0 .. MaxNest] /\ \A u \in Threads : writes'[u] = 0
      /\ Coming' = Coming
      /\ count' \in Nat /\ CountIsExact' /\ Writers' # {}
      /\ \A u \in Writers' : \E w \in ToSet(waiters) : w.thread = u /\ w.writer
  BY LastUnlockFacts
<1>2. \E w \in ToSet(waiters) : w.writer
  BY <1>1
<1>3. waiters # <<>>
  BY <1>2, QueueMembers DEF IndInv, TypeOK
<1>4. rw_lock_unblock(NoThread, count', reads[t])
  BY <1>1
<1>5. PICK n \in 0 .. Len(waiters), woken \in SUBSET Threads :
          /\ n = Eligible(NoThread, reads[t])
          /\ woken = {waiters[i].thread : i \in 1 .. n}
          /\ cleared' = cleared \cup woken /\ cleared' \in SUBSET Threads
          /\ waiters' \in Seq(Waiter) /\ QueueIsSound'
          /\ n < Len(waiters) => waiters' # <<>> /\ waiters'[1] = waiters[n + 1]
          /\ n = 0 => waiters' = waiters /\ wait' = wait /\ woken = {}
          /\ n = 1 => woken = {waiters[1].thread}
          /\ \A u : Queued(u)' <=> Queued(u) /\ u \notin woken
          /\ Cardinality(woken) = n
          /\ wait' \in [Threads -> Statuses]
          /\ \A u \in Threads \ woken : wait'[u] = wait[u]
          /\ \A u \in woken : wait[u] = Blocked => wait'[u] = "B_OK"
          /\ n > 0 /\ waiters[1].writer =>
                holder' = waiters[1].thread /\ active_readers' = reads[t]
          /\ ~(n > 0 /\ waiters[1].writer) =>
                holder' = NoThread /\ active_readers' = reads[t] + n
  <2>1. \A u \in Threads : pc[u] # "unlock_slow" => pc'[u] = pc[u]
    OBVIOUS
  <2>2. reads[t] \in Nat
    BY <1>1
  <2> QED BY <1>4, <2>1, <2>2, UnblockUnfolded
<1>6. /\ waiters[1].writer => n = IF reads[t] > 0 THEN 0 ELSE 1
      /\ ~waiters[1].writer =>
            /\ n \in Nat /\ n > 0 /\ n < Len(waiters)
            /\ n + 1 \in DOMAIN waiters /\ waiters[n + 1].writer
            /\ \A i \in 1 .. n : ~waiters[i].writer
  <2>1. n = Eligible(NoThread, reads[t]) /\ reads[t] \in Nat
    BY <1>1, <1>5
  <2>2. /\ waiters # <<>> /\ waiters[1].writer =>
              n = IF reads[t] > 0 \/ pending_readers > 0 THEN 0 ELSE 1
        /\ waiters # <<>> /\ ~waiters[1].writer /\ (\E w \in ToSet(waiters) : w.writer) =>
              /\ n \in Nat /\ n > 0 /\ n < Len(waiters)
              /\ n + 1 \in DOMAIN waiters /\ waiters[n + 1].writer
              /\ \A i \in 1 .. n : ~waiters[i].writer
    BY <2>1, EligibleFacts
  <2>3. ~(pending_readers > 0)
    BY <1>1
  <2> QED BY <1>2, <1>3, <2>2, <2>3
<1>7. CASE waiters[1].writer /\ ~(reads[t] > 0)
  <2>1. PICK w : w = waiters[1].thread
    OBVIOUS
  <2>2. n = 1 /\ n > 0 /\ reads[t] = 0 /\ woken = {w} /\ holder' = w /\ active_readers' = 0
    <3>1. n = 1 /\ n > 0 /\ reads[t] = 0
      BY <1>1, <1>6, <1>7
    <3> QED BY <1>5, <1>7, <2>1, <3>1
  <2>3. /\ \A u : Queued(u)' <=> Queued(u) /\ u # w
        /\ \A u \in Threads \ {w} : wait'[u] = wait[u]
        /\ wait[w] = Blocked => wait'[w] = "B_OK"
        /\ cleared' = cleared \cup {w}
    BY <1>5, <2>2
  <2>4. \A u \in Threads : reads[u] = 0
    BY <1>1, <2>2
  <2>5. /\ \A u \in Threads : pc[u] # "unlock_slow" => pc'[u] = pc[u]
        /\ \A u \in Threads : pc[u] = "unlock_slow" => pc'[u] = "idle"
        /\ pc' \in [Threads -> Blocking \cup
              {"idle", "read_slow", "timed_slow", "timed_out", "unlock_slow", "crashed"}]
    BY <1>1 DEF Unlocking, IndInv, TypeOK
  <2>6. alive' /\ owner_count' \in Nat /\ pc[holder] # "write_block"
    BY <1>1
  <2>7. waiters' \in Seq(Waiter) /\ QueueIsSound' /\ wait' \in [Threads -> Statuses]
        /\ cleared' \in SUBSET Threads
    BY <1>5
  <2> QED
    BY <1>1, <1>3, <1>7, <2>1, <2>2, <2>3, <2>4, <2>5, <2>6, <2>7, LetWriterIn
<1>8. CASE ~waiters[1].writer \/ reads[t] > 0
  <2>1. /\ n \in Nat /\ n < Len(waiters) /\ reads[t] + n > 0
        /\ holder' = NoThread /\ active_readers' = reads[t] + n
        /\ waiters[n + 1].writer
        /\ \A i \in 1 .. n : ~waiters[i].writer
    <3>1. CASE waiters[1].writer
      <4>1. n = 0 /\ n + 1 = 1 /\ reads[t] + n > 0
        BY <1>1, <1>6, <1>8, <3>1
      <4>2. 0 < Len(waiters)
        BY <1>3 DEF IndInv, TypeOK
      <4> QED BY <1>5, <3>1, <4>1, <4>2
    <3>2. CASE ~waiters[1].writer
      <4>1. /\ n \in Nat /\ n > 0 /\ n < Len(waiters)
            /\ waiters[n + 1].writer
            /\ \A i \in 1 .. n : ~waiters[i].writer
        BY <1>6, <3>2
      <4>2. reads[t] + n > 0
        BY <1>1, <4>1
      <4>3. holder' = NoThread /\ active_readers' = reads[t] + n
        BY <1>5, <3>2
      <4> QED BY <4>1, <4>2, <4>3
    <3> QED BY <3>1, <3>2
  <2>2. woken \in SUBSET Coming
    <3>1. ASSUME NEW i \in 1 .. n PROVE waiters[i].thread \in Coming
      <4>1. waiters[i] \in ToSet(waiters)
        <5>1. waiters \in Seq(Waiter) /\ Len(waiters) \in Nat
          BY DEF IndInv, TypeOK
        <5>2. i \in 1 .. Len(waiters)
          BY <2>1, <5>1
        <5> QED BY <5>1, <5>2 DEF ToSet
      <4>2. waiters[i].thread \in Threads /\ pc[waiters[i].thread] \in ReadPcs
        BY <2>1, <4>1, WaiterTypes DEF IndInv, QueueIsSound
      <4> QED BY <4>2 DEF Coming, ReadPcs
    <3> QED BY <1>5, <3>1
  <2>3. waiters' # <<>> /\ waiters'[1].writer
    BY <1>5, <2>1
  <2>4. /\ cleared' = cleared \cup woken
        /\ waiters' \in Seq(Waiter) /\ QueueIsSound'
        /\ \A u : Queued(u)' <=> Queued(u) /\ u \notin woken
        /\ Cardinality(woken) = n
        /\ wait' \in [Threads -> Statuses]
        /\ \A u \in Threads \ woken : wait'[u] = wait[u]
        /\ \A u \in woken : wait[u] = Blocked => wait'[u] = "B_OK"
    BY <1>5
  <2>5. /\ active_readers' = IF Claimed(count') THEN reads[t] + n ELSE 0
        /\ pending_readers' = IF Claimed(count') THEN 0 ELSE Cardinality(Slow)
    BY <1>1, <2>1
  <2> QED BY <2>1, <2>2, <2>3, <2>4, <2>5, LetReadersIn
<1> QED BY <1>7, <1>8

\* Only readers are left in the count: all of them get the lock, the queued ones
\* now and the others when they come.
LEMMA LastUnlockToReaders ==
    ASSUME IndInv, alive, NEW t \in Threads, pc[t] = "idle", writes[t] > 0,
           owner_count < 2 * RW_LOCK_WRITER_COUNT_BASE,
           count' = CountWithoutWriter, writes' = [writes EXCEPT ![t] = @ - 1],
           UNCHANGED <<alive, pc, reads>>,
           owner_count' = 0, ~Claimed(count'),
           rw_lock_unblock(NoThread, count', active_readers), pending_readers' = StillComing
    PROVE  IndInv'
<1>1. /\ active_readers = 0
      /\ reads[t] \in Nat /\ OwnReads = reads[t] /\ Cardinality(ReadLocks) = reads[t]
      /\ Slow' = Slow /\ Coming' = Coming /\ ReadLocks' = ReadLocks
      /\ Writers' = {}
      /\ count' = RW_LOCK_WRITER_COUNT_BASE * Cardinality(Writers')
                  + Cardinality(ReadLocks') + Cardinality(Slow') + Cardinality(Coming')
      /\ \A w \in ToSet(waiters) : w.writer => w.thread \in Writers'
      /\ \A u \in Coming : Queued(u)
  BY LastUnlockFacts
<1>2. \A w \in ToSet(waiters) : ~w.writer
  BY <1>1
<1>3. PICK n \in 0 .. Len(waiters), woken \in SUBSET Threads :
          /\ n = Eligible(NoThread, active_readers)
          /\ cleared' = cleared \cup woken
          /\ waiters' \in Seq(Waiter) /\ QueueIsSound'
          /\ n = Len(waiters) => waiters' = <<>>
          /\ \A u : Queued(u)' <=> Queued(u) /\ u \notin woken
          /\ \A u \in woken : Queued(u)
          /\ Cardinality(woken) = n
          /\ wait' \in [Threads -> Statuses]
          /\ \A u \in Threads \ woken : wait'[u] = wait[u]
          /\ \A u \in woken : wait[u] = Blocked => wait'[u] = "B_OK"
          /\ ~(n > 0 /\ waiters[1].writer) =>
                /\ holder' = NoThread
                /\ active_readers' = IF Claimed(count') THEN active_readers + n ELSE active_readers
  <2>1. \A u \in Threads : pc[u] # "unlock_slow" => pc'[u] = pc[u]
    OBVIOUS
  <2>2. active_readers \in Nat
    BY <1>1
  <2> QED BY <2>1, <2>2, UnblockUnfolded
<1>4. n = Len(waiters) /\ waiters' = <<>>
  BY <1>1, <1>2, <1>3, EligibleFacts
<1>5. ToSet(waiters') = {}
  BY <1>4, EmptyQueue
<1>6. woken = Coming
  <2>1. \A u : Queued(u) => u \in woken
    BY <1>3, <1>5, QueuedFacts
  <2>2. ASSUME NEW u \in woken PROVE u \in Coming
    <3>1. PICK w \in ToSet(waiters) : w.thread = u
      BY <1>3, QueuedFacts
    <3>2. u \in Threads /\ pc[u] \in ReadPcs
      BY <1>2, <3>1, WaiterTypes DEF IndInv, QueueIsSound
    <3> QED BY <3>2 DEF Coming, ReadPcs
  <2> QED BY <1>1, <2>1, <2>2
<1>7. n \in Nat /\ holder' = NoThread /\ active_readers' = 0
  <2>1. waiters \in Seq(Waiter) /\ Len(waiters) \in Nat
    BY DEF IndInv, TypeOK
  <2>2. n > 0 => ~waiters[1].writer
    <3>1. n > 0 => waiters[1] \in ToSet(waiters)
      BY <1>4, <2>1 DEF ToSet
    <3> QED BY <1>2, <3>1
  <2> QED BY <1>1, <1>3, <1>4, <2>1, <2>2
<1>8. pending_readers' = Cardinality(Slow)
  <2>1. Cardinality(Writers') = 0
    BY <1>1, FS_EmptySet
  <2>2. CountWithoutWriter = reads[t] + Cardinality(Slow) + n
    BY <1>1, <1>3, <1>6, <2>1, AliveFacts DEF RW_LOCK_WRITER_COUNT_BASE
  <2>3. StillComing = CountWithoutWriter - reads[t] - n
    BY <1>1, <1>3 DEF StillComing
  <2> QED BY <1>1, <1>7, <2>2, <2>3, AliveFacts
<1>9. /\ cleared' = cleared \cup woken
      /\ waiters' \in Seq(Waiter) /\ QueueIsSound'
      /\ \A u : Queued(u)' <=> Queued(u) /\ u \notin woken
      /\ Cardinality(woken) = n
      /\ wait' \in [Threads -> Statuses]
      /\ \A u \in Threads \ woken : wait'[u] = wait[u]
      /\ \A u \in woken : wait[u] = Blocked => wait'[u] = "B_OK"
  BY <1>3
<1>10. woken \in SUBSET Coming
  BY <1>6
<1> QED BY <1>4, <1>7, <1>8, <1>9, <1>10, LetReadersIn

-------------------------------------------------------------------------------
(* The end of the lock, and its next life. *)

\* Whoever is still queued is told that the lock is gone.
LEMMA DestroyStep ==
    ASSUME IndInv, NEW t \in Threads, rw_lock_destroy(t)
    PROVE  IndInv'
<1> DEFINE queued == {w.thread : w \in ToSet(waiters)}
<1>1. /\ alive /\ pc[t] = "idle"
      /\ holder = t \/ (count = 0 /\ waiters = <<>>)
      /\ \A u \in Threads : pc[u] \notin {"read_slow", "timed_slow", "unlock_slow"}
      /\ ~alive' /\ alive' = FALSE
      /\ waiters' = <<>>
      /\ wait' = thread_unblock_all(wait, queued, "B_ERROR")
      /\ reads' = [reads EXCEPT ![t] = 0]
      /\ writes' = [writes EXCEPT ![t] = 0]
      /\ UNCHANGED <<holder, count, owner_count, active_readers, pending_readers, cleared, pc>>
  BY DEF rw_lock_destroy
<1>2. \A u \in Threads : u \in queued <=> Queued(u)
  BY QueuedFacts
<1> HIDE DEF queued
<1>3. waiters' \in Seq(Waiter) /\ IsInjective(waiters') /\ ToSet(waiters') = {}
  BY <1>1, EmptyQueue
<1>4. \A u \in Threads : u # t => reads[u] = 0 /\ writes[u] = 0
  <2>1. CASE holder = t
    BY <1>1, <2>1, RWLockAssumption DEF IndInv, HolderIsAlone, WritersHold, TypeOK
  <2>2. CASE count = 0
    <3>1. Writers = {} /\ ReadLocks = {}
      BY <1>1, <2>2, AliveFacts
    <3>2. ASSUME NEW u \in Threads, reads[u] # 0 PROVE FALSE
      <4>1. <<u, 1>> \in ReadLocks
        BY <3>2, RWLockAssumption DEF ReadLocks, IndInv, TypeOK
      <4> QED BY <3>1, <4>1
    <3>3. \A u \in Threads : writes[u] = 0
      BY <3>1 DEF Writers, IndInv, TypeOK
    <3> QED BY <3>2, <3>3
  <2> QED BY <1>1, <2>1, <2>2
<1>5. \A u \in Threads : reads'[u] = 0 /\ writes'[u] = 0
  BY <1>1, <1>4 DEF IndInv, TypeOK
<1>6. Woken = {} /\ Woken' = {}
  <2>1. CASE holder = t
    BY <1>1, <2>1, RWLockAssumption DEF IndInv, HolderIsAlone, Woken, Coming
  <2>2. CASE count = 0
    BY <1>1, <2>2, AliveFacts DEF Woken, Coming
  <2> QED BY <1>1, <2>1, <2>2
<1>7. \A u \in Threads : pc[u] \in Blocking => Queued(u)
  <2>1. ASSUME NEW u \in Threads, pc[u] \in Blocking, ~Queued(u) PROVE FALSE
    <3>1. CASE pc[u] = "write_block"
      <4>1. holder = u /\ u # t /\ u \in Writers
        BY <1>1, <2>1, <3>1 DEF IndInv, UnqueuedIsServed, Writers
      <4> QED BY <1>1, <4>1, AliveFacts
    <3>2. CASE pc[u] \in {"read_block", "timed_block"}
      <4>1. u \in Woken
        BY <1>1, <2>1, <3>2 DEF IndInv, UnqueuedIsServed, ReadPcs, Woken, Coming
      <4> QED BY <1>6, <4>1
    <3> QED BY <2>1, <3>1, <3>2 DEF Blocking
  <2> QED BY <2>1
<1>8. wait' \in [Threads -> Statuses]
      /\ \A u \in Threads : pc[u] \in Blocking => wait'[u] \notin {"B_OK", Blocked}
  <2>1. wait \in [Threads -> Statuses]
    BY DEF IndInv, TypeOK
  <2>2. \A u \in Threads :
           wait'[u] = IF u \in queued /\ wait[u] = Blocked THEN "B_ERROR" ELSE wait[u]
    BY <1>1, <2>1 DEF thread_unblock_all, thread_is_blocked
  <2>3. wait' \in [Threads -> Statuses]
    BY <1>1, <2>1 DEF thread_unblock_all, thread_is_blocked, Statuses, Results
  <2>4. ASSUME NEW u \in Threads, pc[u] \in Blocking PROVE wait'[u] \notin {"B_OK", Blocked}
    <3>1. u \in queued /\ Queued(u)
      BY <1>2, <1>7, <2>4
    <3>2. wait[u] # "B_OK"
      BY <2>4, <3>1, QueuedFacts DEF IndInv, QueueIsSound, Blocking, Blocked
    <3> QED BY <2>2, <3>1, <3>2 DEF Blocked
  <2> QED BY <2>3, <2>4
<1>9. TypeOK'
  <2>1. reads' \in [Threads -> 0 .. MaxNest + 1] /\ writes' \in [Threads -> 0 .. MaxNest]
    BY <1>1, RWLockAssumption DEF IndInv, TypeOK
  <2> QED BY <1>1, <1>3, <1>8, <2>1 DEF IndInv, TypeOK
<1>10. DestroyedIsEmpty'
  <2>1. \A u \in Threads : pc[u] \in Blocking \cup ReadPcs \cup {"idle", "crashed"}
    BY <1>1 DEF IndInv, TypeOK, ReadPcs, Blocking
  <2> QED BY <1>1, <1>5, <1>6, <1>8, <2>1 DEF DestroyedIsEmpty
<1>11. CallsAreSound'
  BY <1>5, RWLockAssumption DEF CallsAreSound
<1>12. AssertsHold'
  BY <1>1 DEF AssertsHold
<1>13. QueueIsSound'
  BY <1>3 DEF QueueIsSound
<1> QED
  BY <1>1, <1>9, <1>10, <1>11, <1>12, <1>13
     DEF IndInv, UnqueuedIsServed, HolderIsAlone, WritersHold, HeadIsWriter, UnlockingIsClaimed,
         CountIsExact, ActiveReadersExact, PendingReadersExact, WaitersHaveWaker

\* On a destroyed lock, threads only find their way out of their calls ...
LEMMA LeaveStep ==
    ASSUME IndInv, ~alive, NEW t \in Threads, NEW label \in {"idle", "timed_out", "crashed"},
           pc' = [pc EXCEPT ![t] = label],
           holder' \in Threads \cup {NoThread}, owner_count' \in Nat,
           UNCHANGED <<count, active_readers, pending_readers, waiters, alive, wait, cleared,
                       reads, writes>>,
           label = "idle" \/ t \notin cleared
    PROVE  IndInv'
<1>1. /\ waiters = <<>> /\ ToSet(waiters) = {} /\ Woken = {}
      /\ \A u \in Threads :
            /\ reads[u] = 0 /\ writes[u] = 0
            /\ pc[u] \in Blocking \cup ReadPcs \cup {"idle", "crashed"}
            /\ pc[u] \in Blocking => wait[u] \notin {"B_OK", Blocked}
  BY EmptyQueue DEF IndInv, DestroyedIsEmpty
<1>2. TypeOK'
  BY DEF IndInv, TypeOK
<1>3. Woken' = {}
  BY <1>1 DEF Woken, Coming, IndInv, TypeOK
<1>4. \A u \in Threads : pc'[u] = IF u = t THEN label ELSE pc[u]
  BY DEF IndInv, TypeOK
<1>5. DestroyedIsEmpty'
  BY <1>1, <1>3, <1>4 DEF DestroyedIsEmpty, ReadPcs, Blocking
<1>6. CallsAreSound' /\ QueueIsSound'
  BY <1>1, RWLockAssumption DEF CallsAreSound, IndInv, QueueIsSound
<1>7. AssertsHold'
  BY <1>1, <1>4 DEF AssertsHold, ReadPcs, Blocking
<1> QED
  BY <1>2, <1>5, <1>6, <1>7
     DEF IndInv, UnqueuedIsServed, HolderIsAlone, WritersHold, HeadIsWriter, UnlockingIsClaimed,
         CountIsExact, ActiveReadersExact, PendingReadersExact, WaitersHaveWaker

\* ... until it is put to use again.
LEMMA InitStep ==
    ASSUME IndInv, rw_lock_init
    PROVE  IndInv'
<1>1. /\ ~alive /\ alive' /\ alive' = TRUE
      /\ \A t \in Threads : pc[t] = "idle"
      /\ holder' = NoThread /\ count' = 0 /\ owner_count' = 0
      /\ active_readers' = 0 /\ pending_readers' = 0
      /\ UNCHANGED <<waiters, wait, cleared, pc, reads, writes>>
  BY DEF rw_lock_init
<1>2. waiters = <<>> /\ ToSet(waiters) = {} /\ \A u \in Threads : reads[u] = 0 /\ writes[u] = 0
  BY <1>1, EmptyQueue DEF IndInv, DestroyedIsEmpty
<1>3. TypeOK'
  BY <1>1 DEF IndInv, TypeOK
<1>4. /\ Writers' = {} /\ ReadLocks' = {} /\ Slow' = {} /\ Coming' = {} /\ Woken' = {}
      /\ Unlocking' = {}
  BY <1>1, <1>2 DEF Writers, ReadLocks, Slow, Coming, Woken, Unlocking
<1>5. CountIsExact' /\ ActiveReadersExact' /\ PendingReadersExact'
  BY <1>1, <1>4, FS_EmptySet
     DEF CountIsExact, ActiveReadersExact, PendingReadersExact, Claimed, RW_LOCK_WRITER_COUNT_BASE
<1>6. QueueIsSound' /\ CallsAreSound'
  BY <1>1, <1>2 DEF IndInv, QueueIsSound, CallsAreSound
<1>7. UnqueuedIsServed' /\ AssertsHold' /\ WritersHold'
  BY <1>1, <1>2 DEF UnqueuedIsServed, AssertsHold, WritersHold, ReadPcs
<1> QED
  BY <1>1, <1>2, <1>3, <1>4, <1>5, <1>6, <1>7
     DEF IndInv, HolderIsAlone, HeadIsWriter, UnlockingIsClaimed, DestroyedIsEmpty, WaitersHaveWaker

-------------------------------------------------------------------------------
\* Every step of a thread on a lock in use keeps the inductive invariant.
LEMMA AliveStep ==
    ASSUME IndInv, alive, NEW t \in Threads,
           \/ rw_lock_read_lock(t) \/ rw_lock_read_lock_with_timeout(t) \/ _rw_lock_read_lock(t)
           \/ ReadBlockReturn(t) \/ TimeOut(t) \/ TimedBlockReturn(t) \/ TimedDequeue(t)
           \/ rw_lock_read_unlock(t) \/ _rw_lock_read_unlock(t)
           \/ rw_lock_write_lock(t) \/ WriteBlockReturn(t) \/ _rw_lock_write_unlock(t)
           \/ rw_lock_destroy(t)
    PROVE  IndInv'
<1>1. CASE rw_lock_read_lock(t) \/ rw_lock_read_lock_with_timeout(t)
  BY <1>1, FastReadSlow, FastReadDone DEF rw_lock_read_lock, rw_lock_read_lock_with_timeout
<1>2. CASE _rw_lock_read_lock(t)
  <2>1. pc[t] \in {"read_slow", "timed_slow"} /\ UNCHANGED <<holder, count, alive, writes>>
    BY <1>2 DEF _rw_lock_read_lock
  <2>2. CASE ReadAsWriter(t)
    BY <2>1, <2>2, ReadAsWriterStep
  <2>3. CASE ReadAsPending(t)
    BY <2>1, <2>3, ReadAsPendingStep
  <2>4. CASE ReadWait(t, "read_block") \/ ReadWait(t, "timed_block")
    BY <2>1, <2>4, ReadWaitStep
  <2> QED BY <1>2, <2>2, <2>3, <2>4 DEF _rw_lock_read_lock
<1>3. CASE ReadBlockReturn(t)
  <2>1. pc[t] = "read_block" /\ wait[t] # Blocked /\ UNCHANGED <<lockVars, wait, cleared, writes>>
    BY <1>3 DEF ReadBlockReturn, thread_is_blocked
  <2>2. ~Queued(t)
    BY <2>1, QueuedFacts DEF IndInv, QueueIsSound
  <2>3. wait[t] = "B_OK"
    BY <2>1, <2>2 DEF IndInv, UnqueuedIsServed
  <2>4. ReturnReading(t)
    BY <1>3, <2>3 DEF ReadBlockReturn
  <2> QED BY <2>1, <2>2, <2>4, ReadReturnStep
<1>4. CASE TimeOut(t)
  BY <1>4, TimeOutStep
<1>5. CASE TimedBlockReturn(t)
  <2>1. /\ pc[t] = "timed_block" /\ wait[t] # Blocked
        /\ UNCHANGED <<lockVars, wait, cleared, writes>>
    BY <1>5 DEF TimedBlockReturn, thread_is_blocked
  <2>2. CASE (wait[t] = "B_OK" \/ t \in cleared) /\ ReturnReading(t)
    <3>1. ~Queued(t)
      BY <2>1, <2>2, QueuedFacts DEF IndInv, QueueIsSound
    <3> QED BY <2>1, <2>2, <3>1, ReadReturnStep
  <2>3. CASE wait[t] # "B_OK" /\ Goto(t, "timed_out") /\ UNCHANGED reads
    BY <2>1, <2>3, TimedOutStep
  <2> QED BY <1>5, <2>2, <2>3 DEF TimedBlockReturn
<1>6. CASE TimedDequeue(t)
  <2>1. /\ pc[t] = "timed_out"
        /\ UNCHANGED <<holder, owner_count, active_readers, pending_readers, alive,
                       wait, cleared, reads, writes>>
    BY <1>6 DEF TimedDequeue
  <2>2. ASSUME NEW i \in DOMAIN waiters, waiters[i].thread = t, waiters' = RemoveAt(waiters, i),
               count' = count - 1, Goto(t, "idle")
        PROVE  IndInv'
    BY <2>1, <2>2, DequeueStep
  <2>3. CASE ~Queued(t) /\ Goto(t, "crashed") /\ UNCHANGED <<waiters, count>>
    BY <2>1, <2>3, TimedOutStep DEF lockVars
  <2> QED BY <1>6, <2>2, <2>3 DEF TimedDequeue
<1>7. CASE rw_lock_read_unlock(t)
  BY <1>7, ReadUnlockStep
<1>8. CASE _rw_lock_read_unlock(t)
  <2>1. /\ pc[t] = "unlock_slow" /\ Goto(t, "idle")
        /\ UNCHANGED <<count, pending_readers, alive, reads, writes>>
    BY <1>8 DEF _rw_lock_read_unlock
  <2>2. CASE /\ holder = t
             /\ owner_count' = owner_count - 1
             /\ UNCHANGED <<holder, active_readers, waiters, wait, cleared>>
    BY <2>1, <2>2, UnlockAsWriterStep
  <2>3. CASE /\ holder # t /\ active_readers > 1
             /\ active_readers' = active_readers - 1
             /\ UNCHANGED <<holder, owner_count, waiters, wait, cleared>>
    BY <2>1, <2>3, UnlockNotLastStep
  <2>4. CASE /\ holder # t /\ active_readers = 1
             /\ rw_lock_unblock(holder, count, 0)
             /\ UNCHANGED owner_count
    BY <2>1, <2>4, UnlockLastStep
  <2> QED BY <1>8, <2>2, <2>3, <2>4 DEF _rw_lock_read_unlock
<1>9. CASE rw_lock_write_lock(t)
  <2>1. pc[t] = "idle" /\ UNCHANGED <<pending_readers, alive, reads>>
    BY <1>9 DEF rw_lock_write_lock
  <2>2. CASE /\ holder = t /\ writes[t] < MaxNest
             /\ owner_count' = owner_count + RW_LOCK_WRITER_COUNT_BASE
             /\ writes' = [writes EXCEPT ![t] = @ + 1]
             /\ UNCHANGED <<holder, count, active_readers, waiters, wait, cleared, pc>>
    <3>1. writes[t] > 0 /\ writes[t] \in 0 .. MaxNest /\ MaxNest \in Nat /\ owner_count \in Nat
      BY <2>1, <2>2, RWLockAssumption DEF IndInv, TypeOK, HolderIsAlone
    <3>2. writes[t] + 1 \in 1 .. MaxNest
      BY <2>2, <3>1
    <3>3. owner_count' = owner_count + RW_LOCK_WRITER_COUNT_BASE * 1
      BY <2>2 DEF RW_LOCK_WRITER_COUNT_BASE
    <3> QED BY <2>1, <2>2, <3>1, <3>2, <3>3, NestStep
  <2>3. CASE /\ holder # t /\ reads[t] = 0
             /\ count' = count + RW_LOCK_WRITER_COUNT_BASE
             /\ count = 0
             /\ holder' = t
             /\ owner_count' = RW_LOCK_WRITER_COUNT_BASE
             /\ writes' = [writes EXCEPT ![t] = 1]
             /\ UNCHANGED <<active_readers, waiters, wait, cleared, pc>>
    BY <2>1, <2>3, WriteFreeStep
  <2>4. CASE /\ holder # t /\ reads[t] = 0
             /\ count' = count + RW_LOCK_WRITER_COUNT_BASE
             /\ count # 0
             /\ active_readers' = IF Claimed(count) THEN active_readers ELSE count - pending_readers
             /\ Enqueue(t, TRUE, "write_block")
             /\ UNCHANGED <<holder, owner_count, writes>>
    BY <2>1, <2>4, WriteWaitStep
  <2> QED BY <1>9, <2>2, <2>3, <2>4 DEF rw_lock_write_lock
<1>10. CASE WriteBlockReturn(t)
  BY <1>10, WriteReturnStep
<1>11. CASE _rw_lock_write_unlock(t)
  <2>1. /\ pc[t] = "idle" /\ writes[t] > 0
        /\ writes' = [writes EXCEPT ![t] = @ - 1]
        /\ UNCHANGED <<alive, pc, reads>>
    BY <1>11 DEF _rw_lock_write_unlock
  <2>2. CASE /\ owner_count >= 2 * RW_LOCK_WRITER_COUNT_BASE
             /\ owner_count' = owner_count - RW_LOCK_WRITER_COUNT_BASE
             /\ UNCHANGED <<holder, count, active_readers, pending_readers, waiters, wait, cleared>>
    <3>1. /\ reads[t] \in Nat /\ reads[t] < RW_LOCK_WRITER_COUNT_BASE
          /\ writes[t] \in Nat /\ owner_count \in Nat
          /\ owner_count = RW_LOCK_WRITER_COUNT_BASE * writes[t] + reads[t]
      BY <2>1, OwnerFacts
    <3>2. writes[t] >= 2
      BY <2>2, <3>1 DEF RW_LOCK_WRITER_COUNT_BASE
    <3>3. writes[t] + -1 \in 1 .. MaxNest /\ writes' = [writes EXCEPT ![t] = @ + -1]
      <4>1. writes[t] \in 0 .. MaxNest /\ MaxNest \in Nat
        BY RWLockAssumption DEF IndInv, TypeOK
      <4>2. writes[t] + -1 \in 1 .. MaxNest /\ writes[t] - 1 = writes[t] + -1
        BY <3>2, <4>1
      <4> QED BY <2>1, <4>2
    <3>4. owner_count' = owner_count + RW_LOCK_WRITER_COUNT_BASE * (-1)
      BY <2>2, <3>1 DEF RW_LOCK_WRITER_COUNT_BASE
    <3> QED BY <2>1, <2>2, <3>3, <3>4, NestStep
  <2>3. CASE owner_count < 2 * RW_LOCK_WRITER_COUNT_BASE /\ LastWriteUnlock
    <3>1. owner_count' = 0 /\ count' = CountWithoutWriter
      BY <2>3 DEF LastWriteUnlock
    <3>2. CASE /\ count' = 0
               /\ holder' = NoThread
               /\ UNCHANGED <<active_readers, pending_readers, waiters, wait, cleared>>
      BY <2>1, <2>3, <3>1, <3>2, LastUnlockFree
    <3>3. CASE /\ Claimed(count')
               /\ rw_lock_unblock(NoThread, count', OwnReads)
               /\ UNCHANGED pending_readers
      BY <2>1, <2>3, <3>1, <3>3, LastUnlockToWriter
    <3>4. CASE /\ count' # 0 /\ ~Claimed(count')
               /\ rw_lock_unblock(NoThread, count', active_readers)
               /\ pending_readers' = StillComing
      BY <2>1, <2>3, <3>1, <3>4, LastUnlockToReaders
    <3> QED BY <2>3, <3>2, <3>3, <3>4 DEF LastWriteUnlock
  <2> QED BY <1>11, <2>2, <2>3 DEF _rw_lock_write_unlock
<1>12. CASE rw_lock_destroy(t)
  BY <1>12, DestroyStep
<1> QED
  BY <1>1, <1>2, <1>3, <1>4, <1>5, <1>6, <1>7, <1>8, <1>9, <1>10, <1>11, <1>12

\* So does every step of a thread on a destroyed one.
LEMMA DeadStep ==
    ASSUME IndInv, ~alive, NEW t \in Threads,
           \/ rw_lock_read_lock(t) \/ rw_lock_read_lock_with_timeout(t) \/ _rw_lock_read_lock(t)
           \/ ReadBlockReturn(t) \/ TimeOut(t) \/ TimedBlockReturn(t) \/ TimedDequeue(t)
           \/ rw_lock_read_unlock(t) \/ _rw_lock_read_unlock(t)
           \/ rw_lock_write_lock(t) \/ WriteBlockReturn(t) \/ _rw_lock_write_unlock(t)
           \/ rw_lock_destroy(t)
    PROVE  IndInv'
<1>1. /\ waiters = <<>> /\ Woken = {}
      /\ pc[t] \in Blocking \cup ReadPcs \cup {"idle", "crashed"}
      /\ pc[t] \in Blocking => wait[t] \notin {"B_OK", Blocked}
      /\ holder \in Threads \cup {NoThread} /\ owner_count \in Nat
  BY DEF IndInv, DestroyedIsEmpty, TypeOK
<1>2. CASE \/ rw_lock_read_lock(t) \/ rw_lock_read_lock_with_timeout(t) \/ rw_lock_read_unlock(t)
           \/ rw_lock_write_lock(t) \/ _rw_lock_write_unlock(t) \/ rw_lock_destroy(t)
  BY <1>2
     DEF rw_lock_read_lock, rw_lock_read_lock_with_timeout, FastReadLock, MayReadLock,
         rw_lock_read_unlock, rw_lock_write_lock, _rw_lock_write_unlock, rw_lock_destroy
<1>3. CASE _rw_lock_read_lock(t) \/ _rw_lock_read_unlock(t)
  BY <1>1, <1>3 DEF _rw_lock_read_lock, _rw_lock_read_unlock, Blocking, ReadPcs
<1>4. CASE ReadBlockReturn(t)
  <2>1. pc' = [pc EXCEPT ![t] = "idle"] /\ UNCHANGED <<lockVars, wait, cleared, reads, writes>>
    BY <1>1, <1>4 DEF ReadBlockReturn, Goto, Blocking
  <2> QED BY <1>1, <2>1, LeaveStep DEF lockVars
<1>5. CASE TimeOut(t)
  BY <1>1, <1>5 DEF TimeOut, thread_is_blocked, Blocking
<1>6. CASE TimedBlockReturn(t)
  <2>1. pc[t] = "timed_block" /\ t \notin cleared
    BY <1>1, <1>6 DEF TimedBlockReturn, Woken, Coming
  <2>2. pc' = [pc EXCEPT ![t] = "timed_out"] /\ UNCHANGED <<lockVars, wait, cleared, reads, writes>>
    BY <1>1, <1>6, <2>1 DEF TimedBlockReturn, Goto, Blocking
  <2> QED BY <1>1, <2>1, <2>2, LeaveStep DEF lockVars
<1>7. CASE TimedDequeue(t)
  <2>1. pc[t] = "timed_out" /\ t \notin cleared
    BY <1>1, <1>7 DEF TimedDequeue, Woken, Coming
  <2>2. DOMAIN waiters = {}
    BY <1>1
  <2>3. pc' = [pc EXCEPT ![t] = "crashed"] /\ UNCHANGED <<lockVars, wait, cleared, reads, writes>>
    BY <1>7, <2>2 DEF TimedDequeue, Goto, lockVars
  <2> QED BY <1>1, <2>1, <2>3, LeaveStep DEF lockVars
<1>8. CASE WriteBlockReturn(t)
  <2>1. /\ pc' = [pc EXCEPT ![t] = "idle"]
        /\ UNCHANGED <<lockVars, wait, cleared, reads, writes>>
    BY <1>1, <1>8 DEF WriteBlockReturn, Goto, Blocking, lockVars
  <2> QED BY <1>1, <2>1, LeaveStep DEF lockVars
<1> QED BY <1>2, <1>3, <1>4, <1>5, <1>6, <1>7, <1>8

\* The inductive invariant is one.
LEMMA IndInvNext == IndInv /\ [Next]_vars => IndInv'
<1> SUFFICES ASSUME IndInv, [Next]_vars PROVE IndInv'
  OBVIOUS
<1>1. CASE UNCHANGED vars
  BY <1>1
     DEF vars, lockVars, IndInv, TypeOK, QueueIsSound, UnqueuedIsServed, CallsAreSound,
         HolderIsAlone, WritersHold, HeadIsWriter, UnlockingIsClaimed, DestroyedIsEmpty,
         CountIsExact, ActiveReadersExact, PendingReadersExact, AssertsHold, WaitersHaveWaker,
         Queued, Writers, ReadLocks, Slow, Coming, Woken, Unlocking
<1>2. CASE rw_lock_init
  BY <1>2, InitStep
<1>3. ASSUME NEW t \in Threads,
             \/ rw_lock_read_lock(t) \/ rw_lock_read_lock_with_timeout(t) \/ _rw_lock_read_lock(t)
             \/ ReadBlockReturn(t) \/ TimeOut(t) \/ TimedBlockReturn(t) \/ TimedDequeue(t)
             \/ rw_lock_read_unlock(t) \/ _rw_lock_read_unlock(t)
             \/ rw_lock_write_lock(t) \/ WriteBlockReturn(t) \/ _rw_lock_write_unlock(t)
             \/ rw_lock_destroy(t)
      PROVE  IndInv'
  BY <1>3, AliveStep, DeadStep
<1> QED BY <1>1, <1>2, <1>3 DEF Next

LEMMA Invariance == Spec => []IndInv
<1>1. Init => IndInv
  BY IndInvInit
<1>2. IndInv /\ [Next]_vars => IndInv'
  BY IndInvNext
<1> QED BY <1>1, <1>2, PTL DEF Spec

-------------------------------------------------------------------------------
\* The count of the atomic fast paths, active_readers, pending_readers and
\* owner_count always mean what rw_lock_unblock() and the unlockers take them
\* for, and no ASSERT of lock.cpp fires, however many threads use the lock and
\* whatever they interleave, time out or destroy.
THEOREM ConsistentAlways == Spec => []Consistent
<1>1. IndInv => Consistent
  BY DEF IndInv, Consistent
<1> QED BY <1>1, Invariance, PTL

\* While a thread has the write lock, nobody else has a lock of any kind.
THEOREM Exclusion == Spec => []WriterIsAlone
<1>1. IndInv => WriterIsAlone
  <2> SUFFICES ASSUME IndInv, NEW t \in Threads, NEW u \in Threads, t # u, writes[t] > 0
               PROVE  reads[u] = 0 /\ writes[u] = 0
    BY DEF WriterIsAlone
  <2>1. alive
    BY DEF IndInv, DestroyedIsEmpty
  <2>2. holder = t /\ holder # NoThread
    BY <2>1, RWLockAssumption DEF IndInv, WritersHold
  <2>3. reads[u] = 0
    BY <2>1, <2>2 DEF IndInv, HolderIsAlone
  <2>4. writes[u] = 0
    BY <2>1, <2>2 DEF IndInv, WritersHold, TypeOK
  <2> QED BY <2>3, <2>4
<1> QED BY <1>1, Invariance, PTL

\* Whenever somebody is queued, a holder, a reader in front of a writer or a
\* promised reader is left whose unlock will look at the queue.
THEOREM NobodyIsForgotten == Spec => []WaitersHaveWaker
<1>1. IndInv => WaitersHaveWaker
  BY DEF IndInv
<1> QED BY <1>1, Invariance, PTL
===============================================================================
