----------------------------- MODULE MutexProofs ------------------------------
(***************************************************************************)
(* The safety of the release build's mutex for any number of threads.      *)
(***************************************************************************)
EXTENDS Mutex, QueueLemmas, FiniteSetTheorems

\* Who regards the lock as its own is in no call on it.
HeldIsIdle == \A t \in held : pc[t] = "idle"

\* A queued thread is blocked, or timed out and did not dequeue itself yet.
QueuedWaits ==
    \A t \in ToSet(waiters) :
        /\ pc[t] \in Waiting
        /\ pc[t] = "block" => wait[t] = Blocked
        /\ pc[t] = "timed_block" => wait[t] \in {Blocked, "B_TIMED_OUT"}

\* One thread at most owns the lock, whether it knows or not, and none while
\* the lock is up for the next one to come.
OneOwner ==
    ~orphaned =>
        /\ \A t, u \in Owners : t = u
        /\ released => Owners = {}

\* Nobody is in for a lock that nobody will pass on ...
ContendedIsOwned == ~orphaned /\ Contenders # {} => Owners # {} \/ released

\* ... and nobody goes into _mutex_unlock() without somebody to pass it on to.
UnlockerIsAwaited ==
    ~orphaned /\ (\E t \in Threads : pc[t] = "unlock_slow") => Contenders # {}

IndInv ==
    /\ TypeOK
    /\ CountIsExact
    /\ HeldIsIdle
    /\ QueuedWaits
    /\ OneOwner
    /\ ContendedIsOwned
    /\ UnlockerIsAwaited
    /\ ReleasedIsClaimed

-------------------------------------------------------------------------------
\* The initial state satisfies the inductive invariant.
LEMMA IndInvInit == Init => IndInv
<1> SUFFICES ASSUME Init PROVE IndInv
  OBVIOUS
<1>1. waiters \in Seq(Threads) /\ IsInjective(waiters) /\ ToSet(waiters) = {}
  BY EmptyQueue DEF Init
<1>2. TypeOK
  <2>1. "B_OK" \in Statuses
    BY DEF Statuses, Results
  <2>2. released \in BOOLEAN /\ orphaned \in BOOLEAN
    BY DEF Init
  <2>3. held \subseteq Threads /\ count \in Int
    BY DEF Init
  <2>4. /\ spin \in Threads \cup {Nobody}
        /\ wait \in [Threads -> Statuses]
    BY <2>1 DEF Init
  <2>5. /\ pc \in [Threads -> Waiting \cup Locking \cup {"idle", "switch", "unlock_slow"}]
    BY <2>1 DEF Init
  <2> QED BY <1>1, <2>1, <2>2, <2>3, <2>4, <2>5 DEF TypeOK
<1>3. Contenders = {} /\ Owners = {}
  BY DEF Init, Contenders, Owners, Locking, Waiting
<1>4. CountIsExact
  BY <1>3, FS_EmptySet DEF Init, CountIsExact
<1> QED
  BY <1>1, <1>2, <1>3, <1>4
     DEF Init, IndInv, HeldIsIdle, QueuedWaits, OneOwner, ContendedIsOwned,
         UnlockerIsAwaited, ReleasedIsClaimed

\* The contenders can be counted.
LEMMA ContendersFinite ==
    /\ IsFiniteSet(Contenders)
    /\ Cardinality(Contenders) \in Nat
    /\ Cardinality(Contenders) = 0 <=> Contenders = {}
<1>1. Contenders \in SUBSET Threads
  BY DEF Contenders
<1> QED
  BY <1>1, FS_Subset, FS_CardinalityType, FS_EmptySet, ReleaseMutexAssumption

\* A thread more, or less, is one more, or less, in the count.
LEMMA CountStep ==
    ASSUME TypeOK, CountIsExact, NEW t \in Threads
    PROVE  /\ t \notin Contenders /\ Contenders' = Contenders \cup {t} /\ count' = count - 1
              => CountIsExact'
           /\ t \in Contenders /\ Contenders' = Contenders \ {t} /\ count' = count + 1
              => CountIsExact'
           /\ UNCHANGED <<Contenders, count>> => CountIsExact'
<1>1. /\ Cardinality(Contenders) \in Nat
      /\ Cardinality(Contenders \cup {t}) =
            IF t \in Contenders THEN Cardinality(Contenders) ELSE Cardinality(Contenders) + 1
      /\ Cardinality(Contenders \ {t}) =
            IF t \in Contenders THEN Cardinality(Contenders) - 1 ELSE Cardinality(Contenders)
  BY ContendersFinite, FS_AddElement, FS_RemoveElement
<1>2. CASE t \notin Contenders /\ Contenders' = Contenders \cup {t} /\ count' = count - 1
  BY <1>1, <1>2 DEF CountIsExact
<1>3. CASE t \in Contenders /\ Contenders' = Contenders \ {t} /\ count' = count + 1
  BY <1>1, <1>3 DEF CountIsExact
<1>4. CASE UNCHANGED <<Contenders, count>>
  BY <1>4 DEF CountIsExact
<1> QED BY <1>2, <1>3, <1>4

\* The fast path knows from the count whether anybody is in.
LEMMA CountSign ==
    ASSUME CountIsExact
    PROVE  /\ count >= 0 <=> Contenders = {}
           /\ count = 0 <=> Contenders = {}
           /\ \A t \in Contenders : count >= -1 <=> Contenders = {t}
           /\ \A t \in Contenders : count = -1 <=> Contenders = {t}
<1>1. Cardinality(Contenders) \in Nat /\ (Cardinality(Contenders) = 0 <=> Contenders = {})
  BY ContendersFinite
<1>2. ASSUME NEW t \in Contenders
      PROVE  Cardinality(Contenders) = 1 <=> Contenders = {t}
  BY ContendersFinite, FS_Singleton
<1>3. ASSUME NEW t \in Contenders
      PROVE  Cardinality(Contenders) # 0
  BY <1>1
<1> QED BY <1>1, <1>2, <1>3 DEF CountIsExact

\* Nobody owns a lock that nobody is in for.
LEMMA FreeHasNoOwner ==
    ASSUME IndInv, Contenders = {}, ~orphaned
    PROVE  Owners = {} /\ ~released
BY DEF IndInv, Owners, Contenders, UnlockerIsAwaited, ReleasedIsClaimed

-------------------------------------------------------------------------------
\* A step is one of FifoLock, or does not concern owner and queue.
Stutter == Owners' = Owners /\ waiters' = waiters

Refines == orphaned' \/ Abstract!Next \/ Stutter

\* The one owner is the owner FifoLock knows.
LEMMA OwnerIs ==
    /\ Owners = {} => Owner = Nobody
    /\ Owners' = {} => Owner' = Nobody
    /\ \A t : Owners = {t} => Owner = t
    /\ \A t : Owners' = {t} => Owner' = t
<1>1. \A t : (CHOOSE u \in {t} : TRUE) = t
  OBVIOUS
<1> QED BY <1>1 DEF Owner

\* Taking a lock that is free is Take.
LEMMA TakeRefines ==
    ASSUME NEW t \in Threads, Owners = {}, Owners' = {t}, waiters = <<>>, UNCHANGED waiters
    PROVE  Refines
<1>1. Owner = Nobody /\ Owner' = t
  BY OwnerIs
<1>2. Abstract!Take(t)
  BY <1>1 DEF Abstract!Take
<1> QED BY <1>2 DEF Refines, Abstract!Next

\* Passing the lock on, or leaving it to nobody, is Release.
LEMMA ReleaseRefines ==
    ASSUME NEW t \in Threads, Owners = {t},
           \/ waiters = <<>> /\ Owners' = {} /\ UNCHANGED waiters
           \/ waiters # <<>> /\ Owners' = {Head(waiters)} /\ waiters' = Tail(waiters)
    PROVE  Refines
<1>1. Owner = t /\ t # Nobody
  BY OwnerIs, ReleaseMutexAssumption
<1>2. Abstract!Release
  BY <1>1, OwnerIs DEF Abstract!Release
<1> QED BY <1>2 DEF Refines, Abstract!Next

\* The fast path: an empty count is a free lock.
LEMMA FastLockStep ==
    ASSUME IndInv, NEW t \in Threads, NEW slow \in Locking,
           pc[t] \in {"idle", "switch"}, t \notin held, FastLock(t, slow),
           spin' \in Threads \cup {Nobody}, UNCHANGED orphaned
    PROVE  IndInv' /\ Refines
<1>1. CASE count >= 0
  <2>1. /\ held' = held \cup {t}
        /\ pc' = [pc EXCEPT ![t] = "idle"]
        /\ count' = count - 1
        /\ UNCHANGED <<released, waiters, wait>>
    BY <1>1 DEF FastLock, ReturnHolding, Goto, IndInv, TypeOK
  <2>2. TypeOK'
    BY <2>1 DEF IndInv, TypeOK
  <2>3. t \notin Contenders /\ Contenders' = Contenders \cup {t}
    BY <2>1 DEF Contenders, Locking, Waiting, IndInv, TypeOK
  <2>4. CountIsExact'
    BY <2>1, <2>3, CountStep DEF IndInv
  <2>5. Owners' = Owners \cup {t}
    BY <2>1 DEF Owners, Queued, Waiting, IndInv, TypeOK
  <2>6. ~orphaned => Owners = {} /\ ~released
    BY <1>1, CountSign, FreeHasNoOwner DEF IndInv
  <2>7. QueuedWaits' /\ HeldIsIdle'
    BY <2>1 DEF IndInv, TypeOK, QueuedWaits, HeldIsIdle, Waiting
  <2>8. Refines
    <3>1. CASE orphaned
      BY <3>1 DEF Refines
    <3>2. CASE ~orphaned
      <4>1. waiters = <<>>
        BY <1>1, CountSign, QueueMembers DEF IndInv, TypeOK, QueuedWaits, Contenders
      <4> QED BY <2>1, <2>5, <2>6, <3>2, <4>1, TakeRefines
    <3> QED BY <3>1, <3>2
  <2> QED
    BY <2>1, <2>2, <2>3, <2>4, <2>5, <2>6, <2>7, <2>8
       DEF IndInv, OneOwner, ContendedIsOwned, UnlockerIsAwaited, ReleasedIsClaimed
<1>2. CASE count < 0
  <2>1. /\ pc' = [pc EXCEPT ![t] = slow]
        /\ count' = count - 1
        /\ UNCHANGED <<held, released, waiters, wait>>
    BY <1>2 DEF FastLock, Goto, IndInv, TypeOK
  <2>2. TypeOK'
    BY <2>1 DEF IndInv, TypeOK
  <2>3. t \notin Contenders /\ Contenders' = Contenders \cup {t}
    BY <2>1 DEF Contenders, Locking, Waiting, IndInv, TypeOK
  <2>4. CountIsExact'
    BY <2>1, <2>3, CountStep DEF IndInv
  <2>5. Owners' = Owners
    BY <2>1 DEF Owners, Queued, Waiting, Locking, IndInv, TypeOK
  <2>6. Contenders # {}
    BY <1>2, CountSign DEF IndInv, TypeOK
  <2>7. QueuedWaits' /\ HeldIsIdle'
    BY <2>1 DEF IndInv, TypeOK, QueuedWaits, HeldIsIdle, Waiting
  <2>8. ReleasedIsClaimed'
    BY <2>1 DEF IndInv, TypeOK, ReleasedIsClaimed
  <2> QED
    BY <2>1, <2>2, <2>3, <2>4, <2>5, <2>6, <2>7, <2>8
       DEF IndInv, OneOwner, ContendedIsOwned, UnlockerIsAwaited, Refines, Stutter
<1> QED BY <1>1, <1>2 DEF IndInv, TypeOK

\* mutex_switch_lock() takes the spinlock and is not in for the lock yet.
LEMMA SwitchStep ==
    ASSUME IndInv, NEW t \in Threads, mutex_switch_lock(t)
    PROVE  IndInv' /\ Refines
<1>1. /\ pc[t] = "idle" /\ t \notin held
      /\ pc' = [pc EXCEPT ![t] = "switch"]
      /\ spin' = t
      /\ UNCHANGED <<count, released, waiters, wait, held, orphaned>>
  BY DEF mutex_switch_lock, Goto
<1>2. TypeOK'
  BY <1>1 DEF IndInv, TypeOK
<1>3. Contenders' = Contenders /\ Owners' = Owners
  BY <1>1 DEF Contenders, Owners, Queued, Locking, Waiting, IndInv, TypeOK
<1>4. CountIsExact'
  BY <1>1, <1>3, CountStep DEF IndInv
<1>5. QueuedWaits' /\ HeldIsIdle' /\ ReleasedIsClaimed'
  BY <1>1 DEF IndInv, TypeOK, QueuedWaits, HeldIsIdle, ReleasedIsClaimed, Waiting, Locking
<1> QED
  BY <1>1, <1>2, <1>3, <1>4, <1>5
     DEF IndInv, TypeOK, OneOwner, ContendedIsOwned, UnlockerIsAwaited, Refines, Stutter

\* The fast path of the owner: it is the last one in, or owes the lock to somebody.
LEMMA UnlockStep ==
    ASSUME IndInv, NEW t \in Threads, mutex_unlock(t)
    PROVE  IndInv' /\ Refines
<1>1. /\ pc[t] = "idle" /\ t \in held
      /\ held' = held \ {t}
      /\ count' = count + 1
      /\ UNCHANGED <<released, waiters, spin, wait, orphaned>>
  BY DEF mutex_unlock
<1>2. /\ count < -1 => pc' = [pc EXCEPT ![t] = "unlock_slow"]
      /\ count >= -1 => pc' = pc
      /\ count < -1 \/ count >= -1
  BY DEF mutex_unlock, Goto, IndInv, TypeOK
<1>3. TypeOK'
  BY <1>1, <1>2 DEF IndInv, TypeOK
<1>4. t \in Contenders /\ t \in Owners
  BY <1>1 DEF Contenders, Owners
<1>5. Contenders' = Contenders \ {t}
  BY <1>1, <1>2 DEF Contenders, Locking, Waiting, IndInv, TypeOK
<1>6. CountIsExact'
  BY <1>1, <1>4, <1>5, CountStep DEF IndInv
<1>7. ~orphaned => ~released
  BY <1>4 DEF IndInv, OneOwner
<1>8. QueuedWaits' /\ HeldIsIdle'
  <2>1. t \notin ToSet(waiters)
    BY <1>1 DEF IndInv, QueuedWaits, Waiting
  <2>2. \A u \in Threads \ {t} : pc'[u] = pc[u]
    BY <1>2 DEF IndInv, TypeOK
  <2>3. ToSet(waiters) \subseteq Threads /\ held \subseteq Threads
    BY QueueMembers DEF IndInv, TypeOK
  <2> QED BY <1>1, <2>1, <2>2, <2>3 DEF IndInv, QueuedWaits, HeldIsIdle
<1>9. CASE count < -1
  <2>1. Owners' = Owners
    BY <1>1, <1>2, <1>9 DEF Owners, Queued, Waiting, IndInv, TypeOK
  <2>2. Contenders' # {}
    BY <1>4, <1>5, <1>9, CountSign DEF IndInv, TypeOK
  <2> QED
    BY <1>1, <1>3, <1>4, <1>6, <1>7, <1>8, <2>1, <2>2
       DEF IndInv, OneOwner, ContendedIsOwned, UnlockerIsAwaited, ReleasedIsClaimed,
           Refines, Stutter
<1>10. CASE count >= -1
  <2>1. Owners' = Owners \ {t}
    BY <1>1, <1>2, <1>10 DEF Owners, Queued, Waiting, IndInv, TypeOK
  <2>2. Contenders' = {}
    BY <1>4, <1>5, <1>10, CountSign DEF IndInv
  <2>3. UnlockerIsAwaited'
    BY <1>1, <1>2, <1>4, <1>10 DEF IndInv, OneOwner, UnlockerIsAwaited, Owners
  <2>4. Refines
    <3>1. CASE orphaned
      BY <1>1, <3>1 DEF Refines
    <3>2. CASE ~orphaned
      <4>1. waiters = <<>>
        <5>1. \A u \in ToSet(waiters) : u \in Contenders /\ u # t
          BY <1>1, QueueMembers DEF IndInv, TypeOK, QueuedWaits, Contenders, Waiting
        <5>2. Contenders = {t}
          BY <1>4, <1>10, CountSign DEF IndInv
        <5> QED BY <5>1, <5>2, QueueMembers DEF IndInv, TypeOK
      <4>2. Owners = {t} /\ Owners' = {}
        BY <1>4, <2>1, <3>2 DEF IndInv, OneOwner
      <4> QED BY <1>1, <4>1, <4>2, ReleaseRefines
    <3> QED BY <3>1, <3>2
  <2> QED
    BY <1>1, <1>3, <1>6, <1>7, <1>8, <2>1, <2>2, <2>3, <2>4
       DEF IndInv, OneOwner, ContendedIsOwned, ReleasedIsClaimed
<1> QED BY <1>2, <1>9, <1>10

\* The slow path of a locker: the lock was left to it, or it queues behind the owner.
LEMMA LockSlowStep ==
    ASSUME IndInv, NEW t \in Threads, LockSlow(t)
    PROVE  IndInv' /\ Refines
<1>1. /\ pc[t] \in Locking
      /\ spin' = Nobody
      /\ UNCHANGED <<count, orphaned>>
      /\ TakeReleased(t) \/ \E label \in {"block", "timed_block"} : Enqueue(t, label)
  BY DEF LockSlow, Locking
<1>2. t \notin held /\ t \in Contenders /\ t \notin ToSet(waiters)
  BY <1>1 DEF IndInv, HeldIsIdle, QueuedWaits, Contenders, Locking, Waiting
<1>3. CASE TakeReleased(t)
  <2>1. /\ released /\ released' = FALSE
        /\ held' = held \cup {t}
        /\ pc' = [pc EXCEPT ![t] = "idle"]
        /\ UNCHANGED <<waiters, wait>>
    BY <1>3 DEF TakeReleased, ReturnHolding, Goto
  <2>2. TypeOK'
    BY <1>1, <2>1 DEF IndInv, TypeOK
  <2>3. Contenders' = Contenders
    BY <1>1, <1>2, <2>1 DEF Contenders, Locking, Waiting, IndInv, TypeOK
  <2>4. CountIsExact'
    BY <1>1, <2>3, CountStep DEF IndInv
  <2>5. Owners' = Owners \cup {t}
    BY <1>1, <2>1 DEF Owners, Queued, Waiting, Locking, IndInv, TypeOK
  <2>6. QueuedWaits' /\ HeldIsIdle'
    BY <1>1, <1>2, <2>1 DEF IndInv, TypeOK, QueuedWaits, HeldIsIdle
  <2>7. Refines
    BY <1>1, <2>1, <2>5, TakeRefines DEF IndInv, OneOwner, ReleasedIsClaimed, Refines
  <2> QED
    BY <1>1, <1>2, <2>1, <2>2, <2>3, <2>4, <2>5, <2>6, <2>7
       DEF IndInv, OneOwner, ContendedIsOwned, UnlockerIsAwaited, ReleasedIsClaimed
<1>4. ASSUME NEW label \in {"block", "timed_block"}, Enqueue(t, label)
      PROVE  IndInv' /\ Refines
  <2>1. /\ ~released
        /\ waiters' = Append(waiters, t)
        /\ wait' = [wait EXCEPT ![t] = Blocked]
        /\ pc' = [pc EXCEPT ![t] = label]
        /\ UNCHANGED <<released, held>>
    BY <1>4 DEF Enqueue, Goto, thread_prepare_to_block
  <2>2. /\ waiters' \in Seq(Threads)
        /\ ToSet(waiters') = ToSet(waiters) \cup {t}
        /\ IsInjective(waiters')
    BY <1>2, <2>1, AppendFacts DEF IndInv, TypeOK
  <2>3. TypeOK'
    BY <1>1, <2>1, <2>2 DEF IndInv, TypeOK, Statuses, Waiting
  <2>4. Contenders' = Contenders
    BY <1>1, <1>2, <2>1 DEF Contenders, Locking, Waiting, IndInv, TypeOK
  <2>5. CountIsExact'
    BY <1>1, <2>4, CountStep DEF IndInv
  <2>6. Owners' = Owners
    BY <1>1, <2>1, <2>2 DEF Owners, Queued, Waiting, Locking, IndInv, TypeOK
  <2>7. QueuedWaits' /\ HeldIsIdle'
    BY <1>2, <2>1, <2>2 DEF IndInv, TypeOK, QueuedWaits, HeldIsIdle, Waiting
  <2>8. UnlockerIsAwaited' /\ ReleasedIsClaimed'
    BY <1>1, <1>2, <2>1, <2>4 DEF UnlockerIsAwaited, ReleasedIsClaimed
  <2>9. Refines
    <3>1. CASE orphaned
      BY <1>1, <3>1 DEF Refines
    <3>2. CASE ~orphaned
      <4>1. PICK u \in Owners : Owners = {u}
        BY <1>2, <2>1, <3>2 DEF IndInv, OneOwner, ContendedIsOwned
      <4>2. u \in Threads /\ u # t /\ u # Nobody
        BY <1>1, <1>2, <4>1, ReleaseMutexAssumption DEF Owners, Locking, Waiting
      <4>3. Owner = u /\ Owner' = u
        BY <2>6, <4>1, OwnerIs
      <4>4. Abstract!Wait(t)
        BY <1>2, <2>1, <4>2, <4>3 DEF Abstract!Wait, Abstract!ToSet, ToSet
      <4> QED BY <4>4 DEF Refines, Abstract!Next
    <3> QED BY <3>1, <3>2
  <2> QED
    BY <1>1, <2>1, <2>3, <2>4, <2>5, <2>6, <2>7, <2>8, <2>9
       DEF IndInv, OneOwner, ContendedIsOwned
<1> QED BY <1>1, <1>3, <1>4

\* The slow path of the owner: the head of the queue owns the lock from here on,
\* or the next locker to come does.
LEMMA UnlockSlowStep ==
    ASSUME IndInv, NEW t \in Threads, _mutex_unlock(t)
    PROVE  IndInv' /\ Refines
<1>1. /\ pc[t] = "unlock_slow"
      /\ pc' = [pc EXCEPT ![t] = "idle"]
      /\ UNCHANGED <<count, spin, held, orphaned>>
  BY DEF _mutex_unlock, Goto
<1>2. t \notin held /\ t \notin ToSet(waiters) /\ t \in Owners
  BY <1>1 DEF IndInv, HeldIsIdle, QueuedWaits, Owners, Waiting
<1>3. Contenders' = Contenders
  BY <1>1, <1>2 DEF Contenders, Locking, Waiting, IndInv, TypeOK
<1>4. CountIsExact'
  BY <1>1, <1>3, CountStep DEF IndInv
<1>5. ~orphaned => ~released /\ Owners = {t} /\ Contenders # {}
  BY <1>1, <1>2 DEF IndInv, OneOwner, UnlockerIsAwaited
<1>6. HeldIsIdle'
  BY <1>1 DEF IndInv, TypeOK, HeldIsIdle
<1>7. UnlockerIsAwaited'
  BY <1>1, <1>3, <1>5 DEF UnlockerIsAwaited
<1>8. CASE waiters # <<>>
  <2> DEFINE h == Head(waiters)
  <2>1. /\ waiters' = Tail(waiters)
        /\ wait' = thread_unblock(wait, h, "B_OK")
        /\ UNCHANGED released
    BY <1>8 DEF _mutex_unlock
  <2>2. /\ h \in Threads /\ h \in ToSet(waiters)
        /\ waiters' \in Seq(Threads)
        /\ ToSet(waiters') = ToSet(waiters) \ {h}
        /\ IsInjective(waiters')
    BY <1>8, <2>1, TailFacts DEF IndInv, TypeOK
  <2> HIDE DEF h
  <2>3. /\ wait' \in [Threads -> Statuses]
        /\ \A u \in Threads \ {h} : wait'[u] = wait[u]
    BY <2>1, <2>2 DEF thread_unblock, Statuses, Results, IndInv, TypeOK
  <2>4. TypeOK'
    BY <1>1, <2>1, <2>2, <2>3 DEF IndInv, TypeOK
  <2>5. Owners' = (Owners \ {t}) \cup {h}
    BY <1>1, <1>2, <2>2 DEF Owners, Queued, QueuedWaits, Waiting, IndInv, TypeOK
  <2>6. QueuedWaits'
    <3>1. ToSet(waiters) \subseteq Threads
      BY QueueMembers DEF IndInv, TypeOK
    <3> QED BY <1>1, <1>2, <2>2, <2>3, <3>1 DEF IndInv, TypeOK, QueuedWaits
  <2>7. Refines
    BY <1>1, <1>5, <1>8, <2>1, <2>5, ReleaseRefines DEF Refines, h
  <2> QED
    BY <1>1, <1>4, <1>5, <1>6, <1>7, <2>1, <2>4, <2>5, <2>6, <2>7
       DEF IndInv, OneOwner, ContendedIsOwned, ReleasedIsClaimed
<1>9. CASE waiters = <<>>
  <2>1. released' = TRUE /\ UNCHANGED <<waiters, wait>>
    BY <1>9 DEF _mutex_unlock
  <2>2. TypeOK'
    BY <1>1, <2>1 DEF IndInv, TypeOK
  <2>3. Owners' = Owners \ {t}
    BY <1>1, <1>2, <2>1 DEF Owners, Queued, Waiting, IndInv, TypeOK
  <2>4. ToSet(waiters) = {}
    BY <1>9, EmptyQueue
  <2>5. ~orphaned => held = {} /\ \E u \in Threads : pc[u] \in Locking
    <3>1. \A u \in Threads : u \in held \/ pc[u] \in Waiting => u \in Owners
      BY <2>4 DEF Owners, Queued
    <3>2. \A u \in Contenders : u \in Threads /\ (u \in held \/ pc[u] \in Locking \cup Waiting)
      BY DEF Contenders
    <3>3. pc[t] \notin Waiting /\ held \subseteq Threads
      BY <1>1 DEF Waiting, IndInv, TypeOK
    <3> QED BY <1>2, <1>5, <3>1, <3>2, <3>3
  <2>6. ReleasedIsClaimed'
    BY <1>1, <1>9, <2>1, <2>5 DEF ReleasedIsClaimed, Locking, IndInv, TypeOK
  <2>7. QueuedWaits'
    BY <2>1, <2>4 DEF QueuedWaits
  <2>8. Refines
    BY <1>1, <1>5, <1>9, <2>1, <2>3, ReleaseRefines DEF Refines
  <2> QED
    BY <1>1, <1>4, <1>5, <1>6, <1>7, <2>1, <2>2, <2>3, <2>6, <2>7, <2>8
       DEF IndInv, OneOwner, ContendedIsOwned
<1> QED BY <1>8, <1>9

\* A waiter that is not queued any more has the lock.
LEMMA WokenStep ==
    ASSUME IndInv, NEW t \in Threads, pc[t] \in Waiting, ~Queued(t), ReturnHolding(t),
           UNCHANGED <<count, released, waiters, spin, wait, orphaned>>
    PROVE  IndInv' /\ Refines
<1>1. held' = held \cup {t} /\ pc' = [pc EXCEPT ![t] = "idle"]
  BY DEF ReturnHolding, Goto
<1>2. t \in Owners /\ t \notin ToSet(waiters)
  BY DEF Owners, Queued
<1>3. TypeOK'
  BY <1>1 DEF IndInv, TypeOK
<1>4. Contenders' = Contenders /\ Owners' = Owners
  BY <1>1, <1>2 DEF Contenders, Owners, Queued, Locking, Waiting, IndInv, TypeOK
<1>5. CountIsExact'
  BY <1>4, CountStep DEF IndInv
<1>6. ~orphaned => ~released
  BY <1>2 DEF IndInv, OneOwner
<1>7. QueuedWaits' /\ HeldIsIdle'
  BY <1>1, <1>2, QueueMembers DEF IndInv, TypeOK, QueuedWaits, HeldIsIdle
<1>8. UnlockerIsAwaited'
  BY <1>1, <1>4 DEF IndInv, TypeOK, UnlockerIsAwaited
<1> QED
  BY <1>3, <1>4, <1>5, <1>6, <1>7, <1>8
     DEF IndInv, OneOwner, ContendedIsOwned, ReleasedIsClaimed, Refines, Stutter

\* A timed-out waiter that is still queued takes itself out, and out of the count.
LEMMA DequeueStep ==
    ASSUME IndInv, NEW t \in Threads, NEW i \in DOMAIN waiters,
           pc[t] = "timed_out", waiters[i] = t, waiters' = RemoveAt(waiters, i),
           count' = count + 1,
           orphaned' = (orphaned \/ (count = -1 /\ \E u \in Threads : pc[u] = "unlock_slow")),
           pc' = [pc EXCEPT ![t] = "idle"], UNCHANGED <<released, spin, wait, held>>
    PROVE  IndInv' /\ Refines
<1>1. /\ waiters' \in Seq(Threads)
      /\ ToSet(waiters') = ToSet(waiters) \ {t}
      /\ IsInjective(waiters')
  BY RemoveAtFacts DEF IndInv, TypeOK
<1>2. t \in ToSet(waiters) /\ t \notin held
  BY DEF ToSet, IndInv, HeldIsIdle
<1>3. TypeOK'
  BY <1>1 DEF IndInv, TypeOK
<1>4. t \in Contenders /\ Contenders' = Contenders \ {t} /\ Owners' = Owners
  BY <1>1, <1>2 DEF Contenders, Owners, Queued, Locking, Waiting, IndInv, TypeOK
<1>5. CountIsExact'
  BY <1>4, CountStep DEF IndInv
<1>6. QueuedWaits' /\ HeldIsIdle'
  BY <1>1, <1>2, QueueMembers DEF IndInv, TypeOK, QueuedWaits, HeldIsIdle
<1>7. UnlockerIsAwaited'
  <2>1. CASE count = -1
    BY <2>1 DEF UnlockerIsAwaited, IndInv, TypeOK
  <2>2. CASE count # -1
    BY <1>4, <2>2, CountSign DEF UnlockerIsAwaited, IndInv
  <2> QED BY <2>1, <2>2
<1>8. waiters # <<>>
  BY <1>2, EmptyQueue
<1>9. ReleasedIsClaimed'
  BY <1>8 DEF IndInv, ReleasedIsClaimed
<1>10. Refines
  <2>1. Owner' = Owner
    BY <1>4 DEF Owner
  <2>2. Abstract!Leave(i)
    BY <2>1 DEF Abstract!Leave, Abstract!RemoveAt, RemoveAt
  <2> QED BY <2>2 DEF Refines, Abstract!Next
<1> QED
  BY <1>3, <1>4, <1>5, <1>6, <1>7, <1>9, <1>10
     DEF IndInv, OneOwner, ContendedIsOwned

\* What the threads do keeps the invariant, and to FifoLock.
LEMMA IndInvNext == IndInv /\ [Next]_vars => IndInv' /\ Refines
<1> SUFFICES ASSUME IndInv, [Next]_vars PROVE IndInv' /\ Refines
  OBVIOUS
<1>1. ASSUME NEW t \in Threads, mutex_lock(t) \/ mutex_lock_with_timeout(t) PROVE IndInv' /\ Refines
  <2>1. \E slow \in Locking : FastLock(t, slow)
    BY <1>1 DEF mutex_lock, mutex_lock_with_timeout, Locking
  <2> QED
    BY <1>1, <2>1, FastLockStep DEF mutex_lock, mutex_lock_with_timeout, IndInv, TypeOK
<1>2. ASSUME NEW t \in Threads, mutex_trylock(t) PROVE IndInv' /\ Refines
  <2>1. FastLock(t, "lock_slow")
    BY <1>2 DEF mutex_trylock, FastLock
  <2> QED BY <1>2, <2>1, FastLockStep DEF mutex_trylock, Locking, IndInv, TypeOK
<1>3. ASSUME NEW t \in Threads, mutex_lock_threads_locked(t) PROVE IndInv' /\ Refines
  <2>1. t \notin held /\ spin' \in Threads \cup {Nobody}
    BY <1>3 DEF mutex_lock_threads_locked, IndInv, HeldIsIdle
  <2> QED BY <1>3, <2>1, FastLockStep DEF mutex_lock_threads_locked, Locking
<1>4. ASSUME NEW t \in Threads, BlockReturn(t) PROVE IndInv' /\ Refines
  <2>1. pc[t] \in Waiting /\ ~Queued(t)
    BY <1>4 DEF BlockReturn, thread_is_blocked, Waiting, Queued, IndInv, QueuedWaits
  <2> QED BY <1>4, <2>1, WokenStep DEF BlockReturn
<1>5. ASSUME NEW t \in Threads, TimeOut(t) PROVE IndInv' /\ Refines
  <2>1. /\ pc[t] = "timed_block"
        /\ wait' = [wait EXCEPT ![t] = "B_TIMED_OUT"]
        /\ UNCHANGED <<count, released, waiters, spin, pc, held, orphaned>>
    BY <1>5 DEF TimeOut, thread_unblock
  <2>2. TypeOK' /\ QueuedWaits'
    BY <2>1 DEF IndInv, TypeOK, Statuses, Results, QueuedWaits
  <2>3. Contenders' = Contenders /\ Owners' = Owners
    BY <2>1 DEF Contenders, Owners, Queued
  <2> QED
    BY <2>1, <2>2, <2>3 DEF IndInv, CountIsExact, HeldIsIdle, OneOwner, ContendedIsOwned,
                            UnlockerIsAwaited, ReleasedIsClaimed, Refines, Stutter
<1>6. ASSUME NEW t \in Threads, TimedBlockReturn(t) PROVE IndInv' /\ Refines
  <2>1. CASE wait[t] = "B_OK"
    <3>1. pc[t] \in Waiting /\ ~Queued(t)
      BY <1>6, <2>1 DEF TimedBlockReturn, Waiting, Queued, IndInv, QueuedWaits, Blocked
    <3> QED BY <1>6, <2>1, <3>1, WokenStep DEF TimedBlockReturn
  <2>2. CASE wait[t] # "B_OK"
    <3>1. /\ pc[t] = "timed_block"
          /\ pc' = [pc EXCEPT ![t] = "timed_out"]
          /\ UNCHANGED <<count, released, waiters, spin, wait, held, orphaned>>
      BY <1>6, <2>2 DEF TimedBlockReturn, Goto
    <3>2. TypeOK' /\ QueuedWaits'
      BY <3>1 DEF IndInv, TypeOK, QueuedWaits, Waiting
    <3>3. Contenders' = Contenders /\ Owners' = Owners
      BY <3>1 DEF Contenders, Owners, Queued, Locking, Waiting, IndInv, TypeOK
    <3>4. CountIsExact'
      BY <3>1, <3>3, CountStep DEF IndInv
    <3>5. HeldIsIdle' /\ UnlockerIsAwaited' /\ ReleasedIsClaimed'
      BY <3>1, <3>3 DEF IndInv, TypeOK, HeldIsIdle, UnlockerIsAwaited, ReleasedIsClaimed, Locking
    <3> QED
      BY <3>1, <3>2, <3>3, <3>4, <3>5
         DEF IndInv, OneOwner, ContendedIsOwned, Refines, Stutter
  <2> QED BY <2>1, <2>2
<1>7. ASSUME NEW t \in Threads, TimedDequeue(t) PROVE IndInv' /\ Refines
  <2>1. CASE Queued(t)
    BY <1>7, <2>1, DequeueStep DEF TimedDequeue, Goto
  <2>2. CASE ~Queued(t)
    <3>1. \A i \in DOMAIN waiters : waiters[i] # t
      BY <2>2 DEF Queued, ToSet
    <3> QED BY <1>7, <2>2, <3>1, WokenStep DEF TimedDequeue, Waiting
  <2> QED BY <2>1, <2>2
<1>8. CASE UNCHANGED vars
  BY <1>8 DEF vars, IndInv, TypeOK, CountIsExact, HeldIsIdle, QueuedWaits, OneOwner,
              ContendedIsOwned, UnlockerIsAwaited, ReleasedIsClaimed, Contenders, Owners,
              Queued, Refines, Stutter
<1> QED
  BY <1>1, <1>2, <1>3, <1>4, <1>5, <1>6, <1>7, <1>8,
     SwitchStep, UnlockStep, LockSlowStep, UnlockSlowStep DEF Next

\* The invariant holds in every state.
LEMMA Invariance == Spec => []IndInv
BY IndInvInit, IndInvNext, PTL DEF Spec

-------------------------------------------------------------------------------
\* The count of a mutex is right in every state, though lockers and unlockers
\* change it outside the spinlock.
THEOREM ConsistentAlways == Spec => []Consistent
<1>1. IndInv => Consistent
  BY DEF IndInv, Consistent
<1> QED BY <1>1, Invariance, PTL

\* No two threads regard the mutex as theirs, as long as no last waiter times
\* out while an unlocker is on its way to wake it.
THEOREM Exclusion == Spec => []MutualExclusion
<1>1. IndInv => MutualExclusion
  BY DEF IndInv, OneOwner, Owners, MutualExclusion, Exclusive, TypeOK
<1> QED BY <1>1, Invariance, PTL

\* MUTEX_FLAG_RELEASED is never set for nobody, on the same condition.
THEOREM ReleasedIsTaken == Spec => []ReleasedIsClaimed
<1>1. IndInv => ReleasedIsClaimed
  BY DEF IndInv
<1> QED BY <1>1, Invariance, PTL

\* Nobody who locks without a timeout can leave the queue behind an unlocker.
Untimed ==
    /\ ~orphaned
    /\ \A t \in Threads : pc[t] \notin {"timed_slow", "timed_block", "timed_out"}

\* Without timeouts there is no such condition: the mutex of a release build is
\* exclusive.
THEOREM UntimedExclusion == ASSUME TimedThreads = {} PROVE Spec => []Exclusive
<1>1. Init => Untimed
  BY DEF Init, Untimed
<1>2. IndInv /\ Untimed /\ [Next]_vars => Untimed'
  <2> SUFFICES ASSUME IndInv, Untimed, [Next]_vars PROVE Untimed'
    OBVIOUS
  <2>1. ASSUME NEW t \in Threads, NEW label, Goto(t, label) \/ UNCHANGED pc, UNCHANGED orphaned,
               label \notin {"timed_slow", "timed_block", "timed_out"}
        PROVE  Untimed'
    BY <2>1 DEF Goto, Untimed, IndInv, TypeOK
  <2>2. ASSUME NEW t \in Threads, mutex_lock(t) \/ mutex_trylock(t) \/ mutex_lock_threads_locked(t)
        PROVE  Untimed'
    BY <2>1, <2>2 DEF mutex_lock, mutex_trylock, mutex_lock_threads_locked, FastLock, ReturnHolding
  <2>3. ASSUME NEW t \in Threads, mutex_switch_lock(t) \/ mutex_unlock(t) \/ _mutex_unlock(t)
        PROVE  Untimed'
    BY <2>1, <2>3 DEF mutex_switch_lock, mutex_unlock, _mutex_unlock
  <2>4. ASSUME NEW t \in Threads, LockSlow(t) \/ BlockReturn(t) PROVE Untimed'
    BY <2>1, <2>4 DEF LockSlow, TakeReleased, Enqueue, ReturnHolding, BlockReturn, Untimed
  <2>5. ASSUME NEW t \in Threads,
               \/ mutex_lock_with_timeout(t) \/ TimeOut(t)
               \/ TimedBlockReturn(t) \/ TimedDequeue(t)
        PROVE  FALSE
    BY <2>5 DEF mutex_lock_with_timeout, TimeOut, TimedBlockReturn, TimedDequeue, Untimed
  <2>6. CASE UNCHANGED vars
    BY <2>6 DEF vars, Untimed
  <2> QED BY <2>2, <2>3, <2>4, <2>5, <2>6 DEF Next
<1>3. Untimed /\ MutualExclusion => Exclusive
  BY DEF Untimed, MutualExclusion
<1> QED BY <1>1, <1>2, <1>3, Invariance, Exclusion, PTL DEF Spec

\* lock.cpp: "mutex: exclusive FIFO sleeping lock".  The mutex of a release build
\* behaves like FifoLock, up to the same point.
THEOREM ImplementsFifoLock == Spec => IsFifoLock
<1>1. Init => Abstract!Init
  <2>1. ASSUME Init PROVE Owners = {}
    BY <2>1 DEF Init, Owners, Waiting
  <2> QED BY <2>1, OwnerIs DEF Init, Abstract!Init
<1>2. IndInv /\ [Next]_vars => [orphaned' \/ Abstract!Next]_<<Owner, waiters>>
  <2>1. Stutter => UNCHANGED <<Owner, waiters>>
    BY DEF Stutter, Owner
  <2> QED BY <2>1, IndInvNext DEF Refines
<1> QED BY <1>1, <1>2, Invariance, PTL DEF Spec, IsFifoLock
===============================================================================
