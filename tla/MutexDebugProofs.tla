--------------------------- MODULE MutexDebugProofs ---------------------------
(***************************************************************************)
(* The safety of the KDEBUG mutex for any number of threads and locks, and *)
(* that each of its locks implements FifoLock.                             *)
(***************************************************************************)
EXTENDS MutexDebugFifo, QueueLemmas

\* The invariants hold as long as no mutex is both destroyed and locked with
\* a timeout: the race the TODO in _mutex_lock_with_timeout() admits.
TimeoutsAndDestructionApart == TimedThreads = {} \/ Destroyable = {}

\* Who regards a lock as its own is the holder.
HeldIsHolder == \A t \in Threads : \A l \in held[t] : holder[l] = t

\* A waiter whose wake-up makes it the owner, whether or not it timed out.
Granted(t, l) ==
    /\ pc[t] \in Waiting
    /\ target[t] = l
    /\ ~Queued(t, l)
    /\ t \notin cleared
    /\ wait[t] \in {"B_OK", "B_TIMED_OUT"}
    /\ pc[t] = "block" => wait[t] = "B_OK"

HolderOwns ==
    \A l \in Locks, t \in Threads :
        holder[l] = t => l \in held[t] \/ Granted(t, l)

\* A queued thread is blocked in a wait for this lock, or timed out and did
\* not dequeue itself yet; somebody else owns the lock.
QueuedWaits ==
    \A l \in Locks : \A t \in ToSet(waiters[l]) :
        /\ pc[t] \in Waiting
        /\ target[t] = l
        /\ holder[l] \in Threads \ {t}
        /\ t \notin cleared
        /\ pc[t] = "block" => wait[t] = Blocked
        /\ pc[t] = "timed_block" => wait[t] \in {Blocked, "B_TIMED_OUT"}
        /\ pc[t] = "timed_out" => wait[t] = "B_TIMED_OUT"

\* A waiter that left the queue owns the lock, or saw it destroyed.
UnqueuedWoken ==
    \A t \in Threads : pc[t] \in Waiting /\ ~Queued(t, target[t]) =>
        \/ holder[target[t]] = t /\ Granted(t, target[t])
        \/ /\ t \in cleared /\ pc[t] = "block" /\ wait[t] = "B_ERROR"
           /\ holder[target[t]] = Destroyed

\* mutex_switch_lock() keeps "to" alive: by "from" until it is released, and
\* by the spinlock of "to" from before that point on.
SwitchKeepsTo ==
    \A t \in Threads : pc[t] \in Switching =>
        /\ target[t] # from[t]
        /\ target[t] \notin held[t]
        /\ holder[target[t]] # Destroyed
        /\ pc[t] # "switch_acquire" =>
              from[t] \in held[t] /\ <<from[t], target[t]>> \in SwitchPairs
        /\ pc[t] # "switch_call" => spin[target[t]] = t

\* No timed wait without timed threads, nobody cleared without destruction.
Apart ==
    /\ TimedThreads = {} => \A t \in Threads : pc[t] \notin {"timed_block", "timed_out"}
    /\ Destroyable = {} => cleared = {}

IndInv ==
    /\ TypeOK
    /\ HeldIsHolder
    /\ HolderOwns
    /\ QueuedWaits
    /\ UnqueuedWoken
    /\ SwitchKeepsTo
    /\ Apart

-------------------------------------------------------------------------------
\* The initial state satisfies the inductive invariant.
LEMMA IndInvInit == Init => IndInv
<1> SUFFICES ASSUME Init PROVE IndInv
  OBVIOUS
<1>1. \A l \in Locks : waiters[l] \in Seq(Threads) /\ IsInjective(waiters[l])
                        /\ ToSet(waiters[l]) = {}
  BY EmptyQueue DEF Init
<1>2. (CHOOSE l \in Locks : TRUE) \in Locks
  BY MutexAssumption
<1>3. TypeOK
  BY <1>1, <1>2 DEF Init, TypeOK, Statuses, Results
<1> QED
  BY <1>1, <1>3, MutexAssumption
     DEF Init, IndInv, HeldIsHolder, HolderOwns, QueuedWaits, UnqueuedWoken,
         SwitchKeepsTo, Apart, Waiting, Switching
-------------------------------------------------------------------------------
\* Queueing a thread changes one queue, and keeps the queues well-formed.
LEMMA EnqueueQueues ==
    ASSUME TypeOK, QueuedWaits, NEW t \in Threads, NEW l \in Locks, NEW label,
           pc[t] \notin Waiting, Enqueue(t, l, label)
    PROVE  /\ waiters' \in [Locks -> Seq(Threads)]
           /\ \A k \in Locks : IsInjective(waiters'[k])
           /\ \A k \in Locks : k # l => waiters'[k] = waiters[k]
           /\ ToSet(waiters'[l]) = ToSet(waiters[l]) \cup {t}
<1>1. t \notin ToSet(waiters[l])
  BY DEF QueuedWaits
<1>2. /\ Append(waiters[l], t) \in Seq(Threads)
      /\ ToSet(Append(waiters[l], t)) = ToSet(waiters[l]) \cup {t}
      /\ IsInjective(Append(waiters[l], t))
  BY <1>1, AppendFacts DEF TypeOK
<1> QED
  BY <1>2 DEF Enqueue, TypeOK

\* A hand-off takes the head of one queue, if there is one.
LEMMA HandOffQueues ==
    ASSUME TypeOK, NEW t \in Threads, NEW l \in Locks, HandOff(t, l)
    PROVE  /\ waiters' \in [Locks -> Seq(Threads)]
           /\ \A k \in Locks : IsInjective(waiters'[k])
           /\ \A k \in Locks \ {l} : waiters'[k] = waiters[k]
           /\ \/ /\ ToSet(waiters[l]) = {} /\ ToSet(waiters'[l]) = {}
                 /\ holder' = [holder EXCEPT ![l] = NoThread] /\ wait' = wait
              \/ \E h \in ToSet(waiters[l]) :
                    /\ h \in Threads
                    /\ ToSet(waiters'[l]) = ToSet(waiters[l]) \ {h}
                    /\ holder' = [holder EXCEPT ![l] = h]
                    /\ wait' = thread_unblock(wait, h, "B_OK")
<1>1. CASE waiters[l] = <<>>
  BY <1>1, EmptyQueue DEF HandOff, TypeOK
<1>2. CASE waiters[l] # <<>>
  <2> DEFINE h == Head(waiters[l])
  <2>1. /\ h \in Threads
        /\ h \in ToSet(waiters[l])
        /\ Tail(waiters[l]) \in Seq(Threads)
        /\ ToSet(Tail(waiters[l])) = ToSet(waiters[l]) \ {h}
        /\ IsInjective(Tail(waiters[l]))
    BY <1>2, TailFacts DEF TypeOK
  <2>2. /\ waiters' = [waiters EXCEPT ![l] = Tail(@)]
        /\ holder' = [holder EXCEPT ![l] = h]
        /\ wait' = thread_unblock(wait, h, "B_OK")
    BY <1>2 DEF HandOff
  <2>3. /\ waiters' \in [Locks -> Seq(Threads)]
        /\ waiters'[l] = Tail(waiters[l])
        /\ \A k \in Locks \ {l} : waiters'[k] = waiters[k]
    BY <2>1, <2>2 DEF TypeOK
  <2> HIDE DEF h
  <2> QED
    BY <2>1, <2>2, <2>3 DEF TypeOK
<1> QED BY <1>1, <1>2

\* The values lock->holder takes are told apart.
LEMMA HolderValues ==
    NoThread \notin Threads /\ Destroyed \notin Threads /\ NoThread # Destroyed
BY MutexAssumption

\* The labels a thread can be at are told apart.
LEMMA Labels ==
    /\ "idle" \notin Waiting /\ "idle" \notin Switching
    /\ \A p \in Switching : p \notin Waiting
BY DEF Waiting, Switching

\* The parts of the type invariant that are not about queues.
LEMMA Types ==
    ASSUME IndInv
    PROVE  /\ holder \in [Locks -> Threads \cup {NoThread, Destroyed}]
           /\ spin \in [Locks -> Threads \cup {NoThread}]
           /\ pc \in [Threads -> Waiting \cup Switching \cup {"idle"}]
           /\ target \in [Threads -> Locks]
           /\ from \in [Threads -> Locks]
           /\ held \in [Threads -> SUBSET Locks]
BY DEF IndInv, TypeOK

\* Dropping the spinlock of "to" takes it from nobody else.
LEMMA SpinDropped ==
    ASSUME IndInv, NEW t \in Threads, NEW l \in Locks,
           \/ pc[t] = "idle" /\ UNCHANGED spin
           \/ /\ pc[t] = "switch_acquire" /\ target[t] = l
              /\ spin' = [spin EXCEPT ![l] = NoThread]
    PROVE  /\ spin' \in [Locks -> Threads \cup {NoThread}]
           /\ \A v \in Threads :
                 v # t /\ pc[v] \in Switching /\ pc[v] # "switch_call" =>
                    spin'[target[v]] = v
<1>1. CASE pc[t] = "idle" /\ UNCHANGED spin
  BY <1>1, Types DEF IndInv, SwitchKeepsTo
<1>2. CASE /\ pc[t] = "switch_acquire" /\ target[t] = l
           /\ spin' = [spin EXCEPT ![l] = NoThread]
  <2>1. spin[l] = t
    BY <1>2 DEF IndInv, SwitchKeepsTo, Switching
  <2>2. ASSUME NEW v \in Threads, v # t, pc[v] \in Switching, pc[v] # "switch_call"
        PROVE  spin'[target[v]] = v
    <3>1. spin[target[v]] = v
      BY <2>2 DEF IndInv, SwitchKeepsTo
    <3>2. target[v] \in Locks /\ target[v] # l
      BY <2>1, <2>2, <3>1, Types
    <3> QED BY <1>2, <3>1, <3>2, Types
  <2>3. spin' \in [Locks -> Threads \cup {NoThread}]
    BY <1>2, Types
  <2> QED BY <2>2, <2>3
<1> QED BY <1>1, <1>2

\* Taking a free lock preserves the invariant, both for a caller that just
\* took the spinlock and for a switcher that held it all along.
LEMMA TakeFreeStep ==
    ASSUME IndInv, NEW t \in Threads, NEW l \in Locks, TakeFree(t, l),
           UNCHANGED from,
           \/ pc[t] = "idle" /\ UNCHANGED spin
           \/ /\ pc[t] = "switch_acquire" /\ target[t] = l
              /\ spin' = [spin EXCEPT ![l] = NoThread]
    PROVE  IndInv'
<1>1. /\ holder[l] = NoThread
      /\ UNCHANGED <<waiters, wait, cleared, target, from>>
      /\ pc[t] \notin Waiting
  BY DEF TakeFree, Waiting
<1>2. /\ holder' \in [Locks -> Threads \cup {NoThread, Destroyed}]
      /\ holder'[l] = t
      /\ \A k \in Locks : k # l => holder'[k] = holder[k]
  BY DEF IndInv, TypeOK, TakeFree
<1>3. /\ held' \in [Threads -> SUBSET Locks]
      /\ held'[t] = held[t] \cup {l}
      /\ \A v \in Threads : v # t => held'[v] = held[v]
  BY DEF IndInv, TypeOK, TakeFree, ReturnHolding
<1>4. /\ pc' \in [Threads -> Waiting \cup Switching \cup {"idle"}]
      /\ pc'[t] = "idle"
      /\ \A v \in Threads : v # t => pc'[v] = pc[v]
  BY DEF IndInv, TypeOK, TakeFree, ReturnHolding, Goto
<1>5. /\ spin' \in [Locks -> Threads \cup {NoThread}]
      /\ \A v \in Threads :
            v # t /\ pc[v] \in Switching /\ pc[v] # "switch_call" =>
               spin'[target[v]] = v
  BY SpinDropped
<1>6. TypeOK'
  BY <1>1, <1>2, <1>3, <1>4, <1>5 DEF IndInv, TypeOK
<1>7. \A v \in Threads : l \notin held[v]
  BY <1>1, HolderValues DEF IndInv, HeldIsHolder
<1>8. HeldIsHolder'
  BY <1>2, <1>3, <1>7, Types DEF IndInv, HeldIsHolder
<1>9. HolderOwns'
  BY <1>1, <1>2, <1>3, <1>4 DEF IndInv, HolderOwns, Granted, Queued
<1>10. ToSet(waiters[l]) = {}
  BY <1>1, HolderValues DEF IndInv, QueuedWaits
<1>11. QueuedWaits'
  <2>1. \A k \in Locks : \A v \in ToSet(waiters[k]) : v \in Threads /\ v # t /\ k # l
    BY <1>1, <1>10, QueueMembers DEF IndInv, TypeOK, QueuedWaits
  <2> QED BY <1>1, <1>2, <1>4, <2>1 DEF IndInv, QueuedWaits
<1>12. UnqueuedWoken'
  BY <1>1, <1>2, <1>4, HolderValues, Labels, Types
     DEF IndInv, UnqueuedWoken, Granted, Queued
<1>13. SwitchKeepsTo'
  BY <1>1, <1>2, <1>3, <1>4, <1>5, HolderValues, Labels, Types
     DEF IndInv, SwitchKeepsTo
<1>14. Apart'
  BY <1>1, <1>4 DEF IndInv, Apart
<1> QED BY <1>6, <1>8, <1>9, <1>11, <1>12, <1>13, <1>14 DEF IndInv

\* Queueing for a lock somebody holds preserves the invariant.
LEMMA EnqueueStep ==
    ASSUME IndInv, NEW t \in Threads, NEW l \in Locks,
           NEW label \in {"block", "timed_block"}, Enqueue(t, l, label),
           l \notin held[t],
           label = "timed_block" => TimedThreads # {},
           UNCHANGED from,
           \/ pc[t] = "idle" /\ UNCHANGED spin
           \/ /\ pc[t] = "switch_acquire" /\ target[t] = l
              /\ spin' = [spin EXCEPT ![l] = NoThread]
    PROVE  IndInv'
<1>1. /\ holder[l] \in Threads
      /\ UNCHANGED <<holder, held, from>>
      /\ pc[t] \notin Waiting
      /\ cleared' = cleared \ {t}
  BY DEF Enqueue, Waiting
<1>2. /\ wait' \in [Threads -> Statuses]
      /\ wait'[t] = Blocked
      /\ \A v \in Threads : v # t => wait'[v] = wait[v]
  BY DEF IndInv, TypeOK, Enqueue, thread_prepare_to_block, Statuses
<1>3. /\ target' \in [Threads -> Locks]
      /\ target'[t] = l
      /\ \A v \in Threads : v # t => target'[v] = target[v]
  BY DEF IndInv, TypeOK, Enqueue
<1>4. /\ pc' \in [Threads -> Waiting \cup Switching \cup {"idle"}]
      /\ pc'[t] = label
      /\ \A v \in Threads : v # t => pc'[v] = pc[v]
  BY DEF IndInv, TypeOK, Enqueue, Goto, Waiting
<1>5. /\ spin' \in [Locks -> Threads \cup {NoThread}]
      /\ \A v \in Threads :
            v # t /\ pc[v] \in Switching /\ pc[v] # "switch_call" =>
               spin'[target[v]] = v
  BY SpinDropped
<1>6. /\ waiters' \in [Locks -> Seq(Threads)]
      /\ \A k \in Locks : IsInjective(waiters'[k])
      /\ \A k \in Locks : k # l => waiters'[k] = waiters[k]
      /\ ToSet(waiters'[l]) = ToSet(waiters[l]) \cup {t}
  BY <1>1, EnqueueQueues DEF IndInv
<1>7. TypeOK'
  BY <1>1, <1>2, <1>3, <1>4, <1>5, <1>6 DEF IndInv, TypeOK
<1>8. HeldIsHolder'
  BY <1>1 DEF IndInv, HeldIsHolder
<1>9. holder[l] # t
  BY <1>1 DEF IndInv, HolderOwns, Granted
<1>10. HolderOwns'
  <2>1. ASSUME NEW k \in Locks, NEW v \in Threads, holder[k] = v, k \notin held[v]
        PROVE  Granted(v, k)'
    <3>1. Granted(v, k)
      BY <2>1 DEF IndInv, HolderOwns
    <3>2. v # t
      BY <1>1, <3>1 DEF Granted
    <3>3. ~Queued(v, k)'
      BY <1>6, <3>1, <3>2 DEF Granted, Queued
    <3> QED BY <1>1, <1>2, <1>3, <1>4, <3>1, <3>2, <3>3 DEF Granted
  <2> QED BY <1>1, <2>1 DEF HolderOwns
<1>11. \A k \in Locks : t \notin ToSet(waiters[k])
  BY <1>1 DEF IndInv, QueuedWaits
<1>12. QueuedWaits'
  <2>1. \A k \in Locks : \A v \in ToSet(waiters[k]) : v \in Threads
    BY QueueMembers DEF IndInv, TypeOK
  <2>2. ASSUME NEW k \in Locks, NEW v \in ToSet(waiters[k])
        PROVE  QueuedWaits!(k)!(v)'
    BY <1>1, <1>2, <1>3, <1>4, <1>11, <2>1 DEF IndInv, QueuedWaits
  <2>3. QueuedWaits!(l)!(t)'
    BY <1>1, <1>2, <1>3, <1>4, <1>9 DEF Waiting
  <2> QED BY <1>6, <2>2, <2>3 DEF QueuedWaits
<1>13. UnqueuedWoken'
  <2>1. ASSUME NEW v \in Threads, pc[v] \in Waiting, ~Queued(v, target[v])', v # t
        PROVE  UnqueuedWoken!(v)!2'
    <3>1. target'[v] = target[v] /\ target[v] \in Locks /\ ~Queued(v, target[v])
      BY <1>3, <1>6, <2>1, Types DEF Queued
    <3> QED
      BY <1>1, <1>2, <1>3, <1>4, <2>1, <3>1 DEF IndInv, UnqueuedWoken, Granted, Queued
  <2>2. Queued(t, target[t])'
    BY <1>3, <1>6 DEF Queued
  <2> QED BY <1>4, <2>1, <2>2 DEF UnqueuedWoken
<1>14. SwitchKeepsTo'
  BY <1>1, <1>3, <1>4, <1>5, Types DEF IndInv, SwitchKeepsTo, Switching
<1>15. Apart'
  BY <1>1, <1>4 DEF IndInv, Apart
<1> QED BY <1>7, <1>8, <1>10, <1>12, <1>13, <1>14, <1>15 DEF IndInv

\* Releasing a lock preserves the invariant: the head of the queue, timed out
\* or not, becomes the owner in the same critical section that dequeues it.
LEMMA HandOffStep ==
    ASSUME IndInv, NEW t \in Threads, NEW l \in Locks,
           l \in held[t], HandOff(t, l),
           UNCHANGED <<spin, cleared, target, from>>,
           \/ pc[t] = "idle" /\ UNCHANGED pc
           \/ /\ pc[t] = "switch" /\ from[t] = l
              /\ pc' = [pc EXCEPT ![t] = "switch_acquire"]
    PROVE  IndInv'
<1>1. holder[l] = t /\ pc[t] \notin Waiting
  BY DEF IndInv, HeldIsHolder, Waiting
<1>2. /\ held' \in [Threads -> SUBSET Locks]
      /\ held'[t] = held[t] \ {l}
      /\ \A v \in Threads : v # t => held'[v] = held[v]
  BY Types DEF HandOff
<1>3. /\ pc' \in [Threads -> Waiting \cup Switching \cup {"idle"}]
      /\ \A v \in Threads : v # t => pc'[v] = pc[v]
      /\ pc'[t] \notin Waiting
      /\ \/ pc[t] = "idle" /\ pc'[t] = "idle"
         \/ pc[t] = "switch" /\ pc'[t] = "switch_acquire" /\ from[t] = l
  BY Types DEF Waiting, Switching
<1>4. \A v \in Threads : v # t => l \notin held[v]
  BY <1>1 DEF IndInv, HeldIsHolder
<1>5. /\ waiters' \in [Locks -> Seq(Threads)]
      /\ \A k \in Locks : IsInjective(waiters'[k])
      /\ \A k \in Locks \ {l} : waiters'[k] = waiters[k]
      /\ \/ /\ ToSet(waiters[l]) = {} /\ ToSet(waiters'[l]) = {}
            /\ holder' = [holder EXCEPT ![l] = NoThread] /\ wait' = wait
         \/ \E h \in ToSet(waiters[l]) :
               /\ h \in Threads
               /\ ToSet(waiters'[l]) = ToSet(waiters[l]) \ {h}
               /\ holder' = [holder EXCEPT ![l] = h]
               /\ wait' = thread_unblock(wait, h, "B_OK")
  BY HandOffQueues DEF IndInv
<1>6. \A k \in Locks : \A v \in ToSet(waiters[k]) :
         /\ v \in Threads /\ v # t /\ pc[v] \in Waiting /\ target[v] = k
         /\ v \notin cleared
  BY <1>1, QueueMembers DEF IndInv, TypeOK, QueuedWaits
<1>7. \A v \in Threads : v # t => ~Granted(v, l)
  <2>1. SUFFICES ASSUME NEW v \in Threads, v # t, Granted(v, l) PROVE FALSE
    OBVIOUS
  <2> QED BY <1>1, <2>1 DEF IndInv, UnqueuedWoken, Granted
<1>8. SwitchKeepsTo' /\ Apart'
  <2>1. \A k \in Locks : holder[k] # Destroyed => holder'[k] # Destroyed
    BY <1>5, Types, HolderValues
  <2>2. SwitchKeepsTo'
    BY <1>2, <1>3, <1>4, <2>1, Types, Labels DEF IndInv, SwitchKeepsTo, Switching
  <2>3. Apart'
    BY <1>3 DEF IndInv, Apart, Waiting
  <2> QED BY <2>2, <2>3
<1>9. CASE /\ ToSet(waiters[l]) = {} /\ ToSet(waiters'[l]) = {}
           /\ holder' = [holder EXCEPT ![l] = NoThread] /\ wait' = wait
  <2>1. /\ holder' \in [Locks -> Threads \cup {NoThread, Destroyed}]
        /\ holder'[l] = NoThread
        /\ \A k \in Locks : k # l => holder'[k] = holder[k]
    BY <1>9, Types
  <2>2. \A k \in Locks : ToSet(waiters'[k]) = ToSet(waiters[k])
    BY <1>5, <1>9
  <2>3. TypeOK'
    BY <1>2, <1>3, <1>5, <1>9, <2>1 DEF IndInv, TypeOK
  <2>4. HeldIsHolder'
    BY <1>2, <1>4, <2>1, Types DEF IndInv, HeldIsHolder
  <2>5. HolderOwns'
    <3>1. ASSUME NEW k \in Locks, k # l, NEW v \in Threads, holder[k] = v
          PROVE  k \in held'[v] \/ Granted(v, k)'
      <4>1. k \in held[v] => k \in held'[v]
        BY <1>2, <3>1
      <4>2. k \in held[v] \/ Granted(v, k)
        BY <3>1 DEF IndInv, HolderOwns
      <4>3. CASE Granted(v, k)
        BY <1>1, <1>3, <1>9, <2>2, <4>3 DEF Granted, Queued
      <4> QED BY <4>1, <4>2, <4>3
    <3> QED BY <2>1, <3>1, HolderValues DEF HolderOwns
  <2>6. QueuedWaits'
    <3>1. ASSUME NEW k \in Locks, NEW v \in ToSet(waiters[k])
          PROVE  QueuedWaits!(k)!(v)'
      <4>1. v \in Threads /\ v # t /\ k # l /\ QueuedWaits!(k)!(v)
        BY <1>6, <1>9, <3>1 DEF IndInv, QueuedWaits
      <4> QED BY <1>3, <1>9, <2>1, <4>1
    <3> QED BY <2>2, <3>1 DEF QueuedWaits
  <2>7. UnqueuedWoken'
    <3>1. ASSUME NEW v \in Threads, v # t, pc[v] \in Waiting, ~Queued(v, target[v])
          PROVE  UnqueuedWoken!(v)!2'
      <4>1. target[v] \in Locks
        BY Types
      <4>2. UnqueuedWoken!(v)!2
        BY <3>1 DEF IndInv, UnqueuedWoken
      <4>3. target[v] # l
        BY <1>1, <3>1, <4>2, HolderValues
      <4>4. Granted(v, target[v]) => Granted(v, target[v])'
        BY <1>3, <1>9, <2>2, <3>1, <4>1 DEF Granted, Queued
      <4> QED BY <1>3, <1>9, <2>1, <3>1, <4>1, <4>2, <4>3, <4>4
    <3> QED BY <1>3, <2>2, <3>1, Types DEF UnqueuedWoken, Queued
  <2> QED BY <1>8, <2>3, <2>4, <2>5, <2>6, <2>7 DEF IndInv
<1>10. ASSUME NEW h \in ToSet(waiters[l]), h \in Threads,
              ToSet(waiters'[l]) = ToSet(waiters[l]) \ {h},
              holder' = [holder EXCEPT ![l] = h],
              wait' = thread_unblock(wait, h, "B_OK")
       PROVE  IndInv'
  <2>1. /\ holder' \in [Locks -> Threads \cup {NoThread, Destroyed}]
        /\ holder'[l] = h
        /\ \A k \in Locks : k # l => holder'[k] = holder[k]
    BY <1>10, Types
  <2>2. /\ h # t /\ pc[h] \in Waiting /\ target[h] = l /\ h \notin cleared
        /\ pc[h] = "block" => wait[h] = Blocked
        /\ wait[h] \in {Blocked, "B_TIMED_OUT"}
    BY <1>6, <1>10 DEF IndInv, QueuedWaits, Waiting
  <2>3. /\ wait' \in [Threads -> Statuses]
        /\ wait'[h] \in {"B_OK", "B_TIMED_OUT"}
        /\ wait[h] = Blocked => wait'[h] = "B_OK"
        /\ \A v \in Threads : v # h => wait'[v] = wait[v]
    BY <1>10, <2>2 DEF IndInv, TypeOK, thread_unblock, thread_is_blocked, Statuses, Results
  <2>4. TypeOK'
    BY <1>2, <1>3, <1>5, <2>1, <2>3 DEF IndInv, TypeOK
  <2>5. HeldIsHolder'
    BY <1>2, <1>4, <2>1, Types DEF IndInv, HeldIsHolder
  <2>6. Granted(h, l)'
    <3>1. ~Queued(h, l)'
      BY <1>10 DEF Queued
    <3> QED BY <1>3, <1>10, <2>2, <2>3, <3>1 DEF Granted
  <2>7. ASSUME NEW v \in Threads, v # h, NEW k \in Locks, Granted(v, k)
        PROVE  Granted(v, k)'
    <3>1. ~Queued(v, k)'
      BY <1>5, <1>10, <2>7 DEF Granted, Queued
    <3>2. v # t
      BY <1>1, <2>7 DEF Granted
    <3> QED BY <1>3, <2>3, <2>7, <3>1, <3>2 DEF Granted
  <2>8. HolderOwns'
    <3>1. ASSUME NEW k \in Locks, k # l, NEW v \in Threads, holder[k] = v
          PROVE  k \in held'[v] \/ Granted(v, k)'
      <4>1. k \in held[v] => k \in held'[v]
        BY <1>2, <3>1
      <4>2. Granted(v, k) => v # h
        BY <2>2, <3>1 DEF Granted
      <4>3. k \in held[v] \/ Granted(v, k)
        BY <3>1 DEF IndInv, HolderOwns
      <4>4. CASE Granted(v, k)
        BY <2>7, <4>2, <4>4
      <4> QED BY <4>1, <4>3, <4>4
    <3> QED BY <2>1, <2>6, <3>1 DEF HolderOwns
  <2>9. QueuedWaits'
    <3>1. ASSUME NEW k \in Locks, NEW v \in ToSet(waiters'[k])
          PROVE  QueuedWaits!(k)!(v)'
      <4>1. v \in ToSet(waiters[k]) /\ v # h
        BY <1>5, <1>6, <1>10, <2>2, <3>1
      <4>2. v \in Threads /\ v # t /\ QueuedWaits!(k)!(v)
        BY <1>6, <4>1 DEF IndInv, QueuedWaits
      <4>3. holder'[k] \in Threads \ {v}
        BY <1>10, <2>1, <4>1, <4>2
      <4> QED BY <1>3, <2>3, <4>1, <4>2, <4>3
    <3> QED BY <3>1 DEF QueuedWaits
  <2>10. UnqueuedWoken'
    <3>1. ASSUME NEW v \in Threads, v # h, v # t, pc[v] \in Waiting,
                 ~Queued(v, target[v])'
          PROVE  UnqueuedWoken!(v)!2'
      <4>1. target[v] \in Locks
        BY Types
      <4>2. ~Queued(v, target[v])
        BY <1>5, <1>10, <3>1, <4>1 DEF Queued
      <4>3. UnqueuedWoken!(v)!2
        BY <3>1, <4>2 DEF IndInv, UnqueuedWoken
      <4>4. target[v] # l
        BY <1>1, <3>1, <4>3, HolderValues
      <4> QED BY <1>3, <2>1, <2>3, <2>7, <3>1, <4>1, <4>3, <4>4
    <3>2. UnqueuedWoken!(h)!2'
      BY <2>1, <2>2, <2>6
    <3> QED BY <1>3, <3>1, <3>2 DEF UnqueuedWoken
  <2> QED BY <1>8, <2>4, <2>5, <2>8, <2>9, <2>10 DEF IndInv
<1> QED BY <1>5, <1>9, <1>10

\* mutex_init() preserves the invariant: nobody refers to the lock.
LEMMA InitStep ==
    ASSUME IndInv, NEW l \in Locks, mutex_init(l)
    PROVE  IndInv'
<1>1. /\ holder[l] = Destroyed
      /\ \A v \in Threads : pc[v] # "idle" => target[v] # l
      /\ UNCHANGED <<waiters, spin, wait, cleared, pc, target, from, held>>
  BY DEF mutex_init
<1>2. /\ holder' \in [Locks -> Threads \cup {NoThread, Destroyed}]
      /\ holder'[l] = NoThread
      /\ \A k \in Locks : k # l => holder'[k] = holder[k]
  BY Types DEF mutex_init
<1>3. TypeOK'
  BY <1>1, <1>2 DEF IndInv, TypeOK
<1>4. HeldIsHolder'
  BY <1>1, <1>2, Types, HolderValues DEF IndInv, HeldIsHolder
<1>5. HolderOwns'
  BY <1>1, <1>2, HolderValues DEF IndInv, HolderOwns, Granted, Queued
<1>6. QueuedWaits'
  BY <1>1, <1>2, HolderValues DEF IndInv, QueuedWaits
<1>7. UnqueuedWoken'
  BY <1>1, <1>2, Types, HolderValues DEF IndInv, UnqueuedWoken, Granted, Queued
<1>8. SwitchKeepsTo' /\ Apart'
  BY <1>1, <1>2, Types, HolderValues DEF IndInv, SwitchKeepsTo, Apart
<1> QED BY <1>3, <1>4, <1>5, <1>6, <1>7, <1>8 DEF IndInv

\* mutex_transfer_lock() preserves the invariant: both threads are outside
\* lock.cpp, and the new owner is told.
LEMMA TransferStep ==
    ASSUME IndInv, NEW t \in Threads, NEW l \in Locks, NEW u \in Threads,
           mutex_transfer_lock(t, l, u)
    PROVE  IndInv'
<1>1. /\ pc[t] = "idle" /\ pc[u] = "idle" /\ u # t /\ l \in held[t] /\ holder[l] = t
      /\ UNCHANGED <<waiters, spin, wait, cleared, pc, target, from>>
  BY DEF IndInv, HeldIsHolder, mutex_transfer_lock
<1>2. /\ holder' \in [Locks -> Threads \cup {NoThread, Destroyed}]
      /\ holder'[l] = u
      /\ \A k \in Locks : k # l => holder'[k] = holder[k]
  BY Types DEF mutex_transfer_lock
<1>3. held' = [held EXCEPT ![t] = @ \ {l}, ![u] = @ \cup {l}]
  BY DEF mutex_transfer_lock
<1>4. held' \in [Threads -> SUBSET Locks]
  BY <1>1, <1>3, Types
<1>5. \A v \in Threads, k \in Locks :
        k # l => (k \in held'[v] <=> k \in held[v])
  BY <1>1, <1>3, Types
<1>6. \A v \in Threads : l \in held[v] => v = t
  BY <1>1 DEF IndInv, HeldIsHolder
<1>7. \A v \in Threads : l \in held'[v] <=> v = u
  BY <1>1, <1>3, <1>6, Types
<1>8. TypeOK'
  BY <1>1, <1>2, <1>4 DEF IndInv, TypeOK
<1>9. HeldIsHolder'
  BY <1>2, <1>4, <1>5, <1>7, Types DEF IndInv, HeldIsHolder
<1>10. HolderOwns'
  BY <1>1, <1>2, <1>5, <1>7 DEF IndInv, HolderOwns, Granted, Queued
<1>11. QueuedWaits'
  BY <1>1, <1>2 DEF IndInv, QueuedWaits, Waiting
<1>12. UnqueuedWoken'
  <2>1. ASSUME NEW v \in Threads, pc[v] \in Waiting, ~Queued(v, target[v])
        PROVE  UnqueuedWoken!(v)!2'
    <3>1. v # t /\ target[v] \in Locks /\ UnqueuedWoken!(v)!2
      BY <1>1, <2>1, Types, Labels DEF IndInv, UnqueuedWoken
    <3>2. target[v] # l
      BY <1>1, <3>1, HolderValues
    <3> QED BY <1>1, <1>2, <2>1, <3>1, <3>2 DEF Granted, Queued
  <2> QED BY <1>1, <2>1 DEF UnqueuedWoken, Queued
<1>13. SwitchKeepsTo'
  <2>1. ASSUME NEW v \in Threads, pc[v] \in Switching PROVE SwitchKeepsTo!(v)!2'
    <3>1. v # u /\ v # t /\ held'[v] = held[v]
      BY <1>1, <1>3, <2>1, Types, Labels
    <3>2. target[v] \in Locks /\ SwitchKeepsTo!(v)!2
      BY <2>1, Types DEF IndInv, SwitchKeepsTo
    <3>3. holder'[target[v]] # Destroyed
      BY <1>2, <3>2, HolderValues
    <3> QED BY <1>1, <3>1, <3>2, <3>3
  <2> QED BY <1>1, <2>1 DEF SwitchKeepsTo
<1>14. Apart'
  BY <1>1 DEF IndInv, Apart
<1> QED BY <1>8, <1>9, <1>10, <1>11, <1>12, <1>13, <1>14 DEF IndInv

\* mutex_destroy() preserves the invariant: whoever waits is told, and nobody
\* can be switching to the lock.
LEMMA DestroyStep ==
    ASSUME IndInv, TimeoutsAndDestructionApart,
           NEW t \in Threads, NEW l \in Locks, mutex_destroy(t, l)
    PROVE  IndInv'
<1>1. /\ pc[t] = "idle" /\ l \in Destroyable /\ holder[l] \in {NoThread, t}
      /\ \A p \in SwitchPairs : p[2] = l => p[1] \in held[t]
      /\ spin[l] = NoThread
      /\ UNCHANGED <<spin, pc, target, from>>
  BY DEF mutex_destroy, SpinFree
<1>2. TimedThreads = {} /\ \A v \in Threads : pc[v] \notin {"timed_block", "timed_out"}
  BY <1>1 DEF TimeoutsAndDestructionApart, IndInv, Apart
<1>3. /\ holder' \in [Locks -> Threads \cup {NoThread, Destroyed}]
      /\ holder'[l] = Destroyed
      /\ \A k \in Locks : k # l => holder'[k] = holder[k]
  BY Types DEF mutex_destroy
<1>4. /\ held' \in [Threads -> SUBSET Locks]
      /\ held'[t] = held[t] \ {l}
      /\ \A v \in Threads : v # t => held'[v] = held[v]
  BY Types DEF mutex_destroy
<1>5. \A k \in Locks : ToSet(waiters[k]) \subseteq Threads
  BY QueueMembers DEF IndInv, TypeOK
<1>6. /\ waiters' \in [Locks -> Seq(Threads)]
      /\ \A k \in Locks : k # l => waiters'[k] = waiters[k]
      /\ waiters'[l] = <<>>
      /\ ToSet(waiters'[l]) = {}
      /\ \A k \in Locks : IsInjective(waiters'[k])
  BY EmptyQueue DEF mutex_destroy, DrainWaiters, IndInv, TypeOK
<1>7. cleared' = cleared \cup ToSet(waiters[l])
  BY DEF mutex_destroy, DrainWaiters
<1>8. \A v \in ToSet(waiters[l]) : pc[v] = "block" /\ wait[v] = Blocked /\ target[v] = l
  BY <1>2, <1>5 DEF IndInv, QueuedWaits, Waiting
<1>9. /\ wait' \in [Threads -> Statuses]
      /\ \A v \in ToSet(waiters[l]) : wait'[v] = "B_ERROR"
      /\ \A v \in Threads : v \notin ToSet(waiters[l]) => wait'[v] = wait[v]
  BY <1>5, <1>8
     DEF mutex_destroy, DrainWaiters, thread_unblock_all, thread_is_blocked,
         IndInv, TypeOK, Statuses, Results
<1>10. \A k \in Locks : k # l => \A v \in ToSet(waiters[k]) : v \notin ToSet(waiters[l])
  BY <1>8 DEF IndInv, QueuedWaits
<1>11. TypeOK'
  BY <1>1, <1>3, <1>4, <1>5, <1>6, <1>7, <1>9 DEF IndInv, TypeOK
<1>12. HeldIsHolder'
  BY <1>1, <1>3, <1>4, Types, HolderValues DEF IndInv, HeldIsHolder
<1>13. ASSUME NEW v \in Threads, NEW k \in Locks, k # l, Granted(v, k)
       PROVE  Granted(v, k)'
  <2>1. v \notin ToSet(waiters[l])
    BY <1>8, <1>13 DEF Granted
  <2>2. ~Queued(v, k)'
    BY <1>6, <1>13 DEF Granted, Queued
  <2> QED BY <1>1, <1>7, <1>9, <1>13, <2>1, <2>2 DEF Granted
<1>14. HolderOwns'
  <2>1. ASSUME NEW k \in Locks, k # l, NEW v \in Threads, holder[k] = v
        PROVE  k \in held'[v] \/ Granted(v, k)'
    <3>1. k \in held[v] => k \in held'[v]
      BY <1>4, <2>1
    <3>2. k \in held[v] \/ Granted(v, k)
      BY <2>1 DEF IndInv, HolderOwns
    <3>3. CASE Granted(v, k)
      BY <1>13, <2>1, <3>3
    <3> QED BY <3>1, <3>2, <3>3
  <2> QED BY <1>3, <2>1, HolderValues DEF HolderOwns
<1>15. QueuedWaits'
  <2>1. ASSUME NEW k \in Locks, NEW v \in ToSet(waiters'[k])
        PROVE  QueuedWaits!(k)!(v)'
    <3>1. k # l /\ v \in ToSet(waiters[k]) /\ v \in Threads
      BY <1>5, <1>6, <2>1
    <3>2. v \notin ToSet(waiters[l])
      BY <1>10, <3>1
    <3>3. QueuedWaits!(k)!(v)
      BY <3>1 DEF IndInv, QueuedWaits
    <3> QED BY <1>1, <1>3, <1>7, <1>9, <3>1, <3>2, <3>3
  <2> QED BY <2>1 DEF QueuedWaits
<1>16. UnqueuedWoken'
  <2>1. ASSUME NEW v \in Threads, pc[v] \in Waiting, ~Queued(v, target[v])',
               v \notin ToSet(waiters[l])
        PROVE  UnqueuedWoken!(v)!2'
    <3>1. target[v] \in Locks /\ ~Queued(v, target[v])
      BY <1>1, <1>6, <2>1, Types DEF Queued
    <3>2. UnqueuedWoken!(v)!2
      BY <2>1, <3>1 DEF IndInv, UnqueuedWoken
    <3>3. CASE holder[target[v]] = v /\ Granted(v, target[v])
      <4>1. v # t
        BY <1>1, <2>1, Labels
      <4>2. target[v] # l
        BY <1>1, <3>3, <4>1, HolderValues
      <4> QED BY <1>1, <1>3, <1>13, <3>1, <3>3, <4>2
    <3>4. CASE /\ v \in cleared /\ pc[v] = "block" /\ wait[v] = "B_ERROR"
               /\ holder[target[v]] = Destroyed
      BY <1>1, <1>3, <1>7, <1>9, <2>1, <3>1, <3>4
    <3> QED BY <3>2, <3>3, <3>4
  <2>2. ASSUME NEW v \in ToSet(waiters[l]) PROVE UnqueuedWoken!(v)!2'
    BY <1>1, <1>3, <1>7, <1>8, <1>9, <2>2
  <2> QED BY <1>1, <2>1, <2>2 DEF UnqueuedWoken
<1>17. SwitchKeepsTo'
  <2>1. ASSUME NEW v \in Threads, pc[v] \in Switching PROVE target[v] # l /\ v # t
    <3>1. v # t
      BY <1>1, <2>1, Labels
    <3>2. CASE pc[v] # "switch_call"
      BY <1>1, <2>1, <3>1, <3>2, HolderValues DEF IndInv, SwitchKeepsTo
    <3>3. CASE pc[v] = "switch_call"
      <4>1. from[v] \in held[v] /\ <<from[v], target[v]>> \in SwitchPairs
        BY <2>1, <3>3 DEF IndInv, SwitchKeepsTo
      <4>2. from[v] \notin held[t]
        BY <3>1, <4>1 DEF IndInv, HeldIsHolder
      <4>3. \A p \in SwitchPairs : p = <<from[v], target[v]>> => p[1] = from[v] /\ p[2] = target[v]
        OBVIOUS
      <4> QED BY <1>1, <3>1, <4>1, <4>2, <4>3
    <3> QED BY <3>2, <3>3
  <2> QED BY <1>1, <1>3, <1>4, <2>1, Types DEF IndInv, SwitchKeepsTo
<1>18. Apart'
  BY <1>1, <1>2 DEF Apart
<1> QED BY <1>11, <1>12, <1>14, <1>15, <1>16, <1>17, <1>18 DEF IndInv

\* Entering mutex_switch_lock(), and taking the spinlock of "to", preserve the
\* invariant.
LEMMA SwitchCallStep ==
    ASSUME IndInv, NEW t \in Threads, NEW l \in Locks, NEW m \in Locks,
           mutex_switch_lock(t, l, m)
    PROVE  IndInv'
<1>1. /\ pc[t] = "idle" /\ <<l, m>> \in SwitchPairs /\ l \in held[t]
      /\ m \notin held[t] /\ holder[m] # Destroyed /\ l # m
      /\ UNCHANGED <<holder, waiters, spin, wait, cleared, held>>
  BY DEF mutex_switch_lock, MayLock
<1>2. /\ pc' \in [Threads -> Waiting \cup Switching \cup {"idle"}]
      /\ pc'[t] = "switch_call"
      /\ \A v \in Threads : v # t => pc'[v] = pc[v]
  BY Types DEF mutex_switch_lock, Goto, Switching
<1>3. /\ target' \in [Threads -> Locks]
      /\ target'[t] = m
      /\ \A v \in Threads : v # t => target'[v] = target[v]
  BY Types DEF mutex_switch_lock
<1>4. /\ from' \in [Threads -> Locks]
      /\ from'[t] = l
      /\ \A v \in Threads : v # t => from'[v] = from[v]
  BY Types DEF mutex_switch_lock
<1>5. /\ pc[t] \notin Waiting /\ pc'[t] \notin Waiting
      /\ "switch_call" \notin {"timed_block", "timed_out"}
  BY <1>1, <1>2 DEF Waiting
<1>6. TypeOK'
  BY <1>1, <1>2, <1>3, <1>4 DEF IndInv, TypeOK
<1>7. HeldIsHolder'
  BY <1>1 DEF IndInv, HeldIsHolder
<1>8. HolderOwns'
  BY <1>1, <1>2, <1>3, <1>5 DEF IndInv, HolderOwns, Granted, Queued
<1>9. QueuedWaits'
  <2>1. ASSUME NEW k \in Locks, NEW v \in ToSet(waiters[k])
        PROVE  QueuedWaits!(k)!(v)'
    <3>1. QueuedWaits!(k)!(v)
      BY DEF IndInv, QueuedWaits
    <3>2. v \in Threads /\ v # t
      BY <1>5, <2>1, <3>1, QueueMembers DEF IndInv, TypeOK
    <3> QED BY <1>1, <1>2, <1>3, <3>1, <3>2
  <2> QED BY <1>1, <2>1 DEF QueuedWaits
<1>10. UnqueuedWoken'
  BY <1>1, <1>2, <1>3, <1>5 DEF IndInv, UnqueuedWoken, Granted, Queued
<1>11. SwitchKeepsTo'
  BY <1>1, <1>2, <1>3, <1>4 DEF IndInv, SwitchKeepsTo
<1>12. Apart'
  BY <1>1, <1>2, <1>5 DEF IndInv, Apart
<1> QED BY <1>6, <1>7, <1>8, <1>9, <1>10, <1>11, <1>12 DEF IndInv

\* mutex_switch_lock() taking the spinlock of "to" preserves the invariant.
LEMMA SwitchSpinStep ==
    ASSUME IndInv, NEW t \in Threads, SwitchSpin(t)
    PROVE  IndInv'
<1>1. /\ pc[t] = "switch_call" /\ spin[target[t]] = NoThread
      /\ UNCHANGED <<holder, waiters, wait, cleared, target, from, held>>
  BY DEF SwitchSpin, TakeSpin, SpinFree
<1>2. /\ pc' \in [Threads -> Waiting \cup Switching \cup {"idle"}]
      /\ pc'[t] = "switch"
      /\ \A v \in Threads : v # t => pc'[v] = pc[v]
  BY Types DEF SwitchSpin, Goto, Switching
<1>3. /\ spin' \in [Locks -> Threads \cup {NoThread}]
      /\ spin'[target[t]] = t
      /\ \A k \in Locks : k # target[t] => spin'[k] = spin[k]
  BY Types DEF SwitchSpin, TakeSpin
<1>4. /\ pc[t] \notin Waiting /\ pc'[t] \notin Waiting
      /\ "switch" \notin {"timed_block", "timed_out"}
      /\ pc[t] \in Switching
  BY <1>1, <1>2 DEF Waiting, Switching
<1>5. TypeOK'
  BY <1>1, <1>2, <1>3 DEF IndInv, TypeOK
<1>6. HeldIsHolder'
  BY <1>1 DEF IndInv, HeldIsHolder
<1>7. HolderOwns'
  BY <1>1, <1>2, <1>4 DEF IndInv, HolderOwns, Granted, Queued
<1>8. QueuedWaits'
  <2>1. ASSUME NEW k \in Locks, NEW v \in ToSet(waiters[k])
        PROVE  QueuedWaits!(k)!(v)'
    <3>1. QueuedWaits!(k)!(v)
      BY DEF IndInv, QueuedWaits
    <3>2. v \in Threads /\ v # t
      BY <1>4, <2>1, <3>1, QueueMembers DEF IndInv, TypeOK
    <3> QED BY <1>1, <1>2, <3>1, <3>2
  <2> QED BY <1>1, <2>1 DEF QueuedWaits
<1>9. UnqueuedWoken'
  BY <1>1, <1>2, <1>4 DEF IndInv, UnqueuedWoken, Granted, Queued
<1>10. SwitchKeepsTo'
  <2>1. ASSUME NEW v \in Threads, v # t, pc[v] \in Switching
        PROVE  SwitchKeepsTo!(v)!2'
    <3>1. SwitchKeepsTo!(v)!2 /\ target[v] \in Locks
      BY <2>1, Types DEF IndInv, SwitchKeepsTo
    <3>2. pc[v] # "switch_call" => spin'[target[v]] = v
      BY <1>1, <1>3, <3>1, HolderValues
    <3> QED BY <1>1, <1>2, <2>1, <3>1, <3>2
  <2>2. SwitchKeepsTo!(t)!2'
    <3>1. SwitchKeepsTo!(t)!2
      BY <1>4 DEF IndInv, SwitchKeepsTo
    <3> QED BY <1>1, <1>2, <1>3, <3>1
  <2> QED BY <1>2, <2>1, <2>2 DEF SwitchKeepsTo
<1>11. Apart'
  BY <1>1, <1>2, <1>4 DEF IndInv, Apart
<1> QED BY <1>5, <1>6, <1>7, <1>8, <1>9, <1>10, <1>11 DEF IndInv

\* A wait that returns B_OK, timed or not, preserves the invariant: the thread
\* was granted the lock, whatever happened to its timer.
LEMMA ReturnHoldingStep ==
    ASSUME IndInv, NEW t \in Threads, pc[t] \in Waiting,
           holder[target[t]] = t, ReturnHolding(t, target[t]),
           UNCHANGED <<holder, waiters, spin, wait, cleared, target, from>>
    PROVE  IndInv'
<1>1. target[t] \in Locks
  BY Types
<1>2. /\ held' \in [Threads -> SUBSET Locks]
      /\ held'[t] = held[t] \cup {target[t]}
      /\ \A v \in Threads : v # t => held'[v] = held[v]
  BY <1>1, Types DEF ReturnHolding
<1>3. /\ pc' \in [Threads -> Waiting \cup Switching \cup {"idle"}]
      /\ pc'[t] = "idle"
      /\ \A v \in Threads : v # t => pc'[v] = pc[v]
      /\ "idle" \notin {"timed_block", "timed_out"}
  BY Types DEF ReturnHolding, Goto
<1>4. TypeOK'
  BY <1>2, <1>3 DEF IndInv, TypeOK
<1>5. HeldIsHolder'
  BY <1>1, <1>2, Types DEF IndInv, HeldIsHolder
<1>6. HolderOwns'
  <2>1. ASSUME NEW k \in Locks, NEW v \in Threads, holder[k] = v
        PROVE  k \in held'[v] \/ Granted(v, k)'
    <3>1. k \in held[v] => k \in held'[v]
      BY <1>2, <2>1
    <3>2. k \in held[v] \/ Granted(v, k)
      BY <2>1 DEF IndInv, HolderOwns
    <3>3. CASE Granted(v, k) /\ v = t
      BY <1>2, <3>3 DEF Granted
    <3>4. CASE Granted(v, k) /\ v # t
      BY <1>3, <3>4 DEF Granted, Queued
    <3> QED BY <3>1, <3>2, <3>3, <3>4
  <2> QED BY <2>1 DEF HolderOwns
<1>7. QueuedWaits'
  <2>1. ASSUME NEW k \in Locks, NEW v \in ToSet(waiters[k])
        PROVE  QueuedWaits!(k)!(v)'
    <3>1. QueuedWaits!(k)!(v)
      BY DEF IndInv, QueuedWaits
    <3>2. v \in Threads /\ v # t
      BY <2>1, <3>1, QueueMembers DEF IndInv, TypeOK
    <3> QED BY <1>3, <3>1, <3>2
  <2> QED BY <2>1 DEF QueuedWaits
<1>8. UnqueuedWoken'
  BY <1>3, Labels DEF IndInv, UnqueuedWoken, Granted, Queued
<1>9. SwitchKeepsTo'
  BY <1>2, <1>3, Labels DEF IndInv, SwitchKeepsTo
<1>10. Apart'
  BY <1>3 DEF IndInv, Apart
<1> QED BY <1>4, <1>5, <1>6, <1>7, <1>8, <1>9, <1>10 DEF IndInv

\* A waiter that is neither queued nor the owner goes away without a trace,
\* and one that merely moves on to dequeue itself changes nothing either.
LEMMA WaiterMovesStep ==
    ASSUME IndInv, NEW t \in Threads, NEW label, Goto(t, label),
           pc[t] \in Waiting,
           \/ /\ label = "idle" /\ ~Queued(t, target[t])
              /\ holder[target[t]] # t
           \/ /\ label = "timed_out" /\ pc[t] = "timed_block"
              /\ wait[t] = "B_TIMED_OUT",
           UNCHANGED <<holder, waiters, spin, wait, cleared, target, from, held>>
    PROVE  IndInv'
<1>1. /\ pc' \in [Threads -> Waiting \cup Switching \cup {"idle"}]
      /\ pc'[t] = label
      /\ \A v \in Threads : v # t => pc'[v] = pc[v]
      /\ label = "timed_out" \/ label = "idle"
  BY Types DEF Goto, Waiting
<1>2. TypeOK'
  BY <1>1 DEF IndInv, TypeOK
<1>3. HeldIsHolder'
  BY DEF IndInv, HeldIsHolder
<1>4. HolderOwns'
  <2>1. ASSUME NEW k \in Locks, NEW v \in Threads, holder[k] = v, k \notin held[v]
        PROVE  Granted(v, k)'
    <3>1. Granted(v, k)
      BY <2>1 DEF IndInv, HolderOwns
    <3>2. CASE v # t
      BY <1>1, <3>1, <3>2 DEF Granted, Queued
    <3>3. CASE v = t
      <4>1. label = "timed_out"
        BY <2>1, <3>1, <3>3 DEF Granted
      <4> QED BY <1>1, <3>1, <3>3, <4>1 DEF Granted, Queued, Waiting
    <3> QED BY <3>2, <3>3
  <2> QED BY <2>1 DEF HolderOwns
<1>5. QueuedWaits'
  <2>1. ASSUME NEW k \in Locks, NEW v \in ToSet(waiters[k])
        PROVE  QueuedWaits!(k)!(v)'
    <3>1. QueuedWaits!(k)!(v) /\ v \in Threads
      BY <2>1, QueueMembers DEF IndInv, QueuedWaits, TypeOK
    <3>2. CASE v # t
      BY <1>1, <3>1, <3>2
    <3>3. CASE v = t
      <4>1. label = "timed_out" /\ wait[t] = "B_TIMED_OUT"
        BY <2>1, <3>1, <3>3 DEF Queued
      <4> QED BY <1>1, <3>1, <3>3, <4>1 DEF Waiting
    <3> QED BY <3>2, <3>3
  <2> QED BY <2>1 DEF QueuedWaits
<1>6. UnqueuedWoken'
  <2>1. ASSUME NEW v \in Threads, pc'[v] \in Waiting, ~Queued(v, target[v])
        PROVE  UnqueuedWoken!(v)!2'
    <3>1. pc[v] \in Waiting
      BY <1>1, <2>1
    <3>2. UnqueuedWoken!(v)!2
      BY <2>1, <3>1 DEF IndInv, UnqueuedWoken
    <3>3. CASE v # t
      BY <1>1, <3>2, <3>3 DEF Granted, Queued
    <3>4. CASE v = t
      <4>1. label = "timed_out" /\ wait[t] = "B_TIMED_OUT"
        BY <1>1, <2>1, <3>4, Labels
      <4>2. holder[target[t]] = t /\ Granted(t, target[t])
        BY <3>2, <3>4, <4>1
      <4> QED BY <1>1, <3>4, <4>1, <4>2 DEF Granted, Queued, Waiting
    <3> QED BY <3>3, <3>4
  <2> QED BY <2>1 DEF UnqueuedWoken, Queued
<1>7. SwitchKeepsTo'
  BY <1>1 DEF IndInv, SwitchKeepsTo, Switching
<1>8. Apart'
  BY <1>1 DEF IndInv, Apart
<1> QED BY <1>2, <1>3, <1>4, <1>5, <1>6, <1>7, <1>8 DEF IndInv

\* A timeout preserves the invariant: it hits only threads that are queued.
LEMMA TimeOutStep ==
    ASSUME IndInv, NEW t \in Threads, TimeOut(t)
    PROVE  IndInv'
<1>1. /\ pc[t] = "timed_block" /\ wait[t] = Blocked
      /\ UNCHANGED <<holder, waiters, spin, cleared, pc, target, from, held>>
  BY DEF TimeOut, thread_is_blocked
<1>2. /\ wait' \in [Threads -> Statuses]
      /\ wait'[t] = "B_TIMED_OUT"
      /\ \A v \in Threads : v # t => wait'[v] = wait[v]
  BY DEF TimeOut, thread_unblock, thread_is_blocked, IndInv, TypeOK, Statuses, Results
<1>3. pc[t] \in Waiting /\ Blocked \notin Results
  BY <1>1 DEF Waiting, Blocked, Results
<1>4. TypeOK'
  BY <1>1, <1>2 DEF IndInv, TypeOK
<1>5. HeldIsHolder' /\ SwitchKeepsTo' /\ Apart'
  BY <1>1 DEF IndInv, HeldIsHolder, SwitchKeepsTo, Apart
<1>6. \A k \in Locks : ~Granted(t, k)
  BY <1>1, <1>3 DEF Granted, Results
<1>7. HolderOwns'
  BY <1>1, <1>2, <1>6 DEF IndInv, HolderOwns, Granted, Queued
<1>8. QueuedWaits'
  <2>1. ASSUME NEW k \in Locks, NEW v \in ToSet(waiters[k])
        PROVE  QueuedWaits!(k)!(v)'
    <3>1. QueuedWaits!(k)!(v) /\ v \in Threads
      BY <2>1, QueueMembers DEF IndInv, QueuedWaits, TypeOK
    <3> QED BY <1>1, <1>2, <3>1
  <2> QED BY <1>1, <2>1 DEF QueuedWaits
<1>9. UnqueuedWoken'
  <2>1. Queued(t, target[t])
    BY <1>1, <1>3, <1>6, Types DEF IndInv, UnqueuedWoken
  <2> QED BY <1>1, <1>2, <2>1 DEF IndInv, UnqueuedWoken, Granted, Queued
<1> QED BY <1>4, <1>5, <1>7, <1>8, <1>9 DEF IndInv

\* A timed-out waiter that unlinks itself preserves the invariant.
LEMMA DequeueStep ==
    ASSUME IndInv, NEW t \in Threads, NEW i \in DOMAIN waiters[target[t]],
           waiters[target[t]][i] = t,
           waiters' = [waiters EXCEPT ![target[t]] = RemoveAt(@, i)],
           Goto(t, "idle"),
           UNCHANGED <<holder, spin, wait, cleared, target, from, held>>
    PROVE  IndInv'
<1> DEFINE l == target[t]
<1>1. l \in Locks
  BY Types
<1>2. /\ waiters[l] \in Seq(Threads) /\ IsInjective(waiters[l])
      /\ waiters \in [Locks -> Seq(Threads)]
      /\ \A k \in Locks : IsInjective(waiters[k])
  BY <1>1 DEF IndInv, TypeOK
<1>3. /\ RemoveAt(waiters[l], i) \in Seq(Threads)
      /\ ToSet(RemoveAt(waiters[l], i)) = ToSet(waiters[l]) \ {t}
      /\ IsInjective(RemoveAt(waiters[l], i))
  BY <1>2, RemoveAtFacts
<1>4. t \in ToSet(waiters[l])
  BY DEF ToSet
<1> HIDE DEF l
<1>5. waiters' = [waiters EXCEPT ![l] = RemoveAt(waiters[l], i)]
  BY DEF l
<1>6. /\ waiters' \in [Locks -> Seq(Threads)]
      /\ \A k \in Locks : IsInjective(waiters'[k])
      /\ \A k \in Locks : k # l => waiters'[k] = waiters[k]
      /\ ToSet(waiters'[l]) = ToSet(waiters[l]) \ {t}
  BY <1>1, <1>2, <1>3, <1>5
<1>7. /\ pc' \in [Threads -> Waiting \cup Switching \cup {"idle"}]
      /\ pc'[t] = "idle"
      /\ \A v \in Threads : v # t => pc'[v] = pc[v]
      /\ "idle" \notin {"timed_block", "timed_out"}
  BY Types DEF Goto
<1>8. TypeOK'
  BY <1>6, <1>7 DEF IndInv, TypeOK
<1>9. HeldIsHolder'
  BY DEF IndInv, HeldIsHolder
<1>10. \A k \in Locks : ~Granted(t, k)
  BY <1>4 DEF Granted, Queued, l
<1>11. HolderOwns'
  <2>1. ASSUME NEW k \in Locks, NEW v \in Threads, holder[k] = v, k \notin held[v]
        PROVE  Granted(v, k)'
    <3>1. Granted(v, k) /\ v # t
      BY <1>10, <2>1 DEF IndInv, HolderOwns
    <3>2. ~Queued(v, k)'
      BY <1>6, <3>1 DEF Granted, Queued
    <3> QED BY <1>7, <3>1, <3>2 DEF Granted
  <2> QED BY <2>1 DEF HolderOwns
<1>12. QueuedWaits'
  <2>1. ASSUME NEW k \in Locks, NEW v \in ToSet(waiters'[k])
        PROVE  QueuedWaits!(k)!(v)'
    <3>1. v \in ToSet(waiters[k])
      BY <1>6, <2>1
    <3>2. QueuedWaits!(k)!(v) /\ v \in Threads
      BY <3>1, QueueMembers DEF IndInv, QueuedWaits, TypeOK
    <3>3. v # t
      BY <1>6, <2>1, <3>2 DEF l
    <3> QED BY <1>7, <3>2, <3>3
  <2> QED BY <2>1 DEF QueuedWaits
<1>13. UnqueuedWoken'
  <2>1. ASSUME NEW v \in Threads, v # t, pc[v] \in Waiting, ~Queued(v, target[v])'
        PROVE  UnqueuedWoken!(v)!2'
    <3>1. ~Queued(v, target[v]) /\ target[v] \in Locks
      BY <1>6, <2>1, Types DEF Queued
    <3>2. UnqueuedWoken!(v)!2
      BY <2>1, <3>1 DEF IndInv, UnqueuedWoken
    <3> QED BY <1>7, <2>1, <3>1, <3>2 DEF Granted
  <2> QED BY <1>7, <2>1, Labels DEF UnqueuedWoken
<1>14. SwitchKeepsTo'
  BY <1>7, Labels DEF IndInv, SwitchKeepsTo
<1>15. Apart'
  BY <1>7 DEF IndInv, Apart
<1> QED BY <1>8, <1>9, <1>11, <1>12, <1>13, <1>14, <1>15 DEF IndInv

-------------------------------------------------------------------------------
\* Every step of every thread preserves the inductive invariant.
LEMMA IndInvNext ==
    ASSUME TimeoutsAndDestructionApart, IndInv, [Next]_vars
    PROVE  IndInv'
<1>1. ASSUME NEW t \in Threads, NEW l \in Locks, mutex_lock(t, l) PROVE IndInv'
  <2>1. pc[t] = "idle" /\ l \notin held[t] /\ UNCHANGED <<spin, from>>
    BY <1>1 DEF mutex_lock, CallLock, MayLock
  <2>2. CASE TakeFree(t, l)
    BY <2>1, <2>2, TakeFreeStep
  <2>3. CASE Enqueue(t, l, "block")
    BY <2>1, <2>3, EnqueueStep
  <2> QED BY <1>1, <2>2, <2>3 DEF mutex_lock
<1>2. ASSUME NEW t \in Threads, NEW l \in Locks, mutex_trylock(t, l) PROVE IndInv'
  <2>1. pc[t] = "idle" /\ TakeFree(t, l) /\ UNCHANGED <<spin, from>>
    BY <1>2 DEF mutex_trylock, CallLock, MayLock
  <2> QED BY <2>1, TakeFreeStep
<1>3. ASSUME NEW t \in Threads, NEW l \in Locks, mutex_lock_with_timeout(t, l)
      PROVE  IndInv'
  <2>1. /\ pc[t] = "idle" /\ l \notin held[t] /\ UNCHANGED <<spin, from>>
        /\ TimedThreads # {}
    BY <1>3 DEF mutex_lock_with_timeout, CallLock, MayLock
  <2>2. CASE TakeFree(t, l)
    BY <2>1, <2>2, TakeFreeStep
  <2>3. CASE Enqueue(t, l, "timed_block")
    BY <2>1, <2>3, EnqueueStep
  <2> QED BY <1>3, <2>2, <2>3 DEF mutex_lock_with_timeout
<1>4. ASSUME NEW t \in Threads, NEW l \in Locks, mutex_unlock(t, l) PROVE IndInv'
  BY <1>4, HandOffStep DEF mutex_unlock
<1>5. ASSUME NEW t \in Threads, SwitchUnlock(t) PROVE IndInv'
  <2>1. pc[t] = "switch" /\ from[t] \in Locks /\ from[t] \in held[t]
    BY <1>5, Types DEF SwitchUnlock, IndInv, SwitchKeepsTo, Switching
  <2> QED BY <1>5, <2>1, HandOffStep DEF SwitchUnlock, Goto
<1>6. ASSUME NEW t \in Threads, SwitchAcquire(t) PROVE IndInv'
  <2>1. /\ pc[t] = "switch_acquire" /\ target[t] \in Locks /\ target[t] \notin held[t]
        /\ UNCHANGED from /\ spin' = [spin EXCEPT ![target[t]] = NoThread]
    BY <1>6, Types DEF SwitchAcquire, IndInv, SwitchKeepsTo, Switching
  <2>2. CASE TakeFree(t, target[t])
    BY <2>1, <2>2, TakeFreeStep
  <2>3. CASE Enqueue(t, target[t], "block")
    BY <2>1, <2>3, EnqueueStep
  <2> QED BY <1>6, <2>2, <2>3 DEF SwitchAcquire
<1>7. ASSUME NEW t \in Threads, BlockReturn(t) PROVE IndInv'
  <2>1. /\ pc[t] = "block" /\ pc[t] \in Waiting /\ wait[t] # Blocked /\ target[t] \in Locks
        /\ UNCHANGED <<holder, waiters, spin, wait, cleared, target, from>>
    BY <1>7, Types DEF BlockReturn, thread_is_blocked, Waiting
  <2>2. ~Queued(t, target[t])
    BY <2>1 DEF IndInv, QueuedWaits, Queued
  <2>3. UnqueuedWoken!(t)!2
    BY <2>1, <2>2 DEF IndInv, UnqueuedWoken
  <2>4. CASE wait[t] = "B_OK" /\ ReturnHolding(t, target[t])
    BY <2>1, <2>3, <2>4, ReturnHoldingStep
  <2>5. CASE wait[t] # "B_OK" /\ Goto(t, "idle") /\ UNCHANGED held
    <3>1. holder[target[t]] # t
      BY <2>1, <2>3, <2>5, HolderValues DEF Granted
    <3> QED BY <2>1, <2>2, <2>5, <3>1, WaiterMovesStep
  <2> QED BY <1>7, <2>4, <2>5 DEF BlockReturn
<1>8. ASSUME NEW t \in Threads, TimedBlockReturn(t) PROVE IndInv'
  <2>1. /\ pc[t] = "timed_block" /\ pc[t] \in Waiting /\ wait[t] # Blocked
        /\ target[t] \in Locks
        /\ UNCHANGED <<holder, waiters, spin, wait, cleared, target, from>>
    BY <1>8, Types DEF TimedBlockReturn, thread_is_blocked, Waiting
  <2>2. CASE Queued(t, target[t])
    <3>1. wait[t] = "B_TIMED_OUT" /\ t \notin cleared
      BY <2>1, <2>2 DEF IndInv, QueuedWaits, Queued
    <3>2. Goto(t, "timed_out") /\ UNCHANGED held
      BY <1>8, <3>1 DEF TimedBlockReturn
    <3> QED BY <2>1, <3>1, <3>2, WaiterMovesStep
  <2>3. CASE ~Queued(t, target[t])
    <3>1. holder[target[t]] = t /\ Granted(t, target[t])
      BY <2>1, <2>3 DEF IndInv, UnqueuedWoken
    <3>2. CASE wait[t] = "B_OK"
      <4>1. ReturnHolding(t, target[t])
        BY <1>8, <3>2 DEF TimedBlockReturn
      <4> QED BY <2>1, <3>1, <4>1, ReturnHoldingStep
    <3>3. CASE wait[t] = "B_TIMED_OUT"
      <4>1. Goto(t, "timed_out") /\ UNCHANGED held
        BY <1>8, <3>1, <3>3 DEF TimedBlockReturn, Granted
      <4> QED BY <2>1, <3>3, <4>1, WaiterMovesStep
    <3> QED BY <3>1, <3>2, <3>3 DEF Granted
  <2> QED BY <2>2, <2>3
<1>9. ASSUME NEW t \in Threads, TimedDequeue(t) PROVE IndInv'
  <2>1. /\ pc[t] = "timed_out" /\ pc[t] \in Waiting /\ target[t] \in Locks
        /\ UNCHANGED <<holder, spin, wait, cleared, target, from>>
    BY <1>9, Types DEF TimedDequeue, Waiting
  <2>2. ASSUME NEW i \in DOMAIN waiters[target[t]], waiters[target[t]][i] = t,
               waiters' = [waiters EXCEPT ![target[t]] = RemoveAt(@, i)],
               Goto(t, "idle"), UNCHANGED held
        PROVE  IndInv'
    BY <2>1, <2>2, DequeueStep
  <2>3. CASE ~Queued(t, target[t]) /\ ReturnHolding(t, target[t]) /\ UNCHANGED waiters
    <3>1. holder[target[t]] = t
      BY <2>1, <2>3 DEF IndInv, UnqueuedWoken
    <3> QED BY <2>1, <2>3, <3>1, ReturnHoldingStep
  <2> QED BY <1>9, <2>2, <2>3 DEF TimedDequeue
<1>10. CASE UNCHANGED vars
  BY <1>10 DEF vars, IndInv, TypeOK, HeldIsHolder, HolderOwns, QueuedWaits,
               UnqueuedWoken, SwitchKeepsTo, Apart, Granted, Queued
<1>11. ASSUME NEW t \in Threads, NEW l \in Locks, mutex_destroy(t, l) PROVE IndInv'
  BY <1>11, DestroyStep
<1>12. ASSUME NEW l \in Locks, mutex_init(l) PROVE IndInv'
  BY <1>12, InitStep
<1>13. ASSUME NEW t \in Threads, NEW u \in Threads, NEW l \in Locks,
              mutex_transfer_lock(t, l, u)
       PROVE  IndInv'
  BY <1>13, TransferStep
<1>14. ASSUME NEW t \in Threads, NEW l \in Locks, NEW m \in Locks,
              mutex_switch_lock(t, l, m)
       PROVE  IndInv'
  BY <1>14, SwitchCallStep
<1>15. ASSUME NEW t \in Threads, SwitchSpin(t) PROVE IndInv'
  BY <1>15, SwitchSpinStep
<1>16. ASSUME NEW t \in Threads, TimeOut(t) PROVE IndInv'
  BY <1>16, TimeOutStep
<1> QED
  BY <1>1, <1>2, <1>3, <1>4, <1>5, <1>6, <1>7, <1>8, <1>9, <1>10, <1>11,
     <1>12, <1>13, <1>14, <1>15, <1>16 DEF Next

\* The inductive invariant holds in every reachable state.
THEOREM Invariance ==
    ASSUME TimeoutsAndDestructionApart PROVE Spec => []IndInv
<1>1. IndInv /\ [Next]_vars => IndInv'
  BY IndInvNext
<1> QED BY <1>1, IndInvInit, PTL DEF Spec

\* The type invariant of the KDEBUG mutex, for any number of threads and locks;
\* in particular no mutex_waiter is ever linked twice.
THEOREM TypeCorrect ==
    ASSUME TimeoutsAndDestructionApart PROVE Spec => []TypeOK
<1>1. IndInv => TypeOK
  BY DEF IndInv
<1> QED BY <1>1, Invariance, PTL

\* _mutex_lock() and its variants never let two threads into one mutex.
THEOREM Exclusion ==
    ASSUME TimeoutsAndDestructionApart PROVE Spec => []MutualExclusion
<1>1. IndInv => MutualExclusion
  BY DEF IndInv, HeldIsHolder, MutualExclusion
<1> QED BY <1>1, Invariance, PTL

\* _mutex_unlock() never hands a mutex to a thread that will not notice.
THEOREM OwnerAlwaysKnows ==
    ASSUME TimeoutsAndDestructionApart PROVE Spec => []OwnerKnows
<1>1. IndInv => OwnerKnows
  BY DEF IndInv, HolderOwns, Granted, OwnerKnows
<1> QED BY <1>1, Invariance, PTL

\* The ASSERTs on lock->holder in _mutex_lock() and _mutex_lock_with_timeout()
\* never fail.
THEOREM AssertsHold ==
    ASSUME TimeoutsAndDestructionApart PROVE Spec => []HolderAssertsHold
<1>1. IndInv => HolderAssertsHold
  <2>1. SUFFICES ASSUME IndInv, NEW t \in Threads,
                        \/ pc[t] \in {"block", "timed_block"} /\ wait[t] = "B_OK"
                        \/ pc[t] = "timed_out" /\ ~Queued(t, target[t])
                 PROVE  holder[target[t]] = t /\ t \notin cleared
    BY DEF HolderAssertsHold
  <2>2. pc[t] \in Waiting /\ target[t] \in Locks
    BY <2>1, Types DEF Waiting
  <2>3. ~Queued(t, target[t])
    BY <2>1, <2>2 DEF IndInv, QueuedWaits, Queued, Blocked
  <2> QED BY <2>1, <2>2, <2>3 DEF IndInv, UnqueuedWoken, Granted
<1> QED BY <1>1, Invariance, PTL

\* Nobody queues for a mutex that nobody will hand on.
THEOREM NoLostWakeup ==
    ASSUME TimeoutsAndDestructionApart PROVE Spec => []WaitersHaveOwner
<1>1. IndInv => WaitersHaveOwner
  BY QueueMembers DEF IndInv, TypeOK, QueuedWaits, WaitersHaveOwner
<1> QED BY <1>1, Invariance, PTL

\* mutex_switch_lock() never arrives at a destroyed "to".
THEOREM SwitchIsSafe ==
    ASSUME TimeoutsAndDestructionApart PROVE Spec => []SwitchFindsLock
<1>1. IndInv => SwitchFindsLock
  BY DEF IndInv, SwitchKeepsTo, SwitchFindsLock
<1> QED BY <1>1, Invariance, PTL

-------------------------------------------------------------------------------
(* A mutex of the default build implements FifoLock: each step of          *)
(* MutexDebug is a step of FifoLock or does not concern the lock at all.   *)

Stutter == holder'[TheLock] = holder[TheLock] /\ waiters'[TheLock] = waiters[TheLock]

AbstractStep == Abstract!Next \/ Stutter

\* A step on another lock does not concern this one.
LEMMA OtherLock ==
    ASSUME NEW l \in Locks, l # TheLock,
           \A k \in Locks \ {l} : holder'[k] = holder[k] /\ waiters'[k] = waiters[k]
    PROVE  AbstractStep
BY TheLockAssumption DEF AbstractStep, Stutter

\* Taking a free lock is Take: nobody queues for a lock that nobody holds.
LEMMA TakeFreeRefines ==
    ASSUME IndInv, NEW t \in Threads, NEW l \in Locks, TakeFree(t, l)
    PROVE  AbstractStep
<1>1. \A k \in Locks \ {l} : holder'[k] = holder[k] /\ waiters'[k] = waiters[k]
  BY Types DEF TakeFree
<1>2. CASE l = TheLock
  <2>1. holder[l] = NoThread /\ holder'[l] = t /\ waiters'[l] = waiters[l]
    BY Types DEF TakeFree
  <2>2. waiters[l] = <<>>
    BY <2>1, HolderValues, QueueMembers DEF IndInv, TypeOK, QueuedWaits
  <2>3. Abstract!Take(t)
    BY <1>2, <2>1, <2>2, HolderValues DEF Abstract!Take, Owner
  <2> QED BY <2>3 DEF AbstractStep, Abstract!Next
<1> QED BY <1>1, <1>2, OtherLock

\* Queueing is Wait: a thread outside a wait is neither owner nor queued.
LEMMA EnqueueRefines ==
    ASSUME IndInv, NEW t \in Threads, NEW l \in Locks, NEW label,
           pc[t] \notin Waiting, l \notin held[t], Enqueue(t, l, label)
    PROVE  AbstractStep
<1>1. \A k \in Locks \ {l} : holder'[k] = holder[k] /\ waiters'[k] = waiters[k]
  BY DEF Enqueue, IndInv, TypeOK
<1>2. CASE l = TheLock
  <2>1. holder[l] \in Threads /\ holder'[l] = holder[l] /\ waiters'[l] = Append(waiters[l], t)
    BY DEF Enqueue, IndInv, TypeOK
  <2>2. holder[l] # t /\ t \notin ToSet(waiters[l])
    BY DEF IndInv, HolderOwns, Granted, QueuedWaits
  <2>3. Abstract!Wait(t)
    BY <1>2, <2>1, <2>2, HolderValues DEF Abstract!Wait, Abstract!ToSet, ToSet, Owner
  <2> QED BY <2>3 DEF AbstractStep, Abstract!Next
<1> QED BY <1>1, <1>2, OtherLock

\* A hand-off by the owner is Release.
LEMMA HandOffRefines ==
    ASSUME IndInv, NEW t \in Threads, NEW l \in Locks, l \in held[t], HandOff(t, l)
    PROVE  AbstractStep
<1>1. \A k \in Locks \ {l} : holder'[k] = holder[k] /\ waiters'[k] = waiters[k]
  BY DEF HandOff, IndInv, TypeOK
<1>2. CASE l = TheLock
  <2>1. holder[l] = t
    BY DEF IndInv, HeldIsHolder
  <2>2. CASE waiters[l] # <<>>
    <3>1. /\ waiters'[l] = Tail(waiters[l])
          /\ holder'[l] = Head(waiters[l])
      BY <2>2 DEF HandOff, IndInv, TypeOK
    <3>2. Head(waiters[l]) \in Threads
      BY <2>2, TailFacts DEF IndInv, TypeOK
    <3> QED
      BY <1>2, <2>1, <2>2, <3>1, <3>2, HolderValues
         DEF AbstractStep, Abstract!Next, Abstract!Release, Owner
  <2>3. CASE waiters[l] = <<>>
    <3>1. waiters'[l] = waiters[l] /\ holder'[l] = NoThread
      BY <2>3 DEF HandOff, IndInv, TypeOK
    <3> QED
      BY <1>2, <2>1, <2>3, <3>1, HolderValues
         DEF AbstractStep, Abstract!Next, Abstract!Release, Owner
  <2> QED BY <2>2, <2>3
<1> QED BY <1>1, <1>2, OtherLock

\* A timed-out waiter that unlinks itself is Leave.
LEMMA DequeueRefines ==
    ASSUME IndInv, NEW l \in Locks, NEW i \in DOMAIN waiters[l],
           waiters' = [waiters EXCEPT ![l] = RemoveAt(@, i)], UNCHANGED holder
    PROVE  AbstractStep
<1>1. \A k \in Locks \ {l} : holder'[k] = holder[k] /\ waiters'[k] = waiters[k]
  BY DEF IndInv, TypeOK
<1>2. CASE l = TheLock
  <2>1. waiters'[l] = RemoveAt(waiters[l], i) /\ holder'[l] = holder[l]
    BY DEF IndInv, TypeOK
  <2>2. Abstract!Leave(i)
    BY <1>2, <2>1 DEF Abstract!Leave, Abstract!RemoveAt, RemoveAt, Owner
  <2> QED BY <1>2, <2>2 DEF AbstractStep, Abstract!Next
<1> QED BY <1>1, <1>2, OtherLock

\* mutex_init() is Create.
LEMMA InitRefines ==
    ASSUME IndInv, NEW l \in Locks, mutex_init(l)
    PROVE  AbstractStep
<1>1. \A k \in Locks \ {l} : holder'[k] = holder[k] /\ waiters'[k] = waiters[k]
  BY Types DEF mutex_init
<1>2. CASE l = TheLock
  <2>1. holder[l] = Destroyed /\ holder'[l] = NoThread /\ waiters'[l] = waiters[l]
    BY Types DEF mutex_init
  <2>2. Abstract!Create
    BY <1>2, <2>1, HolderValues DEF Abstract!Create, Owner
  <2> QED BY <2>2 DEF AbstractStep, Abstract!Next
<1> QED BY <1>1, <1>2, OtherLock

\* mutex_transfer_lock() is Transfer.
LEMMA TransferRefines ==
    ASSUME IndInv, NEW t \in Threads, NEW u \in Threads, NEW l \in Locks,
           mutex_transfer_lock(t, l, u)
    PROVE  AbstractStep
<1>1. \A k \in Locks \ {l} : holder'[k] = holder[k] /\ waiters'[k] = waiters[k]
  BY Types DEF mutex_transfer_lock
<1>2. CASE l = TheLock
  <2>1. holder[l] = t /\ u # t /\ holder'[l] = u /\ waiters'[l] = waiters[l]
    BY Types DEF mutex_transfer_lock, IndInv, HeldIsHolder
  <2>2. Abstract!Transfer(u)
    BY <1>2, <2>1, HolderValues DEF Abstract!Transfer, Owner
  <2> QED BY <2>2 DEF AbstractStep, Abstract!Next
<1> QED BY <1>1, <1>2, OtherLock

\* mutex_destroy() is Destroy.
LEMMA DestroyRefines ==
    ASSUME IndInv, NEW t \in Threads, NEW l \in Locks, mutex_destroy(t, l)
    PROVE  AbstractStep
<1>1. \A k \in Locks \ {l} : holder'[k] = holder[k] /\ waiters'[k] = waiters[k]
  BY DEF mutex_destroy, DrainWaiters, IndInv, TypeOK
<1>2. CASE l = TheLock
  <2>1. holder[l] \in {NoThread, t} /\ holder'[l] = Destroyed /\ waiters'[l] = <<>>
    BY DEF mutex_destroy, DrainWaiters, IndInv, TypeOK
  <2>2. Abstract!Destroy
    BY <1>2, <2>1, HolderValues DEF Abstract!Destroy, Owner
  <2> QED BY <2>2 DEF AbstractStep, Abstract!Next
<1> QED BY <1>1, <1>2, OtherLock

-------------------------------------------------------------------------------
\* Every step of every thread is a step of FifoLock or leaves the lock alone.
LEMMA NextRefines ==
    ASSUME IndInv, [Next]_vars
    PROVE  AbstractStep
<1>1. ASSUME UNCHANGED <<holder, waiters>> PROVE AbstractStep
  BY <1>1 DEF AbstractStep, Stutter
<1>2. ASSUME NEW t \in Threads, NEW l \in Locks, NEW label,
             pc[t] \notin Waiting, l \notin held[t],
             TakeFree(t, l) \/ Enqueue(t, l, label)
      PROVE  AbstractStep
  BY <1>2, TakeFreeRefines, EnqueueRefines
<1>3. ASSUME NEW t \in Threads, NEW l \in Locks,
             \/ mutex_lock(t, l)
             \/ mutex_trylock(t, l)
             \/ mutex_lock_with_timeout(t, l)
      PROVE  AbstractStep
  <2>1. pc[t] \notin Waiting /\ l \notin held[t]
    BY <1>3, Labels DEF mutex_lock, mutex_trylock, mutex_lock_with_timeout, CallLock, MayLock
  <2>2. \E label \in {"block", "timed_block"} : TakeFree(t, l) \/ Enqueue(t, l, label)
    BY <1>3 DEF mutex_lock, mutex_trylock, mutex_lock_with_timeout
  <2> QED BY <1>2, <2>1, <2>2
<1>4. ASSUME NEW t \in Threads, NEW l \in Locks, mutex_unlock(t, l) PROVE AbstractStep
  BY <1>4, HandOffRefines DEF mutex_unlock
<1>5. ASSUME NEW t \in Threads, SwitchUnlock(t) PROVE AbstractStep
  <2>1. from[t] \in Locks /\ from[t] \in held[t]
    BY <1>5, Types DEF SwitchUnlock, IndInv, SwitchKeepsTo, Switching
  <2> QED BY <1>5, <2>1, HandOffRefines DEF SwitchUnlock
<1>6. ASSUME NEW t \in Threads, SwitchAcquire(t) PROVE AbstractStep
  <2>1. target[t] \in Locks /\ target[t] \notin held[t] /\ pc[t] \notin Waiting
    BY <1>6, Types, Labels DEF SwitchAcquire, IndInv, SwitchKeepsTo, Switching
  <2>2. TakeFree(t, target[t]) \/ Enqueue(t, target[t], "block")
    BY <1>6 DEF SwitchAcquire
  <2> QED BY <1>2, <2>1, <2>2
<1>7. ASSUME NEW t \in Threads, TimedDequeue(t) PROVE AbstractStep
  <2>1. target[t] \in Locks /\ UNCHANGED holder
    BY <1>7, Types DEF TimedDequeue
  <2>2. ASSUME NEW i \in DOMAIN waiters[target[t]],
               waiters' = [waiters EXCEPT ![target[t]] = RemoveAt(@, i)]
        PROVE  AbstractStep
    BY <2>1, <2>2, DequeueRefines
  <2> QED BY <1>1, <1>7, <2>1, <2>2 DEF TimedDequeue
<1>8. ASSUME NEW t \in Threads,
             SwitchSpin(t) \/ BlockReturn(t) \/ TimeOut(t) \/ TimedBlockReturn(t)
      PROVE  AbstractStep
  BY <1>1, <1>8 DEF SwitchSpin, BlockReturn, TimeOut, TimedBlockReturn
<1>9. ASSUME NEW t \in Threads, NEW l \in Locks, NEW m \in Locks, mutex_switch_lock(t, l, m)
      PROVE  AbstractStep
  BY <1>1, <1>9 DEF mutex_switch_lock
<1>10. CASE UNCHANGED vars
  BY <1>1, <1>10 DEF vars
<1> QED
  BY <1>3, <1>4, <1>5, <1>6, <1>7, <1>8, <1>9, <1>10,
     InitRefines, TransferRefines, DestroyRefines DEF Next

\* lock.cpp: "mutex: exclusive FIFO sleeping lock".  Whatever the threads do,
\* each mutex of the default build behaves like FifoLock.
THEOREM ImplementsFifoLock ==
    ASSUME TimeoutsAndDestructionApart PROVE Spec => IsFifoLock
<1>1. Init => Abstract!Init
  BY TheLockAssumption, HolderValues DEF Init, Abstract!Init, Owner
<1>2. IndInv /\ [Next]_vars
      => [Abstract!Next]_<<holder[TheLock] # Destroyed, Owner, waiters[TheLock]>>
  <2>1. Stutter => UNCHANGED <<holder[TheLock] # Destroyed, Owner, waiters[TheLock]>>
    BY DEF Stutter, Owner
  <2> QED BY <2>1, NextRefines DEF AbstractStep
<1> QED BY <1>1, <1>2, Invariance, PTL DEF Spec, IsFifoLock, Abstract!Spec
===============================================================================
