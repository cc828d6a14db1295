--------------------------- MODULE TimedBlockProofs ---------------------------
(***************************************************************************)
(* Proofs about TimedBlock, for all sets of threads, periodic timers and   *)
(* CPUs and every bound on the timeouts and on the length of an            *)
(* add_timer() call.  The timers of a CPU are shared by the threads that   *)
(* add and cancel them and by the interrupt handler, whose hook runs       *)
(* outside the lock; the invariant says of every timer whether it is       *)
(* queued, firing or neither, and where its owner can be meanwhile.        *)
(***************************************************************************)
EXTENDS TimedBlock, QueueLemmas

-------------------------------------------------------------------------------
(* The inductive invariant *)

NotQueued(e) == \A c \in CPUs : e \notin ToSet(events[c])

\* Where the owner of a timer can be while the timer is queued, or fires and was
\* not cancelled.
Armed(e) == pc[e] \in IF e \in Threads THEN {"timed_blocked", "cancel"} ELSE {"added"}

\* A queued timer belongs to the wait its thread is in, and to its time.
QueuedOf(e) ==
    /\ Armed(e)
    /\ e \in Threads =>
          /\ user_data[e]
          /\ deadline[e] = time[e]
          /\ wait[e] # "B_TIMED_OUT"

QueuedIsArmed == \A c \in CPUs : \A e \in ToSet(events[c]) : QueuedOf(e)

\* The hook of e may still run on CPU c: nobody has it queued, and its owner has
\* not cancelled it or waits for the hook to end.
FiringOf(e, c) ==
    /\ cpu[e] = c
    /\ NotQueued(e)
    /\ \/ Armed(e) /\ current_event[c] = e
       \/ pc[e] = "cancel_wait" /\ current_event[c] = None
    /\ e \in Threads => user_data[e] /\ deadline[e] \in Past..-1

\* A periodic timer that will be queued again when its hook is over.
RepeatedOf(e, c) == cpu[e] = c /\ NotQueued(e) /\ Armed(e)

HandlerOf(c) ==
    /\ handler[c] \in {"none", "loop"} => firing[c] = None
    /\ handler[c] \notin {"none", "loop"} => firing[c] \in Timers
    /\ current_event[c] \in {None, firing[c]}
    /\ current_event[c] \notin ToSet(events[c])
    /\ in_progress[c] <=> handler[c] \in HookLabels
    /\ handler[c] = "hook_clear" => firing[c] \in Threads
    /\ handler[c] \in {"hook", "hook_clear"} => FiringOf(firing[c], c)
    /\ current_event[c] \in Periodic => RepeatedOf(current_event[c], c)

HandlerIsSound == \A c \in CPUs : HandlerOf(c)

\* A thread has a deadline only in a timed wait, and has timed out only after it.
ThreadOf(t) ==
    /\ pc[t] \notin {"adding", "added"}
    /\ pc[t] \in {"idle", "prepared", "blocked"} => deadline[t] = None
    /\ pc[t] \in {"prepared", "blocked"} => wait[t] # "B_TIMED_OUT"
    /\ pc[t] \in Waiting /\ wait[t] = "B_TIMED_OUT" => deadline[t] \in Past..-1

ThreadsAreSound == \A t \in Threads : ThreadOf(t)

\* Where the owner of a periodic timer can be; and an add_timer() call has not
\* taken longer than it may.
PeriodicOf(p) ==
    /\ pc[p] \in {"idle", "adding", "added", "cancel_wait"}
    /\ pc[p] = "adding" => time[p] \in (Period - MaxLate)..Period

OwnersAreSound ==
    /\ \A p \in Periodic : PeriodicOf(p)
    /\ \A e \in Timers : pc[e] = "cancel_wait" => cpu[e] \in CPUs /\ NotQueued(e)

IndInv ==
    /\ Consistent
    /\ QueuedIsArmed
    /\ HandlerIsSound
    /\ ThreadsAreSound
    /\ OwnersAreSound

-------------------------------------------------------------------------------
(* The queues *)

\* The constants are different from each other and of the types the steps need.
LEMMA ConstantFacts ==
    /\ RealTime \subseteq Threads
    /\ \A t \in Threads : t \notin Periodic /\ t # None /\ t \in Timers
    /\ \A p \in Periodic : p \notin Threads /\ p # None /\ p \in Timers
    /\ \A c \in CPUs : c # None
    /\ None \notin Timers
    /\ None \notin Int
    /\ MaxDelay \in Nat /\ MaxDelay >= 1
    /\ MaxLate \in Nat /\ MaxLate >= 1
    /\ Past \in Int /\ Past = -MaxLate /\ Past <= -1
    /\ Period = 1
BY TimerAssumption DEF Timers, Past, Period

\* add_event_to_list() adds the event and nothing else, and keeps the order.
LEMMA AddFacts ==
    ASSUME NEW q \in Seq(Timers), NEW e \in Timers, NEW times \in [Timers -> Int],
           IsInjective(q), e \notin ToSet(q), InOrder(q, times)
    PROVE  LET r == add_event_to_list(e, q, times)
           IN  /\ r \in Seq(Timers)
               /\ ToSet(r) = ToSet(q) \cup {e}
               /\ IsInjective(r)
               /\ InOrder(r, times)
               /\ r # <<>>
               /\ Head(r) # e => q # <<>> /\ Head(r) = Head(q)
<1> DEFINE stops == Stops(e, q, times)
           i == Min(stops)
           r == add_event_to_list(e, q, times)
<1>1. /\ Len(q) \in Nat
      /\ DOMAIN q = 1..Len(q)
      /\ \A j \in 1..Len(q) : q[j] \in Timers /\ times[q[j]] \in Int
      /\ times[e] \in Int
  OBVIOUS
<1>2. stops \in SUBSET Nat /\ stops # {}
  BY <1>1 DEF Stops
<1>3. i \in stops /\ \A j \in stops : i <= j
  BY <1>2, MinFacts
<1>4. /\ i \in 1..(Len(q) + 1)
      /\ i <= Len(q) => times[q[i]] >= times[e]
      /\ \A j \in 1..Len(q) : j < i => times[q[j]] < times[e]
  <2>1. i \in 1..(Len(q) + 1) /\ (i <= Len(q) => times[q[i]] >= times[e])
    BY <1>1, <1>3 DEF Stops
  <2>2. ASSUME NEW j \in 1..Len(q), j < i PROVE times[q[j]] < times[e]
    <3>1. j \notin stops
      <4>1. j \in Nat /\ i \in Nat
        BY <1>1, <2>1
      <4> QED BY <1>3, <2>2, <4>1
    <3> QED BY <1>1, <3>1 DEF Stops
  <2> QED BY <2>1, <2>2
<1>5. r = InsertAt(q, i, e)
  BY DEF add_event_to_list
<1> HIDE DEF stops, i, r
<1>6. /\ r \in Seq(Timers)
      /\ ToSet(r) = ToSet(q) \cup {e}
      /\ IsInjective(r)
  <2>1. i \in 1..(Len(q) + 1)
    BY <1>4
  <2> QED BY <1>5, <2>1, InsertAtFacts
<1>7. /\ DOMAIN r = 1..(Len(q) + 1)
      /\ \A j \in 1..(Len(q) + 1) :
            r[j] = IF j < i THEN q[j] ELSE IF j = i THEN e ELSE q[j - 1]
  <2>1. i \in 1..(Len(q) + 1)
    BY <1>4
  <2>2. /\ DOMAIN InsertAt(q, i, e) = 1..(Len(q) + 1)
        /\ \A j \in 1..(Len(q) + 1) :
              InsertAt(q, i, e)[j] = IF j < i THEN q[j] ELSE IF j = i THEN e ELSE q[j - 1]
    BY <2>1, InsertAtItems
  <2> QED BY <1>5, <2>2
<1>8. ASSUME NEW j \in 1..Len(q), j >= i PROVE times[q[j]] >= times[e]
  <2>1. i \in 1..Len(q) /\ times[q[i]] >= times[e]
    BY <1>1, <1>4, <1>8
  <2>2. times[q[i]] <= times[q[j]]
    BY <1>1, <1>8, <2>1 DEF InOrder
  <2> QED BY <1>1, <2>1, <2>2
<1>9. ASSUME NEW j \in 1..(Len(q) + 1), NEW k \in 1..(Len(q) + 1), j < k
      PROVE  times[r[j]] <= times[r[k]]
  <2>1. CASE k < i
    <3>1. r[j] = q[j] /\ r[k] = q[k] /\ j \in 1..Len(q) /\ k \in 1..Len(q)
      BY <1>1, <1>4, <1>7, <1>9, <2>1
    <3> QED BY <1>1, <1>9, <3>1 DEF InOrder
  <2>2. CASE k = i
    <3>1. r[j] = q[j] /\ r[k] = e /\ j \in 1..Len(q) /\ j < i
      BY <1>1, <1>4, <1>7, <1>9, <2>2
    <3> QED BY <1>1, <1>4, <3>1
  <2>3. CASE j < i /\ i < k
    <3>1. /\ r[j] = q[j] /\ j \in 1..Len(q)
          /\ r[k] = q[k - 1] /\ k - 1 \in 1..Len(q) /\ k - 1 >= i
      BY <1>1, <1>4, <1>7, <2>3
    <3> QED BY <1>1, <1>4, <1>8, <2>3, <3>1
  <2>4. CASE j = i
    <3>1. r[j] = e /\ r[k] = q[k - 1] /\ k - 1 \in 1..Len(q) /\ k - 1 >= i
      BY <1>1, <1>4, <1>7, <1>9, <2>4
    <3> QED BY <1>1, <1>8, <3>1
  <2>5. CASE i < j
    <3>1. /\ r[j] = q[j - 1] /\ j - 1 \in 1..Len(q)
          /\ r[k] = q[k - 1] /\ k - 1 \in 1..Len(q) /\ j - 1 < k - 1
      BY <1>1, <1>4, <1>7, <1>9, <2>5
    <3> QED BY <1>1, <3>1 DEF InOrder
  <2> QED BY <1>1, <1>4, <1>9, <2>1, <2>2, <2>3, <2>4, <2>5
<1>10. InOrder(r, times)
  BY <1>7, <1>9 DEF InOrder
<1>11. r # <<>> /\ Head(r) = r[1]
  BY <1>1, <1>6, <1>7
<1>12. ASSUME Head(r) # e PROVE q # <<>> /\ Head(r) = Head(q)
  <2>1. 1 \in 1..(Len(q) + 1) /\ i # 1
    BY <1>1, <1>4, <1>7, <1>11, <1>12
  <2>2. 1 < i /\ Len(q) >= 1
    BY <1>1, <1>4, <2>1
  <2>3. r[1] = q[1]
    BY <1>7, <2>1, <2>2
  <2> QED BY <1>1, <1>11, <2>2, <2>3
<1> QED BY <1>6, <1>10, <1>11, <1>12 DEF r

\* Taking an event out keeps the order, and the first one is not earlier than
\* the first one was.
LEMMA RemoveFacts ==
    ASSUME NEW q \in Seq(Timers), NEW i \in DOMAIN q, NEW times \in [Timers -> Int],
           IsInjective(q), InOrder(q, times)
    PROVE  LET r == RemoveAt(q, i)
           IN  /\ r \in Seq(Timers)
               /\ ToSet(r) = ToSet(q) \ {q[i]}
               /\ IsInjective(r)
               /\ InOrder(r, times)
               /\ r # <<>> => q # <<>> /\ times[Head(q)] <= times[Head(r)]
<1> DEFINE r == RemoveAt(q, i)
<1>1. /\ Len(q) \in Nat
      /\ DOMAIN q = 1..Len(q)
      /\ i \in 1..Len(q)
      /\ q # <<>> /\ Head(q) = q[1]
      /\ \A j \in 1..Len(q) : q[j] \in Timers /\ times[q[j]] \in Int
  OBVIOUS
<1>2. /\ r \in Seq(Timers)
      /\ ToSet(r) = ToSet(q) \ {q[i]}
      /\ IsInjective(r)
  BY RemoveAtFacts
<1>3. /\ DOMAIN r = 1..(Len(q) - 1)
      /\ Len(r) = Len(q) - 1
      /\ \A j \in 1..(Len(q) - 1) : r[j] = IF j < i THEN q[j] ELSE q[j + 1]
  BY RemoveAtItems
<1> HIDE DEF r
<1> DEFINE orig(n) == IF n < i THEN n ELSE n + 1
<1>4. \A n \in 1..(Len(q) - 1) : orig(n) \in 1..Len(q) /\ r[n] = q[orig(n)]
  BY <1>1, <1>3
<1>5. \A m, n \in 1..(Len(q) - 1) : m < n => orig(m) < orig(n)
  BY <1>1
<1>6. InOrder(r, times)
  <2>1. ASSUME NEW m \in 1..(Len(q) - 1), NEW n \in 1..(Len(q) - 1), m < n
        PROVE  times[r[m]] <= times[r[n]]
    <3>1. /\ orig(m) \in 1..Len(q) /\ r[m] = q[orig(m)]
          /\ orig(n) \in 1..Len(q) /\ r[n] = q[orig(n)]
          /\ orig(m) < orig(n)
      BY <1>4, <1>5, <2>1
    <3> HIDE DEF orig
    <3> QED BY <1>1, <3>1 DEF InOrder
  <2> QED BY <1>3, <2>1 DEF InOrder
<1>7. ASSUME r # <<>> PROVE times[Head(q)] <= times[Head(r)]
  <2>1. 1 \in 1..(Len(q) - 1) /\ Head(r) = r[1]
    BY <1>1, <1>2, <1>3, <1>7
  <2>2. orig(1) \in 1..Len(q) /\ Head(r) = q[orig(1)] /\ (orig(1) = 1 \/ 1 < orig(1))
    BY <1>1, <1>4, <2>1
  <2>3. 1 \in 1..Len(q)
    BY <1>1
  <2> HIDE DEF orig
  <2> QED BY <1>1, <2>2, <2>3 DEF InOrder
<1> QED BY <1>1, <1>2, <1>6, <1>7 DEF r

\* So does taking the first one.
LEMMA RestFacts ==
    ASSUME NEW q \in Seq(Timers), q # <<>>, NEW times \in [Timers -> Int],
           IsInjective(q), InOrder(q, times)
    PROVE  /\ Head(q) \in Timers
           /\ Head(q) \in ToSet(q)
           /\ Tail(q) \in Seq(Timers)
           /\ ToSet(Tail(q)) = ToSet(q) \ {Head(q)}
           /\ IsInjective(Tail(q))
           /\ InOrder(Tail(q), times)
<1>1. /\ Head(q) \in Timers
      /\ Head(q) \in ToSet(q)
      /\ Tail(q) \in Seq(Timers)
      /\ ToSet(Tail(q)) = ToSet(q) \ {Head(q)}
      /\ IsInjective(Tail(q))
  BY TailFacts
<1>2. /\ Len(q) \in Nat
      /\ DOMAIN q = 1..Len(q)
      /\ DOMAIN Tail(q) = 1..(Len(q) - 1)
      /\ \A j \in 1..(Len(q) - 1) : Tail(q)[j] = q[j + 1] /\ j + 1 \in 1..Len(q)
  OBVIOUS
<1>4. InOrder(Tail(q), times)
  <2>1. ASSUME NEW i \in 1..(Len(q) - 1), NEW j \in 1..(Len(q) - 1), i < j
        PROVE  times[Tail(q)[i]] <= times[Tail(q)[j]]
    <3>1. /\ Tail(q)[i] = q[i + 1] /\ i + 1 \in 1..Len(q)
          /\ Tail(q)[j] = q[j + 1] /\ j + 1 \in 1..Len(q)
          /\ i + 1 < j + 1
      BY <1>2, <2>1
    <3> QED BY <1>2, <3>1 DEF InOrder
  <2> QED BY <1>2, <2>1 DEF InOrder
<1> QED BY <1>1, <1>4

\* Putting the timers that a clock change affects back keeps all events, in the
\* order of the new times.
LEMMA RequeuedFacts ==
    ASSUME NEW q \in Seq(Timers), NEW r \in [DOMAIN q -> ToSet(q)],
           NEW times \in [Timers -> Int], IsInjective(q), IsRequeued(r, q, times)
    PROVE  /\ r \in Seq(Timers)
           /\ ToSet(r) = ToSet(q)
           /\ IsInjective(r)
           /\ InOrder(r, times)
<1>1. /\ Len(q) \in Nat
      /\ DOMAIN q = 1..Len(q)
      /\ \A j \in 1..Len(q) : q[j] \in Timers
  OBVIOUS
<1>2. ToSet(q) \subseteq Timers /\ DOMAIN r = 1..Len(q)
  BY <1>1 DEF ToSet
<1>3. \A j \in 1..Len(q) : r[j] \in ToSet(q)
  BY <1>2
<1>4. r \in Seq(Timers) /\ IsInjective(r)
  <2>1. r \in [1..Len(q) -> Timers]
    BY <1>1, <1>2
  <2> QED BY <1>1, <2>1 DEF IsRequeued
<1>5. InOrder(r, times)
  <2> SUFFICES ASSUME NEW i \in 1..Len(q), NEW j \in 1..Len(q), i < j
               PROVE  times[r[i]] <= times[r[j]]
    BY <1>2 DEF InOrder
  <2>1. times[r[i]] \in Int /\ times[r[j]] \in Int
    BY <1>2, <1>3
  <2>2. times[r[i]] < times[r[j]] \/ times[r[i]] = times[r[j]]
    BY <1>2 DEF IsRequeued
  <2> QED BY <2>1, <2>2
<1>6. ToSet(r) = ToSet(q)
  <2>1. ToSet(r) \subseteq ToSet(q)
    BY <1>2, <1>3 DEF ToSet
  <2>2. IsFiniteSet(ToSet(q)) /\ Cardinality(ToSet(q)) = Len(q)
    <3>1. \A i, j \in 1..Len(q) : q[i] = q[j] => i = j
      BY <1>1 DEF IsInjective
    <3>2. \A x : x \in ToSet(q) <=> \E i \in 1..Len(q) : x = q[i]
      BY <1>1 DEF ToSet
    <3> QED BY <1>1, <3>1, <3>2, PrefixCount
  <2>3. Cardinality(ToSet(r)) = Len(q)
    <3>1. \A i, j \in 1..Len(q) : r[i] = r[j] => i = j
      BY <1>2, <1>4 DEF IsInjective
    <3>2. \A x : x \in ToSet(r) <=> \E i \in 1..Len(q) : x = r[i]
      BY <1>2 DEF ToSet
    <3> QED BY <1>1, <3>1, <3>2, PrefixCount
  <2> QED BY <2>1, <2>2, <2>3, FS_Subset
<1> QED BY <1>4, <1>5, <1>6

-------------------------------------------------------------------------------
(* A thread that waits *)

\* The queues and the hardware timers are as they were.
LEMMA QueuesStay ==
    ASSUME QueuedOnce, HardwareIsSet, UNCHANGED timerVars
    PROVE  QueuedOnce' /\ HardwareIsSet'
BY DEF QueuedOnce, HardwareIsSet, InOrder, NonNegative, timerVars

\* The hardware timer of a CPU is set: it goes off when it should, as far as the
\* time it was set by tells.
LEMMA SetByFacts ==
    ASSUME hardware \in [CPUs -> 0..MaxDelay \cup {None}], late \in [CPUs -> 0..MaxLate],
           NEW c \in CPUs, NEW tick \in Int, NEW ago \in 0..MaxLate,
           NonNegative(tick + ago) \in 0..MaxDelay, SetBy(c, tick, ago)
    PROVE  /\ hardware' \in [CPUs -> 0..MaxDelay \cup {None}]
           /\ late' \in [CPUs -> 0..MaxLate]
           /\ \A d \in CPUs : d # c => hardware'[d] = hardware[d] /\ late'[d] = late[d]
           /\ hardware'[c] # None
           /\ hardware'[c] <= NonNegative(tick + late'[c])
<1> DEFINE h == NonNegative(tick + ago)
<1>1. hardware' = [hardware EXCEPT ![c] = h] /\ late' = [late EXCEPT ![c] = ago]
  BY DEF SetBy
<1>2. h \in 0..MaxDelay /\ h # None /\ h <= h
  BY ConstantFacts
<1>3. late'[c] = ago
  BY <1>1
<1>4. hardware'[c] <= NonNegative(tick + late'[c])
  BY <1>1, <1>2, <1>3
<1> HIDE DEF h
<1> QED BY <1>1, <1>2, <1>4

\* The same for the first event of a queue, by the time it is.
LEMMA SetHardwareFacts ==
    ASSUME hardware \in [CPUs -> 0..MaxDelay \cup {None}], late \in [CPUs -> 0..MaxLate],
           NEW c \in CPUs, NEW q \in Seq(Timers), NEW times \in [Timers -> Ticks],
           set_hardware_timer(c, q, times)
    PROVE  /\ hardware' \in [CPUs -> 0..MaxDelay \cup {None}]
           /\ late' \in [CPUs -> 0..MaxLate]
           /\ \A d \in CPUs : d # c => hardware'[d] = hardware[d] /\ late'[d] = late[d]
           /\ q # <<>> => /\ hardware'[c] # None
                          /\ hardware'[c] <= NonNegative(times[Head(q)] + late'[c])
<1>1. 0 \in 0..MaxLate
  BY ConstantFacts
<1>2. CASE q = <<>> /\ TurnOff(c)
  BY <1>1, <1>2 DEF TurnOff
<1>3. CASE q # <<>> /\ SetBy(c, times[Head(q)], 0)
  <2>1. times[Head(q)] \in Ticks
    BY <1>3
  <2>2. times[Head(q)] \in Int /\ NonNegative(times[Head(q)] + 0) \in 0..MaxDelay
    BY <2>1, ConstantFacts DEF Ticks, NonNegative
  <2> QED BY <1>1, <1>3, <2>2, SetByFacts
<1> QED BY <1>2, <1>3 DEF set_hardware_timer

\* A timer whose owner is at one of these points is in no queue and in no hook.
LEMMA IdleIsFree ==
    ASSUME IndInv, NEW e \in Timers, ~Armed(e), pc[e] # "cancel_wait"
    PROVE  /\ NotQueued(e)
           /\ \A c \in CPUs : handler[c] \in {"hook", "hook_clear"} => firing[c] # e
           /\ \A c \in CPUs : current_event[c] = e => e \in Threads
BY ConstantFacts DEF IndInv, QueuedIsArmed, QueuedOf, NotQueued, HandlerIsSound, HandlerOf,
   FiringOf, RepeatedOf, Timers

LEMMA PrepareStep ==
    ASSUME IndInv, NEW t \in Threads, Prepare(t)
    PROVE  IndInv'
<1>1. /\ pc[t] = "idle"
      /\ wait' = [wait EXCEPT ![t] = Blocked]
      /\ pc' = [pc EXCEPT ![t] = "prepared"]
      /\ UNCHANGED <<timerVars, user_data, spinning, deadline>>
  BY DEF Prepare, Goto, thread_prepare_to_block
<1>2. t \in Timers /\ ~Armed(t)
  BY <1>1, ConstantFacts DEF Armed
<1>3. /\ NotQueued(t)
      /\ \A c \in CPUs : handler[c] \in {"hook", "hook_clear"} => firing[c] # t
  BY <1>1, <1>2, IdleIsFree
<1>4. TypeOK'
  BY <1>1 DEF IndInv, Consistent, TypeOK, Statuses, timerVars
<1>5. QueuedOnce' /\ HardwareIsSet'
  BY <1>1, QueuesStay DEF IndInv, Consistent
<1>6. QueuedIsArmed'
  BY <1>1, <1>3
  DEF IndInv, Consistent, TypeOK, QueuedIsArmed, QueuedOf, Armed, NotQueued, timerVars
<1>7. HandlerIsSound'
  <2>1. \A e \in Timers : NotQueued(e) => NotQueued(e)'
    BY <1>1 DEF NotQueued, timerVars
  <2>2. \A e \in Timers : e # t => (Armed(e) => Armed(e)')
    BY <1>1 DEF IndInv, Consistent, TypeOK, Armed
  <2> QED BY <1>1, <1>3, <2>1, <2>2, ConstantFacts
        DEF IndInv, Consistent, TypeOK, HandlerIsSound, HandlerOf, FiringOf, RepeatedOf, timerVars
<1>8. ThreadsAreSound'
  BY <1>1 DEF IndInv, Consistent, TypeOK, ThreadsAreSound, ThreadOf, Waiting, Blocked
<1>9. OwnersAreSound'
  BY <1>1, ConstantFacts
  DEF IndInv, Consistent, TypeOK, OwnersAreSound, PeriodicOf, NotQueued, timerVars
<1> QED BY <1>4, <1>5, <1>6, <1>7, <1>8, <1>9 DEF IndInv, Consistent

LEMMA UnblockStep ==
    ASSUME IndInv, NEW t \in Threads, Unblock(t)
    PROVE  IndInv'
<1>1. /\ wait' = [wait EXCEPT ![t] = "B_OK"]
      /\ UNCHANGED <<timerVars, user_data, pc, spinning, deadline>>
  BY DEF Unblock, thread_unblock
<1>2. TypeOK'
  BY <1>1 DEF IndInv, Consistent, TypeOK, Statuses, Results, timerVars
<1>3. QueuedOnce' /\ HardwareIsSet'
  BY <1>1, QueuesStay DEF IndInv, Consistent
<1>4. QueuedIsArmed'
  BY <1>1 DEF IndInv, Consistent, TypeOK, QueuedIsArmed, QueuedOf, Armed, timerVars
<1>5. HandlerIsSound'
  BY <1>1 DEF IndInv, HandlerIsSound, HandlerOf, FiringOf, RepeatedOf, NotQueued, Armed, timerVars
<1>6. ThreadsAreSound'
  BY <1>1 DEF IndInv, Consistent, TypeOK, ThreadsAreSound, ThreadOf
<1>7. OwnersAreSound'
  BY <1>1 DEF IndInv, OwnersAreSound, PeriodicOf, NotQueued, timerVars
<1> QED BY <1>2, <1>3, <1>4, <1>5, <1>6, <1>7 DEF IndInv, Consistent

\* A thread goes on to another point while its timer is neither queued nor firing.
LEMMA ThreadMoves ==
    ASSUME IndInv, NEW t \in Threads, NEW label,
           label \in {"idle", "prepared", "blocked", "timed_blocked", "cancel"},
           ~Armed(t) \/ label \in {"timed_blocked", "cancel"}
              \/ (NotQueued(t) /\ \A c \in CPUs : handler[c] \in {"hook", "hook_clear"} =>
                                                      firing[c] # t),
           pc[t] # "cancel_wait",
           pc' = [pc EXCEPT ![t] = label],
           UNCHANGED <<timerVars, wait, spinning>>,
           \/ UNCHANGED deadline
           \/ label = "idle" /\ deadline' = [deadline EXCEPT ![t] = None],
           \/ UNCHANGED user_data
           \/ user_data' = [user_data EXCEPT ![t] = TRUE],
           ThreadOf(t)'
    PROVE  IndInv'
<1>1. t \in Timers
  BY ConstantFacts
<1>2. \/ label \in {"timed_blocked", "cancel"}
      \/ NotQueued(t) /\ \A c \in CPUs : handler[c] \in {"hook", "hook_clear"} => firing[c] # t
  BY <1>1, IdleIsFree
<1>3. TypeOK'
  BY <1>1 DEF IndInv, Consistent, TypeOK, timerVars
<1>4. QueuedOnce' /\ HardwareIsSet'
  BY QueuesStay DEF IndInv, Consistent
<1>5. \A e \in Timers : NotQueued(e) => NotQueued(e)'
  BY DEF NotQueued, timerVars
<1>6. \A e \in Timers : e # t => (Armed(e) => Armed(e)')
  BY DEF IndInv, Consistent, TypeOK, Armed
<1>7. label \in {"timed_blocked", "cancel"} => Armed(t)'
  BY <1>1 DEF IndInv, Consistent, TypeOK, Armed
<1>8. \A e \in Threads : user_data[e] => user_data'[e]
  <2>1. user_data \in [Threads -> BOOLEAN]
    BY DEF IndInv, Consistent, TypeOK
  <2> QED BY <2>1
<1>8a. \A e \in Threads : deadline'[e] = deadline[e] \/ (e = t /\ label = "idle")
  <2>1. CASE UNCHANGED deadline
    BY <2>1
  <2>2. CASE label = "idle" /\ deadline' = [deadline EXCEPT ![t] = None]
    BY <2>2 DEF IndInv, Consistent, TypeOK
  <2> QED BY <2>1, <2>2
<1>9. QueuedIsArmed'
  <2> SUFFICES ASSUME NEW c \in CPUs, NEW e \in ToSet(events[c]) PROVE QueuedOf(e)'
    BY DEF QueuedIsArmed, timerVars
  <2>1. e \in Timers /\ QueuedOf(e)
    BY QueueMembers DEF IndInv, Consistent, TypeOK, QueuedIsArmed
  <2>2. e # t \/ label \in {"timed_blocked", "cancel"}
    BY <1>2 DEF NotQueued
  <2> QED BY <1>6, <1>7, <1>8, <1>8a, <2>1, <2>2 DEF QueuedOf, timerVars
<1>10. HandlerIsSound'
  <2> SUFFICES ASSUME NEW c \in CPUs PROVE HandlerOf(c)'
    BY DEF HandlerIsSound
  <2>1. HandlerOf(c)
    BY DEF IndInv, HandlerIsSound
  <2>2. ASSUME NEW e \in Timers, handler[c] \in {"hook", "hook_clear"}, firing[c] = e,
               FiringOf(e, c)
        PROVE  FiringOf(e, c)'
    <3>1. e # t \/ label \in {"timed_blocked", "cancel"}
      BY <1>2, <2>2
    <3>2. Armed(e) => Armed(e)'
      BY <1>6, <1>7, <3>1
    <3>3. pc[e] = "cancel_wait" => pc'[e] = "cancel_wait"
      BY DEF IndInv, Consistent, TypeOK
    <3> QED BY <1>5, <1>8, <1>8a, <2>2, <3>1, <3>2, <3>3 DEF FiringOf, timerVars
  <2>3. ASSUME NEW e \in Periodic, RepeatedOf(e, c) PROVE RepeatedOf(e, c)'
    BY <1>5, <1>6, <2>3, ConstantFacts DEF RepeatedOf, timerVars
  <2> QED BY <2>1, <2>2, <2>3 DEF HandlerOf, timerVars
<1>11. ThreadsAreSound'
  <2> SUFFICES ASSUME NEW u \in Threads, u # t PROVE ThreadOf(u)'
    BY DEF ThreadsAreSound
  <2>1. pc'[u] = pc[u] /\ wait'[u] = wait[u] /\ deadline'[u] = deadline[u]
    BY <1>8a, ConstantFacts DEF IndInv, Consistent, TypeOK
  <2> QED BY <2>1 DEF IndInv, ThreadsAreSound, ThreadOf
<1>12. OwnersAreSound'
  <2>1. ASSUME NEW e \in Timers, e # t PROVE pc'[e] = pc[e]
    BY <2>1 DEF IndInv, Consistent, TypeOK
  <2>2. pc'[t] # "cancel_wait"
    BY <1>1 DEF IndInv, Consistent, TypeOK
  <2> QED BY <1>5, <2>1, <2>2, ConstantFacts DEF IndInv, OwnersAreSound, PeriodicOf, timerVars
<1> QED BY <1>3, <1>4, <1>9, <1>10, <1>11, <1>12 DEF IndInv, Consistent

LEMMA BlockNotStep ==
    ASSUME IndInv, NEW t \in Threads, BlockNot(t)
    PROVE  IndInv'
<1>1. /\ pc[t] = "prepared"
      /\ pc' = [pc EXCEPT ![t] = "idle"]
      /\ UNCHANGED <<timerVars, user_data, wait, spinning, deadline>>
  BY DEF BlockNot, Goto
<1>2. ~Armed(t)
  BY <1>1 DEF Armed
<1>3. ThreadOf(t)'
  BY <1>1, ConstantFacts
  DEF IndInv, Consistent, TypeOK, ThreadsAreSound, ThreadOf, Waiting
<1> QED BY <1>1, <1>2, <1>3, ThreadMoves

LEMMA BlockStep ==
    ASSUME IndInv, NEW t \in Threads, Block(t)
    PROVE  IndInv'
<1>1. /\ pc[t] = "prepared"
      /\ wait[t] = Blocked
      /\ pc' = [pc EXCEPT ![t] = "blocked"]
      /\ UNCHANGED <<timerVars, user_data, wait, spinning, deadline>>
  BY DEF Block, Goto, thread_is_blocked
<1>2. ~Armed(t)
  BY <1>1 DEF Armed
<1>3. ThreadOf(t)'
  BY <1>1, ConstantFacts
  DEF IndInv, Consistent, TypeOK, ThreadsAreSound, ThreadOf, Waiting, Blocked
<1> QED BY <1>1, <1>2, <1>3, ThreadMoves

LEMMA BlockNegativeStep ==
    ASSUME IndInv, NEW t \in Threads, BlockNegative(t)
    PROVE  IndInv'
<1>1. /\ pc[t] = "prepared"
      /\ wait[t] = Blocked
      /\ user_data' = [user_data EXCEPT ![t] = TRUE]
      /\ pc' = [pc EXCEPT ![t] = "timed_blocked"]
      /\ UNCHANGED <<timerVars, wait, spinning, deadline>>
  BY DEF BlockNegative, Goto, thread_is_blocked
<1>2. ~Armed(t)
  BY <1>1 DEF Armed
<1>3. ThreadOf(t)'
  BY <1>1, ConstantFacts
  DEF IndInv, Consistent, TypeOK, ThreadsAreSound, ThreadOf, Waiting, Blocked
<1> QED BY <1>1, <1>2, <1>3, ThreadMoves

LEMMA WakeStep ==
    ASSUME IndInv, NEW t \in Threads, Wake(t)
    PROVE  IndInv'
<1>1. /\ pc[t] \in {"blocked", "timed_blocked"}
      /\ wait[t] # Blocked
      /\ UNCHANGED <<timerVars, user_data, wait, spinning>>
  BY DEF Wake, thread_is_blocked
<1>2. CASE /\ pc[t] = "timed_blocked"
           /\ pc' = [pc EXCEPT ![t] = "cancel"]
           /\ UNCHANGED deadline
  <2>1. ThreadOf(t)'
    BY <1>1, <1>2, ConstantFacts
    DEF IndInv, Consistent, TypeOK, ThreadsAreSound, ThreadOf, Waiting
  <2> QED BY <1>1, <1>2, <2>1, ThreadMoves
<1>3. CASE /\ pc[t] = "blocked" \/ ~user_data[t]
           /\ pc' = [pc EXCEPT ![t] = "idle"]
           /\ Forget(t)
  <2>1. deadline' = [deadline EXCEPT ![t] = None]
    BY <1>3 DEF Forget, IndInv, Consistent, TypeOK
  <2>2. ThreadOf(t)'
    BY <1>1, <1>3, <2>1, ConstantFacts
    DEF IndInv, Consistent, TypeOK, ThreadsAreSound, ThreadOf, Waiting
  <2>3. \/ ~Armed(t)
        \/ NotQueued(t) /\ \A c \in CPUs : handler[c] \in {"hook", "hook_clear"} => firing[c] # t
    BY <1>3 DEF Armed, IndInv, QueuedIsArmed, QueuedOf, NotQueued, HandlerIsSound, HandlerOf,
       FiringOf
  <2> QED BY <1>1, <1>3, <2>1, <2>2, <2>3, ThreadMoves
<1> QED BY <1>2, <1>3 DEF Wake, Goto

-------------------------------------------------------------------------------
(* add_timer() *)

\* What the queues are once a timer that is neither queued nor firing was added.
LEMMA AddTimerFacts ==
    ASSUME IndInv, NEW e \in Timers, NEW c \in CPUs, NEW times \in [Timers -> Ticks],
           NEW ago \in 0..MaxLate, \A x \in Timers : x # e => times[x] = time[x],
           NonNegative(times[e] + ago) \in 0..MaxDelay,
           NotQueued(e), add_timer(e, c, times, ago)
    PROVE  /\ events' \in [CPUs -> Seq(Timers)]
           /\ time' = times
           /\ cpu' = [cpu EXCEPT ![e] = c]
           /\ hardware' \in [CPUs -> 0..MaxDelay \cup {None}]
           /\ late' \in [CPUs -> 0..MaxLate]
           /\ ToSet(events'[c]) = ToSet(events[c]) \cup {e}
           /\ \A d \in CPUs : d # c => events'[d] = events[d]
           /\ QueuedOnce' /\ HardwareIsSet'
           /\ UNCHANGED <<current_event, in_progress, handler, firing>>
<1> DEFINE list == add_event_to_list(e, events[c], times)
<1>1. /\ time' = times
      /\ events' = [events EXCEPT ![c] = list]
      /\ cpu' = [cpu EXCEPT ![e] = c]
      /\ \/ Head(list) = e /\ SetBy(c, times[e], ago)
         \/ Head(list) # e /\ UNCHANGED <<hardware, late>>
      /\ UNCHANGED <<current_event, in_progress, handler, firing>>
  BY DEF add_timer
<1>2. /\ events \in [CPUs -> Seq(Timers)]
      /\ time \in [Timers -> Ticks]
      /\ cpu \in [Timers -> CPUs \cup {None}]
      /\ hardware \in [CPUs -> 0..MaxDelay \cup {None}]
      /\ late \in [CPUs -> 0..MaxLate]
      /\ QueuedOnce /\ HardwareIsSet
  BY DEF IndInv, Consistent, TypeOK
<1>3. times \in [Timers -> Int] /\ \A x \in Timers : time[x] \in Int
  BY <1>2, ConstantFacts DEF Ticks
<1>4. \A d \in CPUs : IsInjective(events[d]) /\ InOrder(events[d], time)
  BY <1>2 DEF QueuedOnce
<1>5. ASSUME NEW d \in CPUs PROVE InOrder(events[d], times)
  <2>1. events[d] \in Seq(Timers) /\ e \notin ToSet(events[d])
    BY <1>2 DEF NotQueued
  <2>2. \A i \in DOMAIN events[d] : events[d][i] \in Timers /\ events[d][i] # e
    BY <2>1 DEF ToSet
  <2>3. InOrder(events[d], time)
    BY <1>4
  <2> QED BY <1>3, <2>2, <2>3 DEF InOrder
<1>6. events[c] \in Seq(Timers) /\ e \notin ToSet(events[c])
  BY <1>2 DEF NotQueued
<1>7. /\ list \in Seq(Timers)
      /\ ToSet(list) = ToSet(events[c]) \cup {e}
      /\ IsInjective(list)
      /\ InOrder(list, times)
      /\ list # <<>>
      /\ Head(list) # e => events[c] # <<>> /\ Head(list) = Head(events[c])
  BY <1>3, <1>4, <1>5, <1>6, AddFacts
<1> HIDE DEF list
<1>8. /\ events' \in [CPUs -> Seq(Timers)]
      /\ events'[c] = list
      /\ \A d \in CPUs : d # c => events'[d] = events[d]
  BY <1>1, <1>2, <1>7
<1>9. QueuedOnce'
  <2> SUFFICES ASSUME NEW d \in CPUs
               PROVE  /\ IsInjective(events'[d])
                      /\ \A x \in ToSet(events'[d]) : cpu'[x] = d
                      /\ InOrder(events'[d], time')
    BY DEF QueuedOnce
  <2>1. CASE d = c
    <3>1. ASSUME NEW x \in ToSet(list) PROVE cpu'[x] = c
      <4>1. x = e \/ x \in ToSet(events[c])
        BY <1>7
      <4>2. x \in ToSet(events[c]) => x \in Timers /\ cpu[x] = c
        BY <1>2, <1>6, QueueMembers DEF QueuedOnce
      <4> QED BY <1>1, <1>2, <4>1, <4>2
    <3> QED BY <1>1, <1>7, <1>8, <2>1, <3>1
  <2>2. CASE d # c
    <3>1. ASSUME NEW x \in ToSet(events[d]) PROVE cpu'[x] = d
      <4>1. x \in Timers /\ cpu[x] = d /\ x # e
        BY <1>2, QueueMembers DEF QueuedOnce, NotQueued
      <4> QED BY <1>1, <1>2, <4>1
    <3> QED BY <1>1, <1>4, <1>5, <1>8, <2>2, <3>1
  <2> QED BY <2>1, <2>2
\* A CPU whose first event and whose hardware timer stay.
<1>10. ASSUME NEW d \in CPUs, handler'[d] = "none", events[d] # <<>>,
              Head(events'[d]) = Head(events[d]),
              hardware'[d] = hardware[d] /\ late'[d] = late[d]
       PROVE  /\ hardware'[d] # None
              /\ hardware'[d] <= NonNegative(time'[Head(events'[d])] + late'[d])
  <2>1. Head(events[d]) \in ToSet(events[d]) /\ Head(events[d]) \in Timers
    BY <1>2, <1>4, <1>10, TailFacts
  <2>2. Head(events[d]) # e
    BY <2>1 DEF NotQueued
  <2>3. time'[Head(events'[d])] = time[Head(events[d])]
    BY <1>1, <1>10, <2>1, <2>2
  <2>4. handler[d] = "none"
    BY <1>1, <1>10
  <2>5. hardware[d] # None /\ hardware[d] <= NonNegative(time[Head(events[d])] + late[d])
    BY <1>2, <1>10, <2>4 DEF HardwareIsSet
  <2> QED BY <1>10, <2>3, <2>5
<1>11. CASE Head(list) = e /\ SetBy(c, times[e], ago)
  <2>1. /\ hardware' \in [CPUs -> 0..MaxDelay \cup {None}]
        /\ late' \in [CPUs -> 0..MaxLate]
        /\ \A d \in CPUs : d # c => hardware'[d] = hardware[d] /\ late'[d] = late[d]
        /\ hardware'[c] # None
        /\ hardware'[c] <= NonNegative(times[e] + late'[c])
    BY <1>2, <1>3, <1>11, SetByFacts
  <2>2. HardwareIsSet'
    <3> SUFFICES ASSUME NEW d \in CPUs, handler'[d] = "none", events'[d] # <<>>
                 PROVE  /\ hardware'[d] # None
                        /\ hardware'[d] <= NonNegative(time'[Head(events'[d])] + late'[d])
      BY DEF HardwareIsSet, NonNegative
    <3>1. CASE d = c
      <4>1. time'[Head(events'[d])] = times[e]
        BY <1>1, <1>8, <1>11, <3>1
      <4> QED BY <2>1, <3>1, <4>1
    <3>2. CASE d # c
      BY <1>8, <1>10, <2>1, <3>2
    <3> QED BY <3>1, <3>2
  <2> QED BY <1>1, <1>7, <1>8, <1>9, <2>1, <2>2
<1>12. CASE Head(list) # e /\ UNCHANGED <<hardware, late>>
  <2>1. HardwareIsSet'
    <3> SUFFICES ASSUME NEW d \in CPUs, handler'[d] = "none", events'[d] # <<>>
                 PROVE  /\ hardware'[d] # None
                        /\ hardware'[d] <= NonNegative(time'[Head(events'[d])] + late'[d])
      BY DEF HardwareIsSet, NonNegative
    <3>1. Head(events'[d]) = Head(events[d]) /\ events[d] # <<>>
      BY <1>7, <1>8, <1>12
    <3> QED BY <1>10, <1>12, <3>1
  <2> QED BY <1>1, <1>2, <1>7, <1>8, <1>9, <1>12, <2>1
<1> QED BY <1>1, <1>11, <1>12

\* The owner of an idle timer adds it, and waits or goes on with it added.
LEMMA AddStep ==
    ASSUME IndInv, NEW e \in Timers, NEW c \in CPUs, NEW times \in [Timers -> Ticks],
           NEW ago \in 0..MaxLate, \A x \in Timers : x # e => times[x] = time[x],
           NonNegative(times[e] + ago) \in 0..MaxDelay,
           ~Armed(e), pc[e] # "cancel_wait", CanRunOn(c), add_timer(e, c, times, ago),
           e \in Threads => wait[e] # "B_TIMED_OUT",
           pc' = [pc EXCEPT ![e] = IF e \in Threads THEN "timed_blocked" ELSE "added"],
           user_data' = [t \in Threads |-> IF t = e THEN TRUE ELSE user_data[t]],
           deadline' = [t \in Threads |-> IF t = e THEN times[e] ELSE deadline[t]],
           UNCHANGED <<wait, spinning>>
    PROVE  IndInv'
<1>1. /\ NotQueued(e)
      /\ \A d \in CPUs : handler[d] \in {"hook", "hook_clear"} => firing[d] # e
      /\ \A d \in CPUs : current_event[d] = e => e \in Threads
  BY IdleIsFree
<1>2. /\ events' \in [CPUs -> Seq(Timers)]
      /\ time' = times
      /\ cpu' = [cpu EXCEPT ![e] = c]
      /\ hardware' \in [CPUs -> 0..MaxDelay \cup {None}]
      /\ late' \in [CPUs -> 0..MaxLate]
      /\ ToSet(events'[c]) = ToSet(events[c]) \cup {e}
      /\ \A d \in CPUs : d # c => events'[d] = events[d]
      /\ QueuedOnce' /\ HardwareIsSet'
      /\ UNCHANGED <<current_event, in_progress, handler, firing>>
  BY <1>1, AddTimerFacts
<1>3. /\ pc \in [Timers -> {"idle", "prepared", "blocked", "timed_blocked", "adding",
                            "added", "cancel", "cancel_wait"}]
      /\ time \in [Timers -> Ticks]
      /\ cpu \in [Timers -> CPUs \cup {None}]
      /\ events \in [CPUs -> Seq(Timers)]
  BY DEF IndInv, Consistent, TypeOK
<1>4. \A x \in Timers : x # e => pc'[x] = pc[x] /\ cpu'[x] = cpu[x] /\ time'[x] = time[x]
  BY <1>2, <1>3
<1>5. Armed(e)' /\ time'[e] = times[e] /\ cpu'[e] = c
  BY <1>2, <1>3 DEF Armed
<1>6. \A x \in Timers : x # e /\ NotQueued(x) => NotQueued(x)'
  BY <1>2 DEF NotQueued
<1>7. \A x \in Timers : x # e /\ Armed(x) => Armed(x)'
  BY <1>4 DEF Armed
<1>8. TypeOK'
  <2>1. user_data' \in [Threads -> BOOLEAN]
    BY DEF IndInv, Consistent, TypeOK
  <2>2. deadline' \in [Threads -> Ticks \cup {None}]
    <3>1. times[e] \in Ticks
      OBVIOUS
    <3> QED BY <3>1 DEF IndInv, Consistent, TypeOK
  <2>3. /\ pc' \in [Timers -> {"idle", "prepared", "blocked", "timed_blocked", "adding",
                               "added", "cancel", "cancel_wait"}]
        /\ cpu' \in [Timers -> CPUs \cup {None}]
    BY <1>2, <1>3
  <2> QED BY <1>2, <2>1, <2>2, <2>3 DEF IndInv, Consistent, TypeOK
<1>9. QueuedIsArmed'
  <2> SUFFICES ASSUME NEW d \in CPUs, NEW x \in ToSet(events'[d]) PROVE QueuedOf(x)'
    BY DEF QueuedIsArmed
  <2>1. CASE x = e
    BY <1>5, <2>1 DEF QueuedOf
  <2>2. CASE x # e
    <3>1. x \in ToSet(events[d])
      BY <1>2, <2>2
    <3>2. x \in Timers /\ QueuedOf(x)
      BY <1>3, <3>1, QueueMembers DEF IndInv, QueuedIsArmed
    <3> QED BY <1>4, <1>7, <2>2, <3>2 DEF QueuedOf
  <2> QED BY <2>1, <2>2
<1>10. HandlerIsSound'
  <2> SUFFICES ASSUME NEW d \in CPUs PROVE HandlerOf(d)'
    BY DEF HandlerIsSound
  <2>1. HandlerOf(d)
    BY DEF IndInv, HandlerIsSound
  <2>2. ASSUME NEW x \in Timers, x # e, FiringOf(x, d) PROVE FiringOf(x, d)'
    <3>1. x \in Threads => user_data'[x] = user_data[x] /\ deadline'[x] = deadline[x]
      BY <2>2
    <3> QED BY <1>2, <1>4, <1>6, <1>7, <2>2, <3>1 DEF FiringOf
  <2>3. ASSUME NEW x \in Periodic, x # e, RepeatedOf(x, d) PROVE RepeatedOf(x, d)'
    BY <1>4, <1>6, <1>7, <2>3, ConstantFacts DEF RepeatedOf
  <2>4. current_event[d] \notin ToSet(events'[d])
    <3>1. d = c => current_event[d] = None
      BY <2>1 DEF HandlerOf, CanRunOn
    <3>2. current_event[d] \notin ToSet(events[d])
      BY <2>1 DEF HandlerOf
    <3>3. CASE d = c
      BY <1>2, <3>1, <3>2, <3>3, ConstantFacts
    <3>4. CASE d # c
      BY <1>2, <3>2, <3>4
    <3> QED BY <3>3, <3>4
  <2> QED BY <1>1, <1>2, <2>1, <2>2, <2>3, <2>4, ConstantFacts DEF HandlerOf
<1>11. ThreadsAreSound'
  <2> SUFFICES ASSUME NEW u \in Threads PROVE ThreadOf(u)'
    BY DEF ThreadsAreSound
  <2>1. CASE u = e
    BY <1>3, <2>1 DEF ThreadOf
  <2>2. CASE u # e
    BY <1>4, <2>2, ConstantFacts DEF IndInv, ThreadsAreSound, ThreadOf
  <2> QED BY <2>1, <2>2
<1>12. OwnersAreSound'
  <2>1. pc'[e] # "cancel_wait" /\ (e \in Periodic => pc'[e] = "added")
    BY <1>3, ConstantFacts
  <2> QED BY <1>4, <1>6, <2>1, ConstantFacts DEF IndInv, OwnersAreSound, PeriodicOf
<1> QED BY <1>2, <1>8, <1>9, <1>10, <1>11, <1>12 DEF IndInv, Consistent

LEMMA BlockWithTimeoutStep ==
    ASSUME IndInv, NEW t \in Threads, NEW c \in CPUs, NEW delay \in 0..MaxDelay,
           BlockWithTimeout(t, c, delay)
    PROVE  IndInv'
<1> DEFINE times == [time EXCEPT ![t] = delay]
<1>1. /\ pc[t] = "prepared"
      /\ wait[t] = Blocked
      /\ CanRunOn(c) /\ add_timer(t, c, times, 0)
      /\ user_data' = [user_data EXCEPT ![t] = TRUE]
      /\ deadline' = [deadline EXCEPT ![t] = delay]
      /\ pc' = [pc EXCEPT ![t] = "timed_blocked"]
      /\ UNCHANGED <<wait, spinning>>
  BY DEF BlockWithTimeout, Goto, thread_is_blocked
<1>2. ~Armed(t) /\ t \in Timers /\ wait[t] # "B_TIMED_OUT"
  BY <1>1, ConstantFacts DEF Armed, Blocked
<1>3. /\ times \in [Timers -> Ticks]
      /\ times[t] = delay
      /\ \A x \in Timers : x # t => times[x] = time[x]
  <2>1. delay \in Ticks
    BY ConstantFacts DEF Ticks
  <2> QED BY <1>2, <2>1 DEF IndInv, Consistent, TypeOK
<1> HIDE DEF times
<1>4. NonNegative(times[t] + 0) \in 0..MaxDelay /\ 0 \in 0..MaxLate
  BY <1>3, ConstantFacts DEF NonNegative
<1>5. user_data' = [u \in Threads |-> IF u = t THEN TRUE ELSE user_data[u]]
  BY <1>1 DEF IndInv, Consistent, TypeOK
<1>6. deadline' = [u \in Threads |-> IF u = t THEN times[t] ELSE deadline[u]]
  BY <1>1, <1>3 DEF IndInv, Consistent, TypeOK
<1> QED BY <1>1, <1>2, <1>3, <1>4, <1>5, <1>6, AddStep

\* The owner of a periodic timer that is neither queued nor firing gives it a time.
LEMMA ReadTimeStep ==
    ASSUME IndInv, NEW p \in Periodic, ReadTime(p)
    PROVE  IndInv'
<1>1. /\ pc[p] = "idle"
      /\ time' = [time EXCEPT ![p] = Period]
      /\ pc' = [pc EXCEPT ![p] = "adding"]
      /\ UNCHANGED <<events, current_event, in_progress, hardware, late, handler, firing, cpu,
                     user_data, wait, spinning, deadline>>
  BY DEF ReadTime, Goto
<1>2. p \in Timers /\ p \notin Threads /\ ~Armed(p)
  BY <1>1, ConstantFacts DEF Armed
<1>3. /\ NotQueued(p)
      /\ \A c \in CPUs : handler[c] \in {"hook", "hook_clear"} => firing[c] # p
      /\ \A c \in CPUs : current_event[c] # p
  BY <1>1, <1>2, IdleIsFree
<1>4. /\ events \in [CPUs -> Seq(Timers)]
      /\ \A x \in Timers : x # p => time'[x] = time[x] /\ pc'[x] = pc[x]
      /\ time'[p] = Period /\ pc'[p] = "adding"
  BY <1>1, <1>2 DEF IndInv, Consistent, TypeOK
<1>5. TypeOK'
  <2>1. Period \in Ticks
    BY ConstantFacts DEF Ticks
  <2> QED BY <1>1, <2>1 DEF IndInv, Consistent, TypeOK
<1>6. \A c \in CPUs : \A x \in ToSet(events[c]) : x \in Timers /\ x # p
  BY <1>3, <1>4, QueueMembers DEF NotQueued
<1>7. QueuedOnce'
  <2> SUFFICES ASSUME NEW c \in CPUs, InOrder(events[c], time) PROVE InOrder(events[c], time')
    BY <1>1 DEF IndInv, Consistent, QueuedOnce
  <2>1. \A i \in DOMAIN events[c] : time'[events[c][i]] = time[events[c][i]]
    BY <1>4, <1>6 DEF ToSet
  <2> QED BY <2>1 DEF InOrder
<1>8. HardwareIsSet'
  <2> SUFFICES ASSUME NEW c \in CPUs, handler[c] = "none", events[c] # <<>>
               PROVE  /\ hardware[c] # None
                      /\ hardware[c] <= NonNegative(time'[Head(events[c])] + late[c])
    BY <1>1 DEF HardwareIsSet, NonNegative
  <2>1. Head(events[c]) \in ToSet(events[c])
    BY <1>4, TailFacts DEF IndInv, Consistent, QueuedOnce
  <2>2. time'[Head(events[c])] = time[Head(events[c])]
    BY <1>4, <1>6, <2>1
  <2> QED BY <2>2 DEF IndInv, Consistent, HardwareIsSet
<1>9. \A x \in Timers : x # p /\ Armed(x) => Armed(x)'
  BY <1>4 DEF Armed
<1>10. \A x \in Timers : NotQueued(x) => NotQueued(x)'
  BY <1>1 DEF NotQueued
<1>11. QueuedIsArmed'
  <2> SUFFICES ASSUME NEW c \in CPUs, NEW x \in ToSet(events[c]) PROVE QueuedOf(x)'
    BY <1>1 DEF QueuedIsArmed
  <2>1. x \in Timers /\ x # p /\ QueuedOf(x)
    BY <1>6 DEF IndInv, QueuedIsArmed
  <2> QED BY <1>1, <1>4, <1>9, <2>1 DEF QueuedOf
<1>12. HandlerIsSound'
  <2> SUFFICES ASSUME NEW c \in CPUs PROVE HandlerOf(c)'
    BY DEF HandlerIsSound
  <2>1. HandlerOf(c)
    BY DEF IndInv, HandlerIsSound
  <2>2. ASSUME NEW x \in Timers, x # p, FiringOf(x, c) PROVE FiringOf(x, c)'
    BY <1>1, <1>4, <1>9, <1>10, <2>2 DEF FiringOf
  <2>3. ASSUME NEW x \in Periodic, x # p, RepeatedOf(x, c) PROVE RepeatedOf(x, c)'
    BY <1>1, <1>9, <1>10, <2>3, ConstantFacts DEF RepeatedOf
  <2> QED BY <1>1, <1>3, <2>1, <2>2, <2>3 DEF HandlerOf
<1>13. ThreadsAreSound'
  BY <1>1, <1>2, <1>4, ConstantFacts DEF IndInv, ThreadsAreSound, ThreadOf
<1>14. OwnersAreSound'
  <2>1. Period \in (Period - MaxLate)..Period
    BY ConstantFacts
  <2> QED BY <1>1, <1>2, <1>4, <1>10, <2>1, ConstantFacts DEF IndInv, OwnersAreSound, PeriodicOf
<1> QED BY <1>5, <1>7, <1>8, <1>11, <1>12, <1>13, <1>14 DEF IndInv, Consistent

LEMMA AddPeriodicStep ==
    ASSUME IndInv, NEW p \in Periodic, NEW c \in CPUs, AddPeriodic(p, c)
    PROVE  IndInv'
<1> DEFINE ago == Period - time[p]
<1>1. /\ pc[p] = "adding"
      /\ CanRunOn(c) /\ add_timer(p, c, time, ago)
      /\ pc' = [pc EXCEPT ![p] = "added"]
      /\ UNCHANGED <<user_data, wait, spinning, deadline>>
  BY DEF AddPeriodic, Goto
<1>2. ~Armed(p) /\ p \in Timers /\ p \notin Threads
  BY <1>1, ConstantFacts DEF Armed
<1>3. user_data' = [u \in Threads |-> IF u = p THEN TRUE ELSE user_data[u]]
  BY <1>1, <1>2 DEF IndInv, Consistent, TypeOK
<1>4. deadline' = [u \in Threads |-> IF u = p THEN time[p] ELSE deadline[u]]
  BY <1>1, <1>2 DEF IndInv, Consistent, TypeOK
<1>5. time[p] \in (Period - MaxLate)..Period /\ time \in [Timers -> Ticks]
  BY <1>1 DEF IndInv, Consistent, TypeOK, OwnersAreSound, PeriodicOf
<1>6. ago \in 0..MaxLate /\ NonNegative(time[p] + ago) \in 0..MaxDelay
  BY <1>5, ConstantFacts DEF NonNegative
<1> HIDE DEF ago
<1> QED BY <1>1, <1>2, <1>3, <1>4, <1>5, <1>6, AddStep

-------------------------------------------------------------------------------
(* cancel_timer() *)

\* The owner of a timer is done with it: the timer is in no queue, and its hook
\* is over.
LEMMA OwnerIsDone ==
    ASSUME IndInv, NEW e \in Timers, NotQueued(e),
           \A c \in CPUs : handler[c] \in {"hook", "hook_clear"} => firing[c] # e,
           \A c \in CPUs : current_event[c] = e => e \in Threads,
           pc' = [pc EXCEPT ![e] = "idle"], Forget(e),
           spinning' \in [Timers -> CPUs \cup {None}],
           UNCHANGED <<timerVars, user_data, wait>>
    PROVE  IndInv'
<1>1. \A x \in Timers : x # e => pc'[x] = pc[x]
  BY DEF IndInv, Consistent, TypeOK
<1>2. pc'[e] = "idle"
  BY DEF IndInv, Consistent, TypeOK
<1>3. \A x \in Threads : deadline'[x] = IF x = e THEN None ELSE deadline[x]
  BY DEF Forget
<1>4. \A x \in Timers : x # e /\ Armed(x) => Armed(x)'
  BY <1>1 DEF Armed
<1>5. \A x \in Timers : NotQueued(x) => NotQueued(x)'
  BY DEF NotQueued, timerVars
<1>6. TypeOK'
  <2>1. deadline' \in [Threads -> Ticks \cup {None}]
    BY DEF Forget, IndInv, Consistent, TypeOK
  <2> QED BY <2>1 DEF IndInv, Consistent, TypeOK, timerVars
<1>7. QueuedOnce' /\ HardwareIsSet'
  BY QueuesStay DEF IndInv, Consistent
<1>8. QueuedIsArmed'
  <2> SUFFICES ASSUME NEW c \in CPUs, NEW x \in ToSet(events[c]) PROVE QueuedOf(x)'
    BY DEF QueuedIsArmed, timerVars
  <2>1. x \in Timers /\ x # e /\ QueuedOf(x)
    BY QueueMembers DEF IndInv, Consistent, TypeOK, QueuedIsArmed, NotQueued
  <2> QED BY <1>3, <1>4, <2>1 DEF QueuedOf, timerVars
<1>9. HandlerIsSound'
  <2> SUFFICES ASSUME NEW c \in CPUs PROVE HandlerOf(c)'
    BY DEF HandlerIsSound
  <2>1. HandlerOf(c)
    BY DEF IndInv, HandlerIsSound
  <2>2. ASSUME NEW x \in Timers, x # e, FiringOf(x, c) PROVE FiringOf(x, c)'
    BY <1>1, <1>3, <1>4, <1>5, <2>2 DEF FiringOf, timerVars
  <2>3. ASSUME NEW x \in Periodic, x # e, RepeatedOf(x, c) PROVE RepeatedOf(x, c)'
    BY <1>4, <1>5, <2>3, ConstantFacts DEF RepeatedOf, timerVars
  <2> QED BY <2>1, <2>2, <2>3, ConstantFacts DEF HandlerOf, timerVars
<1>10. ThreadsAreSound'
  <2> SUFFICES ASSUME NEW u \in Threads PROVE ThreadOf(u)'
    BY DEF ThreadsAreSound
  <2>1. CASE u = e
    BY <1>2, <1>3, <2>1 DEF ThreadOf, Waiting
  <2>2. CASE u # e
    BY <1>1, <1>3, <2>2, ConstantFacts DEF IndInv, ThreadsAreSound, ThreadOf
  <2> QED BY <2>1, <2>2
<1>11. OwnersAreSound'
  BY <1>1, <1>2, <1>5, ConstantFacts DEF IndInv, OwnersAreSound, PeriodicOf, timerVars
<1> QED BY <1>6, <1>7, <1>8, <1>9, <1>10, <1>11 DEF IndInv, Consistent

LEMMA CancelWaitStep ==
    ASSUME IndInv, NEW e \in Timers, CancelWait(e)
    PROVE  IndInv'
<1>1. /\ pc[e] = "cancel_wait"
      /\ ~in_progress[cpu[e]]
      /\ spinning' = [spinning EXCEPT ![e] = None]
      /\ pc' = [pc EXCEPT ![e] = "idle"]
      /\ Forget(e)
      /\ UNCHANGED <<timerVars, user_data, wait>>
  BY DEF CancelWait, Goto
<1>2. NotQueued(e)
  BY <1>1 DEF IndInv, OwnersAreSound, PeriodicOf
<1>3. \A c \in CPUs : handler[c] \in {"hook", "hook_clear"} => firing[c] # e
  BY <1>1 DEF IndInv, HandlerIsSound, HandlerOf, FiringOf, HookLabels
<1>4. \A c \in CPUs : current_event[c] = e => e \in Threads
  BY <1>1 DEF IndInv, HandlerIsSound, HandlerOf, RepeatedOf, Armed, Timers
<1>5. spinning' \in [Timers -> CPUs \cup {None}]
  BY <1>1 DEF IndInv, Consistent, TypeOK
<1> QED BY <1>1, <1>2, <1>3, <1>4, <1>5, OwnerIsDone

\* A timer was taken out of its queue.
LEMMA CancelQueuedFacts ==
    ASSUME IndInv, NEW e \in Timers, NEW c \in CPUs, CancelQueued(e, c)
    PROVE  /\ events' \in [CPUs -> Seq(Timers)]
           /\ hardware' \in [CPUs -> 0..MaxDelay \cup {None}]
           /\ late' \in [CPUs -> 0..MaxLate]
           /\ cpu' = [cpu EXCEPT ![e] = None]
           /\ e \in ToSet(events[cpu[e]]) /\ cpu[e] \in CPUs
           /\ \A d \in CPUs : ToSet(events'[d]) = ToSet(events[d]) \ {e}
           /\ QueuedOnce' /\ HardwareIsSet'
           /\ UNCHANGED <<current_event, in_progress, handler, firing, time>>
<1>1. /\ events \in [CPUs -> Seq(Timers)]
      /\ time \in [Timers -> Ticks]
      /\ time \in [Timers -> Int]
      /\ cpu \in [Timers -> CPUs \cup {None}]
      /\ hardware \in [CPUs -> 0..MaxDelay \cup {None}]
      /\ late \in [CPUs -> 0..MaxLate]
      /\ QueuedOnce /\ HardwareIsSet
  BY ConstantFacts DEF IndInv, Consistent, TypeOK, Ticks
<1>2. PICK d \in CPUs : cpu[e] = d
  BY <1>1 DEF CancelQueued
<1>3. PICK i \in DOMAIN events[d] :
         /\ events[d][i] = e
         /\ events' = [events EXCEPT ![d] = RemoveAt(events[d], i)]
         /\ \/ d = c /\ set_hardware_timer(c, RemoveAt(events[d], i), time)
            \/ d # c /\ UNCHANGED <<hardware, late>>
  BY <1>2 DEF CancelQueued
<1>4. /\ cpu' = [cpu EXCEPT ![e] = None]
      /\ UNCHANGED <<current_event, in_progress, handler, firing, time>>
  BY DEF CancelQueued
<1> DEFINE list == RemoveAt(events[d], i)
<1>5. \A x \in CPUs : IsInjective(events[x]) /\ InOrder(events[x], time)
  BY <1>1 DEF QueuedOnce
<1>6. /\ list \in Seq(Timers)
      /\ ToSet(list) = ToSet(events[d]) \ {events[d][i]}
      /\ IsInjective(list)
      /\ InOrder(list, time)
      /\ list # <<>> => events[d] # <<>> /\ time[Head(events[d])] <= time[Head(list)]
  BY <1>1, <1>5, RemoveFacts
<1> HIDE DEF list
<1>7. /\ events' \in [CPUs -> Seq(Timers)]
      /\ events'[d] = list
      /\ \A x \in CPUs : x # d => events'[x] = events[x]
  BY <1>1, <1>3, <1>6 DEF list
<1>8. e \in ToSet(events[d])
  BY <1>3 DEF ToSet
<1>9. \A x \in CPUs : x # d => e \notin ToSet(events[x])
  BY <1>1, <1>2 DEF QueuedOnce
<1>10. \A x \in CPUs : ToSet(events'[x]) = ToSet(events[x]) \ {e}
  BY <1>3, <1>6, <1>7, <1>9
<1>11. QueuedOnce'
  <2> SUFFICES ASSUME NEW x \in CPUs
               PROVE  /\ IsInjective(events'[x])
                      /\ \A y \in ToSet(events'[x]) : cpu'[y] = x
                      /\ InOrder(events'[x], time')
    BY DEF QueuedOnce
  <2>1. ASSUME NEW y \in ToSet(events'[x]) PROVE cpu'[y] = x
    <3>1. y \in ToSet(events[x]) /\ y # e
      BY <1>10
    <3>2. y \in Timers /\ cpu[y] = x
      BY <1>1, <3>1, QueueMembers DEF QueuedOnce
    <3> QED BY <1>1, <1>4, <3>1, <3>2
  <2>2. CASE x = d
    BY <1>4, <1>6, <1>7, <2>1, <2>2
  <2>3. CASE x # d
    BY <1>4, <1>5, <1>7, <2>1, <2>3
  <2> QED BY <2>2, <2>3
<1>12. list # <<>> => Head(list) \in Timers /\ Head(events[d]) \in Timers
  BY <1>1, <1>6
<1>13. \/ /\ d = c
          /\ hardware' \in [CPUs -> 0..MaxDelay \cup {None}]
          /\ late' \in [CPUs -> 0..MaxLate]
          /\ \A x \in CPUs : x # c => hardware'[x] = hardware[x] /\ late'[x] = late[x]
          /\ list # <<>> => /\ hardware'[c] # None
                            /\ hardware'[c] <= NonNegative(time[Head(list)] + late'[c])
       \/ UNCHANGED <<hardware, late>>
  BY <1>1, <1>3, <1>6, SetHardwareFacts DEF list
<1>14. hardware' \in [CPUs -> 0..MaxDelay \cup {None}] /\ late' \in [CPUs -> 0..MaxLate]
  BY <1>1, <1>13
<1>15. HardwareIsSet'
  <2> SUFFICES ASSUME NEW x \in CPUs, handler'[x] = "none", events'[x] # <<>>
               PROVE  /\ hardware'[x] # None
                      /\ hardware'[x] <= NonNegative(time[Head(events'[x])] + late'[x])
    BY <1>4 DEF HardwareIsSet, NonNegative
  <2>0. /\ handler[x] = "none"
        /\ events[x] # <<>> =>
              /\ hardware[x] # None
              /\ hardware[x] <= NonNegative(time[Head(events[x])] + late[x])
    BY <1>1, <1>4 DEF HardwareIsSet
  <2>1. CASE x # d
    <3>1. hardware'[x] = hardware[x] /\ late'[x] = late[x] /\ events'[x] = events[x]
      BY <1>7, <1>13, <2>1
    <3> QED BY <2>0, <3>1
  <2>2. CASE x = d /\ d = c /\ hardware'[c] # None
                   /\ hardware'[c] <= NonNegative(time[Head(list)] + late'[c])
    BY <1>7, <2>2
  <2>3. CASE x = d /\ UNCHANGED <<hardware, late>>
    <3>1. list # <<>> /\ Head(events'[x]) = Head(list)
      BY <1>7, <2>3
    <3>2. events[x] # <<>> /\ time[Head(events[x])] <= time[Head(list)]
      BY <1>6, <2>3, <3>1
    <3>3. hardware[x] # None /\ hardware[x] <= NonNegative(time[Head(events[x])] + late[x])
      BY <2>0, <3>2
    <3>4. /\ time[Head(events[x])] \in Int /\ time[Head(list)] \in Int
          /\ hardware[x] \in Int /\ late[x] \in Int
      BY <1>1, <1>12, <2>3, <3>1, <3>3
    <3>5. hardware[x] <= NonNegative(time[Head(list)] + late[x])
      BY <3>2, <3>3, <3>4 DEF NonNegative
    <3> QED BY <2>3, <3>1, <3>3, <3>5
  <2> QED BY <1>7, <1>13, <2>1, <2>2, <2>3
<1> QED BY <1>2, <1>4, <1>7, <1>8, <1>10, <1>11, <1>14, <1>15

\* cancel_timer() by the owner of the timer, on a CPU outside an interrupt.
LEMMA CancelStep ==
    ASSUME IndInv, NEW e \in Timers, NEW c \in CPUs, Armed(e), CanRunOn(c), cancel_timer(e, c),
           \/ pc'[e] = "idle" /\ Forget(e)
           \/ pc'[e] # "idle" /\ UNCHANGED deadline,
           UNCHANGED <<user_data, wait>>
    PROVE  IndInv'
<1>0. /\ pc \in [Timers -> {"idle", "prepared", "blocked", "timed_blocked", "adding",
                            "added", "cancel", "cancel_wait"}]
      /\ spinning \in [Timers -> CPUs \cup {None}]
      /\ cpu \in [Timers -> CPUs \cup {None}]
      /\ events \in [CPUs -> Seq(Timers)]
      /\ current_event \in [CPUs -> Timers \cup {None}]
      /\ deadline \in [Threads -> Ticks \cup {None}]
      /\ \A x \in CPUs : \A y \in ToSet(events[x]) : cpu[y] = x
  BY DEF IndInv, Consistent, TypeOK, QueuedOnce
<1>1. CASE /\ CancelQueued(e, c)
           /\ pc' = [pc EXCEPT ![e] = "idle"]
           /\ UNCHANGED spinning
  <2>1. /\ events' \in [CPUs -> Seq(Timers)]
        /\ hardware' \in [CPUs -> 0..MaxDelay \cup {None}]
        /\ late' \in [CPUs -> 0..MaxLate]
        /\ cpu' = [cpu EXCEPT ![e] = None]
        /\ e \in ToSet(events[cpu[e]]) /\ cpu[e] \in CPUs
        /\ \A d \in CPUs : ToSet(events'[d]) = ToSet(events[d]) \ {e}
        /\ QueuedOnce' /\ HardwareIsSet'
        /\ UNCHANGED <<current_event, in_progress, handler, firing, time>>
    BY <1>1, CancelQueuedFacts
  <2>2. /\ pc'[e] = "idle"
        /\ \A x \in Timers : x # e => pc'[x] = pc[x] /\ cpu'[x] = cpu[x]
    BY <1>0, <1>1, <2>1
  <2>3. \A x \in Threads : deadline'[x] = IF x = e THEN None ELSE deadline[x]
    BY <2>2 DEF Forget
  <2>4. \A x \in Timers : x # e /\ Armed(x) => Armed(x)'
    BY <2>2 DEF Armed
  <2>5. \A x \in Timers : NotQueued(x) => NotQueued(x)'
    BY <2>1 DEF NotQueued
  <2>6. TypeOK'
    <3>1. deadline' \in [Threads -> Ticks \cup {None}]
      BY <1>0, <2>2 DEF Forget
    <3>2. cpu' \in [Timers -> CPUs \cup {None}]
      BY <1>0, <2>1
    <3> QED BY <1>1, <2>1, <3>1, <3>2 DEF IndInv, Consistent, TypeOK
  <2>7. QueuedIsArmed'
    <3> SUFFICES ASSUME NEW d \in CPUs, NEW x \in ToSet(events'[d]) PROVE QueuedOf(x)'
      BY DEF QueuedIsArmed
    <3>1. x \in ToSet(events[d]) /\ x # e
      BY <2>1
    <3>2. x \in Timers /\ QueuedOf(x)
      BY <1>0, <3>1, QueueMembers DEF IndInv, QueuedIsArmed
    <3> QED BY <2>1, <2>3, <2>4, <3>1, <3>2 DEF QueuedOf
  <2>8. HandlerIsSound'
    <3> SUFFICES ASSUME NEW d \in CPUs PROVE HandlerOf(d)'
      BY DEF HandlerIsSound
    <3>1. HandlerOf(d)
      BY DEF IndInv, HandlerIsSound
    <3>2. ~NotQueued(e)
      BY <2>1 DEF NotQueued
    <3>3. ASSUME NEW x \in Timers, FiringOf(x, d) PROVE FiringOf(x, d)'
      BY <2>1, <2>2, <2>3, <2>4, <2>5, <3>2, <3>3 DEF FiringOf
    <3>4. ASSUME NEW x \in Periodic, RepeatedOf(x, d) PROVE RepeatedOf(x, d)'
      BY <2>1, <2>2, <2>4, <2>5, <3>2, <3>4, ConstantFacts DEF RepeatedOf
    <3> QED BY <2>1, <3>1, <3>3, <3>4 DEF HandlerOf
  <2>9. ThreadsAreSound'
    <3> SUFFICES ASSUME NEW u \in Threads PROVE ThreadOf(u)'
      BY DEF ThreadsAreSound
    <3>1. CASE u = e
      BY <2>2, <2>3, <3>1 DEF ThreadOf, Waiting
    <3>2. CASE u # e
      BY <2>2, <2>3, <3>2, ConstantFacts DEF IndInv, ThreadsAreSound, ThreadOf
    <3> QED BY <3>1, <3>2
  <2>10. OwnersAreSound'
    BY <2>1, <2>2, <2>5, ConstantFacts DEF IndInv, OwnersAreSound, PeriodicOf
  <2> QED BY <2>1, <2>6, <2>7, <2>8, <2>9, <2>10 DEF IndInv, Consistent
<1>2. CASE /\ CancelNotFound(e)
           /\ pc' = [pc EXCEPT ![e] = "idle"]
           /\ UNCHANGED spinning
  <2>1. /\ cpu[e] # None => current_event[cpu[e]] # e /\ e \notin ToSet(events[cpu[e]])
        /\ UNCHANGED timerVars
    BY <1>2 DEF CancelNotFound
  <2>2. NotQueued(e)
    BY <1>0, <2>1, ConstantFacts DEF NotQueued
  <2>3. \A d \in CPUs : handler[d] \in {"hook", "hook_clear"} => firing[d] # e
    BY <2>1, ConstantFacts DEF IndInv, HandlerIsSound, HandlerOf, FiringOf, Armed
  <2>4. \A d \in CPUs : current_event[d] = e => e \in Threads
    BY <2>1, ConstantFacts DEF IndInv, HandlerIsSound, HandlerOf, RepeatedOf, Timers
  <2>5. pc'[e] = "idle"
    BY <1>0, <1>2
  <2>6. Forget(e) /\ spinning' \in [Timers -> CPUs \cup {None}]
    BY <1>0, <1>2, <2>5
  <2> QED BY <1>2, <2>1, <2>2, <2>3, <2>4, <2>6, OwnerIsDone
<1>3. CASE CancelCurrent(e) /\ cpu[e] = c
  <2>1. current_event[c] = e
    BY <1>3 DEF CancelCurrent
  <2> QED BY <2>1, ConstantFacts DEF CanRunOn, IndInv, HandlerIsSound, HandlerOf
<1>4. CASE /\ CancelCurrent(e)
           /\ pc' = [pc EXCEPT ![e] = "cancel_wait"]
           /\ spinning' = [spinning EXCEPT ![e] = c]
  <2>1. PICK d \in CPUs : cpu[e] = d
    BY <1>0, <1>4 DEF CancelCurrent
  <2>2. /\ current_event[d] = e
        /\ current_event' = [current_event EXCEPT ![d] = None]
        /\ UNCHANGED <<events, in_progress, hardware, late, handler, firing, time, cpu>>
    BY <1>4, <2>1 DEF CancelCurrent
  <2>3. /\ pc'[e] = "cancel_wait" /\ UNCHANGED deadline
        /\ \A x \in Timers : x # e => pc'[x] = pc[x]
    <3>1. /\ pc'[e] = "cancel_wait"
          /\ \A x \in Timers : x # e => pc'[x] = pc[x]
      BY <1>0, <1>4
    <3> QED BY <3>1
  <2>4. NotQueued(e)
    BY <1>0, <2>1, <2>2 DEF NotQueued, IndInv, HandlerIsSound, HandlerOf
  <2>5. \A x \in Timers : x # e /\ Armed(x) => Armed(x)'
    BY <2>3 DEF Armed
  <2>6. \A x \in Timers : NotQueued(x) => NotQueued(x)'
    BY <2>2 DEF NotQueued
  <2>7. TypeOK'
    <3>1. current_event' \in [CPUs -> Timers \cup {None}]
      BY <1>0, <2>2
    <3>2. /\ pc' \in [Timers -> {"idle", "prepared", "blocked", "timed_blocked", "adding",
                                 "added", "cancel", "cancel_wait"}]
          /\ spinning' \in [Timers -> CPUs \cup {None}]
      BY <1>0, <1>4
    <3> QED BY <2>2, <2>3, <3>1, <3>2 DEF IndInv, Consistent, TypeOK
  <2>8. QueuedOnce' /\ HardwareIsSet'
    BY <2>2 DEF IndInv, Consistent, QueuedOnce, HardwareIsSet, InOrder, NonNegative
  <2>9. QueuedIsArmed'
    <3> SUFFICES ASSUME NEW x \in CPUs, NEW y \in ToSet(events[x]) PROVE QueuedOf(y)'
      BY <2>2 DEF QueuedIsArmed
    <3>1. y \in Timers /\ y # e /\ QueuedOf(y)
      BY <1>0, <2>4, QueueMembers DEF IndInv, QueuedIsArmed, NotQueued
    <3> QED BY <2>2, <2>3, <2>5, <3>1 DEF QueuedOf
  <2>10. HandlerIsSound'
    <3> SUFFICES ASSUME NEW x \in CPUs PROVE HandlerOf(x)'
      BY DEF HandlerIsSound
    <3>1. HandlerOf(x)
      BY DEF IndInv, HandlerIsSound
    <3>2. current_event'[x] = IF x = d THEN None ELSE current_event[x]
      BY <1>0, <2>2
    <3>3. ASSUME NEW y \in Timers, FiringOf(y, x), firing[x] = y PROVE FiringOf(y, x)'
      <4>1. CASE y = e
        BY <2>1, <2>2, <2>3, <2>6, <3>2, <3>3, <4>1 DEF FiringOf
      <4>2. CASE y # e
        <5>1. x = d => pc[y] = "cancel_wait" /\ current_event[x] = e
          BY <2>2, <3>1, <3>3, <4>2, ConstantFacts DEF FiringOf, HandlerOf
        <5>2. x # d
          BY <2>2, <3>1, <3>3, <4>2, <5>1, ConstantFacts DEF HandlerOf
        <5> QED BY <2>2, <2>3, <2>5, <2>6, <3>2, <3>3, <4>2, <5>2 DEF FiringOf
      <4> QED BY <4>1, <4>2
    <3>4. ASSUME NEW y \in Periodic, y # e, RepeatedOf(y, x) PROVE RepeatedOf(y, x)'
      BY <2>2, <2>5, <2>6, <3>4, ConstantFacts DEF RepeatedOf
    <3>5. current_event'[x] \in Periodic => current_event'[x] # e
      BY <2>1, <3>1, <3>2, ConstantFacts DEF HandlerOf, RepeatedOf
    <3>6. None \notin ToSet(events[x])
      BY <1>0, QueueMembers, ConstantFacts
    <3> QED BY <2>2, <3>1, <3>2, <3>3, <3>4, <3>5, <3>6, ConstantFacts DEF HandlerOf
  <2>11. ThreadsAreSound'
    <3> SUFFICES ASSUME NEW u \in Threads PROVE ThreadOf(u)'
      BY DEF ThreadsAreSound
    <3>1. CASE u = e
      BY <2>3, <3>1, ConstantFacts DEF IndInv, ThreadsAreSound, ThreadOf, Armed, Waiting
    <3>2. CASE u # e
      BY <2>3, <3>2, ConstantFacts DEF IndInv, ThreadsAreSound, ThreadOf
    <3> QED BY <3>1, <3>2
  <2>12. OwnersAreSound'
    BY <2>1, <2>2, <2>3, <2>4, <2>6, ConstantFacts DEF IndInv, OwnersAreSound, PeriodicOf
  <2> QED BY <2>7, <2>8, <2>9, <2>10, <2>11, <2>12 DEF IndInv, Consistent
<1> QED BY <1>1, <1>2, <1>3, <1>4 DEF cancel_timer, Goto

LEMMA CancelThreadStep ==
    ASSUME IndInv, NEW t \in Threads, NEW c \in CPUs, Cancel(t, c)
    PROVE  IndInv'
<1>1. t \in Timers /\ Armed(t)
  BY ConstantFacts DEF Cancel, Armed
<1> QED BY <1>1, CancelStep DEF Cancel

LEMMA CancelPeriodicStep ==
    ASSUME IndInv, NEW p \in Periodic, NEW c \in CPUs, CancelPeriodic(p, c)
    PROVE  IndInv'
<1>1. p \in Timers /\ Armed(p) /\ p \notin Threads
  BY ConstantFacts DEF CancelPeriodic, Armed
<1>2. UNCHANGED deadline /\ Forget(p)
  BY <1>1 DEF CancelPeriodic, Forget, IndInv, Consistent, TypeOK
<1> QED BY <1>1, <1>2, CancelStep DEF CancelPeriodic

-------------------------------------------------------------------------------
(* timer_interrupt() *)

\* The handler of CPU c goes on, and nothing changes but its own state and the
\* hardware timer.
LEMMA HandlerMoves ==
    ASSUME IndInv, NEW c \in CPUs, NEW label,
           label \in {"none", "loop", "after"} \cup HookLabels,
           handler' = [handler EXCEPT ![c] = label],
           in_progress' \in [CPUs -> BOOLEAN],
           hardware' \in [CPUs -> 0..MaxDelay \cup {None}],
           late' \in [CPUs -> 0..MaxLate],
           \A d \in CPUs : d # c => /\ in_progress'[d] = in_progress[d]
                                    /\ hardware'[d] = hardware[d] /\ late'[d] = late[d],
           label = "none" /\ events[c] # <<>> =>
              /\ hardware'[c] # None
              /\ hardware'[c] <= NonNegative(time[Head(events[c])] + late'[c]),
           HandlerOf(c)',
           UNCHANGED <<events, current_event, firing, time, cpu, user_data, wait, pc, spinning,
                       deadline>>
    PROVE  IndInv'
<1>1. TypeOK'
  BY DEF IndInv, Consistent, TypeOK
<1>2. QueuedOnce'
  BY DEF IndInv, Consistent, QueuedOnce, InOrder
<1>3. \A d \in CPUs : handler'[d] = IF d = c THEN label ELSE handler[d]
  BY DEF IndInv, Consistent, TypeOK
<1>4. HardwareIsSet'
  <2> SUFFICES ASSUME NEW d \in CPUs, handler'[d] = "none", events[d] # <<>>
               PROVE  /\ hardware'[d] # None
                      /\ hardware'[d] <= NonNegative(time[Head(events[d])] + late'[d])
    BY DEF HardwareIsSet, NonNegative
  <2>1. CASE d = c
    BY <1>3, <2>1
  <2>2. CASE d # c
    BY <1>3, <2>2 DEF IndInv, Consistent, HardwareIsSet
  <2> QED BY <2>1, <2>2
<1>5. QueuedIsArmed'
  BY DEF IndInv, QueuedIsArmed, QueuedOf, Armed
<1>6. HandlerIsSound'
  <2> SUFFICES ASSUME NEW d \in CPUs, d # c PROVE HandlerOf(d)'
    BY DEF HandlerIsSound
  <2>1. HandlerOf(d) /\ in_progress'[d] = in_progress[d] /\ handler'[d] = handler[d]
    BY <1>3 DEF IndInv, HandlerIsSound
  <2> QED BY <2>1 DEF HandlerOf, FiringOf, RepeatedOf, NotQueued, Armed
<1>7. ThreadsAreSound'
  BY DEF IndInv, ThreadsAreSound, ThreadOf
<1>8. OwnersAreSound'
  BY DEF IndInv, OwnersAreSound, PeriodicOf, NotQueued
<1> QED BY <1>1, <1>2, <1>4, <1>5, <1>6, <1>7, <1>8 DEF IndInv, Consistent

LEMMA TimerInterruptStep ==
    ASSUME IndInv, NEW c \in CPUs, TimerInterrupt(c)
    PROVE  IndInv'
<1>1. /\ handler[c] = "none"
      /\ hardware' = [hardware EXCEPT ![c] = None]
      /\ late' = [late EXCEPT ![c] = 0]
      /\ handler' = [handler EXCEPT ![c] = "loop"]
      /\ UNCHANGED <<events, current_event, in_progress, firing, time, cpu, user_data, wait,
                     pc, spinning, deadline>>
  BY DEF TimerInterrupt, TurnOff, CanRunOn, Handler
<1>2. /\ handler'[c] = "loop"
      /\ in_progress' \in [CPUs -> BOOLEAN]
      /\ hardware' \in [CPUs -> 0..MaxDelay \cup {None}]
      /\ \A d \in CPUs : d # c => hardware'[d] = hardware[d] /\ late'[d] = late[d]
  BY <1>1 DEF IndInv, Consistent, TypeOK
<1>2a. late' \in [CPUs -> 0..MaxLate]
  BY <1>1, ConstantFacts DEF IndInv, Consistent, TypeOK
<1>3. HandlerOf(c)'
  BY <1>1, <1>2 DEF IndInv, HandlerIsSound, HandlerOf, RepeatedOf, NotQueued, Armed, HookLabels
<1> QED BY <1>1, <1>2, <1>2a, <1>3, HandlerMoves

LEMMA EndInterruptStep ==
    ASSUME IndInv, NEW c \in CPUs, EndInterrupt(c)
    PROVE  IndInv'
<1>1. /\ handler[c] = "loop"
      /\ \/ events[c] # <<>> /\ set_hardware_timer(c, events[c], time)
         \/ events[c] = <<>> /\ UNCHANGED <<hardware, late>>
      /\ handler' = [handler EXCEPT ![c] = "none"]
      /\ UNCHANGED <<events, current_event, in_progress, firing, time, cpu, user_data, wait,
                     pc, spinning, deadline>>
  BY DEF EndInterrupt, Handler
<1>2. /\ handler'[c] = "none"
      /\ in_progress' \in [CPUs -> BOOLEAN]
      /\ hardware \in [CPUs -> 0..MaxDelay \cup {None}]
      /\ late \in [CPUs -> 0..MaxLate]
      /\ events[c] \in Seq(Timers) /\ time \in [Timers -> Ticks]
  BY <1>1 DEF IndInv, Consistent, TypeOK
<1>4. /\ hardware' \in [CPUs -> 0..MaxDelay \cup {None}]
      /\ late' \in [CPUs -> 0..MaxLate]
      /\ \A d \in CPUs : d # c => hardware'[d] = hardware[d] /\ late'[d] = late[d]
      /\ events[c] # <<>> => /\ hardware'[c] # None
                             /\ hardware'[c] <= NonNegative(time[Head(events[c])] + late'[c])
  BY <1>1, <1>2, SetHardwareFacts
<1>5. HandlerOf(c)'
  BY <1>1, <1>2 DEF IndInv, HandlerIsSound, HandlerOf, RepeatedOf, NotQueued, Armed, HookLabels
<1> QED BY <1>1, <1>2, <1>4, <1>5, HandlerMoves

LEMMA HookPeriodicStep ==
    ASSUME IndInv, NEW c \in CPUs, HookPeriodic(c)
    PROVE  IndInv'
<1>1. /\ handler[c] = "hook"
      /\ handler' = [handler EXCEPT ![c] = "hook_done"]
      /\ UNCHANGED <<events, current_event, in_progress, hardware, late, firing, time, cpu,
                     user_data, wait, pc, spinning, deadline>>
  BY DEF HookPeriodic, Handler
<1>2. /\ handler'[c] = "hook_done"
      /\ in_progress' \in [CPUs -> BOOLEAN]
      /\ hardware' \in [CPUs -> 0..MaxDelay \cup {None}]
      /\ late' \in [CPUs -> 0..MaxLate]
  BY <1>1 DEF IndInv, Consistent, TypeOK
<1>3. HandlerOf(c)'
  BY <1>1, <1>2 DEF IndInv, HandlerIsSound, HandlerOf, RepeatedOf, NotQueued, Armed, HookLabels
<1>4. "hook_done" \in {"none", "loop", "after"} \cup HookLabels
  BY DEF HookLabels
<1> QED BY <1>1, <1>2, <1>3, <1>4, HandlerMoves

LEMMA HookDoneStep ==
    ASSUME IndInv, NEW c \in CPUs, HookDone(c)
    PROVE  IndInv'
<1>1. /\ handler[c] = "hook_done"
      /\ in_progress' = [in_progress EXCEPT ![c] = FALSE]
      /\ handler' = [handler EXCEPT ![c] = "after"]
      /\ UNCHANGED <<events, current_event, hardware, late, firing, time, cpu, user_data, wait,
                     pc, spinning, deadline>>
  BY DEF HookDone, Handler
<1>2. in_progress \in [CPUs -> BOOLEAN]
  BY DEF IndInv, Consistent, TypeOK
<1>3. in_progress' \in [CPUs -> BOOLEAN] /\ ~in_progress'[c]
  BY <1>1, <1>2
<1>4. \A d \in CPUs : d # c => in_progress'[d] = in_progress[d]
  BY <1>1, <1>2
<1>5. /\ handler'[c] = "after"
      /\ hardware' \in [CPUs -> 0..MaxDelay \cup {None}]
      /\ late' \in [CPUs -> 0..MaxLate]
  BY <1>1 DEF IndInv, Consistent, TypeOK
<1>6. HandlerOf(c)'
  BY <1>1, <1>3, <1>5
  DEF IndInv, HandlerIsSound, HandlerOf, RepeatedOf, NotQueued, Armed, HookLabels
<1> QED BY <1>1, <1>3, <1>4, <1>5, <1>6, HandlerMoves

LEMMA BeginEventStep ==
    ASSUME IndInv, NEW c \in CPUs, BeginEvent(c)
    PROVE  IndInv'
<1>1. /\ handler[c] = "loop"
      /\ events[c] # <<>> /\ time[Head(events[c])] < 0
      /\ events' = [events EXCEPT ![c] = Tail(events[c])]
      /\ current_event' = [current_event EXCEPT ![c] = Head(events[c])]
      /\ in_progress' = [in_progress EXCEPT ![c] = TRUE]
      /\ firing' = [firing EXCEPT ![c] = Head(events[c])]
      /\ handler' = [handler EXCEPT ![c] = "hook"]
      /\ UNCHANGED <<hardware, late, time, cpu, user_data, wait, pc, spinning, deadline>>
  BY DEF BeginEvent, Due, Handler
<1>2. /\ events \in [CPUs -> Seq(Timers)]
      /\ time \in [Timers -> Ticks] /\ time \in [Timers -> Int]
      /\ current_event \in [CPUs -> Timers \cup {None}]
      /\ firing \in [CPUs -> Timers \cup {None}]
      /\ handler \in [CPUs -> {"none", "loop", "after"} \cup HookLabels]
      /\ \A d \in CPUs : /\ IsInjective(events[d]) /\ InOrder(events[d], time)
                         /\ \A x \in ToSet(events[d]) : cpu[x] = d
  BY DEF IndInv, Consistent, TypeOK, QueuedOnce, Ticks, Past
<1>3. PICK e \in Timers : e = Head(events[c])
  BY <1>1, <1>2, RestFacts
<1>4. /\ e \in ToSet(events[c])
      /\ Tail(events[c]) \in Seq(Timers)
      /\ ToSet(Tail(events[c])) = ToSet(events[c]) \ {e}
      /\ IsInjective(Tail(events[c]))
      /\ InOrder(Tail(events[c]), time)
  BY <1>1, <1>2, <1>3, RestFacts
<1>5. QueuedOf(e) /\ cpu[e] = c /\ time[e] \in Past..-1
  BY <1>1, <1>2, <1>3, <1>4, ConstantFacts DEF IndInv, QueuedIsArmed, Ticks
<1>6. /\ events' \in [CPUs -> Seq(Timers)]
      /\ events'[c] = Tail(events[c])
      /\ \A d \in CPUs : d # c => events'[d] = events[d]
  BY <1>1, <1>2, <1>4
<1>7. ASSUME NEW d \in CPUs PROVE ToSet(events'[d]) = ToSet(events[d]) \ {e}
  <2>1. CASE d = c
    BY <1>4, <1>6, <2>1
  <2>2. CASE d # c
    <3>1. e \notin ToSet(events[d])
      BY <1>2, <1>5, <2>2
    <3> QED BY <1>6, <2>2, <3>1
  <2> QED BY <2>1, <2>2
<1>8. /\ current_event'[c] = e /\ firing'[c] = e /\ handler'[c] = "hook"
      /\ \A d \in CPUs : d # c =>
            /\ current_event'[d] = current_event[d]
            /\ firing'[d] = firing[d]
            /\ handler'[d] = handler[d]
  BY <1>1, <1>2, <1>3
<1>9. in_progress'[c] /\ \A d \in CPUs : d # c => in_progress'[d] = in_progress[d]
  BY <1>1 DEF IndInv, Consistent, TypeOK
<1>10. TypeOK'
  <2>1. /\ current_event' \in [CPUs -> Timers \cup {None}]
        /\ firing' \in [CPUs -> Timers \cup {None}]
    BY <1>1, <1>2, <1>3
  <2>2. handler' \in [CPUs -> {"none", "loop", "after"} \cup HookLabels]
    BY <1>1, <1>2 DEF HookLabels
  <2>3. in_progress' \in [CPUs -> BOOLEAN]
    BY <1>1 DEF IndInv, Consistent, TypeOK
  <2> QED BY <1>1, <1>6, <2>1, <2>2, <2>3 DEF IndInv, Consistent, TypeOK
<1>11. QueuedOnce'
  BY <1>1, <1>2, <1>4, <1>6, <1>7 DEF QueuedOnce, InOrder
<1>12. HardwareIsSet'
  <2> SUFFICES ASSUME NEW d \in CPUs, handler'[d] = "none", events'[d] # <<>>
               PROVE  /\ hardware[d] # None
                      /\ hardware[d] <= NonNegative(time[Head(events'[d])] + late[d])
    BY <1>1 DEF HardwareIsSet, NonNegative
  <2>1. d # c /\ handler[d] = "none" /\ events'[d] = events[d]
    BY <1>6, <1>8
  <2> QED BY <2>1 DEF IndInv, Consistent, HardwareIsSet
<1>13. QueuedIsArmed'
  BY <1>1, <1>7 DEF IndInv, QueuedIsArmed, QueuedOf, Armed
<1>14. NotQueued(e)' /\ \A x \in Timers : NotQueued(x) => NotQueued(x)'
  BY <1>7 DEF NotQueued
<1>15. HandlerIsSound'
  <2> SUFFICES ASSUME NEW d \in CPUs PROVE HandlerOf(d)'
    BY DEF HandlerIsSound
  <2>1. CASE d = c
    <3>1. FiringOf(e, c)' /\ RepeatedOf(e, c)'
      BY <1>1, <1>5, <1>8, <1>14 DEF FiringOf, RepeatedOf, QueuedOf, Armed
    <3>2. e \notin ToSet(events'[c])
      BY <1>7
    <3> QED BY <1>8, <1>9, <2>1, <3>1, <3>2 DEF HandlerOf, HookLabels
  <2>2. CASE d # c
    <3>1. HandlerOf(d)
      BY DEF IndInv, HandlerIsSound
    <3>2. ASSUME NEW x \in Timers, FiringOf(x, d) PROVE FiringOf(x, d)'
      BY <1>1, <1>8, <1>14, <2>2, <3>2 DEF FiringOf, Armed
    <3>3. ASSUME NEW x \in Periodic, RepeatedOf(x, d) PROVE RepeatedOf(x, d)'
      BY <1>1, <1>14, <3>3, ConstantFacts DEF RepeatedOf, Armed
    <3>4. in_progress'[d] = in_progress[d] /\ current_event[d] \notin ToSet(events'[d])
      BY <1>7, <1>9, <2>2, <3>1 DEF HandlerOf
    <3> QED BY <1>8, <2>2, <3>1, <3>2, <3>3, <3>4 DEF HandlerOf
  <2> QED BY <2>1, <2>2
<1>16. ThreadsAreSound'
  BY <1>1 DEF IndInv, ThreadsAreSound, ThreadOf
<1>17. OwnersAreSound'
  BY <1>1, <1>14 DEF IndInv, OwnersAreSound, PeriodicOf
<1> QED BY <1>10, <1>11, <1>12, <1>13, <1>15, <1>16, <1>17 DEF IndInv, Consistent

\* The hook of a firing timer of a thread: only its own CPU can run it, and the
\* timer is in no queue.
LEMMA FiringFacts ==
    ASSUME IndInv, NEW c \in CPUs, handler[c] \in {"hook", "hook_clear"}
    PROVE  /\ firing[c] \in Timers
           /\ FiringOf(firing[c], c)
           /\ \A d \in CPUs : handler[d] \in {"hook", "hook_clear"} /\ firing[d] = firing[c] =>
                 d = c
BY DEF IndInv, HandlerIsSound, HandlerOf, FiringOf

LEMMA HookUnblockStep ==
    ASSUME IndInv, NEW c \in CPUs, HookUnblock(c)
    PROVE  IndInv'
<1>1. /\ handler[c] = "hook" /\ firing[c] \in Threads
      /\ wait' = thread_unblock(wait, firing[c], "B_TIMED_OUT")
      /\ handler' = [handler EXCEPT ![c] = "hook_clear"]
      /\ UNCHANGED <<events, current_event, in_progress, hardware, late, firing, time, cpu,
                     user_data, pc, spinning, deadline>>
  BY DEF HookUnblock, Handler
<1>2. PICK t \in Threads : t = firing[c]
  BY <1>1
<1>3. FiringOf(t, c)
  BY <1>1, <1>2, FiringFacts
<1>4. wait' \in [Threads -> Statuses] /\ \A u \in Threads : u # t => wait'[u] = wait[u]
  BY <1>1, <1>2 DEF IndInv, Consistent, TypeOK, thread_unblock, Statuses, Results
<1>5. TypeOK'
  BY <1>1, <1>4 DEF IndInv, Consistent, TypeOK, HookLabels
<1>6. \A d \in CPUs : handler'[d] = IF d = c THEN "hook_clear" ELSE handler[d]
  BY <1>1 DEF IndInv, Consistent, TypeOK
<1>7. QueuedOnce' /\ HardwareIsSet'
  BY <1>1, <1>6 DEF IndInv, Consistent, QueuedOnce, HardwareIsSet, InOrder, NonNegative
<1>8. QueuedIsArmed'
  BY <1>1, <1>3, <1>4
  DEF IndInv, QueuedIsArmed, QueuedOf, Armed, FiringOf, NotQueued
<1>9. HandlerIsSound'
  <2> SUFFICES ASSUME NEW d \in CPUs PROVE HandlerOf(d)'
    BY DEF HandlerIsSound
  <2>1. HandlerOf(d)
    BY DEF IndInv, HandlerIsSound
  <2> QED BY <1>1, <1>6, <2>1 DEF HandlerOf, FiringOf, RepeatedOf, NotQueued, Armed, HookLabels
<1>10. ThreadsAreSound'
  <2> SUFFICES ASSUME NEW u \in Threads PROVE ThreadOf(u)'
    BY DEF ThreadsAreSound
  <2>1. CASE u = t
    BY <1>1, <1>3, <2>1 DEF FiringOf, Armed, ThreadOf
  <2>2. CASE u # t
    BY <1>1, <1>4, <2>2 DEF IndInv, ThreadsAreSound, ThreadOf
  <2> QED BY <2>1, <2>2
<1>11. OwnersAreSound'
  BY <1>1 DEF IndInv, OwnersAreSound, PeriodicOf, NotQueued
<1> QED BY <1>5, <1>7, <1>8, <1>9, <1>10, <1>11 DEF IndInv, Consistent

LEMMA HookClearStep ==
    ASSUME IndInv, NEW c \in CPUs, HookClear(c)
    PROVE  IndInv'
<1>1. /\ handler[c] = "hook_clear"
      /\ user_data' = [user_data EXCEPT ![firing[c]] = FALSE]
      /\ handler' = [handler EXCEPT ![c] = "hook_done"]
      /\ UNCHANGED <<events, current_event, in_progress, hardware, late, firing, time, cpu,
                     wait, pc, spinning, deadline>>
  BY DEF HookClear, Handler
<1>2. PICK t \in Threads : t = firing[c]
  BY <1>1 DEF IndInv, HandlerIsSound, HandlerOf
<1>3. /\ FiringOf(t, c)
      /\ \A d \in CPUs : handler[d] \in {"hook", "hook_clear"} /\ firing[d] = t => d = c
  BY <1>1, <1>2, FiringFacts
<1>4. /\ user_data' \in [Threads -> BOOLEAN]
      /\ \A u \in Threads : u # t => user_data'[u] = user_data[u]
  <2>1. user_data \in [Threads -> BOOLEAN] /\ user_data' = [user_data EXCEPT ![t] = FALSE]
    BY <1>1, <1>2 DEF IndInv, Consistent, TypeOK
  <2>2. user_data' \in [Threads -> BOOLEAN]
    BY <2>1
  <2>3. \A u \in Threads : u # t => user_data'[u] = user_data[u]
    BY <2>1
  <2> QED BY <2>2, <2>3
<1>5. TypeOK'
  BY <1>1, <1>4 DEF IndInv, Consistent, TypeOK, HookLabels
<1>6. \A d \in CPUs : handler'[d] = IF d = c THEN "hook_done" ELSE handler[d]
  BY <1>1 DEF IndInv, Consistent, TypeOK
<1>7. QueuedOnce' /\ HardwareIsSet'
  BY <1>1, <1>6 DEF IndInv, Consistent, QueuedOnce, HardwareIsSet, InOrder, NonNegative
<1>8. QueuedIsArmed'
  <2> SUFFICES ASSUME NEW d \in CPUs, NEW x \in ToSet(events[d]) PROVE QueuedOf(x)'
    BY <1>1 DEF QueuedIsArmed
  <2>1. QueuedOf(x) /\ x # t
    BY <1>3 DEF IndInv, QueuedIsArmed, FiringOf, NotQueued
  <2>2. x \in Threads => user_data'[x]
    BY <1>4, <2>1 DEF QueuedOf
  <2> QED BY <1>1, <2>1, <2>2 DEF QueuedOf, Armed
<1>9. HandlerIsSound'
  <2> SUFFICES ASSUME NEW d \in CPUs PROVE HandlerOf(d)'
    BY DEF HandlerIsSound
  <2>1. HandlerOf(d)
    BY DEF IndInv, HandlerIsSound
  <2>2. ASSUME NEW x \in Timers, x # t, FiringOf(x, d) PROVE FiringOf(x, d)'
    BY <1>1, <1>4, <2>2 DEF FiringOf, NotQueued, Armed
  <2>3. ASSUME NEW x \in Periodic, RepeatedOf(x, d) PROVE RepeatedOf(x, d)'
    BY <1>1, <2>3 DEF RepeatedOf, NotQueued, Armed
  <2> QED BY <1>1, <1>2, <1>3, <1>6, <2>1, <2>2, <2>3 DEF HandlerOf, HookLabels
<1>10. ThreadsAreSound'
  BY <1>1 DEF IndInv, ThreadsAreSound, ThreadOf
<1>11. OwnersAreSound'
  BY <1>1 DEF IndInv, OwnersAreSound, PeriodicOf, NotQueued
<1> QED BY <1>5, <1>7, <1>8, <1>9, <1>10, <1>11 DEF IndInv, Consistent

LEMMA HookCancelStep ==
    ASSUME IndInv, NEW c \in CPUs, HookCancel(c)
    PROVE  IndInv'
<1>1. /\ handler[c] = "hook" /\ firing[c] \in Periodic
      /\ pc[firing[c]] = "added"
      /\ current_event[c] = firing[c]
      /\ current_event' = [current_event EXCEPT ![c] = None]
      /\ handler' = [handler EXCEPT ![c] = "hook_done"]
      /\ pc' = [pc EXCEPT ![firing[c]] = "idle"]
      /\ UNCHANGED <<events, in_progress, hardware, late, firing, time, cpu, user_data, wait,
                     spinning, deadline>>
  BY DEF HookCancel, Handler, Goto
<1>2. PICK p \in Periodic : p = firing[c]
  BY <1>1
<1>3. p \in Timers /\ p \notin Threads
  BY ConstantFacts
<1>4. FiringOf(p, c)
  BY <1>1, <1>2, FiringFacts
<1>5. /\ pc'[p] = "idle"
      /\ \A x \in Timers : x # p => pc'[x] = pc[x]
  BY <1>1, <1>2, <1>3 DEF IndInv, Consistent, TypeOK
<1>6. /\ \A d \in CPUs : handler'[d] = IF d = c THEN "hook_done" ELSE handler[d]
      /\ \A d \in CPUs : current_event'[d] = IF d = c THEN None ELSE current_event[d]
  BY <1>1 DEF IndInv, Consistent, TypeOK
<1>7. TypeOK'
  BY <1>1 DEF IndInv, Consistent, TypeOK, HookLabels
<1>8. QueuedOnce' /\ HardwareIsSet'
  BY <1>1, <1>6 DEF IndInv, Consistent, QueuedOnce, HardwareIsSet, InOrder, NonNegative
<1>9. \A x \in Timers : x # p /\ Armed(x) => Armed(x)'
  BY <1>5 DEF Armed
<1>10. \A x \in Timers : NotQueued(x) => NotQueued(x)'
  BY <1>1 DEF NotQueued
<1>11. QueuedIsArmed'
  <2> SUFFICES ASSUME NEW d \in CPUs, NEW x \in ToSet(events[d]) PROVE QueuedOf(x)'
    BY <1>1 DEF QueuedIsArmed
  <2>1. x \in Timers /\ x # p /\ QueuedOf(x)
    BY <1>4, QueueMembers DEF IndInv, Consistent, TypeOK, QueuedIsArmed, FiringOf, NotQueued
  <2> QED BY <1>1, <1>9, <2>1 DEF QueuedOf
<1>12. HandlerIsSound'
  <2> SUFFICES ASSUME NEW d \in CPUs PROVE HandlerOf(d)'
    BY DEF HandlerIsSound
  <2>1. HandlerOf(d)
    BY DEF IndInv, HandlerIsSound
  <2>2. CASE d = c
    <3>1. None \notin ToSet(events[d])
      BY QueueMembers, ConstantFacts DEF IndInv, Consistent, TypeOK
    <3> QED BY <1>1, <1>6, <2>1, <2>2, <3>1, ConstantFacts DEF HandlerOf, HookLabels
  <2>3. CASE d # c
    <3>1. ASSUME NEW x \in Timers, FiringOf(x, d) PROVE FiringOf(x, d)'
      <4>1. x # p
        BY <1>4, <2>3, <3>1 DEF FiringOf
      <4> QED BY <1>1, <1>5, <1>6, <1>9, <1>10, <2>3, <3>1, <4>1 DEF FiringOf
    <3>2. ASSUME NEW x \in Periodic, RepeatedOf(x, d) PROVE RepeatedOf(x, d)'
      <4>1. x # p /\ x \in Timers
        BY <1>4, <2>3, <3>2, ConstantFacts DEF FiringOf, RepeatedOf
      <4> QED BY <1>1, <1>9, <1>10, <3>2, <4>1 DEF RepeatedOf
    <3> QED BY <1>1, <1>6, <2>1, <2>3, <3>1, <3>2 DEF HandlerOf
  <2> QED BY <2>2, <2>3
<1>13. ThreadsAreSound'
  BY <1>1, <1>3, <1>5, ConstantFacts DEF IndInv, ThreadsAreSound, ThreadOf
<1>14. OwnersAreSound'
  BY <1>1, <1>3, <1>5, <1>10, ConstantFacts DEF IndInv, OwnersAreSound, PeriodicOf
<1> QED BY <1>7, <1>8, <1>11, <1>12, <1>13, <1>14 DEF IndInv, Consistent

\* A round of the loop ends; a periodic timer that was not cancelled is queued
\* again.
LEMMA EndEventStep ==
    ASSUME IndInv, NEW c \in CPUs, EndEvent(c)
    PROVE  IndInv'
<1> DEFINE times == [time EXCEPT ![firing[c]] = 0]
           again == firing[c] \in Periodic /\ current_event[c] # None
           list == add_event_to_list(firing[c], events[c], times)
<1>1. /\ handler[c] = "after"
      /\ time' = IF again THEN times ELSE time
      /\ events' = IF again THEN [events EXCEPT ![c] = list] ELSE events
      /\ current_event' = [current_event EXCEPT ![c] = None]
      /\ firing' = [firing EXCEPT ![c] = None]
      /\ handler' = [handler EXCEPT ![c] = "loop"]
      /\ UNCHANGED <<in_progress, hardware, late, cpu, user_data, wait, pc, spinning, deadline>>
  BY DEF EndEvent, Handler
<1>2. PICK e \in Timers : e = firing[c]
  BY <1>1 DEF IndInv, HandlerIsSound, HandlerOf
<1>3. /\ events \in [CPUs -> Seq(Timers)]
      /\ time \in [Timers -> Ticks] /\ time \in [Timers -> Int]
      /\ \A d \in CPUs : /\ IsInjective(events[d]) /\ InOrder(events[d], time)
                         /\ \A x \in ToSet(events[d]) : cpu[x] = d
  BY DEF IndInv, Consistent, TypeOK, QueuedOnce, Ticks, Past
<1>4. again => /\ e \in Periodic /\ e \notin Threads
               /\ RepeatedOf(e, c)
  BY <1>1, <1>2, ConstantFacts DEF IndInv, HandlerIsSound, HandlerOf
<1>5. /\ \A d \in CPUs : handler'[d] = IF d = c THEN "loop" ELSE handler[d]
      /\ \A d \in CPUs : firing'[d] = IF d = c THEN None ELSE firing[d]
      /\ \A d \in CPUs : current_event'[d] = IF d = c THEN None ELSE current_event[d]
  BY <1>1 DEF IndInv, Consistent, TypeOK
<1>6. /\ times \in [Timers -> Ticks] /\ times \in [Timers -> Int]
      /\ \A x \in Timers : x # e => times[x] = time[x]
  <2>1. 0 \in Ticks
    BY ConstantFacts DEF Ticks
  <2> QED BY <1>2, <1>3, <2>1
<1>7. /\ time' \in [Timers -> Ticks]
      /\ \A x \in Timers : (x # e \/ ~again) => time'[x] = time[x]
  BY <1>1, <1>3, <1>6
<1>8. again =>
        /\ list \in Seq(Timers)
        /\ ToSet(list) = ToSet(events[c]) \cup {e}
        /\ IsInjective(list)
        /\ InOrder(list, times)
        /\ \A d \in CPUs : InOrder(events[d], times) /\ e \notin ToSet(events[d])
  <2> SUFFICES ASSUME again
               PROVE  /\ list \in Seq(Timers)
                      /\ ToSet(list) = ToSet(events[c]) \cup {e}
                      /\ IsInjective(list)
                      /\ InOrder(list, times)
                      /\ \A d \in CPUs : InOrder(events[d], times) /\ e \notin ToSet(events[d])
    OBVIOUS
  <2>1. \A d \in CPUs : e \notin ToSet(events[d])
    BY <1>4 DEF RepeatedOf, NotQueued
  <2> HIDE DEF times
  <2>2. ASSUME NEW d \in CPUs PROVE InOrder(events[d], times)
    <3>1. \A i \in DOMAIN events[d] : events[d][i] \in Timers /\ events[d][i] # e
      BY <1>3, <2>1 DEF ToSet
    <3>2. InOrder(events[d], time)
      BY <1>3
    <3> QED BY <1>6, <3>1, <3>2 DEF InOrder
  <2>3. list = add_event_to_list(e, events[c], times)
    BY <1>2
  <2> HIDE DEF list
  <2>4. events[c] \in Seq(Timers) /\ IsInjective(events[c])
    BY <1>3
  <2>5. /\ list \in Seq(Timers)
        /\ ToSet(list) = ToSet(events[c]) \cup {e}
        /\ IsInjective(list)
        /\ InOrder(list, times)
    BY <1>6, <2>1, <2>2, <2>3, <2>4, AddFacts
  <2> QED BY <2>1, <2>2, <2>5
<1> HIDE DEF times, list
<1>9. /\ events' \in [CPUs -> Seq(Timers)]
      /\ \A d \in CPUs : d # c \/ ~again => events'[d] = events[d]
      /\ again => events'[c] = list
  BY <1>1, <1>3, <1>8
<1>10. \A d \in CPUs, x \in Timers :
          x \in ToSet(events'[d]) <=> x \in ToSet(events[d]) \/ (again /\ d = c /\ x = e)
  BY <1>8, <1>9
<1>11. QueuedOnce'
  <2> SUFFICES ASSUME NEW d \in CPUs
               PROVE  /\ IsInjective(events'[d])
                      /\ \A x \in ToSet(events'[d]) : cpu[x] = d
                      /\ InOrder(events'[d], time')
    BY <1>1 DEF QueuedOnce
  <2>1. IsInjective(events'[d]) /\ InOrder(events'[d], time')
    BY <1>1, <1>3, <1>8, <1>9
  <2>2. ASSUME NEW x \in ToSet(events'[d]) PROVE cpu[x] = d
    <3>1. x \in Timers
      BY <1>9, QueueMembers
    <3> QED BY <1>3, <1>4, <1>10, <3>1 DEF RepeatedOf
  <2> QED BY <2>1, <2>2
<1>12. HardwareIsSet'
  <2> SUFFICES ASSUME NEW d \in CPUs, handler'[d] = "none", events'[d] # <<>>
               PROVE  /\ hardware[d] # None
                      /\ hardware[d] <= NonNegative(time'[Head(events'[d])] + late[d])
    BY <1>1 DEF HardwareIsSet, NonNegative
  <2>1. d # c /\ handler[d] = "none" /\ events'[d] = events[d]
    BY <1>5, <1>9
  <2>2. Head(events[d]) \in Timers /\ Head(events[d]) \in ToSet(events[d])
    BY <1>3, <2>1, TailFacts
  <2>3. time'[Head(events[d])] = time[Head(events[d])]
    BY <1>7, <1>8, <2>2
  <2> QED BY <2>1, <2>3 DEF IndInv, Consistent, HardwareIsSet
<1>13. TypeOK'
  BY <1>1, <1>7, <1>9 DEF IndInv, Consistent, TypeOK
<1>14. QueuedIsArmed'
  <2> SUFFICES ASSUME NEW d \in CPUs, NEW x \in ToSet(events'[d]) PROVE QueuedOf(x)'
    BY DEF QueuedIsArmed
  <2>1. x \in Timers
    BY <1>9, QueueMembers
  <2>2. CASE again /\ x = e
    BY <1>1, <1>4, <2>2 DEF RepeatedOf, QueuedOf, Armed
  <2>3. CASE ~again \/ x # e
    <3>1. QueuedOf(x)
      BY <1>10, <2>1, <2>3 DEF IndInv, QueuedIsArmed
    <3> QED BY <1>1, <1>7, <2>1, <2>3, <3>1 DEF QueuedOf, Armed
  <2> QED BY <2>2, <2>3
<1>15. HandlerIsSound'
  <2> SUFFICES ASSUME NEW d \in CPUs PROVE HandlerOf(d)'
    BY DEF HandlerIsSound
  <2>1. HandlerOf(d)
    BY DEF IndInv, HandlerIsSound
  <2>2. CASE d = c
    <3>1. None \notin ToSet(events'[d])
      BY <1>9, QueueMembers, ConstantFacts
    <3> QED BY <1>1, <1>5, <2>1, <2>2, <3>1, ConstantFacts DEF HandlerOf, HookLabels
  <2>3. CASE d # c
    <3>1. ASSUME NEW x \in Timers, NotQueued(x), cpu[x] = d PROVE NotQueued(x)'
      BY <1>4, <1>10, <2>3, <3>1 DEF NotQueued, RepeatedOf
    <3>2. ASSUME NEW x \in Timers, FiringOf(x, d) PROVE FiringOf(x, d)'
      BY <1>1, <1>5, <2>3, <3>1, <3>2 DEF FiringOf, Armed
    <3>3. ASSUME NEW x \in Periodic, RepeatedOf(x, d) PROVE RepeatedOf(x, d)'
      BY <1>1, <3>1, <3>3, ConstantFacts DEF RepeatedOf, Armed
    <3> QED BY <1>1, <1>5, <1>9, <2>1, <2>3, <3>2, <3>3 DEF HandlerOf
  <2> QED BY <2>2, <2>3
<1>16. ThreadsAreSound'
  BY <1>1 DEF IndInv, ThreadsAreSound, ThreadOf
<1>17. OwnersAreSound'
  <2>1. ASSUME NEW x \in Timers, pc[x] = "cancel_wait" PROVE NotQueued(x)'
    <3>1. NotQueued(x)
      BY <2>1 DEF IndInv, OwnersAreSound, PeriodicOf
    <3>2. again => x # e
      BY <1>4, <2>1 DEF RepeatedOf, Armed
    <3> QED BY <1>10, <3>1, <3>2 DEF NotQueued
  <2>2. ASSUME NEW x \in Periodic, pc[x] = "adding" PROVE time'[x] = time[x]
    <3>1. again => x # e
      BY <1>4, <2>2 DEF RepeatedOf, Armed
    <3> QED BY <1>7, <3>1, ConstantFacts
  <2> QED BY <1>1, <2>1, <2>2 DEF IndInv, OwnersAreSound, PeriodicOf
<1> QED BY <1>11, <1>12, <1>13, <1>14, <1>15, <1>16, <1>17 DEF IndInv, Consistent

-------------------------------------------------------------------------------
(* The clocks *)

LEMMA ClockChangedStep ==
    ASSUME IndInv, NEW c \in CPUs, NEW diff \in {-1, 1},
           per_cpu_real_time_clock_changed(c, diff)
    PROVE  IndInv'
<1> DEFINE affected == ToSet(events[c]) \cap RealTime
           times == [e \in Timers |-> IF e \in affected THEN Shifted(time[e], diff) ELSE time[e]]
<1>1. /\ affected # {}
      /\ \A e \in affected : times[e] <= MaxDelay
      /\ time' = times
      /\ deadline' = [t \in Threads |-> IF t \in affected THEN times[t] ELSE deadline[t]]
      /\ UNCHANGED <<current_event, in_progress, handler, firing, cpu, user_data, wait, pc,
                     spinning>>
  BY DEF per_cpu_real_time_clock_changed
<1>2. PICK list \in [DOMAIN events[c] -> ToSet(events[c])] :
         /\ IsRequeued(list, events[c], times)
         /\ events' = [events EXCEPT ![c] = list]
         /\ \/ set_hardware_timer(c, list, times)
            \/ /\ Head(events[c]) \notin RealTime
               /\ Head(list) = Head(events[c])
               /\ UNCHANGED <<hardware, late>>
  BY DEF per_cpu_real_time_clock_changed
<1>3. /\ events \in [CPUs -> Seq(Timers)]
      /\ time \in [Timers -> Ticks]
      /\ hardware \in [CPUs -> 0..MaxDelay \cup {None}]
      /\ late \in [CPUs -> 0..MaxLate]
      /\ deadline \in [Threads -> Ticks \cup {None}]
      /\ \A d \in CPUs : /\ IsInjective(events[d]) /\ InOrder(events[d], time)
                         /\ \A x \in ToSet(events[d]) : cpu[x] = d
  BY DEF IndInv, Consistent, TypeOK, QueuedOnce
<1>4. affected \subseteq Timers /\ affected \subseteq Threads
  BY <1>3, QueueMembers, ConstantFacts
<1>5. ASSUME NEW x \in Timers PROVE times[x] \in Ticks /\ (x \notin affected => times[x] = time[x])
  <2>1. time[x] \in Ticks
    BY <1>3
  <2>2. CASE x \in affected
    <3>1. times[x] = Shifted(time[x], diff) /\ times[x] <= MaxDelay
      BY <1>1, <2>2
    <3> QED BY <2>1, <2>2, <3>1, ConstantFacts DEF Shifted, Ticks
  <2>3. CASE x \notin affected
    BY <2>1, <2>3
  <2> QED BY <2>2, <2>3
<1>6. times \in [Timers -> Ticks] /\ times \in [Timers -> Int]
  <2>1. Ticks \subseteq Int
    BY ConstantFacts DEF Ticks
  <2> QED BY <1>5, <2>1
<1> HIDE DEF times
<1>7. /\ list \in Seq(Timers)
      /\ ToSet(list) = ToSet(events[c])
      /\ IsInjective(list)
      /\ InOrder(list, times)
  BY <1>2, <1>3, <1>6, RequeuedFacts
<1>8. /\ events' \in [CPUs -> Seq(Timers)]
      /\ events'[c] = list
      /\ \A d \in CPUs : d # c => events'[d] = events[d]
      /\ \A d \in CPUs : ToSet(events'[d]) = ToSet(events[d])
  BY <1>2, <1>3, <1>7
<1>9. ASSUME NEW d \in CPUs, d # c, NEW x \in ToSet(events[d])
      PROVE  x \in Timers /\ times[x] = time[x]
  <2>1. x \in Timers
    BY <1>3, QueueMembers
  <2>2. x \notin ToSet(events[c])
    BY <1>3, <1>9
  <2> QED BY <1>5, <2>1, <2>2
<1>10. QueuedOnce'
  <2> SUFFICES ASSUME NEW d \in CPUs
               PROVE  /\ IsInjective(events'[d])
                      /\ \A x \in ToSet(events'[d]) : cpu[x] = d
                      /\ InOrder(events'[d], times)
    BY <1>1 DEF QueuedOnce
  <2>1. \A x \in ToSet(events'[d]) : cpu[x] = d
    BY <1>3, <1>8
  <2>2. CASE d = c
    BY <1>7, <1>8, <2>1, <2>2
  <2>3. CASE d # c
    <3>1. \A i \in DOMAIN events[d] : times[events[d][i]] = time[events[d][i]]
      BY <1>9, <2>3 DEF ToSet
    <3>2. InOrder(events[d], times)
      BY <1>3, <3>1 DEF InOrder
    <3> QED BY <1>3, <1>8, <2>1, <2>3, <3>2
  <2> QED BY <2>2, <2>3
<1>11. list # <<>> /\ events[c] # <<>>
  <2>1. ToSet(events[c]) # {}
    BY <1>1
  <2> QED BY <1>3, <1>7, <2>1, QueueMembers
<1>12. Head(list) \in Timers
  BY <1>7, <1>11
<1>13. ASSUME NEW d \in CPUs, d # c, handler[d] = "none", events[d] # <<>>
       PROVE  /\ hardware[d] # None
              /\ hardware[d] <= NonNegative(times[Head(events[d])] + late[d])
  <2>1. Head(events[d]) \in ToSet(events[d])
    BY <1>3, <1>13, TailFacts
  <2>2. times[Head(events[d])] = time[Head(events[d])]
    BY <1>9, <1>13, <2>1
  <2> QED BY <1>13, <2>2 DEF IndInv, Consistent, HardwareIsSet
<1>14. /\ hardware' \in [CPUs -> 0..MaxDelay \cup {None}]
       /\ late' \in [CPUs -> 0..MaxLate]
       /\ HardwareIsSet'
  <2>1. CASE set_hardware_timer(c, list, times)
    <3>1. /\ hardware' \in [CPUs -> 0..MaxDelay \cup {None}]
          /\ late' \in [CPUs -> 0..MaxLate]
          /\ \A d \in CPUs : d # c => hardware'[d] = hardware[d] /\ late'[d] = late[d]
          /\ hardware'[c] # None
          /\ hardware'[c] <= NonNegative(times[Head(list)] + late'[c])
      BY <1>3, <1>6, <1>7, <1>11, <2>1, SetHardwareFacts
    <3>2. HardwareIsSet'
      <4> SUFFICES ASSUME NEW d \in CPUs, handler[d] = "none", events'[d] # <<>>
                   PROVE  /\ hardware'[d] # None
                          /\ hardware'[d] <= NonNegative(times[Head(events'[d])] + late'[d])
        BY <1>1 DEF HardwareIsSet, NonNegative
      <4>1. CASE d = c
        BY <1>8, <3>1, <4>1
      <4>2. CASE d # c
        BY <1>8, <1>13, <3>1, <4>2
      <4> QED BY <4>1, <4>2
    <3> QED BY <3>1, <3>2
  <2>2. CASE /\ Head(events[c]) \notin RealTime
             /\ Head(list) = Head(events[c])
             /\ UNCHANGED <<hardware, late>>
    <3>1. times[Head(list)] = time[Head(events[c])]
      BY <1>5, <1>12, <2>2
    <3>2. HardwareIsSet'
      <4> SUFFICES ASSUME NEW d \in CPUs, handler[d] = "none", events'[d] # <<>>
                   PROVE  /\ hardware[d] # None
                          /\ hardware[d] <= NonNegative(times[Head(events'[d])] + late[d])
        BY <1>1, <2>2 DEF HardwareIsSet, NonNegative
      <4>1. CASE d = c
        <5>1. /\ hardware[c] # None
              /\ hardware[c] <= NonNegative(time[Head(events[c])] + late[c])
          BY <1>11, <4>1 DEF IndInv, Consistent, HardwareIsSet
        <5> QED BY <1>8, <3>1, <4>1, <5>1
      <4>2. CASE d # c
        BY <1>8, <1>13, <4>2
      <4> QED BY <4>1, <4>2
    <3> QED BY <1>3, <2>2, <3>2
  <2> QED BY <1>2, <2>1, <2>2
<1>15. \A t \in Threads : deadline'[t] = IF t \in affected THEN times[t] ELSE deadline[t]
  BY <1>1
<1>16. TypeOK'
  <2>1. deadline' \in [Threads -> Ticks \cup {None}]
    BY <1>1, <1>3, <1>4, <1>5
  <2> QED BY <1>1, <1>6, <1>8, <1>14, <2>1 DEF IndInv, Consistent, TypeOK
<1>17. QueuedIsArmed'
  <2> SUFFICES ASSUME NEW d \in CPUs, NEW x \in ToSet(events[d]) PROVE QueuedOf(x)'
    BY <1>8 DEF QueuedIsArmed
  <2>1. x \in Timers /\ QueuedOf(x)
    BY <1>3, QueueMembers DEF IndInv, QueuedIsArmed
  <2>2. x \in Threads => deadline'[x] = time'[x]
    BY <1>1, <1>5, <1>15, <2>1 DEF QueuedOf
  <2> QED BY <1>1, <2>1, <2>2 DEF QueuedOf, Armed
<1>18. \A x \in Timers : NotQueued(x) <=> NotQueued(x)'
  BY <1>8 DEF NotQueued
<1>19. HandlerIsSound'
  <2> SUFFICES ASSUME NEW d \in CPUs PROVE HandlerOf(d)'
    BY DEF HandlerIsSound
  <2>1. HandlerOf(d)
    BY DEF IndInv, HandlerIsSound
  <2>2. ASSUME NEW x \in Timers, FiringOf(x, d) PROVE FiringOf(x, d)'
    <3>1. x \in Threads => deadline'[x] = deadline[x]
      BY <1>15, <2>2 DEF FiringOf, NotQueued
    <3> QED BY <1>1, <1>18, <2>2, <3>1 DEF FiringOf, Armed
  <2>3. ASSUME NEW x \in Periodic, RepeatedOf(x, d) PROVE RepeatedOf(x, d)'
    BY <1>1, <1>18, <2>3, ConstantFacts DEF RepeatedOf, Armed
  <2> QED BY <1>1, <1>8, <2>1, <2>2, <2>3 DEF HandlerOf
<1>20. ThreadsAreSound'
  <2> SUFFICES ASSUME NEW u \in Threads PROVE ThreadOf(u)'
    BY DEF ThreadsAreSound
  <2>1. CASE u \in affected
    <3>1. QueuedOf(u)
      BY <2>1 DEF IndInv, QueuedIsArmed
    <3> QED BY <1>1, <3>1 DEF QueuedOf, Armed, ThreadOf
  <2>2. CASE u \notin affected
    BY <1>1, <1>15, <2>2 DEF IndInv, ThreadsAreSound, ThreadOf
  <2> QED BY <2>1, <2>2
<1>21. OwnersAreSound'
  <2>1. \A p \in Periodic : time'[p] = time[p]
    BY <1>1, <1>4, <1>5, ConstantFacts
  <2> QED BY <1>1, <1>18, <2>1 DEF IndInv, OwnersAreSound, PeriodicOf
<1> QED BY <1>10, <1>14, <1>16, <1>17, <1>19, <1>20, <1>21 DEF IndInv, Consistent

LEMMA TickStep ==
    ASSUME IndInv, Tick
    PROVE  IndInv'
<1>1. /\ \A p \in Periodic : pc[p] = "adding" => time[p] > Period - MaxLate
      /\ time' = [e \in Timers |-> Later(time[e])]
      /\ hardware' = [c \in CPUs |-> IF hardware[c] = None THEN None
                                     ELSE NonNegative(hardware[c] - 1)]
      /\ deadline' = [t \in Threads |-> IF deadline[t] = None THEN None ELSE Later(deadline[t])]
      /\ UNCHANGED <<events, current_event, in_progress, late, handler, firing, cpu, user_data,
                     wait, pc, spinning>>
  BY DEF Tick
<1>2. /\ events \in [CPUs -> Seq(Timers)]
      /\ time \in [Timers -> Ticks]
      /\ hardware \in [CPUs -> 0..MaxDelay \cup {None}]
      /\ late \in [CPUs -> 0..MaxLate]
      /\ deadline \in [Threads -> Ticks \cup {None}]
  BY DEF IndInv, Consistent, TypeOK
<1>3. /\ \A n \in Ticks : Later(n) \in Ticks
      /\ \A m, n \in Ticks : m <= n => Later(m) <= Later(n)
      /\ \A n \in Past..-1 : Later(n) \in Past..-1
  BY ConstantFacts DEF Later, Ticks
<1>4. /\ \A h \in 0..MaxDelay : NonNegative(h - 1) \in 0..MaxDelay
      /\ \A h \in 0..MaxDelay, n \in Ticks, l \in 0..MaxLate :
            h <= NonNegative(n + l) => NonNegative(h - 1) <= NonNegative(Later(n) + l)
  BY ConstantFacts DEF Later, NonNegative, Ticks
<1>5. \A n \in Ticks : n # None
  BY ConstantFacts DEF Ticks
<1>6. /\ \A e \in Timers : time'[e] = Later(time[e]) /\ time[e] \in Ticks
      /\ \A t \in Threads : deadline'[t] = IF deadline[t] = None THEN None ELSE Later(deadline[t])
      /\ \A c \in CPUs : hardware'[c] = IF hardware[c] = None THEN None
                                        ELSE NonNegative(hardware[c] - 1)
  BY <1>1, <1>2
<1>7. TypeOK'
  <2>1. time' \in [Timers -> Ticks]
    BY <1>1, <1>2, <1>3
  <2>2. hardware' \in [CPUs -> 0..MaxDelay \cup {None}]
    BY <1>1, <1>2, <1>4
  <2>3. deadline' \in [Threads -> Ticks \cup {None}]
    BY <1>1, <1>2, <1>3
  <2> QED BY <1>1, <2>1, <2>2, <2>3 DEF IndInv, Consistent, TypeOK
<1>8. QueuedOnce'
  <2> SUFFICES ASSUME NEW c \in CPUs, InOrder(events[c], time) PROVE InOrder(events[c], time')
    BY <1>1 DEF IndInv, Consistent, QueuedOnce
  <2>1. \A i \in DOMAIN events[c] : events[c][i] \in Timers
    BY <1>2
  <2> QED BY <1>3, <1>6, <2>1 DEF InOrder
<1>9. HardwareIsSet'
  <2> SUFFICES ASSUME NEW c \in CPUs, handler[c] = "none", events[c] # <<>>
               PROVE  /\ hardware'[c] # None
                      /\ hardware'[c] <= NonNegative(time'[Head(events[c])] + late[c])
    BY <1>1 DEF HardwareIsSet, NonNegative
  <2>1. hardware[c] # None /\ hardware[c] <= NonNegative(time[Head(events[c])] + late[c])
    BY DEF IndInv, Consistent, HardwareIsSet
  <2>2. hardware[c] \in 0..MaxDelay /\ late[c] \in 0..MaxLate /\ Head(events[c]) \in Timers
    BY <1>2, <2>1
  <2>3. hardware'[c] = NonNegative(hardware[c] - 1)
    BY <1>6, <2>1
  <2>4. \A n \in 0..MaxDelay : n # None
    BY ConstantFacts
  <2> QED BY <1>4, <1>6, <2>1, <2>2, <2>3, <2>4
<1>10. QueuedIsArmed'
  <2> SUFFICES ASSUME NEW c \in CPUs, NEW x \in ToSet(events[c]) PROVE QueuedOf(x)'
    BY <1>1 DEF QueuedIsArmed
  <2>1. x \in Timers /\ QueuedOf(x)
    BY <1>2, QueueMembers DEF IndInv, QueuedIsArmed
  <2> QED BY <1>1, <1>5, <1>6, <2>1 DEF QueuedOf, Armed
<1>11. HandlerIsSound'
  <2> SUFFICES ASSUME NEW c \in CPUs PROVE HandlerOf(c)'
    BY DEF HandlerIsSound
  <2>1. HandlerOf(c)
    BY DEF IndInv, HandlerIsSound
  <2>2. \A n \in Past..-1 : n # None
    BY ConstantFacts
  <2>3. ASSUME NEW x \in Timers, FiringOf(x, c) PROVE FiringOf(x, c)'
    BY <1>1, <1>3, <1>6, <2>2, <2>3 DEF FiringOf, Armed, NotQueued
  <2> QED BY <1>1, <2>1, <2>3 DEF HandlerOf, RepeatedOf, Armed, NotQueued
<1>12. ThreadsAreSound'
  <2>1. \A n \in Past..-1 : n # None
    BY ConstantFacts
  <2> QED BY <1>1, <1>3, <1>6, <2>1 DEF IndInv, ThreadsAreSound, ThreadOf
<1>13. OwnersAreSound'
  <2>1. ASSUME NEW p \in Periodic, pc[p] = "adding"
        PROVE  time'[p] \in (Period - MaxLate)..Period
    <3>1. time[p] \in (Period - MaxLate)..Period /\ time[p] > Period - MaxLate
      BY <1>1, <2>1 DEF IndInv, OwnersAreSound, PeriodicOf
    <3>2. time'[p] = Later(time[p])
      BY <1>6, ConstantFacts
    <3> QED BY <3>1, <3>2, ConstantFacts DEF Later
  <2> QED BY <1>1, <2>1 DEF IndInv, OwnersAreSound, PeriodicOf, NotQueued
<1> QED BY <1>7, <1>8, <1>9, <1>10, <1>11, <1>12, <1>13 DEF IndInv, Consistent

-------------------------------------------------------------------------------
(* The theorems *)

LEMMA InitHolds == Init => IndInv
<1> SUFFICES ASSUME Init PROVE IndInv
  OBVIOUS
<1>1. TypeOK
  BY ConstantFacts DEF Init, TypeOK, Ticks, Statuses, Results
<1>2. \A c \in CPUs : events[c] = <<>>
  BY DEF Init
<1>3. ToSet(<<>>) = {} /\ IsInjective(<<>>)
  BY EmptyQueue
<1>4. QueuedOnce /\ HardwareIsSet
  BY <1>2, <1>3 DEF QueuedOnce, HardwareIsSet, InOrder
<1>5. QueuedIsArmed
  BY <1>2, <1>3 DEF QueuedIsArmed
<1>6. HandlerIsSound
  <2> SUFFICES ASSUME NEW c \in CPUs PROVE HandlerOf(c)
    BY DEF HandlerIsSound
  <2>1. current_event[c] = None /\ firing[c] = None /\ handler[c] = "none" /\ ~in_progress[c]
    BY DEF Init
  <2> QED BY <1>2, <1>3, <2>1, ConstantFacts DEF HandlerOf, HookLabels
<1>7. \A e \in Timers : pc[e] = "idle"
  BY DEF Init
<1>8. ThreadsAreSound
  BY <1>7, ConstantFacts DEF Init, ThreadsAreSound, ThreadOf, Waiting
<1>9. OwnersAreSound
  BY <1>7, ConstantFacts DEF OwnersAreSound, PeriodicOf
<1> QED BY <1>1, <1>4, <1>5, <1>6, <1>8, <1>9 DEF IndInv, Consistent

LEMMA NextHolds == IndInv /\ [Next]_vars => IndInv'
<1> SUFFICES ASSUME IndInv, [Next]_vars PROVE IndInv'
  OBVIOUS
<1>1. ASSUME NEW t \in Threads, BlockCall(t) PROVE IndInv'
  BY <1>1, PrepareStep, BlockNotStep, BlockStep, BlockNegativeStep, BlockWithTimeoutStep
  DEF BlockCall
<1>2. ASSUME NEW t \in Threads, Unblock(t) PROVE IndInv'
  BY <1>2, UnblockStep
<1>3. ASSUME NEW t \in Threads, Leave(t) PROVE IndInv'
  <2>1. t \in Timers
    BY ConstantFacts
  <2> QED BY <1>3, <2>1, WakeStep, CancelWaitStep, CancelThreadStep DEF Leave
<1>4. ASSUME NEW p \in Periodic,
             \/ CancelWait(p) \/ ReadTime(p)
             \/ \E c \in CPUs : AddPeriodic(p, c) \/ CancelPeriodic(p, c)
      PROVE  IndInv'
  <2>1. p \in Timers
    BY ConstantFacts
  <2> QED BY <1>4, <2>1, CancelWaitStep, ReadTimeStep, AddPeriodicStep,
         CancelPeriodicStep
<1>5. ASSUME NEW c \in CPUs, TimerInterrupt(c) \/ InHandler(c) PROVE IndInv'
  BY <1>5, TimerInterruptStep, BeginEventStep, HookUnblockStep, HookClearStep, HookPeriodicStep,
     HookCancelStep, HookDoneStep, EndEventStep, EndInterruptStep
  DEF InHandler
<1>6. ASSUME NEW c \in CPUs, NEW diff \in {-1, 1}, per_cpu_real_time_clock_changed(c, diff)
      PROVE  IndInv'
  BY <1>6, ClockChangedStep
<1>7. CASE Tick
  BY <1>7, TickStep
<1>8. CASE UNCHANGED vars
  BY <1>8 DEF vars, timerVars, IndInv, Consistent, TypeOK, QueuedOnce, InOrder, HardwareIsSet,
     NonNegative, QueuedIsArmed, QueuedOf, Armed, HandlerIsSound, HandlerOf, FiringOf,
     RepeatedOf, NotQueued, ThreadsAreSound, ThreadOf, OwnersAreSound, PeriodicOf
<1> QED BY <1>1, <1>2, <1>3, <1>4, <1>5, <1>6, <1>7, <1>8 DEF Next

LEMMA IndInvAlways == Spec => []IndInv
BY InitHolds, NextHolds, PTL DEF Spec

\* The timer queues are sound at all times: every queue is in order and without
\* duplicates, its timers know it, and outside the handler the CPU's hardware
\* timer goes off when the first of them is due or earlier, or later by no more
\* than the add_timer() call that set it took to get from reading the time to
\* disabling interrupts.
THEOREM ConsistentAlways == Spec => []Consistent
<1>1. IndInv => Consistent
  BY DEF IndInv
<1> QED BY <1>1, IndInvAlways, PTL

\* A timeout ends the wait it was meant for and no other, and not before it is
\* due, however late the hook runs and whatever the thread does meanwhile.
THEOREM TimeoutsMeetTheirWaits == Spec => []TimeoutMeetsItsWait
<1>1. IndInv => TimeoutMeetsItsWait
  <2> SUFFICES ASSUME IndInv PROVE TimeoutIsDue /\ HookMeetsItsWait
    BY DEF TimeoutMeetsItsWait
  <2>1. TimeoutIsDue
    BY DEF IndInv, ThreadsAreSound, ThreadOf, TimeoutIsDue
  <2>2. HookMeetsItsWait
    <3> SUFFICES ASSUME NEW c \in CPUs, handler[c] \in {"hook", "hook_clear"},
                        firing[c] \in Threads
                 PROVE  /\ pc[firing[c]] \in {"timed_blocked", "cancel", "cancel_wait"}
                        /\ deadline[firing[c]] # None
                        /\ user_data[firing[c]]
      BY DEF HookMeetsItsWait
    <3>1. FiringOf(firing[c], c)
      BY FiringFacts
    <3>2. \A n \in Past..-1 : n # None
      BY ConstantFacts
    <3> QED BY <3>1, <3>2 DEF FiringOf, Armed
  <2> QED BY <2>1, <2>2
<1> QED BY <1>1, IndInvAlways, PTL

\* After cancel_timer() returned, or a thread its timed wait, the timer is in no
\* queue and its hook does not run any more.
THEOREM CancellingIsFinal == Spec => []CancelIsFinal
<1>1. IndInv => CancelIsFinal
  <2> SUFFICES ASSUME IndInv, NEW e \in Timers, NEW c \in CPUs,
                      pc[e] \in {"idle", "prepared", "adding"}
               PROVE  e \notin ToSet(events[c]) /\ ~(firing[c] = e /\ handler[c] = "hook")
    BY DEF CancelIsFinal
  <2>1. ~Armed(e) /\ pc[e] # "cancel_wait"
    BY DEF Armed
  <2> QED BY <2>1, IdleIsFree DEF NotQueued
<1> QED BY <1>1, IndInvAlways, PTL
===============================================================================
