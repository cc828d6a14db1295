--------------------------------- MODULE Sem ----------------------------------
(***************************************************************************)
(* The kernel's counting semaphores, src/system/kernel/sem.cpp.  sSems is  *)
(* a table of slots; a sem_id names a slot (id % sMaxSems) and one use of  *)
(* it.  count is what get_sem_count() reports: it goes below zero by what  *)
(* the queued threads ask for, and net_count is what is really there.      *)
(* Every operation is one critical section of the slot's spinlock; the     *)
(* scheduler lock the loops take per thread orders them with timeouts and  *)
(* signals, which are steps of their own.                                  *)
(***************************************************************************)
EXTENDS Integers, Sequences, SequencesExt, FiniteSets, FiniteSetsExt, WaitStatus

CONSTANTS
    Threads,        \* the threads that acquire
    FallibleThreads,\* the ones whose waits time out or are interrupted
    SwitchThreads,  \* the ones that call switch_sem_etc() with two semaphores
    sMaxSems,       \* number of slots
    Units,          \* the counts that are acquired and released
    MaxCount,       \* bound: the units one semaphore ever has
    MaxId,          \* bound: the sem_ids, so how often a slot is reused
    Infos,          \* the select_infos
    NoThread

None == -1          \* no sem_id

ASSUME SemAssumption ==
    /\ IsFiniteSet(Threads)
    /\ FallibleThreads \cup SwitchThreads \subseteq Threads
    /\ sMaxSems \in Nat \ {0}
    /\ Units \subseteq Nat \ {0}
    /\ MaxCount \in Nat
    /\ MaxId \in Nat /\ MaxId >= sMaxSems
    /\ NoThread \notin Threads

Slots == 0 .. sMaxSems - 1

Ids == 0 .. MaxId

VARIABLES
    id,         \* sem_entry::id of a slot, None while unused
    count, net_count,
    queue,      \* the threads of the queued_thread entries of a slot
    next_id,    \* u.unused.next_id
    free_list,  \* sFreeSemsHead ... sFreeSemsTail
    used_sems,  \* sUsedSems
    spin,       \* sem_entry::lock, when a thread keeps it across steps
    select_infos,
    events,     \* the events a select_info was notified of
    wait,       \* Thread::wait.status
    pc,         \* where in sem.cpp a thread is
    target,     \* the sem_id a thread acquires
    request,    \* queued_thread::count
    other,      \* semToBeReleased, None once released
    balance     \* history: units created and released, less units acquired by
                \* calls that returned B_OK, over one life of a slot

slotVars == <<id, count, net_count, queue, select_infos, events, balance>>

vars == <<slotVars, next_id, free_list, used_sems, spin, wait, pc, target, request, other>>

Inside == {"release_other", "block", "interrupted", "free_slot"}

TypeOK ==
    /\ id \in [Slots -> Ids \cup {None}]
    /\ count \in [Slots -> Int]
    /\ net_count \in [Slots -> 0 .. MaxCount]
    /\ queue \in [Slots -> Seq(Threads)]
    /\ next_id \in [Slots -> Ids]
    /\ free_list \in Seq(Slots)
    /\ used_sems \in 0 .. sMaxSems
    /\ spin \in [Slots -> Threads \cup {NoThread}]
    /\ select_infos \in [Slots -> SUBSET Infos]
    /\ events \in [Infos -> SUBSET {"ACQUIRE", "INVALID"}]
    /\ wait \in [Threads -> Statuses]
    /\ pc \in [Threads -> Inside \cup {"idle"}]
    /\ target \in [Threads -> Ids \cup {None}]
    /\ request \in [Threads -> Units]
    /\ other \in [Threads -> Ids \cup {None}]
    /\ balance \in [Slots -> Int]

Init ==
    /\ id = [s \in Slots |-> None]
    /\ count = [s \in Slots |-> 0]
    /\ net_count = [s \in Slots |-> 0]
    /\ queue = [s \in Slots |-> <<>>]
    /\ next_id = [s \in Slots |-> s]
    /\ free_list = [i \in 1 .. sMaxSems |-> i - 1]
    /\ used_sems = 0
    /\ spin = [s \in Slots |-> NoThread]
    /\ select_infos = [s \in Slots |-> {}]
    /\ events = [i \in Infos |-> {}]
    /\ wait = [t \in Threads |-> "B_OK"]
    /\ pc = [t \in Threads |-> "idle"]
    /\ target = [t \in Threads |-> None]
    /\ request = [t \in Threads |-> Min(Units)]
    /\ other = [t \in Threads |-> None]
    /\ balance = [s \in Slots |-> 0]

-------------------------------------------------------------------------------
SlotOf(i) == i % sMaxSems

Live(i) == i # None /\ id[SlotOf(i)] = i

SpinFree(s) == spin[s] = NoThread

Goto(t, label) == pc' = [pc EXCEPT ![t] = label]

Sum(T) == MapThenSumSet(LAMBDA t : request[t], T)

\* notify_sem_select_events() of a slot.
Notified(s, event) ==
    [i \in Infos |-> IF i \in select_infos[s] THEN events[i] \cup {event} ELSE events[i]]

\* What a loop over a queue has done so far: the counts, the units it has left
\* to hand out, how many entries it took off the queue, whom it woke, and
\* whether it met a thread that asks for more than there is.
Start(s, units) ==
    [count |-> count[s], net |-> net_count[s], left |-> units, taken |-> 0,
     woken |-> {}, stop |-> FALSE]

\* Mutant: it is put back into net_count as well, which it never left.
Drop_Refund(acc, t) ==
    [acc EXCEPT !.count = @ + request[t], !.net = @ + request[t], !.taken = @ + 1]

\* The thread is no longer waiting but still queued: its acquisition failed.
Drop(acc, t) == [acc EXCEPT !.count = @ + request[t], !.taken = @ + 1]

\* The thread's count is satisfied.
Enough(acc, t) == request[t] <= acc.net + acc.left

\* The thread is unblocked, with units that are handed out and then with units
\* the semaphore has.
Wake(acc, t) ==
    LET delta == Min({acc.left, request[t]})
    IN  [acc EXCEPT !.count = @ + delta, !.net = @ + delta - request[t],
                    !.left = @ - delta, !.taken = @ + 1, !.woken = @ \cup {t}]

\* The loop body of release_sem_etc(); what the thread is not satisfied with
\* stays with the semaphore.
ReleaseStep(acc, t) ==
    IF acc.stop \/ acc.left = 0 THEN acc
    ELSE IF ~thread_is_blocked(wait, t) THEN Drop(acc, t)
    ELSE IF Enough(acc, t) THEN Wake(acc, t)
    ELSE [acc EXCEPT !.count = @ + acc.left, !.net = @ + acc.left, !.left = 0, !.stop = TRUE]

\* Units nobody waits for stay with the semaphore, unless the caller said
\* B_RELEASE_IF_WAITING_ONLY.
ReleaseLoop(s, units, waitingOnly) ==
    LET acc == FoldLeft(ReleaseStep, Start(s, units), queue[s])
    IN  IF waitingOnly THEN acc
        ELSE [acc EXCEPT !.count = @ + acc.left, !.net = @ + acc.left, !.left = 0]

\* The loop body of remove_thread_from_sem(), which hands out nothing new.
RebalanceStep(acc, t) ==
    IF acc.stop THEN acc
    ELSE IF ~thread_is_blocked(wait, t) THEN Drop(acc, t)
    ELSE IF Enough(acc, t) THEN Wake(acc, t)
    ELSE [acc EXCEPT !.stop = TRUE]

\* Mutant: the select_infos are not told.
Apply_Quiet(s, q, acc, status) ==
    /\ count' = [count EXCEPT ![s] = acc.count]
    /\ net_count' = [net_count EXCEPT ![s] = acc.net]
    /\ queue' = [queue EXCEPT ![s] = SubSeq(q, acc.taken + 1, Len(q))]
    /\ wait' = thread_unblock_all(wait, acc.woken, status)
    /\ UNCHANGED events

\* What a loop found is written to the slot, whose queue starts out as q; the
\* select_infos hear of it if the semaphore is acquirable now.
Apply(s, q, acc, status) ==
    /\ count' = [count EXCEPT ![s] = acc.count]
    /\ net_count' = [net_count EXCEPT ![s] = acc.net]
    /\ queue' = [queue EXCEPT ![s] = SubSeq(q, acc.taken + 1, Len(q))]
    /\ wait' = thread_unblock_all(wait, acc.woken, status)
    /\ events' = IF acc.count > 0 THEN Notified(s, "ACQUIRE") ELSE events

\* release_sem_etc() of a live semaphore, without B_RELEASE_ALL.
Release(s, units, waitingOnly) ==
    LET acc == ReleaseLoop(s, units, waitingOnly)
    IN  /\ acc.net <= MaxCount
        /\ Apply(s, queue[s], acc, "B_OK")
        /\ balance' = [balance EXCEPT ![s] = @ + units - acc.left]

-------------------------------------------------------------------------------
\* The first free slot, under the sem_id it was set aside for.
create_sem_etc(units) ==
    /\ used_sems # sMaxSems
    /\ free_list # <<>>
    /\ LET s == Head(free_list) IN
          /\ SpinFree(s)
          /\ id' = [id EXCEPT ![s] = next_id[s]]
          /\ count' = [count EXCEPT ![s] = units]
          /\ net_count' = [net_count EXCEPT ![s] = units]
          /\ queue' = [queue EXCEPT ![s] = <<>>]
          /\ select_infos' = [select_infos EXCEPT ![s] = {}]
          /\ balance' = [balance EXCEPT ![s] = units]
    /\ free_list' = Tail(free_list)
    /\ used_sems' = used_sems + 1
    /\ UNCHANGED <<next_id, spin, events, wait, pc, target, request, other>>

\* A call that does not return at once: its locals matter from here on ...
Enter(t, i, units, label) ==
    /\ target' = [target EXCEPT ![t] = i]
    /\ request' = [request EXCEPT ![t] = units]
    /\ Goto(t, label)

\* ... until it does.
Return(t) ==
    /\ target' = [target EXCEPT ![t] = None]
    /\ request' = [request EXCEPT ![t] = Min(Units)]
    /\ Goto(t, "idle")

\* Mutant: waiters are woken but left in the queue of the slot.
uninit_sem_locked_KeepQueue(s) ==
    /\ wait' = thread_unblock_all(wait, ToSet(queue[s]), "B_BAD_SEM_ID")
    /\ id' = [id EXCEPT ![s] = None]
    /\ events' = Notified(s, "INVALID")
    /\ select_infos' = [select_infos EXCEPT ![s] = {}]
    /\ UNCHANGED queue

\* Every waiter leaves the queue with B_BAD_SEM_ID, every select_info hears of
\* the end.
uninit_sem_locked(s) ==
    /\ queue' = [queue EXCEPT ![s] = <<>>]
    /\ wait' = thread_unblock_all(wait, ToSet(queue[s]), "B_BAD_SEM_ID")
    /\ id' = [id EXCEPT ![s] = None]
    /\ events' = Notified(s, "INVALID")
    /\ select_infos' = [select_infos EXCEPT ![s] = {}]

\* delete_sem_internal() and a round of sem_delete_owned_sems().
delete_sem(t, i) ==
    /\ pc[t] = "idle"
    /\ Live(i)
    /\ SpinFree(SlotOf(i))
    /\ uninit_sem_locked(SlotOf(i))
    /\ i + sMaxSems <= MaxId
    /\ target' = [target EXCEPT ![t] = i]
    /\ Goto(t, "free_slot")
    /\ UNCHANGED <<count, net_count, balance, next_id, free_list, used_sems, spin, request, other>>

\* The sem_id a slot gets next.
NextId(i) == i + sMaxSems

\* Mutant: sUsedSems is not decremented.
free_sem_slot_Uncounted(t) ==
    /\ pc[t] = "free_slot"
    /\ next_id' = [next_id EXCEPT ![SlotOf(target[t])] = NextId(target[t])]
    /\ free_list' = Append(free_list, SlotOf(target[t]))
    /\ Return(t)
    /\ UNCHANGED <<slotVars, used_sems, spin, wait, other>>

\* free_sem_slot(), in a critical section of its own.
free_sem_slot(t) ==
    /\ pc[t] = "free_slot"
    /\ next_id' = [next_id EXCEPT ![SlotOf(target[t])] = NextId(target[t])]
    /\ free_list' = Append(free_list, SlotOf(target[t]))
    /\ used_sems' = used_sems - 1
    /\ Return(t)
    /\ UNCHANGED <<slotVars, spin, wait, other>>

\* A call of switch_sem_etc(release, i, units); acquire_sem_etc() passes no
\* semaphore to release.
Call(t, release, i) ==
    /\ pc[t] = "idle"
    /\ Live(i)
    /\ SpinFree(SlotOf(i))
    /\ release # None => t \in SwitchThreads
    /\ other' = [other EXCEPT ![t] = release]
    /\ UNCHANGED <<id, select_infos, next_id, free_list, used_sems>>

\* There are enough units: the call returns at once.
AcquireNow(t, release, i, units) ==
    LET s == SlotOf(i) IN
    /\ Call(t, release, i)
    /\ count[s] >= units
    /\ count' = [count EXCEPT ![s] = @ - units]
    /\ net_count' = [net_count EXCEPT ![s] = @ - units]
    /\ balance' = [balance EXCEPT ![s] = @ - units]
    /\ UNCHANGED <<queue, events, spin, wait, pc, target, request>>

\* The thread has to block; it queues, and releases the other semaphore next.
AcquireBlock(t, release, i, units) ==
    LET s == SlotOf(i) IN
    /\ Call(t, release, i)
    /\ count[s] < units
    /\ count' = [count EXCEPT ![s] = @ - units]
    /\ queue' = [queue EXCEPT ![s] = Append(@, t)]
    /\ wait' = thread_prepare_to_block(wait, t)
    /\ Enter(t, i, units, IF release = None THEN "block" ELSE "release_other")
    /\ UNCHANGED <<net_count, events, balance, spin>>

\* The thread has to block but has a signal pending: it releases the other
\* semaphore, with the spinlock of this one still held.
AcquireInterrupted(t, release, i, units) ==
    /\ t \in FallibleThreads
    /\ Call(t, release, i)
    /\ count[SlotOf(i)] < units
    /\ release # None
    /\ spin' = [spin EXCEPT ![SlotOf(i)] = t]
    /\ Enter(t, i, units, "interrupted")
    /\ UNCHANGED <<count, net_count, queue, events, wait, balance>>

\* release_sem_etc(semToBeReleased, 1, B_DO_NOT_RESCHEDULE) of a thread that is
\* about to block, or that was interrupted.
ReleaseOther(t) ==
    /\ pc[t] \in {"release_other", "interrupted"}
    /\ SpinFree(SlotOf(other[t]))
    /\ \/ Live(other[t]) /\ Release(SlotOf(other[t]), 1, FALSE)
       \/ ~Live(other[t]) /\ UNCHANGED <<count, net_count, queue, wait, events, balance>>
    /\ other' = [other EXCEPT ![t] = None]
    /\ \/ /\ pc[t] = "release_other"
          /\ Goto(t, "block")
          /\ UNCHANGED <<spin, target, request>>
       \/ /\ pc[t] = "interrupted"
          /\ Return(t)
          /\ spin' = [spin EXCEPT ![SlotOf(target[t])] = NoThread]
    /\ UNCHANGED <<id, select_infos, next_id, free_list, used_sems>>

\* A timeout or a signal ends the wait; the thread stays queued until it runs.
GiveUp(t) ==
    /\ t \in FallibleThreads
    /\ pc[t] \in {"release_other", "block"}
    /\ thread_is_blocked(wait, t)
    /\ \E status \in {"B_TIMED_OUT", "B_INTERRUPTED"} :
          wait' = thread_unblock(wait, t, status)
    /\ UNCHANGED <<slotVars, next_id, free_list, used_sems, spin, pc, target, request, other>>

\* remove_thread_from_sem()
remove_thread_from_sem(t, s) ==
    LET q == Remove(queue[s], t)
        left == Start(s, 0)
    IN  Apply(s, q, FoldLeft(RebalanceStep, [left EXCEPT !.count = @ + request[t]], q), "B_OK")

\* The wait is over: a thread that is still queued failed, and takes itself out
\* of the queue of the slot.
BlockReturn(t) ==
    LET s == SlotOf(target[t]) IN
    /\ pc[t] = "block"
    /\ ~thread_is_blocked(wait, t)
    /\ SpinFree(s)
    /\ \/ t \in ToSet(queue[s]) /\ remove_thread_from_sem(t, s)
       \/ t \notin ToSet(queue[s]) /\ UNCHANGED <<count, net_count, queue, wait, events>>
    /\ balance' = [balance EXCEPT ![s] =
          IF Live(target[t]) /\ wait[t] = "B_OK" THEN @ - request[t] ELSE @]
    /\ Return(t)
    /\ UNCHANGED <<id, select_infos, next_id, free_list, used_sems, spin, other>>

\* release_sem_etc() by any thread or interrupt handler.
release_sem_etc(i, units, waitingOnly) ==
    /\ Live(i)
    /\ SpinFree(SlotOf(i))
    /\ Release(SlotOf(i), units, waitingOnly)
    /\ UNCHANGED <<id, select_infos, next_id, free_list, used_sems, spin, pc, target, request, other>>

\* The same with B_RELEASE_ALL: as many units as the queued threads ask for, to
\* the ones that still wait, and the status in place of B_OK if it is an error.
release_sem_all(i, status) ==
    LET s == SlotOf(i)
        acc == ReleaseLoop(s, net_count[s] - count[s], TRUE)
    IN  /\ Live(i)
        /\ SpinFree(s)
        /\ net_count[s] # count[s]
        /\ Apply(s, queue[s], acc, status)
        /\ balance' = [balance EXCEPT ![s] = @ + IF status = "B_OK" THEN Sum(acc.woken) ELSE 0]
        /\ UNCHANGED <<id, select_infos, next_id, free_list, used_sems, spin, pc, target, request, other>>

select_sem(i, info) ==
    LET s == SlotOf(i) IN
    /\ Live(i)
    /\ SpinFree(s)
    /\ \A r \in Slots : info \notin select_infos[r]
    /\ select_infos' = [select_infos EXCEPT ![s] = @ \cup {info}]
    /\ events' = [events EXCEPT ![info] = IF count[s] > 0 THEN {"ACQUIRE"} ELSE {}]
    /\ UNCHANGED <<id, count, net_count, queue, balance, next_id, free_list, used_sems,
                   spin, wait, pc, target, request, other>>

deselect_sem(i, info) ==
    /\ Live(i)
    /\ SpinFree(SlotOf(i))
    /\ info \in select_infos[SlotOf(i)]
    /\ select_infos' = [select_infos EXCEPT ![SlotOf(i)] = @ \ {info}]
    /\ UNCHANGED <<id, count, net_count, queue, events, balance, next_id, free_list, used_sems,
                   spin, wait, pc, target, request, other>>

-------------------------------------------------------------------------------
Next ==
    \/ \E units \in Units \cup {0} : create_sem_etc(units)
    \/ \E i \in Ids :
          \/ \E units \in Units, waitingOnly \in BOOLEAN : release_sem_etc(i, units, waitingOnly)
          \/ \E status \in {"B_OK", "B_ERROR"} : release_sem_all(i, status)
          \/ \E info \in Infos : select_sem(i, info) \/ deselect_sem(i, info)
    \/ \E t \in Threads, i \in Ids, release \in Ids \cup {None}, units \in Units :
          \/ AcquireNow(t, release, i, units)
          \/ AcquireBlock(t, release, i, units)
          \/ AcquireInterrupted(t, release, i, units)
    \/ \E t \in Threads, i \in Ids : delete_sem(t, i)
    \/ \E t \in Threads :
          \/ free_sem_slot(t)
          \/ ReleaseOther(t)
          \/ GiveUp(t)
          \/ BlockReturn(t)

Spec == Init /\ [][Next]_vars

-------------------------------------------------------------------------------
Used == {s \in Slots : id[s] # None}

Queued(s) == ToSet(queue[s])

\* sem_entry: net_count is "count + acquisition count of all blocked threads".
NetCountExact == \A s \in Used : net_count[s] = count[s] + Sum(Queued(s))

\* No unit is lost or handed out twice: what is left of the units created and
\* released, less those of the acquisitions that returned B_OK, is net_count
\* and what the threads woken with B_OK are about to return with.
UnitsConserved ==
    \A s \in Used :
        balance[s] = net_count[s] +
            Sum({t \in Threads : /\ pc[t] \in {"release_other", "block"}
                                 /\ target[t] = id[s]
                                 /\ wait[t] = "B_OK"})

\* A thread is in the queue of a slot only to wait for the semaphore the slot
\* is, never for one that was there before; and nobody blocks outside a queue.
QueuesAreCurrent ==
    \A t \in Threads :
        /\ \A s \in Slots : t \in Queued(s) =>
              /\ pc[t] \in {"release_other", "block"}
              /\ target[t] = id[s]
              /\ s \in Used
        /\ pc[t] \in {"release_other", "block"} /\ thread_is_blocked(wait, t) =>
              t \in Queued(SlotOf(target[t]))

\* Every slot is in use, or in the free list once, or on its way there with the
\* thread that deleted it; sUsedSems counts the ones that are not free.
FreeListExact ==
    /\ IsInjective(free_list)
    /\ \A s \in Slots :
          Cardinality({t \in Threads : pc[t] = "free_slot" /\ SlotOf(target[t]) = s}) =
              IF s \in Used \cup ToSet(free_list) THEN 0 ELSE 1
    /\ Used \cap ToSet(free_list) = {}
    /\ used_sems = sMaxSems - Len(free_list)

\* The slot table agrees with itself: each count with its queue, each slot with
\* the free list.
Consistent == TypeOK /\ NetCountExact /\ FreeListExact

\* select() on a semaphore does not miss it becoming acquirable, by whichever of
\* the calls that raise its count.
SelectIsNotified ==
    \A s \in Used : count[s] > 0 =>
        \A i \in select_infos[s] : "ACQUIRE" \in events[i]
===============================================================================
