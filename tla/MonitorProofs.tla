---------------------------- MODULE MonitorProofs -----------------------------
(***************************************************************************)
(* The safety of condition variables, and of the locks they are used with, *)
(* for any number of waiters, notifiers and variables.                     *)
(***************************************************************************)
EXTENDS Monitor, QueueLemmas

\* A thread that removes its entry itself ...
SelfPcs == {"loop", "try"}

\* ... or has left that to the notifiers, so far at least.
OwnPcs == {"added", "wait", "prepared", "blocked", "remove", "exchange", "spin"}

\* The thread's entry is in use.
EntryPcs == OwnPcs \cup SelfPcs

\* A thread looked a variable up and waits for its spinlock.
LookupPcs == {"add_lock", "find_lock", "unpublish_lock"}

\* The notifier that has v locked is at one of these steps, with t's entry.
Taken(t, v, at) == fLock[v] \in Threads /\ pc[fLock[v]] \in at /\ entry[fLock[v]] = t

-------------------------------------------------------------------------------
\* The spinlock of a variable is held by the thread that notifies it.
LockIsHeld ==
    \A v \in Variables, n \in Threads : fLock[v] = n <=> pc[n] \in NotifyPcs /\ cached[n] = v

\* What is looked up in the hash stays there until its spinlock is taken, and who
\* takes a variable out of the hash has it alone.
HashIsSound ==
    /\ hashed \subseteq alive
    /\ Variables \ Published \subseteq alive
    /\ \A t \in Threads :
          /\ pc[t] \in LookupPcs => cached[t] \in hashed
          /\ pc[t] = "find_lock" => call[t].result = "B_OK"
          /\ pc[t] \in NotifyPcs => cached[t] \in alive
          /\ pc[t] \in NotifyPcs /\ call[t].result # "B_OK" =>
                cached[t] \in Published \ hashed /\ call[t].all
    /\ \A t, u \in Threads : pc[t] = "unpublish_lock" /\ pc[u] \in LookupPcs => t = u

\* An entry in a list is in use, belongs to that list, and has its fThread until
\* its thread takes it back.
ListsAreSound ==
    \A v \in Variables :
        /\ IsInjective(fEntries[v])
        /\ v \notin alive => fEntries[v] = <<>>
        /\ \A e \in EntriesOf(v) :
              /\ fVariable[e] = v
              /\ pc[e] \in EntryPcs \ {"spin"}
              /\ fThread[e] <=> pc[e] \notin SelfPcs

\* Where the entry of a thread is: in a list, with a notifier, or free.
EntryOf(t) ==
    /\ pc[t] \notin EntryPcs => ~fThread[t] /\ fVariable[t] = NULL /\ given[t] = NULL
    /\ pc[t] \in OwnPcs =>
          LET v == fVariable[t]
          IN  \/ v # NULL /\ t \in EntriesOf(v) /\ fThread[t] /\ given[t] = NULL
              \/ v # NULL /\ Taken(t, v, {"status"}) /\ ~fThread[t] /\ given[t] = NULL
              \/ v # NULL /\ Taken(t, v, {"clear"}) /\ ~fThread[t] /\ given[t] # NULL
              \/ v = NULL /\ ~fThread[t] /\ given[t] # NULL
    /\ pc[t] = "exchange" /\ fThread[t] => cached[t] = fVariable[t]
    /\ pc[t] \in SelfPcs =>
          LET v == cached[t]
          IN  /\ v # NULL /\ ~fThread[t] /\ given[t] = NULL
              /\ \/ fVariable[t] = v /\ (t \in EntriesOf(v) \/ Taken(t, v, {"clear_removed"}))
                 \/ fVariable[t] = NULL /\ Taken(t, v, {"await_ack"})

EntriesAreTracked == \A t \in Threads : EntryOf(t)

\* What a notifier may rely on while it has an entry.
NotifierOf(n) ==
    LET v == cached[n]
        e == entry[n]
    IN  /\ pc[n] \in NotifyPcs \ {"notify"} => e \in Threads /\ e \notin EntriesOf(v)
        /\ pc[n] \in {"status", "clear"} =>
              pc[e] \in OwnPcs /\ fVariable[e] = v /\ ~fThread[e]
        /\ pc[n] = "status" => given[e] = NULL
        /\ pc[n] = "clear" => given[e] = call[n].result
        /\ pc[n] = "clear_removed" =>
              /\ e \in Removing(v) /\ fVariable[e] = v
              /\ removedCount[n] = fEntriesCount[v] - 1
        /\ pc[n] = "await_ack" =>
              IF e \in Removing(v)
              THEN fVariable[e] = NULL /\ removedCount[n] = fEntriesCount[v] - 1
              ELSE removedCount[n] = fEntriesCount[v]
        /\ pc[n] \in {"clear", "count"} /\ call[n].last =>
              pc[e] = "blocked" /\ wait[e] = Blocked /\ given[e] # NULL

NotifierIsSound == \A n \in Threads : NotifierOf(n)

\* A thread's scheduler lock has one holder.
SchedulerLockIsHeld ==
    \A m, n \in Threads :
        /\ pc[m] \in {"clear", "count"} /\ pc[n] \in {"clear", "count"}
        /\ entry[m] = entry[n]
        => m = n

\* What a wait that is not over yet can return.
StatusIsSound ==
    \A t \in Threads :
        /\ pc[t] \in EntryPcs =>
              /\ IF given[t] = NULL THEN fWaitStatus[t] \in {"added", "waiting"}
                                    ELSE fWaitStatus[t] = given[t]
              /\ pc[t] \in {"added", "wait"} => fWaitStatus[t] # "waiting"
              /\ pc[t] \in {"prepared", "blocked"} => fWaitStatus[t] # "added"
        /\ given[t] = NULL =>
              /\ pc[t] \in {"prepared", "blocked"} => wait[t] \in GivingUp \cup {Blocked}
              /\ pc[t] \in RemovePcs /\ leaving[t] = "blocked" => wait[t] \in GivingUp

\* The part of the invariant that is about condition variables ...
CVInv ==
    /\ CVTypeOK
    /\ LockIsHeld
    /\ HashIsSound
    /\ ListsAreSound
    /\ EntriesAreTracked
    /\ NotifierIsSound
    /\ SchedulerLockIsHeld
    /\ StatusIsSound
    /\ NotifiedReturnsResult
    /\ CountIsExact

\* Where a thread is in lock.cpp tells where it is in condition_variable.cpp.
StageOf(t) ==
    /\ depth[t] > 0 => t \in Lockers
    /\ stage[t] # "out" => depth[t] > 0
    /\ stage[t] = "out" /\ depth[t] > 0 => pc[t] \notin EntryPcs \cup {"add_lock"}
    /\ stage[t] = "unlock" => pc[t] = "added"
    /\ stage[t] = "waiting" => pc[t] \in EntryPcs \cup {"idle"}
    /\ stage[t] = "lock_blocked" => pc[t] = "idle"
    /\ saved[t] = IF stage[t] \in {"waiting", "lock_blocked"} THEN depth[t] ELSE 0

StageIsSound == \A t \in Threads : StageOf(t)

\* The holder knows of it, or is about to.
HolderIsSound ==
    /\ holder # NULL =>
          /\ depth[holder] > 0
          /\ stage[holder] # "waiting"
          /\ holder \notin ToSet(waiters)
    /\ waiters # <<>> => holder # NULL
    /\ holder = NULL \/ stage[holder] = "lock_blocked" => recursion = 0

\* ... and the part that is about the lock.
LockInv ==
    /\ TypeOK
    /\ StageIsSound
    /\ HolderIsSound
    /\ LockIsRestored
    /\ HandOffReaches

IndInv == CVInv /\ LockInv

-------------------------------------------------------------------------------
(* The steps of a waiter. *)

\* NULL is nothing else.
LEMMA NullFacts ==
    /\ NULL \notin Threads /\ NULL \notin Variables /\ NULL \notin Results
    /\ NULL \notin NotifyResults
BY CVAssumption DEF NotifyResults, Results

\* The steps at which a thread has an entry that is counted but in no list.
CountedPcs == SelfPcs \cup {"status", "clear", "count"}

\* A thread that is not in them changes nothing of what is counted.
LEMMA SameCounted ==
    ASSUME NEW t \in Threads, entry' = entry,
           pc[t] \notin CountedPcs, pc'[t] \notin CountedPcs,
           \A u \in Threads \ {t} : pc'[u] = pc[u] /\ cached'[u] = cached[u]
    PROVE  /\ \A v \in Variables : Removing(v)' = Removing(v) /\ Notified(v)' = Notified(v)
           /\ fEntries' = fEntries => \A v \in Variables : Counted(v)' = Counted(v)
<1> USE DEF CountedPcs, SelfPcs
<1>1. \A u \in Threads : pc[u] \in CountedPcs \/ pc'[u] \in CountedPcs =>
          pc'[u] = pc[u] /\ cached'[u] = cached[u]
  OBVIOUS
<1>2. \A v \in Variables : Removing(v)' = Removing(v)
  BY <1>1 DEF Removing
<1>3. \A v \in Variables : Notified(v)' = Notified(v)
  BY <1>1 DEF Notified
<1> QED BY <1>2, <1>3 DEF Counted, EntriesOf

\* A waiter that goes on disturbs nobody, whoever has its entry, if it stands
\* still while its scheduler lock is held.
LEMMA MoveKeeps ==
    ASSUME CVInv, NEW t \in Threads, NEW p \in OwnPcs, pc[t] \in OwnPcs, Goto(t, p),
           p = "spin" => ~fThread[t],
           p = "exchange" => cached'[t] = fVariable[t],
           \A u \in Threads \ {t} : cached'[u] = cached[u] /\ wait'[u] = wait[u],
           SchedulerLockFree(t) \/ (wait' = wait /\ pc[t] # "blocked"),
           UNCHANGED <<fThread, fVariable, varVars, callVars, historyVars>>,
           CVTypeOK', StatusIsSound'
    PROVE  CVInv'
<1> USE DEF Goto, varVars, callVars, historyVars, EntryPcs, OwnPcs, SelfPcs
<1>1. LockIsHeld'
  BY DEF CVInv, CVTypeOK, LockIsHeld, NotifyPcs
<1>2. HashIsSound'
  BY DEF CVInv, CVTypeOK, HashIsSound, LookupPcs, NotifyPcs
<1>3. ListsAreSound'
  BY DEF CVInv, CVTypeOK, ListsAreSound, EntriesOf
<1>4. EntriesAreTracked'
  BY DEF CVInv, CVTypeOK, EntriesAreTracked, EntryOf, Taken, EntriesOf, LockIsHeld, NotifyPcs
<1>5. NotifierIsSound'
  BY DEF CVInv, CVTypeOK, NotifierIsSound, NotifierOf, LockIsHeld, EntriesOf, Removing, NotifyPcs,
         SchedulerLockFree
<1>6. SchedulerLockIsHeld'
  BY DEF CVInv, CVTypeOK, SchedulerLockIsHeld
<1>7. NotifiedReturnsResult'
  BY DEF CVInv, NotifiedReturnsResult
<1>8. \A v \in Variables : Counted(v)' = Counted(v)
  <2>1. /\ pc[t] \notin CountedPcs /\ pc'[t] \notin CountedPcs /\ entry' = entry
        /\ \A u \in Threads \ {t} : pc'[u] = pc[u] /\ cached'[u] = cached[u]
    BY DEF CVInv, CVTypeOK, CountedPcs
  <2> QED BY <2>1, SameCounted
<1>9. CountIsExact'
  BY <1>8 DEF CVInv, CVTypeOK, CountIsExact
<1> QED BY <1>1, <1>2, <1>3, <1>4, <1>5, <1>6, <1>7, <1>9 DEF CVInv

\* Wait() before the thread sleeps, and _RemoveFromVariable() up to the exchange.
LEMMA LeaveKeeps ==
    ASSUME CVInv, NEW t \in Threads, NEW reason \in {"blocked", "immediate", "destroyed"},
           pc[t] \in {"added", "prepared", "blocked"}, LeaveVariable(t, reason),
           reason = "blocked" =>
              SchedulerLockFree(t) /\ pc[t] # "added" /\ ~thread_is_blocked(wait, t),
           reason # "blocked" => pc[t] = "added"
    PROVE  CVInv'
<1> USE DEF LeaveVariable, Goto, entryVars
<1>1. CVTypeOK'
  BY DEF CVInv, CVTypeOK, RemovePcs, varVars, callVars, historyVars
<1>2. StatusIsSound'
  BY DEF CVInv, CVTypeOK, StatusIsSound, RemovePcs, EntryPcs, OwnPcs, SelfPcs,
         historyVars, thread_is_blocked
<1> QED BY <1>1, <1>2, MoveKeeps DEF OwnPcs

LEMMA WaitKeeps == ASSUME CVInv, NEW t \in Threads, Wait(t) PROVE CVInv'
<1> USE DEF Wait, Goto, entryVars
<1>1. CVTypeOK'
  BY DEF CVInv, CVTypeOK, AddPcs, varVars, callVars, historyVars
<1>2. StatusIsSound'
  BY DEF CVInv, CVTypeOK, StatusIsSound, RemovePcs, EntryPcs, OwnPcs, SelfPcs, historyVars
<1> QED BY <1>1, <1>2, MoveKeeps DEF OwnPcs

LEMMA WaitPrepareKeeps == ASSUME CVInv, NEW t \in Threads, WaitPrepare(t) PROVE CVInv'
<1> USE DEF WaitPrepare, Goto, thread_prepare_to_block
<1>1. CVTypeOK'
  BY DEF CVInv, CVTypeOK, AddPcs, varVars, callVars, historyVars, Statuses
<1>2. StatusIsSound'
  BY NullFacts DEF CVInv, CVTypeOK, StatusIsSound, RemovePcs, EntryPcs, OwnPcs, SelfPcs,
                   historyVars, NotifyResults
<1>3. \A u \in Threads \ {t} : cached'[u] = cached[u] /\ wait'[u] = wait[u]
  BY DEF CVInv, CVTypeOK
<1> QED BY <1>1, <1>2, <1>3, MoveKeeps DEF OwnPcs

LEMMA WaitBlockKeeps == ASSUME CVInv, NEW t \in Threads, WaitBlock(t) PROVE CVInv'
<1>1. CASE thread_is_blocked(wait, t)
  <2> USE <1>1 DEF WaitBlock, Goto, entryVars
  <2>1. CVTypeOK'
    BY DEF CVInv, CVTypeOK, AddPcs, varVars, callVars, historyVars
  <2>2. StatusIsSound'
    BY DEF CVInv, CVTypeOK, StatusIsSound, RemovePcs, EntryPcs, OwnPcs, SelfPcs, historyVars
  <2> QED BY <2>1, <2>2, MoveKeeps DEF OwnPcs
<1>2. CASE ~thread_is_blocked(wait, t)
  BY <1>2, LeaveKeeps DEF WaitBlock, LeaveVariable
<1> QED BY <1>1, <1>2

LEMMA GiveUpKeeps == ASSUME CVInv, NEW t \in Threads, CVGiveUp(t) PROVE CVInv'
<1>1. PICK status \in GivingUp : GiveUp(t, status)
  BY DEF CVGiveUp
<1> USE <1>1 DEF GiveUp, entryVars, thread_unblock
<1>2. CVTypeOK'
  BY DEF CVInv, CVTypeOK, varVars, callVars, historyVars, Statuses, GivingUp, Results
<1>3. StatusIsSound'
  BY DEF CVInv, CVTypeOK, StatusIsSound, RemovePcs, historyVars
<1>4. /\ \A u \in Threads \ {t} : cached'[u] = cached[u] /\ wait'[u] = wait[u]
      /\ Goto(t, pc[t])
  BY DEF CVInv, CVTypeOK, Goto
<1> QED BY <1>2, <1>3, <1>4, MoveKeeps DEF OwnPcs

LEMMA RemoveReadKeeps == ASSUME CVInv, NEW t \in Threads, RemoveRead(t) PROVE CVInv'
<1> USE DEF RemoveRead, Goto, entryVars
<1>1. CVTypeOK'
  BY DEF CVInv, CVTypeOK, RemovePcs, varVars, callVars, historyVars
<1>2. StatusIsSound'
  BY DEF CVInv, CVTypeOK, StatusIsSound, RemovePcs, EntryPcs, OwnPcs, SelfPcs, historyVars
<1>3. /\ \A u \in Threads \ {t} : cached'[u] = cached[u] /\ wait'[u] = wait[u]
      /\ cached'[t] = fVariable[t]
  BY DEF CVInv, CVTypeOK
<1> QED BY <1>1, <1>2, <1>3, MoveKeeps DEF OwnPcs

\* Wait() returns what a notifier has left, and the entry is nobody's any more.
LEMMA ReturnKeeps ==
    ASSUME CVInv, NEW t \in Threads, NEW status \in {NULL, fWaitStatus[t]},
           pc[t] \in OwnPcs \ {"blocked"}, fVariable[t] = NULL, ReturnStatus(t, status),
           UNCHANGED <<fThread, fVariable, varVars, callVars>>
    PROVE  CVInv'
<1> USE DEF ReturnStatus, Goto, varVars, callVars, EntryPcs, OwnPcs, SelfPcs
<1>1. given[t] # NULL /\ ~fThread[t] /\ fWaitStatus[t] = given[t]
  BY DEF CVInv, EntriesAreTracked, EntryOf, StatusIsSound
<1>2. NotifiedReturnsResult'
  BY <1>1 DEF CVInv, NotifiedReturnsResult
<1>3. CVTypeOK'
  BY <1>2 DEF CVInv, CVTypeOK, NotifiedReturnsResult, Results, Statuses
<1>4. LockIsHeld'
  BY DEF CVInv, CVTypeOK, LockIsHeld, NotifyPcs
<1>5. HashIsSound'
  BY DEF CVInv, CVTypeOK, HashIsSound, LookupPcs, NotifyPcs
<1>6. ListsAreSound'
  BY NullFacts DEF CVInv, CVTypeOK, ListsAreSound, EntriesOf
<1>7. EntriesAreTracked'
  BY <1>1 DEF CVInv, CVTypeOK, EntriesAreTracked, EntryOf, Taken, EntriesOf, LockIsHeld, NotifyPcs
<1>8. NotifierIsSound'
  <2>1. \A n \in Threads : pc[n] \in NotifyPcs => cached[n] # NULL
    BY NullFacts DEF CVInv, CVTypeOK, HashIsSound
  <2> QED BY <2>1 DEF CVInv, CVTypeOK, NotifierIsSound, NotifierOf, EntriesOf, Removing, NotifyPcs
<1>9. SchedulerLockIsHeld'
  BY DEF CVInv, CVTypeOK, SchedulerLockIsHeld
<1>10. StatusIsSound'
  BY DEF CVInv, CVTypeOK, StatusIsSound, RemovePcs
<1>11. /\ pc[t] \notin CountedPcs /\ pc'[t] \notin CountedPcs
       /\ \A u \in Threads \ {t} : pc'[u] = pc[u] /\ cached'[u] = cached[u]
  BY DEF CVInv, CVTypeOK, CountedPcs
<1>12. \A v \in Variables : Counted(v)' = Counted(v)
  BY <1>11, SameCounted
<1>13. CountIsExact'
  BY <1>12 DEF CVInv, CVTypeOK, CountIsExact
<1> QED BY <1>2, <1>3, <1>4, <1>5, <1>6, <1>7, <1>8, <1>9, <1>10, <1>13 DEF CVInv

\* What the user of an entry does with it.
LEMMA UseEntryKeeps == ASSUME CVInv, NEW t \in Threads, UseEntry(t) PROVE CVInv'
<1>1. CASE WaitNotified(t)
  BY <1>1, ReturnKeeps DEF WaitNotified, OwnPcs
<1>2. CASE WaitImmediate(t)
  BY <1>2, LeaveKeeps DEF WaitImmediate
<1>3. CASE Wait(t)
  BY <1>3, WaitKeeps
<1>4. CASE Destroy(t)
  BY <1>4, ReturnKeeps, LeaveKeeps DEF Destroy, OwnPcs
<1> QED BY <1>1, <1>2, <1>3, <1>4 DEF UseEntry

\* The status is there and the scheduler lock free, so the notifier is done.
LEMMA WaitReturnEarlyKeeps ==
    ASSUME CVInv, NEW t \in Threads, WaitReturnEarly(t) PROVE CVInv'
<1>1. fVariable[t] = NULL
  BY DEF CVInv, CVTypeOK, EntriesAreTracked, EntryOf, StatusIsSound, WaitReturnEarly,
         SchedulerLockFree, Taken, EntryPcs, OwnPcs, SelfPcs
<1> QED BY <1>1, ReturnKeeps DEF WaitReturnEarly, OwnPcs

LEMMA RemoveSpinKeeps == ASSUME CVInv, NEW t \in Threads, RemoveSpin(t) PROVE CVInv'
<1>1. fWaitStatus[t] \notin {"added", "waiting"}
  BY DEF CVInv, CVTypeOK, EntriesAreTracked, EntryOf, StatusIsSound, RemoveSpin, OwnPcs, EntryPcs,
         NotifyResults
<1> QED BY <1>1, ReturnKeeps DEF RemoveSpin, ReturnRemoved, OwnPcs

-------------------------------------------------------------------------------
(* A waiter removes its entry itself. *)

\* Threads can be counted, and one more or less is 1 more or less.
LEMMA CountThreads ==
    ASSUME NEW S \in SUBSET Threads
    PROVE  /\ IsFiniteSet(S)
           /\ Cardinality(S) \in Nat
           /\ \A t \in S : Cardinality(S \ {t}) = Cardinality(S) - 1
           /\ \A t : t \notin S => Cardinality(S \cup {t}) = Cardinality(S) + 1
<1>1. IsFiniteSet(S)
  BY FS_Subset, CVAssumption
<1> QED BY <1>1, FS_CardinalityType, FS_AddElement, FS_RemoveElement

LEMMA CountedTypes == ASSUME CVInv, NEW v \in Variables PROVE Counted(v) \in SUBSET Threads
<1>1. EntriesOf(v) \subseteq Threads
  BY QueueMembers DEF CVInv, CVTypeOK, EntriesOf
<1> QED BY <1>1 DEF Counted, Removing, Notified

\* The variable of a thread that removes itself exists: there is the entry in
\* its list, or a notifier that waits.
LEMMA RemovedFrom ==
    ASSUME CVInv, NEW t \in Threads, pc[t] \in SelfPcs
    PROVE  /\ cached[t] \in alive /\ cached[t] \in Variables
           /\ fLock[cached[t]] = NULL => fVariable[t] = cached[t] /\ t \in EntriesOf(cached[t])
           /\ \A v \in Variables : t \in EntriesOf(v) => v = cached[t]
<1> DEFINE v == cached[t]
<1>1. v \in Variables
  BY DEF CVInv, CVTypeOK, EntriesAreTracked, EntryOf
<1>2. CASE t \in EntriesOf(v)
  <2>1. fEntries[v] # <<>>
    BY <1>1, <1>2, EmptyQueue DEF EntriesOf
  <2> QED BY <1>1, <1>2, <2>1 DEF CVInv, ListsAreSound
<1>3. CASE t \notin EntriesOf(v)
  <2>1. Taken(t, v, {"clear_removed", "await_ack"})
    BY <1>3 DEF CVInv, EntriesAreTracked, EntryOf, Taken
  <2>2. fLock[v] \in Threads /\ pc[fLock[v]] \in NotifyPcs /\ cached[fLock[v]] = v
    BY <1>1, <2>1 DEF CVInv, LockIsHeld, Taken
  <2>3. v \in alive /\ fLock[v] # NULL
    BY <2>2, NullFacts DEF CVInv, HashIsSound
  <2>4. fVariable[t] \in {v, NULL}
    BY DEF CVInv, EntriesAreTracked, EntryOf
  <2> QED BY <1>1, <1>3, <2>3, <2>4, NullFacts DEF CVInv, ListsAreSound
<1> QED BY <1>2, <1>3

\* The exchange: who finds fThread set has the entry.
LEMMA RemoveExchangeKeeps == ASSUME CVInv, NEW t \in Threads, RemoveExchange(t) PROVE CVInv'
<1> USE DEF RemoveExchange, Goto
<1>1. CVTypeOK'
  BY DEF CVInv, CVTypeOK, RemovePcs, varVars, callVars, historyVars
<1>2. StatusIsSound'
  BY DEF CVInv, CVTypeOK, StatusIsSound, RemovePcs, EntryPcs, OwnPcs, SelfPcs, historyVars
<1>3. CASE ~fThread[t]
  <2>1. fThread' = fThread
    BY <1>3 DEF CVInv, CVTypeOK
  <2> QED BY <1>1, <1>2, <1>3, <2>1, MoveKeeps DEF OwnPcs
<1>4. CASE fThread[t]
  <2> USE <1>4 DEF varVars, callVars, historyVars, EntryPcs, OwnPcs, SelfPcs
  <2> DEFINE v == cached[t]
  <2>1. v \in Variables /\ fVariable[t] = v /\ t \in EntriesOf(v) /\ given[t] = NULL
    BY NullFacts DEF CVInv, CVTypeOK, EntriesAreTracked, EntryOf
  <2>2. LockIsHeld'
    BY DEF CVInv, CVTypeOK, LockIsHeld, NotifyPcs
  <2>3. HashIsSound'
    BY DEF CVInv, CVTypeOK, HashIsSound, LookupPcs, NotifyPcs
  <2>4. ListsAreSound'
    BY DEF CVInv, CVTypeOK, ListsAreSound, EntriesOf
  <2>5. EntriesAreTracked'
    BY <2>1 DEF CVInv, CVTypeOK, EntriesAreTracked, EntryOf, Taken, EntriesOf, LockIsHeld, NotifyPcs
  <2>6. NotifierIsSound'
    BY <2>1 DEF CVInv, CVTypeOK, NotifierIsSound, NotifierOf, EntriesOf, Removing, NotifyPcs
  <2>7. SchedulerLockIsHeld'
    BY DEF CVInv, CVTypeOK, SchedulerLockIsHeld
  <2>8. NotifiedReturnsResult'
    BY DEF CVInv, NotifiedReturnsResult
  <2>9. CountIsExact'
    <3>1. \A w \in Variables : Removing(w)' = Removing(w) \cup (IF w = v THEN {t} ELSE {})
      BY DEF CVInv, CVTypeOK, Removing
    <3>2. \A w \in Variables : Notified(w)' = Notified(w)
      BY DEF CVInv, CVTypeOK, Notified
    <3>3. \A w \in Variables : Counted(w)' = Counted(w)
      BY <2>1, <3>1, <3>2 DEF Counted, EntriesOf
    <3> QED BY <3>3 DEF CVInv, CVTypeOK, CountIsExact
  <2> QED BY <1>1, <1>2, <2>2, <2>3, <2>4, <2>5, <2>6, <2>7, <2>8, <2>9 DEF CVInv
<1> QED BY <1>3, <1>4

\* Round and round.
LEMMA StayKeeps ==
    ASSUME CVInv, NEW t \in Threads, NEW p \in SelfPcs, pc[t] \in SelfPcs, StayInRemove(t, p),
           UNCHANGED <<fThread, fVariable, varVars, callVars>>
    PROVE  CVInv'
<1> USE DEF StayInRemove, Goto, varVars, callVars, historyVars, EntryPcs, OwnPcs, SelfPcs
<1>1. CVTypeOK'
  BY DEF CVInv, CVTypeOK, RemovePcs
<1>2. LockIsHeld'
  BY DEF CVInv, CVTypeOK, LockIsHeld, NotifyPcs
<1>3. HashIsSound'
  BY DEF CVInv, CVTypeOK, HashIsSound, LookupPcs, NotifyPcs
<1>4. ListsAreSound'
  BY DEF CVInv, CVTypeOK, ListsAreSound, EntriesOf
<1>5. EntriesAreTracked'
  BY DEF CVInv, CVTypeOK, EntriesAreTracked, EntryOf, Taken, EntriesOf, LockIsHeld, NotifyPcs
<1>6. NotifierIsSound'
  BY DEF CVInv, CVTypeOK, NotifierIsSound, NotifierOf, EntriesOf, Removing, NotifyPcs
<1>7. SchedulerLockIsHeld'
  BY DEF CVInv, CVTypeOK, SchedulerLockIsHeld
<1>8. StatusIsSound'
  BY DEF CVInv, CVTypeOK, StatusIsSound, RemovePcs
<1>9. NotifiedReturnsResult'
  BY DEF CVInv, NotifiedReturnsResult
<1>10. CountIsExact'
  <2>1. \A v \in Variables : Removing(v)' = Removing(v)
    BY DEF CVInv, CVTypeOK, Removing
  <2>2. \A v \in Variables : Notified(v)' = Notified(v)
    BY DEF CVInv, CVTypeOK, Notified
  <2>3. \A v \in Variables : Counted(v)' = Counted(v)
    BY <2>1, <2>2 DEF Counted, EntriesOf
  <2> QED BY <2>3 DEF CVInv, CVTypeOK, CountIsExact
<1> QED BY <1>1, <1>2, <1>3, <1>4, <1>5, <1>6, <1>7, <1>8, <1>9, <1>10 DEF CVInv

\* No notifier had the entry, so Wait() returns what ended the wait.
LEMMA RemovedReturns ==
    ASSUME CVInv, NEW t \in Threads, pc[t] \in SelfPcs, ReturnRemoved(t)
    PROVE  /\ misled' = misled
           /\ pc' = [pc EXCEPT ![t] = "idle"]
           /\ given' = [given EXCEPT ![t] = NULL]
           /\ fWaitStatus' = [fWaitStatus EXCEPT ![t] = "B_OK"]
           /\ wait' = [wait EXCEPT ![t] = "B_OK"]
           /\ cached' = [cached EXCEPT ![t] = NULL]
           /\ leaving' = [leaving EXCEPT ![t] = "blocked"]
<1>1. given[t] = NULL /\ fWaitStatus[t] \in {"added", "waiting"}
  BY DEF CVInv, EntriesAreTracked, EntryOf, StatusIsSound, EntryPcs
<1>2. leaving[t] = "blocked" => wait[t] \in GivingUp
  BY <1>1 DEF CVInv, StatusIsSound, RemovePcs, SelfPcs
<1>3. leaving[t] \in {"blocked", "immediate", "destroyed"}
  BY DEF CVInv, CVTypeOK
<1> QED BY <1>1, <1>2, <1>3, NullFacts DEF ReturnRemoved, ReturnStatus, Goto

\* An entry that is not counted any more is taken out of the count.
LEMMA CountDown ==
    ASSUME CVInv, NEW t, NEW v \in Variables, v \in alive, alive' \subseteq alive,
           t \in Counted(v), Counted(v)' = Counted(v) \ {t},
           \A w \in Variables \ {v} : Counted(w)' = Counted(w),
           fEntriesCount' = [fEntriesCount EXCEPT ![v] = @ - 1]
    PROVE  CountIsExact'
<1>1. Cardinality(Counted(v)') = Cardinality(Counted(v)) - 1
  BY CountedTypes, CountThreads
<1>2. \A w \in Variables \ {v} : fEntriesCount'[w] = fEntriesCount[w]
  BY DEF CVInv, CVTypeOK
<1>3. fEntriesCount'[v] = fEntriesCount[v] - 1
  BY DEF CVInv, CVTypeOK
<1> QED BY <1>1, <1>2, <1>3 DEF CVInv, CVTypeOK, CountIsExact

\* A notifier waits until the thread that removes its entry has signed off.
LEMMA AcknowledgeKeeps ==
    ASSUME CVInv, NEW t \in Threads, pc[t] = "loop", fVariable[t] = NULL,
           fEntriesCount' = [fEntriesCount EXCEPT ![cached[t]] = @ - 1],
           ReturnRemoved(t),
           UNCHANGED <<fThread, fVariable, fLock, fEntries, hashed, alive, callVars>>
    PROVE  CVInv'
<1>a. /\ misled' = misled
      /\ pc' = [pc EXCEPT ![t] = "idle"]
      /\ given' = [given EXCEPT ![t] = NULL]
      /\ fWaitStatus' = [fWaitStatus EXCEPT ![t] = "B_OK"]
      /\ wait' = [wait EXCEPT ![t] = "B_OK"]
      /\ cached' = [cached EXCEPT ![t] = NULL]
      /\ leaving' = [leaving EXCEPT ![t] = "blocked"]
  BY RemovedReturns DEF SelfPcs
<1> USE <1>a DEF callVars, EntryPcs, OwnPcs, SelfPcs
<1>1. PICK v \in Variables : v = cached[t] /\ v \in alive
  <2>1. cached[t] \in alive /\ cached[t] \in Variables
    BY RemovedFrom
  <2> QED BY <2>1
<1>2. Taken(t, v, {"await_ack"}) /\ ~fThread[t] /\ given[t] = NULL
  BY <1>1, NullFacts DEF CVInv, EntriesAreTracked, EntryOf
<1>3. PICK n \in Threads : n = fLock[v] /\ pc[n] = "await_ack" /\ entry[n] = t
  BY <1>2 DEF Taken
<1>4. cached[n] = v /\ \A m \in Threads : pc[m] \in NotifyPcs /\ cached[m] = v => m = n
  BY <1>1, <1>3 DEF CVInv, LockIsHeld
<1>5. t \notin EntriesOf(v) /\ t \in Removing(v) /\ removedCount[n] = fEntriesCount[v] - 1
  BY <1>1, <1>3, <1>4 DEF CVInv, NotifierIsSound, NotifierOf, Removing, NotifyPcs
<1>6. CVTypeOK'
  BY <1>1 DEF CVInv, CVTypeOK, Results, Statuses
<1>7. LockIsHeld'
  BY DEF CVInv, CVTypeOK, LockIsHeld, NotifyPcs
<1>8. HashIsSound'
  BY DEF CVInv, CVTypeOK, HashIsSound, LookupPcs, NotifyPcs
<1>9. ListsAreSound'
  BY NullFacts DEF CVInv, CVTypeOK, ListsAreSound, EntriesOf
<1>10. EntriesAreTracked'
  BY <1>2 DEF CVInv, CVTypeOK, EntriesAreTracked, EntryOf, Taken, EntriesOf, LockIsHeld, NotifyPcs
<1>11. NotifierIsSound'
  BY <1>1, <1>3, <1>4, <1>5, NullFacts
  DEF CVInv, CVTypeOK, NotifierIsSound, NotifierOf, EntriesOf, Removing, NotifyPcs
<1>12. SchedulerLockIsHeld'
  BY DEF CVInv, CVTypeOK, SchedulerLockIsHeld
<1>13. StatusIsSound'
  BY DEF CVInv, CVTypeOK, StatusIsSound, RemovePcs
<1>14. NotifiedReturnsResult'
  BY DEF CVInv, NotifiedReturnsResult
<1>15. CountIsExact'
  <2>1. \A w \in Variables : Removing(w)' = Removing(w) \ {t}
    BY DEF CVInv, CVTypeOK, Removing
  <2>2. \A w \in Variables : Notified(w)' = Notified(w)
    BY DEF CVInv, CVTypeOK, Notified
  <2>3. t \notin Notified(v)
    BY <1>3, <1>4 DEF Notified, NotifyPcs
  <2>4. Counted(v)' = Counted(v) \ {t} /\ t \in Counted(v)
    BY <1>1, <1>5, <2>1, <2>2, <2>3 DEF Counted, EntriesOf
  <2>5. \A w \in Variables \ {v} : Counted(w)' = Counted(w)
    <3>1. \A w \in Variables \ {v} : t \notin Removing(w)
      BY <1>1 DEF Removing
    <3> QED BY <2>1, <2>2, <3>1 DEF Counted, EntriesOf
  <2> QED BY <1>1, <2>4, <2>5, CountDown
<1> QED BY <1>6, <1>7, <1>8, <1>9, <1>10, <1>11, <1>12, <1>13, <1>14, <1>15 DEF CVInv

LEMMA RemoveCheckKeeps == ASSUME CVInv, NEW t \in Threads, RemoveCheck(t) PROVE CVInv'
<1>1. CASE fVariable[t] = NULL
  BY <1>1, AcknowledgeKeeps DEF RemoveCheck
<1>2. CASE fVariable[t] # NULL
  BY <1>2, StayKeeps DEF RemoveCheck, SelfPcs, varVars
<1> QED BY <1>1, <1>2

\* The thread has the spinlock, so no notifier has its entry.
LEMMA UnlinkKeeps ==
    ASSUME CVInv, NEW t \in Threads, pc[t] = "try", fLock[cached[t]] = NULL,
           NEW i \in DOMAIN fEntries[fVariable[t]], fEntries[fVariable[t]][i] = t,
           fEntries' = [fEntries EXCEPT ![fVariable[t]] = RemoveAt(@, i)],
           fVariable' = [fVariable EXCEPT ![t] = NULL],
           fEntriesCount' = [fEntriesCount EXCEPT ![cached[t]] = @ - 1],
           ReturnRemoved(t), UNCHANGED <<fThread, fLock, hashed, alive, callVars>>
    PROVE  CVInv'
<1>a. /\ misled' = misled
      /\ pc' = [pc EXCEPT ![t] = "idle"]
      /\ given' = [given EXCEPT ![t] = NULL]
      /\ fWaitStatus' = [fWaitStatus EXCEPT ![t] = "B_OK"]
      /\ wait' = [wait EXCEPT ![t] = "B_OK"]
      /\ cached' = [cached EXCEPT ![t] = NULL]
      /\ leaving' = [leaving EXCEPT ![t] = "blocked"]
  BY RemovedReturns DEF SelfPcs
<1>1. PICK v \in Variables : /\ v = cached[t] /\ v = fVariable[t] /\ v \in alive
                             /\ t \in EntriesOf(v) /\ fLock[v] = NULL
  <2>1. /\ cached[t] \in alive /\ cached[t] \in Variables
        /\ fVariable[t] = cached[t] /\ t \in EntriesOf(cached[t])
    BY RemovedFrom DEF SelfPcs
  <2> QED BY <2>1
<1> USE <1>a DEF callVars, EntryPcs, OwnPcs, SelfPcs
<1>2. \A m \in Threads : pc[m] \in NotifyPcs => cached[m] # v
  BY <1>1, NullFacts DEF CVInv, LockIsHeld
<1>3. /\ RemoveAt(fEntries[v], i) \in Seq(Threads)
      /\ ToSet(RemoveAt(fEntries[v], i)) = EntriesOf(v) \ {t}
      /\ IsInjective(RemoveAt(fEntries[v], i))
  <2>1. fEntries[v] \in Seq(Threads) /\ IsInjective(fEntries[v]) /\ i \in DOMAIN fEntries[v]
    BY <1>1 DEF CVInv, CVTypeOK, ListsAreSound
  <2> QED BY <1>1, <2>1, RemoveAtFacts DEF EntriesOf
<1>4. /\ fEntries'[v] = RemoveAt(fEntries[v], i)
      /\ EntriesOf(v)' = EntriesOf(v) \ {t}
      /\ \A w \in Variables \ {v} : fEntries'[w] = fEntries[w] /\ EntriesOf(w)' = EntriesOf(w)
  BY <1>1, <1>3 DEF CVInv, CVTypeOK, EntriesOf
<1>5. \A w \in Variables : t \notin EntriesOf(w)' /\ EntriesOf(w)' \subseteq EntriesOf(w)
  BY <1>1, <1>4 DEF CVInv, ListsAreSound
<1>6. CVTypeOK'
  BY <1>1, <1>3 DEF CVInv, CVTypeOK, Results, Statuses
<1>7. LockIsHeld'
  BY DEF CVInv, CVTypeOK, LockIsHeld, NotifyPcs
<1>8. HashIsSound'
  BY DEF CVInv, CVTypeOK, HashIsSound, LookupPcs, NotifyPcs
<1>9. ListsAreSound'
  BY <1>1, <1>3, <1>4, <1>5 DEF CVInv, CVTypeOK, ListsAreSound
<1>10. EntriesAreTracked'
  <2>1. \A u \in Threads \ {t}, w \in Variables : u \in EntriesOf(w)' <=> u \in EntriesOf(w)
    BY <1>4
  <2> QED
    BY <1>1, <2>1 DEF CVInv, CVTypeOK, EntriesAreTracked, EntryOf, Taken, LockIsHeld, NotifyPcs
<1>11. NotifierIsSound'
  BY <1>1, <1>2, <1>5, NullFacts
  DEF CVInv, CVTypeOK, NotifierIsSound, NotifierOf, HashIsSound, Removing, NotifyPcs
<1>12. SchedulerLockIsHeld'
  BY DEF CVInv, CVTypeOK, SchedulerLockIsHeld
<1>13. StatusIsSound'
  BY DEF CVInv, CVTypeOK, StatusIsSound, RemovePcs
<1>14. NotifiedReturnsResult'
  BY DEF CVInv, NotifiedReturnsResult
<1>15. CountIsExact'
  <2>1. \A w \in Variables : Removing(w)' = Removing(w) \ {t}
    BY DEF CVInv, CVTypeOK, Removing
  <2>2. \A w \in Variables : Notified(w)' = Notified(w)
    BY DEF CVInv, CVTypeOK, Notified
  <2>3. t \notin Notified(v)
    BY <1>2 DEF Notified, NotifyPcs
  <2>4. Counted(v)' = Counted(v) \ {t} /\ t \in Counted(v)
    BY <1>1, <1>4, <2>1, <2>2, <2>3 DEF Counted
  <2>5. \A w \in Variables \ {v} : Counted(w)' = Counted(w)
    <3>1. \A w \in Variables \ {v} : t \notin Removing(w)
      BY <1>1 DEF Removing
    <3> QED BY <1>4, <2>1, <2>2, <3>1 DEF Counted
  <2> QED BY <1>1, <2>4, <2>5, CountDown
<1> QED BY <1>6, <1>7, <1>8, <1>9, <1>10, <1>11, <1>12, <1>13, <1>14, <1>15 DEF CVInv

LEMMA RemoveTryKeeps == ASSUME CVInv, NEW t \in Threads, RemoveTry(t) PROVE CVInv'
<1>1. CASE fLock[cached[t]] = NULL
  BY <1>1, UnlinkKeeps DEF RemoveTry
<1>2. CASE fLock[cached[t]] # NULL
  BY <1>2, StayKeeps DEF RemoveTry, SelfPcs, varVars
<1> QED BY <1>1, <1>2

-------------------------------------------------------------------------------
(* The beginning of a call. *)

\* A thread looks a variable up and has the hash locked.
LEMMA LookupKeeps ==
    ASSUME CVInv, NEW t \in Threads, NEW v \in hashed, NEW p \in LookupPcs, pc[t] = "idle",
           Goto(t, p), cached' = [cached EXCEPT ![t] = v],
           HashReadable, p = "unpublish_lock" => HashWritable,
           UNCHANGED <<entryVars, wait, varVars, entry, removedCount, leaving, historyVars>>,
           CVTypeOK', \A u \in Threads \ {t} : call'[u] = call[u],
           p = "find_lock" => call'[t].result = "B_OK"
    PROVE  CVInv'
<1> USE DEF Goto, entryVars, varVars, historyVars, EntryPcs, OwnPcs, SelfPcs, LookupPcs
<1>1. LockIsHeld'
  BY DEF CVInv, CVTypeOK, LockIsHeld, NotifyPcs
<1>2. HashIsSound'
  BY DEF CVInv, CVTypeOK, HashIsSound, NotifyPcs, HashReadable, HashWritable
<1>3. ListsAreSound'
  BY DEF CVInv, CVTypeOK, ListsAreSound, EntriesOf
<1>4. EntriesAreTracked'
  BY DEF CVInv, CVTypeOK, EntriesAreTracked, EntryOf, Taken, EntriesOf, LockIsHeld, NotifyPcs
<1>5. NotifierIsSound'
  BY DEF CVInv, CVTypeOK, NotifierIsSound, NotifierOf, EntriesOf, Removing, NotifyPcs
<1>6. SchedulerLockIsHeld'
  BY DEF CVInv, CVTypeOK, SchedulerLockIsHeld
<1>7. StatusIsSound'
  BY DEF CVInv, CVTypeOK, StatusIsSound, RemovePcs
<1>8. NotifiedReturnsResult'
  BY DEF CVInv, NotifiedReturnsResult
<1>9. /\ pc[t] \notin CountedPcs /\ pc'[t] \notin CountedPcs
      /\ \A u \in Threads \ {t} : pc'[u] = pc[u] /\ cached'[u] = cached[u]
  BY DEF CVInv, CVTypeOK, CountedPcs
<1>10. \A w \in Variables : Counted(w)' = Counted(w)
  BY <1>9, SameCounted
<1>11. CountIsExact'
  BY <1>10 DEF CVInv, CVTypeOK, CountIsExact
<1> QED BY <1>1, <1>2, <1>3, <1>4, <1>5, <1>6, <1>7, <1>8, <1>11 DEF CVInv

LEMMA AddLookupKeeps ==
    ASSUME CVInv, NEW t \in Threads, NEW v \in Variables, AddLookup(t, v) PROVE CVInv'
<1>1. CVTypeOK'
  BY DEF AddLookup, Goto, entryVars, varVars, callVars, historyVars, CVInv, CVTypeOK, AddPcs
<1> QED BY <1>1, LookupKeeps DEF AddLookup, LookupPcs, callVars

LEMMA NotifyLookupKeeps ==
    ASSUME CVInv, NEW t \in Threads, NEW v \in Variables, NEW all \in BOOLEAN,
           NotifyLookup(t, v, all)
    PROVE  CVInv'
<1>1. CVTypeOK'
  BY DEF NotifyLookup, Goto, entryVars, varVars, historyVars, CVInv, CVTypeOK, NotifyResults
<1>2. /\ \A u \in Threads \ {t} : call'[u] = call[u]
      /\ call'[t].result = "B_OK"
  BY DEF NotifyLookup, CVInv, CVTypeOK
<1> QED BY <1>1, <1>2, LookupKeeps DEF NotifyLookup, LookupPcs

LEMMA UnpublishKeeps ==
    ASSUME CVInv, NEW t \in Threads, NEW v \in Variables, Unpublish(t, v) PROVE CVInv'
<1>1. CVTypeOK'
  BY DEF Unpublish, Goto, entryVars, varVars, callVars, historyVars, CVInv, CVTypeOK
<1> QED BY <1>1, LookupKeeps DEF Unpublish, LookupPcs, callVars, HashWritable

\* A new entry at the end of the list of a variable that nobody notifies.
LEMMA AddLockedKeeps ==
    ASSUME CVInv, NEW t \in Threads, NEW v \in Variables, v \in alive,
           pc[t] \in {"idle", "add_lock"}, AddLocked(t, v)
    PROVE  CVInv'
<1> USE DEF AddLocked, _AddToLockedVariable, Goto, callVars, historyVars,
            EntryPcs, OwnPcs, SelfPcs
<1>1. \A w \in Variables : t \notin EntriesOf(w)
  BY DEF CVInv, ListsAreSound
<1>2. \A m \in Threads : pc[m] \in NotifyPcs => cached[m] # v
  BY NullFacts DEF CVInv, LockIsHeld
<1>3. /\ Append(fEntries[v], t) \in Seq(Threads)
      /\ ToSet(Append(fEntries[v], t)) = EntriesOf(v) \cup {t}
      /\ IsInjective(Append(fEntries[v], t))
  <2>1. fEntries[v] \in Seq(Threads) /\ IsInjective(fEntries[v])
    BY DEF CVInv, CVTypeOK, ListsAreSound
  <2> QED BY <1>1, <2>1, AppendFacts DEF EntriesOf
<1>4. /\ fEntries'[v] = Append(fEntries[v], t)
      /\ EntriesOf(v)' = EntriesOf(v) \cup {t}
      /\ \A w \in Variables \ {v} : fEntries'[w] = fEntries[w] /\ EntriesOf(w)' = EntriesOf(w)
  BY <1>3 DEF CVInv, CVTypeOK, EntriesOf
<1>5. \A u \in Threads \ {t}, w \in Variables : u \in EntriesOf(w)' <=> u \in EntriesOf(w)
  BY <1>4
<1>6. CVTypeOK'
  BY <1>3 DEF CVInv, CVTypeOK, AddPcs
<1>7. LockIsHeld'
  BY DEF CVInv, CVTypeOK, LockIsHeld, NotifyPcs
<1>8. HashIsSound'
  BY DEF CVInv, CVTypeOK, HashIsSound, LookupPcs, NotifyPcs
<1>9. ListsAreSound'
  BY <1>1, <1>3, <1>4 DEF CVInv, CVTypeOK, ListsAreSound
<1>10. EntriesAreTracked'
  BY <1>4, <1>5, NullFacts
  DEF CVInv, CVTypeOK, EntriesAreTracked, EntryOf, Taken, LockIsHeld, NotifyPcs
<1>11. NotifierIsSound'
  BY <1>2, <1>4, <1>5, NullFacts
  DEF CVInv, CVTypeOK, NotifierIsSound, NotifierOf, HashIsSound, Removing, NotifyPcs
<1>12. SchedulerLockIsHeld'
  BY DEF CVInv, CVTypeOK, SchedulerLockIsHeld
<1>13. StatusIsSound'
  BY DEF CVInv, CVTypeOK, StatusIsSound, EntriesAreTracked, EntryOf, RemovePcs
<1>14. NotifiedReturnsResult'
  BY DEF CVInv, NotifiedReturnsResult
<1>15. CountIsExact'
  <2>1. /\ pc[t] \notin CountedPcs /\ pc'[t] \notin CountedPcs
        /\ \A u \in Threads \ {t} : pc'[u] = pc[u] /\ cached'[u] = cached[u]
    BY DEF CVInv, CVTypeOK, CountedPcs
  <2>2. \A w \in Variables : Removing(w)' = Removing(w) /\ Notified(w)' = Notified(w)
    BY <2>1, SameCounted
  <2>3. t \notin Removing(v) /\ t \notin Notified(v)
    BY <1>2 DEF Removing, Notified, NotifyPcs
  <2>4. Counted(v)' = Counted(v) \cup {t} /\ t \notin Counted(v)
    BY <1>1, <1>4, <2>2, <2>3 DEF Counted
  <2>5. \A w \in Variables \ {v} : Counted(w)' = Counted(w)
    BY <1>4, <2>2 DEF Counted
  <2>6. Cardinality(Counted(v)') = Cardinality(Counted(v)) + 1
    BY <2>4, CountedTypes, CountThreads
  <2> QED BY <2>5, <2>6 DEF CVInv, CVTypeOK, CountIsExact
<1> QED BY <1>6, <1>7, <1>8, <1>9, <1>10, <1>11, <1>12, <1>13, <1>14, <1>15 DEF CVInv

\* Nobody uses the memory in which a variable is set up.
LEMMA PublishKeeps ==
    ASSUME CVInv, NEW t \in Threads, NEW v \in Variables, Publish(t, v) PROVE CVInv'
<1> USE DEF Publish, entryVars, callVars, historyVars, EntryPcs, OwnPcs, SelfPcs
<1>1. fEntries[v] = <<>> /\ \A n \in Threads : pc[n] \in NotifyPcs => cached[n] # v
  BY DEF CVInv, ListsAreSound, HashIsSound
<1>2. fEntries' = fEntries /\ fLock' = fLock
  <2>1. fLock[v] = NULL
    BY <1>1 DEF CVInv, CVTypeOK, LockIsHeld
  <2> QED BY <1>1, <2>1 DEF CVInv, CVTypeOK
<1>3. CVTypeOK'
  BY <1>2 DEF CVInv, CVTypeOK
<1>4. LockIsHeld'
  BY <1>2 DEF CVInv, LockIsHeld
<1>5. HashIsSound'
  BY <1>1 DEF CVInv, CVTypeOK, HashIsSound, LookupPcs, NotifyPcs, HashWritable, HashReadable
<1>6. ListsAreSound'
  BY <1>2 DEF CVInv, ListsAreSound, EntriesOf
<1>7. EntriesAreTracked'
  BY <1>2 DEF CVInv, EntriesAreTracked, EntryOf, Taken, EntriesOf
<1>8. NotifierIsSound'
  BY <1>1, <1>2 DEF CVInv, CVTypeOK, NotifierIsSound, NotifierOf, EntriesOf, Removing, NotifyPcs
<1>9. SchedulerLockIsHeld'
  BY DEF CVInv, SchedulerLockIsHeld
<1>10. StatusIsSound'
  BY DEF CVInv, StatusIsSound
<1>11. NotifiedReturnsResult'
  BY DEF CVInv, NotifiedReturnsResult
<1>12. CountIsExact'
  <2>1. \A w \in Variables : Counted(w)' = Counted(w)
    BY <1>2 DEF Counted, EntriesOf, Removing, Notified
  <2>2. EntriesOf(v) = {}
    BY <1>1, EmptyQueue DEF EntriesOf
  <2>3. Removing(v) = {}
    BY RemovedFrom DEF Removing
  <2>4. Notified(v) = {}
    BY <1>1 DEF Notified, NotifyPcs
  <2>5. Cardinality(Counted(v)') = 0
    BY <2>1, <2>2, <2>3, <2>4, FS_EmptySet DEF Counted
  <2> QED BY <2>1, <2>5 DEF CVInv, CVTypeOK, CountIsExact
<1> QED BY <1>3, <1>4, <1>5, <1>6, <1>7, <1>8, <1>9, <1>10, <1>11, <1>12 DEF CVInv

-------------------------------------------------------------------------------
(* The steps of a notifier. *)

LEMMA BeginNotifyKeeps ==
    ASSUME CVInv, NEW t \in Threads, NEW v \in Variables, NEW all \in BOOLEAN,
           NEW result \in NotifyResults, BeginNotify(t, v, all, result),
           v \in alive, pc[t] \in {"idle", "find_lock", "unpublish_lock"},
           hashed' \subseteq Published, HashIsSound'
    PROVE  CVInv'
<1> USE DEF BeginNotify, Goto, entryVars, historyVars, EntryPcs, OwnPcs, SelfPcs
<1>1. \A n \in Threads : pc[n] \in NotifyPcs => cached[n] # v
  BY NullFacts DEF CVInv, LockIsHeld
<1>2. CVTypeOK'
  BY DEF CVInv, CVTypeOK, NotifyPcs
<1>3. LockIsHeld'
  BY <1>1 DEF CVInv, CVTypeOK, LockIsHeld, NotifyPcs
<1>4. ListsAreSound'
  BY DEF CVInv, CVTypeOK, ListsAreSound, EntriesOf
<1>5. EntriesAreTracked'
  BY NullFacts DEF CVInv, CVTypeOK, EntriesAreTracked, EntryOf, Taken, EntriesOf
<1>6. NotifierIsSound'
  BY DEF CVInv, CVTypeOK, NotifierIsSound, NotifierOf, EntriesOf, Removing, NotifyPcs
<1>7. SchedulerLockIsHeld'
  BY DEF CVInv, CVTypeOK, SchedulerLockIsHeld
<1>8. StatusIsSound'
  BY DEF CVInv, CVTypeOK, StatusIsSound, RemovePcs
<1>9. NotifiedReturnsResult'
  BY DEF CVInv, NotifiedReturnsResult
<1>10. /\ pc[t] \notin CountedPcs /\ pc'[t] \notin CountedPcs
       /\ \A u \in Threads \ {t} : pc'[u] = pc[u] /\ cached'[u] = cached[u]
  BY DEF CVInv, CVTypeOK, CountedPcs
<1>11. \A w \in Variables : Counted(w)' = Counted(w)
  BY <1>10, SameCounted
<1>12. CountIsExact'
  BY <1>11 DEF CVInv, CVTypeOK, CountIsExact
<1> QED BY <1>2, <1>3, <1>4, <1>5, <1>6, <1>7, <1>8, <1>9, <1>12 DEF CVInv

LEMMA NotifyKeeps ==
    ASSUME CVInv, NEW t \in Threads, NEW v \in Variables, NEW all \in BOOLEAN,
           Notify(t, v, all)
    PROVE  CVInv'
<1>1. v \in alive /\ BeginNotify(t, v, all, "B_OK") /\ pc[t] = "idle" /\ hashed' = hashed
  BY DEF Notify, CVInv, HashIsSound
<1>2. HashIsSound'
  BY <1>1 DEF CVInv, CVTypeOK, HashIsSound, LookupPcs, NotifyPcs, BeginNotify, Goto
<1>3. hashed' \subseteq Published
  BY <1>1 DEF CVInv, CVTypeOK
<1> QED BY <1>1, <1>2, <1>3, BeginNotifyKeeps DEF NotifyResults

LEMMA NotifyFoundKeeps == ASSUME CVInv, NEW t \in Threads, NotifyFound(t) PROVE CVInv'
<1>1. PICK v \in Variables : v = cached[t] /\ v \in hashed /\ v \in alive
  BY DEF NotifyFound, CVInv, CVTypeOK, HashIsSound, LookupPcs
<1>2. /\ BeginNotify(t, v, call[t].all, "B_OK") /\ pc[t] = "find_lock" /\ hashed' = hashed
      /\ call[t].all \in BOOLEAN
  BY <1>1 DEF NotifyFound, CVInv, CVTypeOK, HashIsSound
<1>3. HashIsSound'
  BY <1>1, <1>2 DEF CVInv, CVTypeOK, HashIsSound, LookupPcs, NotifyPcs, BeginNotify, Goto
<1>4. hashed' \subseteq Published
  BY <1>2 DEF CVInv, CVTypeOK
<1> QED BY <1>1, <1>2, <1>3, <1>4, BeginNotifyKeeps DEF NotifyResults

LEMMA UnpublishLockedKeeps == ASSUME CVInv, NEW t \in Threads, UnpublishLocked(t) PROVE CVInv'
<1>1. PICK v \in Variables : v = cached[t] /\ v \in hashed /\ v \in alive
  BY DEF UnpublishLocked, CVInv, CVTypeOK, HashIsSound, LookupPcs
<1>2. /\ BeginNotify(t, v, TRUE, "B_ENTRY_NOT_FOUND") /\ pc[t] = "unpublish_lock"
      /\ hashed' = hashed \ {v} /\ v \in Published
  BY <1>1 DEF UnpublishLocked, CVInv, CVTypeOK
<1>3. HashIsSound'
  BY <1>1, <1>2 DEF CVInv, CVTypeOK, HashIsSound, LookupPcs, NotifyPcs, BeginNotify, Goto
<1>4. hashed' \subseteq Published
  BY <1>2 DEF CVInv, CVTypeOK
<1> QED BY <1>1, <1>2, <1>3, <1>4, BeginNotifyKeeps DEF NotifyResults

\* A notifier has its variable alone.
LEMMA NotifierFacts ==
    ASSUME CVInv, NEW t \in Threads, pc[t] \in NotifyPcs
    PROVE  \E v \in Variables :
              /\ v = cached[t] /\ v \in alive /\ fLock[v] = t
              /\ \A m \in Threads : pc[m] \in NotifyPcs /\ cached[m] = v => m = t
<1>1. cached[t] \in Variables /\ cached[t] \in alive
  BY DEF CVInv, CVTypeOK, HashIsSound
<1>2. fLock[cached[t]] = t
  BY <1>1 DEF CVInv, LockIsHeld
<1> QED BY <1>1, <1>2 DEF CVInv, LockIsHeld

\* The list is empty, so an unpublished variable can go.
LEMMA NotifyEmptyKeeps == ASSUME CVInv, NEW t \in Threads, NotifyEmpty(t) PROVE CVInv'
<1> USE DEF NotifyEmpty, EndNotify, Goto, entryVars, historyVars, EntryPcs, OwnPcs, SelfPcs
<1>1. PICK v \in Variables :
              /\ v = cached[t] /\ v \in alive /\ fLock[v] = t
              /\ \A m \in Threads : pc[m] \in NotifyPcs /\ cached[m] = v => m = t
  BY NotifierFacts DEF NotifyPcs
<1>2. CVTypeOK'
  BY DEF CVInv, CVTypeOK, NoCall, NotifyResults
<1>3. LockIsHeld'
  BY <1>1, NullFacts DEF CVInv, CVTypeOK, LockIsHeld, NotifyPcs
<1>4. HashIsSound'
  BY <1>1, NullFacts DEF CVInv, CVTypeOK, HashIsSound, LookupPcs, NotifyPcs
<1>5. ListsAreSound'
  BY <1>1 DEF CVInv, CVTypeOK, ListsAreSound, EntriesOf
<1>6. EntriesAreTracked'
  BY <1>1, NullFacts DEF CVInv, CVTypeOK, EntriesAreTracked, EntryOf, Taken, EntriesOf
<1>7. NotifierIsSound'
  BY DEF CVInv, CVTypeOK, NotifierIsSound, NotifierOf, EntriesOf, Removing, NotifyPcs
<1>8. SchedulerLockIsHeld'
  BY DEF CVInv, CVTypeOK, SchedulerLockIsHeld
<1>9. StatusIsSound'
  BY DEF CVInv, CVTypeOK, StatusIsSound, RemovePcs
<1>10. NotifiedReturnsResult'
  BY DEF CVInv, NotifiedReturnsResult
<1>11. /\ pc[t] \notin CountedPcs /\ pc'[t] \notin CountedPcs
       /\ \A u \in Threads \ {t} : pc'[u] = pc[u] /\ cached'[u] = cached[u]
  BY DEF CVInv, CVTypeOK, CountedPcs
<1>12. \A w \in Variables : Counted(w)' = Counted(w)
  BY <1>11, SameCounted
<1>13. CountIsExact'
  BY <1>12 DEF CVInv, CVTypeOK, CountIsExact
<1> QED BY <1>2, <1>3, <1>4, <1>5, <1>6, <1>7, <1>8, <1>9, <1>10, <1>13 DEF CVInv

\* The head leaves the list; who exchanged its fThread first removes it.
LEMMA NotifyNextKeeps == ASSUME CVInv, NEW t \in Threads, NotifyNext(t) PROVE CVInv'
<1> USE DEF EntryPcs, OwnPcs, SelfPcs
<1>1. PICK v \in Variables :
              /\ v = cached[t] /\ v \in alive /\ fLock[v] = t
              /\ \A m \in Threads : pc[m] \in NotifyPcs /\ cached[m] = v => m = t
  BY NotifierFacts DEF NotifyNext, NotifyPcs
<1>2. PICK e : e = Head(fEntries[v])
  OBVIOUS
<1>3. /\ e \in Threads /\ e \in EntriesOf(v)
      /\ Tail(fEntries[v]) \in Seq(Threads)
      /\ ToSet(Tail(fEntries[v])) = EntriesOf(v) \ {e}
      /\ IsInjective(Tail(fEntries[v]))
  <2>1. fEntries[v] \in Seq(Threads) /\ IsInjective(fEntries[v]) /\ fEntries[v] # <<>>
    BY <1>1 DEF NotifyNext, CVInv, CVTypeOK, ListsAreSound
  <2> QED BY <1>2, <2>1, TailFacts DEF EntriesOf
<1>4. /\ fEntries'[v] = Tail(fEntries[v])
      /\ EntriesOf(v)' = EntriesOf(v) \ {e}
      /\ \A w \in Variables \ {v} : fEntries'[w] = fEntries[w] /\ EntriesOf(w)' = EntriesOf(w)
  BY <1>1, <1>3 DEF NotifyNext, CVInv, CVTypeOK, EntriesOf
<1>5. /\ fVariable[e] = v /\ pc[e] \in EntryPcs \ {"spin"}
      /\ fThread[e] <=> pc[e] \notin SelfPcs
      /\ given[e] = NULL
      /\ pc[e] \in SelfPcs => cached[e] = v
  BY <1>1, <1>3, NullFacts DEF CVInv, ListsAreSound, EntriesAreTracked, EntryOf
<1>6. PICK p \in {"status", "clear_removed"} :
          /\ pc[t] = "notify" /\ pc' = [pc EXCEPT ![t] = p]
          /\ p = "status" <=> fThread[e]
          /\ p = "clear_removed" => removedCount'[t] = fEntriesCount[v] - 1
          /\ \A u \in Threads \ {t} : removedCount'[u] = removedCount[u]
          /\ removedCount' \in [Threads -> Int]
  <2>1. fEntriesCount[v] - 1 \in Int /\ removedCount \in [Threads -> Int]
        /\ fThread[e] \in BOOLEAN /\ pc[t] = "notify"
    BY <1>3 DEF NotifyNext, CVInv, CVTypeOK
  <2>2. CASE fThread[e]
    BY <1>1, <1>2, <2>1, <2>2 DEF NotifyNext, Goto
  <2>3. CASE ~fThread[e]
    <3>1. removedCount' = [removedCount EXCEPT ![t] = fEntriesCount[v] - 1]
      BY <1>1, <1>2, <2>3 DEF NotifyNext
    <3> QED BY <1>1, <1>2, <2>1, <2>3, <3>1 DEF NotifyNext, Goto
  <2> QED BY <2>2, <2>3
<1>a. /\ entry' = [entry EXCEPT ![t] = e]
      /\ fThread' = [fThread EXCEPT ![e] = FALSE]
      /\ UNCHANGED <<fVariable, fWaitStatus, wait, fLock, fEntriesCount, hashed, alive,
                     cached, call, leaving, given, misled>>
  BY <1>1, <1>2 DEF NotifyNext, historyVars
<1> USE <1>a
<1>7. CVTypeOK'
  <2>1. fEntries' \in [Variables -> Seq(Threads)]
    BY <1>1, <1>3 DEF NotifyNext, CVInv, CVTypeOK
  <2> QED BY <1>1, <1>3, <1>6, <2>1 DEF CVInv, CVTypeOK, NotifyPcs
<1>8. LockIsHeld'
  BY <1>6 DEF CVInv, CVTypeOK, LockIsHeld, NotifyPcs
<1>9. HashIsSound'
  BY <1>6 DEF CVInv, CVTypeOK, HashIsSound, LookupPcs, NotifyPcs
<1>10. ListsAreSound'
  <2>1. \A w \in Variables : e \notin EntriesOf(w)'
    BY <1>4, <1>5 DEF CVInv, ListsAreSound
  <2>2. \A w \in Variables : IsInjective(fEntries'[w]) /\ (w \notin alive => fEntries'[w] = <<>>)
    BY <1>1, <1>3, <1>4 DEF CVInv, ListsAreSound
  <2>3. \A w \in Variables : \A u \in EntriesOf(w)' :
            u \in EntriesOf(w) /\ pc'[u] = pc[u] /\ fThread'[u] = fThread[u]
    <3>1. \A w \in Variables : \A u \in EntriesOf(w)' : u \in EntriesOf(w) /\ u # e /\ u # t
      BY <1>4, <1>6, <2>1 DEF CVInv, ListsAreSound
    <3>2. \A w \in Variables : EntriesOf(w) \subseteq Threads
      BY QueueMembers DEF CVInv, CVTypeOK, EntriesOf
    <3>3. \A u \in Threads : u # e /\ u # t => pc'[u] = pc[u] /\ fThread'[u] = fThread[u]
      BY <1>6 DEF CVInv, CVTypeOK
    <3> QED BY <3>1, <3>2, <3>3
  <2> QED BY <2>2, <2>3 DEF CVInv, ListsAreSound
<1>11. EntriesAreTracked'
  <2>1. \A u \in Threads \ {e}, w \in Variables : u \in EntriesOf(w)' <=> u \in EntriesOf(w)
    BY <1>4
  <2>2. pc'[e] = pc[e] /\ ~fThread'[e] /\ fLock' = fLock
    BY <1>3, <1>5, <1>6 DEF CVInv, CVTypeOK, NotifyPcs
  <2>4. pc[e] \notin SelfPcs => Taken(e, v, {"status"})'
    BY <1>1, <1>5, <1>6, <2>2 DEF CVInv, CVTypeOK, Taken
  <2>5. pc[e] \in SelfPcs => Taken(e, v, {"clear_removed"})'
    BY <1>1, <1>5, <1>6, <2>2 DEF CVInv, CVTypeOK, Taken
  <2>6. \A u \in Threads, w \in Variables,
         at \in {{"status"}, {"clear"}, {"clear_removed"}, {"await_ack"}} :
            Taken(u, w, at) => Taken(u, w, at)'
    BY <1>6 DEF CVInv, CVTypeOK, Taken
  <2> QED BY <1>1, <1>3, <1>5, <1>6, <2>1, <2>2, <2>4, <2>5, <2>6, NullFacts
          DEF CVInv, CVTypeOK, EntriesAreTracked, EntryOf
<1>12. NotifierIsSound'
  <2>1. \A w \in Variables : Removing(w)' = Removing(w)
    BY <1>6 DEF CVInv, CVTypeOK, Removing
  <2>2. \A u \in Threads \ {t} : pc'[u] = pc[u] /\ entry'[u] = entry[u]
    BY <1>6 DEF CVInv, CVTypeOK
  <2>3. \A w \in Variables : EntriesOf(w)' \subseteq EntriesOf(w)
    BY <1>4
  <2>4. \A u \in Threads : fThread'[u] => fThread[u]
    BY <1>3 DEF CVInv, CVTypeOK
  <2>5. pc'[t] = p /\ entry'[t] = e /\ ~fThread'[e] /\ e # t
    BY <1>3, <1>5, <1>6 DEF CVInv, CVTypeOK
  <2>6. pc[e] \in SelfPcs => e \in Removing(v)'
    BY <1>3, <1>5, <2>1 DEF Removing
  <2> SUFFICES ASSUME NEW n \in Threads, pc'[n] \in NotifyPcs
               PROVE  NotifierOf(n)'
    BY DEF NotifierIsSound, NotifierOf, NotifyPcs
  <2>7. CASE n = t
    BY <1>1, <1>3, <1>4, <1>5, <1>6, <2>2, <2>5, <2>6, <2>7 DEF NotifierOf, NotifyPcs
  <2>8. CASE n # t
    <3>1. NotifierOf(n) /\ cached[n] \in Variables
      BY <2>2, <2>8 DEF CVInv, CVTypeOK, NotifierIsSound, NotifierOf, HashIsSound
    <3> QED BY <1>6, <2>1, <2>2, <2>3, <2>4, <2>8, <3>1 DEF NotifierOf, NotifyPcs
  <2> QED BY <2>7, <2>8
<1>13. SchedulerLockIsHeld'
  BY <1>6 DEF CVInv, CVTypeOK, SchedulerLockIsHeld
<1>14. StatusIsSound'
  BY <1>6 DEF CVInv, CVTypeOK, StatusIsSound, RemovePcs
<1>15. NotifiedReturnsResult'
  BY <1>6 DEF CVInv, NotifiedReturnsResult
<1>16. CountIsExact'
  <2>1. \A w \in Variables : Removing(w)' = Removing(w)
    BY <1>6 DEF CVInv, CVTypeOK, Removing
  <2>2. \A w \in Variables \ {v} : Notified(w)' = Notified(w)
    BY <1>1, <1>6 DEF CVInv, CVTypeOK, Notified
  <2>3. Notified(v) = {}
    BY <1>1, <1>6 DEF Notified, NotifyPcs
  <2>4. Notified(v)' \subseteq {e} /\ (pc[e] \notin SelfPcs => e \in Notified(v)')
    BY <1>1, <1>3, <1>5, <1>6 DEF CVInv, CVTypeOK, Notified, NotifyPcs
  <2>5. pc[e] \in SelfPcs => e \in Removing(v)
    BY <1>3, <1>5 DEF Removing
  <2>6. \A w \in Variables : Counted(w)' = Counted(w)
    BY <1>3, <1>4, <2>1, <2>2, <2>3, <2>4, <2>5 DEF Counted
  <2> QED BY <2>6 DEF CVInv, CVTypeOK, CountIsExact
<1> QED BY <1>7, <1>8, <1>9, <1>10, <1>11, <1>12, <1>13, <1>14, <1>15, <1>16 DEF CVInv

\* The entry that removes itself is told that it need not.
LEMMA NotifyClearRemovedKeeps ==
    ASSUME CVInv, NEW t \in Threads, NotifyClearRemoved(t) PROVE CVInv'
<1> USE DEF NotifyClearRemoved, Goto, varVars, callVars, historyVars, EntryPcs, OwnPcs, SelfPcs
<1>1. PICK v \in Variables :
              /\ v = cached[t] /\ v \in alive /\ fLock[v] = t
              /\ \A m \in Threads : pc[m] \in NotifyPcs /\ cached[m] = v => m = t
  BY NotifierFacts DEF NotifyPcs
<1>2. PICK e \in Threads :
              /\ e = entry[t] /\ pc[e] \in SelfPcs /\ cached[e] = v /\ fVariable[e] = v
              /\ e \notin EntriesOf(v)
  BY <1>1 DEF CVInv, NotifierIsSound, NotifierOf, Removing, NotifyPcs
<1>3. \A w \in Variables : e \notin EntriesOf(w)
  BY <1>2 DEF CVInv, ListsAreSound
<1>4. CVTypeOK'
  BY <1>2 DEF CVInv, CVTypeOK, NotifyPcs
<1>5. LockIsHeld'
  BY DEF CVInv, CVTypeOK, LockIsHeld, NotifyPcs
<1>6. HashIsSound'
  BY DEF CVInv, CVTypeOK, HashIsSound, LookupPcs, NotifyPcs
<1>7. ListsAreSound'
  BY <1>2, <1>3 DEF CVInv, CVTypeOK, ListsAreSound, EntriesOf
<1>8. EntriesAreTracked'
  BY <1>1, <1>2 DEF CVInv, CVTypeOK, EntriesAreTracked, EntryOf, Taken, EntriesOf
<1>9. NotifierIsSound'
  BY <1>1, <1>2 DEF CVInv, CVTypeOK, NotifierIsSound, NotifierOf, EntriesOf, Removing, NotifyPcs
<1>10. SchedulerLockIsHeld'
  BY DEF CVInv, CVTypeOK, SchedulerLockIsHeld
<1>11. StatusIsSound'
  BY DEF CVInv, CVTypeOK, StatusIsSound, RemovePcs
<1>12. NotifiedReturnsResult'
  BY DEF CVInv, NotifiedReturnsResult
<1>13. /\ pc[t] \notin CountedPcs /\ pc'[t] \notin CountedPcs
       /\ \A u \in Threads \ {t} : pc'[u] = pc[u] /\ cached'[u] = cached[u]
  BY DEF CVInv, CVTypeOK, CountedPcs
<1>14. \A w \in Variables : Counted(w)' = Counted(w)
  BY <1>13, SameCounted
<1>15. CountIsExact'
  BY <1>14 DEF CVInv, CVTypeOK, CountIsExact
<1> QED BY <1>4, <1>5, <1>6, <1>7, <1>8, <1>9, <1>10, <1>11, <1>12, <1>15 DEF CVInv

\* The count says that it has understood.
LEMMA NotifyAckKeeps == ASSUME CVInv, NEW t \in Threads, NotifyAck(t) PROVE CVInv'
<1> USE DEF NotifyAck, Goto, entryVars, varVars, historyVars, EntryPcs, OwnPcs, SelfPcs
<1>1. PICK v \in Variables :
              /\ v = cached[t] /\ v \in alive /\ fLock[v] = t
              /\ \A m \in Threads : pc[m] \in NotifyPcs /\ cached[m] = v => m = t
  BY NotifierFacts DEF NotifyPcs
<1>2. PICK e \in Threads :
              /\ e = entry[t] /\ e \notin EntriesOf(v)
              /\ ~(pc[e] \in SelfPcs /\ cached[e] = v)
  <2>1. fEntriesCount[v] # fEntriesCount[v] - 1
    BY DEF CVInv, CVTypeOK
  <2> QED BY <1>1, <2>1 DEF CVInv, NotifierIsSound, NotifierOf, Removing, NotifyPcs
<1>4. CVTypeOK'
  BY <1>2 DEF CVInv, CVTypeOK, NotifyPcs
<1>5. LockIsHeld'
  BY DEF CVInv, CVTypeOK, LockIsHeld, NotifyPcs
<1>6. HashIsSound'
  BY DEF CVInv, CVTypeOK, HashIsSound, LookupPcs, NotifyPcs
<1>7. ListsAreSound'
  BY DEF CVInv, CVTypeOK, ListsAreSound, EntriesOf
<1>8. EntriesAreTracked'
  BY <1>1, <1>2
  DEF CVInv, CVTypeOK, EntriesAreTracked, EntryOf, Taken, EntriesOf, LockIsHeld, NotifyPcs
<1>9. NotifierIsSound'
  BY <1>1, <1>2 DEF CVInv, CVTypeOK, NotifierIsSound, NotifierOf, EntriesOf, Removing, NotifyPcs
<1>10. SchedulerLockIsHeld'
  BY DEF CVInv, CVTypeOK, SchedulerLockIsHeld
<1>11. StatusIsSound'
  BY DEF CVInv, CVTypeOK, StatusIsSound, RemovePcs
<1>12. NotifiedReturnsResult'
  BY DEF CVInv, NotifiedReturnsResult
<1>13. \A w \in Variables : Counted(w)' = Counted(w)
  <2>1. \A u \in Threads \ {t} : pc'[u] = pc[u] /\ entry'[u] = entry[u]
    BY DEF CVInv, CVTypeOK
  <2>2. pc[t] \notin CountedPcs /\ pc'[t] \notin CountedPcs
    BY DEF CVInv, CVTypeOK, CountedPcs
  <2>3. \A w \in Variables : Removing(w)' = Removing(w)
    BY <2>1, <2>2 DEF Removing, CountedPcs
  <2>4. \A w \in Variables : Notified(w)' = Notified(w)
    BY <2>1, <2>2 DEF Notified, CountedPcs
  <2> QED BY <2>3, <2>4 DEF Counted, EntriesOf
<1>15. CountIsExact'
  BY <1>13 DEF CVInv, CVTypeOK, CountIsExact
<1> QED BY <1>4, <1>5, <1>6, <1>7, <1>8, <1>9, <1>10, <1>11, <1>12, <1>15 DEF CVInv

\* The notifier leaves its result, and from then on holds the scheduler lock.
LEMMA NotifyStatusKeeps == ASSUME CVInv, NEW t \in Threads, NotifyStatus(t) PROVE CVInv'
<1> USE DEF EntryPcs, OwnPcs, SelfPcs
<1>1. PICK v \in Variables :
              /\ v = cached[t] /\ v \in alive /\ fLock[v] = t
              /\ \A m \in Threads : pc[m] \in NotifyPcs /\ cached[m] = v => m = t
  BY NotifierFacts DEF NotifyStatus, NotifyPcs
<1>2. PICK e \in Threads :
              /\ e = entry[t] /\ pc[e] \in OwnPcs /\ fVariable[e] = v /\ ~fThread[e]
              /\ given[e] = NULL /\ e \notin EntriesOf(v)
  BY <1>1 DEF NotifyStatus, CVInv, NotifierIsSound, NotifierOf, NotifyPcs
<1>3. PICK result \in NotifyResults : result = call[t].result
  BY DEF CVInv, CVTypeOK
<1>4. PICK last \in BOOLEAN :
              /\ call' = [call EXCEPT ![t].last = last]
              /\ last => pc[e] = "blocked" /\ wait[e] = Blocked /\ wait'[e] = Blocked
  <2> DEFINE last == fWaitStatus[e] = "waiting" /\ InWaitingState(e)
  <2>1. call' = [call EXCEPT ![t].last = last]
    BY <1>2 DEF NotifyStatus
  <2>2. last => pc[e] = "blocked" /\ wait[e] = Blocked /\ wait'[e] = Blocked
    BY <1>2 DEF NotifyStatus, InWaitingState, thread_is_blocked
  <2> QED BY <2>1, <2>2
<1>5. /\ wait' \in [Threads -> Statuses]
      /\ \A u \in Threads \ {e} : wait'[u] = wait[u]
  BY <1>2, <1>3 DEF NotifyStatus, thread_unblock, CVInv, CVTypeOK, NotifyResults, Results, Statuses
<1>6. /\ pc[t] = "status" /\ pc' = [pc EXCEPT ![t] = "clear"]
      /\ fWaitStatus' = [fWaitStatus EXCEPT ![e] = result]
      /\ given' = [given EXCEPT ![e] = result]
      /\ UNCHANGED <<fThread, fVariable, fLock, fEntries, fEntriesCount, hashed, alive,
                     cached, entry, removedCount, leaving, misled>>
      /\ e # t
  BY <1>2, <1>3 DEF NotifyStatus, Goto, varVars
<1>7. \A n \in Threads : pc[n] \in {"clear", "count"} => entry[n] # e
  BY <1>2 DEF NotifyStatus, SchedulerLockFree
<1>8. CVTypeOK'
  <2>1. call' \in [Threads -> [all : BOOLEAN, result : NotifyResults, last : BOOLEAN]]
    BY <1>4 DEF CVInv, CVTypeOK
  <2>2. fWaitStatus' \in [Threads -> {"added", "waiting"} \cup Results]
    BY <1>3, <1>6 DEF CVInv, CVTypeOK, NotifyResults, Results
  <2>3. given' \in [Threads -> NotifyResults \cup {NULL}]
    BY <1>3, <1>6 DEF CVInv, CVTypeOK
  <2> QED BY <1>5, <1>6, <2>1, <2>2, <2>3 DEF CVInv, CVTypeOK, NotifyPcs
<1>9. LockIsHeld'
  BY <1>6 DEF CVInv, CVTypeOK, LockIsHeld, NotifyPcs
<1>10. HashIsSound'
  <2>1. \A u \in Threads : call'[u].result = call[u].result /\ call'[u].all = call[u].all
    BY <1>4 DEF CVInv, CVTypeOK
  <2> QED BY <1>6, <2>1 DEF CVInv, CVTypeOK, HashIsSound, LookupPcs, NotifyPcs
<1>11. ListsAreSound'
  BY <1>6 DEF CVInv, CVTypeOK, ListsAreSound, EntriesOf
<1>12. EntriesAreTracked'
  BY <1>1, <1>2, <1>3, <1>6, NullFacts
  DEF CVInv, CVTypeOK, EntriesAreTracked, EntryOf, Taken, EntriesOf
<1>13. NotifierIsSound'
  <2>1. \A w \in Variables : Removing(w)' = Removing(w)
    BY <1>6 DEF CVInv, CVTypeOK, Removing
  <2>2. \A u \in Threads \ {t} : pc'[u] = pc[u] /\ call'[u] = call[u]
    BY <1>4, <1>6 DEF CVInv, CVTypeOK
  <2>3. pc'[t] = "clear" /\ call'[t].last = last /\ call'[t].result = result /\ given'[e] = result
    BY <1>2, <1>3, <1>4, <1>6 DEF CVInv, CVTypeOK
  <2>4. \A u \in Threads \ {e} : given'[u] = given[u] /\ wait'[u] = wait[u]
    BY <1>5, <1>6 DEF CVInv, CVTypeOK
  <2> SUFFICES ASSUME NEW n \in Threads, pc'[n] \in NotifyPcs
               PROVE  NotifierOf(n)'
    BY DEF NotifierIsSound, NotifierOf, NotifyPcs
  <2>5. CASE n = t
    BY <1>1, <1>2, <1>3, <1>4, <1>6, <2>2, <2>3, <2>5, NullFacts
    DEF NotifierOf, NotifyPcs, EntriesOf
  <2>6. CASE n # t
    <3>1. NotifierOf(n) /\ cached[n] \in Variables /\ cached[n] # v /\ pc[n] \in NotifyPcs
      BY <1>1, <2>2, <2>6 DEF CVInv, CVTypeOK, NotifierIsSound, HashIsSound
    <3>2. pc[n] \in {"clear", "count", "status"} => entry[n] # e
      BY <1>2, <1>7, <3>1 DEF NotifierOf
    <3> QED BY <1>6, <2>1, <2>2, <2>4, <2>6, <3>1, <3>2 DEF NotifierOf, NotifyPcs, EntriesOf
  <2> QED BY <2>5, <2>6
<1>14. SchedulerLockIsHeld'
  BY <1>2, <1>6, <1>7 DEF CVInv, CVTypeOK, SchedulerLockIsHeld
<1>15. StatusIsSound'
  BY <1>2, <1>3, <1>5, <1>6, NullFacts DEF CVInv, CVTypeOK, StatusIsSound, RemovePcs, NotifyResults
<1>16. NotifiedReturnsResult'
  BY <1>6 DEF CVInv, NotifiedReturnsResult
<1>17. CountIsExact'
  <2>1. \A w \in Variables : Removing(w)' = Removing(w)
    BY <1>6 DEF CVInv, CVTypeOK, Removing
  <2>2. \A w \in Variables : Notified(w)' = Notified(w)
    BY <1>6 DEF CVInv, CVTypeOK, Notified
  <2>3. \A w \in Variables : Counted(w)' = Counted(w)
    BY <1>6, <2>1, <2>2 DEF Counted, EntriesOf
  <2> QED BY <1>6, <2>3 DEF CVInv, CVTypeOK, CountIsExact
<1> QED BY <1>8, <1>9, <1>10, <1>11, <1>12, <1>13, <1>14, <1>15, <1>16, <1>17 DEF CVInv

\* The waiter may go.
LEMMA NotifyClearKeeps == ASSUME CVInv, NEW t \in Threads, NotifyClear(t) PROVE CVInv'
<1> USE DEF NotifyClear, Goto, varVars, callVars, historyVars, EntryPcs, OwnPcs, SelfPcs
<1>1. PICK v \in Variables :
              /\ v = cached[t] /\ v \in alive /\ fLock[v] = t
              /\ \A m \in Threads : pc[m] \in NotifyPcs /\ cached[m] = v => m = t
  BY NotifierFacts DEF NotifyPcs
<1>2. PICK e \in Threads :
              /\ e = entry[t] /\ pc[e] \in OwnPcs /\ fVariable[e] = v /\ ~fThread[e]
              /\ given[e] # NULL /\ e \notin EntriesOf(v)
  BY <1>1, NullFacts DEF CVInv, CVTypeOK, NotifierIsSound, NotifierOf, NotifyPcs
<1>3. \A w \in Variables : e \notin EntriesOf(w)
  BY <1>2 DEF CVInv, ListsAreSound
<1>4. CVTypeOK'
  BY <1>2 DEF CVInv, CVTypeOK, NotifyPcs
<1>5. LockIsHeld'
  BY DEF CVInv, CVTypeOK, LockIsHeld, NotifyPcs
<1>6. HashIsSound'
  BY DEF CVInv, CVTypeOK, HashIsSound, LookupPcs, NotifyPcs
<1>7. ListsAreSound'
  BY <1>2, <1>3 DEF CVInv, CVTypeOK, ListsAreSound, EntriesOf
<1>8. EntriesAreTracked'
  BY <1>1, <1>2 DEF CVInv, CVTypeOK, EntriesAreTracked, EntryOf, Taken, EntriesOf
<1>9. NotifierIsSound'
  BY <1>1, <1>2 DEF CVInv, CVTypeOK, NotifierIsSound, NotifierOf, EntriesOf, Removing, NotifyPcs
<1>10. SchedulerLockIsHeld'
  BY DEF CVInv, CVTypeOK, SchedulerLockIsHeld
<1>11. StatusIsSound'
  BY DEF CVInv, CVTypeOK, StatusIsSound, RemovePcs
<1>12. NotifiedReturnsResult'
  BY DEF CVInv, NotifiedReturnsResult
<1>13. CountIsExact'
  <2>1. \A w \in Variables : Removing(w)' = Removing(w)
    BY DEF CVInv, CVTypeOK, Removing
  <2>2. \A w \in Variables : Notified(w)' = Notified(w)
    BY DEF CVInv, CVTypeOK, Notified
  <2>3. \A w \in Variables : Counted(w)' = Counted(w)
    BY <2>1, <2>2 DEF Counted, EntriesOf
  <2> QED BY <2>3 DEF CVInv, CVTypeOK, CountIsExact
<1> QED BY <1>4, <1>5, <1>6, <1>7, <1>8, <1>9, <1>10, <1>11, <1>12, <1>13 DEF CVInv

\* The entry is counted off and its thread unblocked, the last act of NotifyOne().
LEMMA NotifyCountKeeps == ASSUME CVInv, NEW t \in Threads, NotifyCount(t) PROVE CVInv'
<1> USE DEF EntryPcs, OwnPcs, SelfPcs
<1>1. PICK v \in Variables :
              /\ v = cached[t] /\ v \in alive /\ fLock[v] = t
              /\ \A m \in Threads : pc[m] \in NotifyPcs /\ cached[m] = v => m = t
  BY NotifierFacts DEF NotifyCount, NotifyPcs
<1>2. PICK e \in Threads : e = entry[t] /\ e \notin EntriesOf(v)
  BY <1>1 DEF NotifyCount, CVInv, NotifierIsSound, NotifierOf, NotifyPcs
<1>3. /\ wait' \in [Threads -> Statuses]
      /\ \A u \in Threads \ {e} : wait'[u] = wait[u]
      /\ wait'[e] # wait[e] => given[e] # NULL /\ pc[e] = "blocked"
  <2>1. call[t].result \in Statuses
    BY DEF CVInv, CVTypeOK, NotifyResults, Statuses, Results
  <2>2. CASE call[t].last
    <3>1. pc[e] = "blocked" /\ given[e] # NULL
      BY <1>2, <2>2 DEF NotifyCount, CVInv, NotifierIsSound, NotifierOf
    <3> QED BY <1>2, <2>1, <2>2, <3>1 DEF NotifyCount, thread_unblock, CVInv, CVTypeOK
  <2>3. CASE ~call[t].last
    BY <2>3 DEF NotifyCount, CVInv, CVTypeOK
  <2> QED BY <2>2, <2>3
<1>4. /\ pc[t] = "count"
      /\ fEntriesCount' = [fEntriesCount EXCEPT ![v] = @ - 1]
      /\ entry' = [entry EXCEPT ![t] = NULL]
      /\ UNCHANGED <<fThread, fVariable, fWaitStatus, fEntries, hashed, removedCount,
                     leaving, given, misled>>
  BY <1>1 DEF NotifyCount, entryVars, historyVars
<1>5. \/ /\ pc' = [pc EXCEPT ![t] = "notify"]
         /\ call' = [call EXCEPT ![t].last = FALSE]
         /\ UNCHANGED <<fLock, alive, cached>>
      \/ /\ pc' = [pc EXCEPT ![t] = "idle"]
         /\ call' = [call EXCEPT ![t] = NoCall]
         /\ cached' = [cached EXCEPT ![t] = NULL]
         /\ fLock' = [fLock EXCEPT ![v] = NULL]
         /\ alive' = alive
  <2>1. call[t].result \in NotifyResults /\ (call[t].result # "B_OK" => call[t].all)
    BY <1>4 DEF CVInv, CVTypeOK, HashIsSound, NotifyPcs
  <2> QED BY <1>1, <2>1 DEF NotifyCount, EndNotify, Goto, NotifyResults
<1>6. /\ \A u \in Threads \ {t} : /\ pc'[u] = pc[u] /\ cached'[u] = cached[u]
                                  /\ entry'[u] = entry[u] /\ call'[u] = call[u]
      /\ pc'[t] \in {"notify", "idle"} /\ alive' = alive
      /\ pc'[t] = "notify" => cached'[t] = v /\ fLock'[v] = t
      /\ pc'[t] = "idle" => fLock'[v] = NULL
      /\ \A w \in Variables \ {v} : fLock'[w] = fLock[w]
      /\ pc'[t] = "notify" => call'[t].all = call[t].all /\ call'[t].result = call[t].result
  BY <1>1, <1>4, <1>5 DEF CVInv, CVTypeOK
<1>7. CVTypeOK'
  <2>1. call' \in [Threads -> [all : BOOLEAN, result : NotifyResults, last : BOOLEAN]]
    <3>1. NoCall \in [all : BOOLEAN, result : NotifyResults, last : BOOLEAN]
      BY DEF NoCall, NotifyResults
    <3>2. CASE call' = [call EXCEPT ![t].last = FALSE]
      BY <3>2 DEF CVInv, CVTypeOK
    <3>3. CASE call' = [call EXCEPT ![t] = NoCall]
      BY <3>1, <3>3 DEF CVInv, CVTypeOK
    <3> QED BY <1>5, <3>2, <3>3
  <2>2. pc' \in [Threads -> {"idle", "find_lock", "unpublish_lock"}
                               \cup AddPcs \cup RemovePcs \cup NotifyPcs]
    BY <1>5 DEF CVInv, CVTypeOK, NotifyPcs
  <2>3. /\ cached' \in [Threads -> Variables \cup {NULL}]
        /\ fLock' \in [Variables -> Threads \cup {NULL}]
    BY <1>5 DEF CVInv, CVTypeOK
  <2>4. /\ fEntriesCount' \in [Variables -> Int]
        /\ entry' \in [Threads -> Threads \cup {NULL}]
    BY <1>4 DEF CVInv, CVTypeOK
  <2> QED BY <1>3, <1>4, <1>6, <2>1, <2>2, <2>3, <2>4 DEF CVInv, CVTypeOK
<1>8. LockIsHeld'
  <2> SUFFICES ASSUME NEW w \in Variables, NEW n \in Threads
               PROVE  fLock'[w] = n <=> pc'[n] \in NotifyPcs /\ cached'[n] = w
    BY DEF LockIsHeld
  <2>1. CASE w = v
    BY <1>1, <1>6, <2>1, NullFacts DEF NotifyPcs
  <2>2. CASE w # v /\ n = t
    BY <1>1, <1>4, <1>6, <2>2 DEF CVInv, LockIsHeld, NotifyPcs
  <2>3. CASE w # v /\ n # t
    BY <1>6, <2>3 DEF CVInv, LockIsHeld
  <2> QED BY <2>1, <2>2, <2>3
<1>9. HashIsSound'
  BY <1>1, <1>4, <1>6 DEF CVInv, HashIsSound, LookupPcs, NotifyPcs
<1>10. ListsAreSound'
  <2>1. \A w \in Variables : EntriesOf(w) \subseteq Threads \ {t}
    BY <1>4, QueueMembers DEF CVInv, CVTypeOK, ListsAreSound, EntriesOf
  <2> QED BY <1>4, <1>6, <2>1 DEF CVInv, ListsAreSound, EntriesOf
<1>11. EntriesAreTracked'
  <2>1. \A u, at : "count" \notin at => ~Taken(u, v, at)
    BY <1>1, <1>4 DEF Taken
  <2>2. \A w \in Variables \ {v} : \A u, at : Taken(u, w, at) => Taken(u, w, at)'
    <3>1. \A w \in Variables \ {v} : fLock[w] # t
      BY <1>1 DEF CVInv, LockIsHeld
    <3> QED BY <1>6, <3>1 DEF Taken
  <2>3. \A w \in Variables : EntriesOf(w)' = EntriesOf(w)
    BY <1>4 DEF EntriesOf
  <2> SUFFICES ASSUME NEW u \in Threads PROVE EntryOf(u)'
    BY DEF EntriesAreTracked
  <2>4. EntryOf(u) /\ cached[u] \in Variables \cup {NULL} /\ fVariable[u] \in Variables \cup {NULL}
    BY DEF CVInv, CVTypeOK, EntriesAreTracked
  <2>5. CASE u = t
    BY <1>4, <1>6, <2>4, <2>5 DEF EntryOf
  <2>6. CASE u # t
    BY <1>4, <1>6, <2>1, <2>2, <2>3, <2>4, <2>6 DEF EntryOf
  <2> QED BY <2>5, <2>6
<1>12. NotifierIsSound'
  <2>1. \A w \in Variables : Removing(w)' = Removing(w)
    BY <1>4, <1>6 DEF Removing
  <2>2. \A w \in Variables \ {v} : fEntriesCount'[w] = fEntriesCount[w]
    BY <1>4 DEF CVInv, CVTypeOK
  <2> SUFFICES ASSUME NEW n \in Threads, pc'[n] \in NotifyPcs
               PROVE  NotifierOf(n)'
    BY DEF NotifierIsSound, NotifierOf, NotifyPcs
  <2>3. CASE n = t
    BY <1>6, <2>3 DEF NotifierOf, NotifyPcs
  <2>4. CASE n # t
    <3>1. NotifierOf(n) /\ cached[n] \in Variables /\ cached[n] # v /\ pc[n] \in NotifyPcs
      BY <1>1, <1>6, <2>4 DEF CVInv, CVTypeOK, NotifierIsSound, HashIsSound
    <3>2. pc[n] \in {"clear", "count"} => entry[n] # e
      BY <1>2, <1>4, <2>4 DEF CVInv, SchedulerLockIsHeld
    <3> QED BY <1>3, <1>4, <1>6, <2>1, <2>2, <2>4, <3>1, <3>2 DEF NotifierOf, NotifyPcs, EntriesOf
  <2> QED BY <2>3, <2>4
<1>13. SchedulerLockIsHeld'
  BY <1>6 DEF CVInv, SchedulerLockIsHeld
<1>14. StatusIsSound'
  BY <1>2, <1>3, <1>4, <1>6 DEF CVInv, StatusIsSound, RemovePcs
<1>15. NotifiedReturnsResult'
  BY <1>4 DEF CVInv, NotifiedReturnsResult
<1>16. CountIsExact'
  <2>1. \A w \in Variables : Removing(w)' = Removing(w)
    BY <1>4, <1>6 DEF Removing
  <2>2. \A w \in Variables \ {v} : Notified(w)' = Notified(w)
    BY <1>1, <1>4, <1>6 DEF Notified
  <2>3. Notified(v) = {e}
    BY <1>1, <1>2, <1>4 DEF Notified, NotifyPcs
  <2>4. Notified(v)' = {}
    BY <1>1, <1>6 DEF Notified, NotifyPcs
  <2>5. e \notin Removing(v)
    BY <1>1, <1>2, <1>4 DEF CVInv, EntriesAreTracked, EntryOf, Removing, Taken
  <2>6. Counted(v)' = Counted(v) \ {e} /\ e \in Counted(v)
    BY <1>2, <1>4, <2>1, <2>3, <2>4, <2>5 DEF Counted, EntriesOf
  <2>7. \A w \in Variables \ {v} : Counted(w)' = Counted(w)
    BY <1>4, <2>1, <2>2 DEF Counted, EntriesOf
  <2> QED BY <1>1, <1>4, <1>6, <2>6, <2>7, CountDown
<1> QED BY <1>7, <1>8, <1>9, <1>10, <1>11, <1>12, <1>13, <1>14, <1>15, <1>16 DEF CVInv

-------------------------------------------------------------------------------
(* Condition variables as seen from the lock, and the other way round. *)

\* Whatever a thread does in condition_variable.cpp, no other thread moves, and
\* no wait.status but of threads that are in there changes.
CVFrame(t) ==
    /\ \A u \in Threads \ {t} : pc'[u] = pc[u]
    /\ \A u \in Threads : pc[u] = "idle" => wait'[u] = wait[u]

\* A call that has begun goes on, or returns.
LEMMA CVStepKeeps ==
    ASSUME CVInv, NEW t \in Threads, CVStep(t)
    PROVE  /\ CVInv' /\ CVFrame(t)
           /\ pc[t] \notin {"idle", "added"}
           /\ pc[t] \in EntryPcs => pc'[t] \in EntryPcs \cup {"idle"}
           /\ pc[t] \notin EntryPcs \cup {"add_lock"} => pc'[t] \notin EntryPcs \cup {"add_lock"}
<1> USE DEF CVFrame, Goto, EntryPcs, OwnPcs, SelfPcs
<1>1. CASE AddFound(t)
  <2>1. PICK v \in Variables : v = cached[t] /\ v \in alive
    BY <1>1 DEF AddFound, CVInv, CVTypeOK, HashIsSound, LookupPcs
  <2>2. CVInv'
    BY <1>1, <2>1, AddLockedKeeps DEF AddFound
  <2> QED BY <1>1, <2>2 DEF AddFound, AddLocked, CVInv, CVTypeOK
<1>2. CASE WaitReturnEarly(t)
  BY <1>2, WaitReturnEarlyKeeps DEF WaitReturnEarly, ReturnStatus, CVInv, CVTypeOK
<1>3. CASE WaitPrepare(t)
  BY <1>3, WaitPrepareKeeps DEF WaitPrepare, thread_prepare_to_block, CVInv, CVTypeOK
<1>4. CASE WaitBlock(t)
  BY <1>4, WaitBlockKeeps DEF WaitBlock, CVInv, CVTypeOK
<1>5. CASE WaitWake(t)
  <2>1. CVInv'
    BY <1>5, LeaveKeeps DEF WaitWake
  <2> QED BY <1>5, <2>1 DEF WaitWake, LeaveVariable, CVInv, CVTypeOK
<1>6. CASE RemoveRead(t)
  BY <1>6, RemoveReadKeeps DEF RemoveRead, CVInv, CVTypeOK
<1>7. CASE RemoveExchange(t)
  BY <1>7, RemoveExchangeKeeps DEF RemoveExchange, CVInv, CVTypeOK
<1>8. CASE RemoveSpin(t)
  BY <1>8, RemoveSpinKeeps DEF RemoveSpin, ReturnRemoved, ReturnStatus, CVInv, CVTypeOK
<1>9. CASE RemoveCheck(t)
  BY <1>9, RemoveCheckKeeps
  DEF RemoveCheck, StayInRemove, ReturnRemoved, ReturnStatus, CVInv, CVTypeOK
<1>10. CASE RemoveTry(t)
  <2>1. CVInv'
    BY <1>10, RemoveTryKeeps
  <2>2. StayInRemove(t, "loop") \/ ReturnRemoved(t)
    BY <1>10 DEF RemoveTry
  <2> QED BY <1>10, <2>1, <2>2
          DEF RemoveTry, StayInRemove, ReturnRemoved, ReturnStatus, CVInv, CVTypeOK
<1>11. CASE NotifyFound(t)
  BY <1>11, NotifyFoundKeeps DEF NotifyFound, BeginNotify, CVInv, CVTypeOK
<1>12. CASE UnpublishLocked(t)
  BY <1>12, UnpublishLockedKeeps DEF UnpublishLocked, BeginNotify, CVInv, CVTypeOK
<1>13. CASE NotifyEmpty(t)
  BY <1>13, NotifyEmptyKeeps DEF NotifyEmpty, EndNotify, CVInv, CVTypeOK
<1>14. CASE NotifyNext(t)
  BY <1>14, NotifyNextKeeps DEF NotifyNext, CVInv, CVTypeOK
<1>15. CASE NotifyClearRemoved(t)
  BY <1>15, NotifyClearRemovedKeeps DEF NotifyClearRemoved, CVInv, CVTypeOK
<1>16. CASE NotifyAck(t)
  BY <1>16, NotifyAckKeeps DEF NotifyAck, CVInv, CVTypeOK
<1>17. CASE NotifyStatus(t)
  <2>1. \A u \in Threads : pc[u] = "idle" => u # entry[t]
    BY <1>17 DEF NotifyStatus, CVInv, NotifierIsSound, NotifierOf
  <2>2. \A u \in Threads : u # entry[t] => wait'[u] = wait[u]
    BY <1>17 DEF NotifyStatus, thread_unblock, CVInv, CVTypeOK
  <2> QED BY <1>17, <2>1, <2>2, NotifyStatusKeeps DEF NotifyStatus, CVInv, CVTypeOK
<1>18. CASE NotifyClear(t)
  BY <1>18, NotifyClearKeeps DEF NotifyClear, CVInv, CVTypeOK
<1>19. CASE NotifyCount(t)
  <2>1. \A u \in Threads : pc[u] = "idle" => u # entry[t] \/ ~call[t].last
    BY <1>19 DEF NotifyCount, CVInv, NotifierIsSound, NotifierOf
  <2>2. \A u \in Threads : u # entry[t] \/ ~call[t].last => wait'[u] = wait[u]
    BY <1>19 DEF NotifyCount, thread_unblock, CVInv, CVTypeOK
  <2> QED BY <1>19, <2>1, <2>2, NotifyCountKeeps DEF NotifyCount, EndNotify, CVInv, CVTypeOK
<1> QED BY <1>1, <1>2, <1>3, <1>4, <1>5, <1>6, <1>7, <1>8, <1>9, <1>10, <1>11, <1>12, <1>13,
           <1>14, <1>15, <1>16, <1>17, <1>18, <1>19 DEF CVStep

LEMMA UseEntryFrame ==
    ASSUME CVInv, NEW t \in Threads, UseEntry(t)
    PROVE  CVInv' /\ CVFrame(t) /\ pc[t] = "added" /\ pc'[t] \in EntryPcs \cup {"idle"}
<1> USE DEF CVFrame, Goto, EntryPcs, OwnPcs, SelfPcs
<1>1. CASE WaitNotified(t)
  BY <1>1, UseEntryKeeps DEF WaitNotified, ReturnStatus, CVInv, CVTypeOK
<1>2. CASE WaitImmediate(t)
  BY <1>2, UseEntryKeeps DEF WaitImmediate, LeaveVariable, CVInv, CVTypeOK
<1>3. CASE Wait(t)
  BY <1>3, UseEntryKeeps DEF Wait, CVInv, CVTypeOK
<1>4. CASE Destroy(t)
  BY <1>4, UseEntryKeeps DEF Destroy, LeaveVariable, ReturnStatus, CVInv, CVTypeOK
<1> QED BY <1>1, <1>2, <1>3, <1>4 DEF UseEntry

LEMMA AddCallKeeps ==
    ASSUME CVInv, NEW t \in Threads, AddCall(t)
    PROVE  CVInv' /\ CVFrame(t) /\ pc[t] = "idle"
<1> USE DEF CVFrame, Goto
<1>1. PICK v \in Variables : Add(t, v) \/ AddLookup(t, v)
  BY DEF AddCall
<1>2. CASE Add(t, v)
  <2>1. v \in alive
    BY <1>2 DEF Add, CVInv, HashIsSound
  <2>2. CVInv'
    BY <1>2, <2>1, AddLockedKeeps DEF Add
  <2> QED BY <1>2, <2>2 DEF Add, AddLocked, CVInv, CVTypeOK
<1>3. CASE AddLookup(t, v)
  BY <1>3, AddLookupKeeps DEF AddLookup, CVInv, CVTypeOK
<1> QED BY <1>1, <1>2, <1>3

LEMMA NotifyCallKeeps ==
    ASSUME CVInv, NEW t \in Threads, NotifyCall(t)
    PROVE  /\ CVInv' /\ CVFrame(t) /\ pc[t] = "idle"
           /\ pc'[t] \notin EntryPcs \cup {"add_lock"}
<1> USE DEF CVFrame, Goto, EntryPcs, OwnPcs, SelfPcs
<1>1. CASE \E v \in Variables : Publish(t, v)
  BY <1>1, PublishKeeps DEF Publish, CVInv, CVTypeOK
<1>2. CASE \E v \in Variables : Unpublish(t, v)
  BY <1>2, UnpublishKeeps DEF Unpublish, CVInv, CVTypeOK
<1>3. CASE \E v \in Variables : \E all \in BOOLEAN : Notify(t, v, all)
  <2>1. CVInv'
    BY <1>3, NotifyKeeps
  <2>2. pc[t] = "idle" /\ pc' = [pc EXCEPT ![t] = "notify"] /\ wait' = wait
    BY <1>3 DEF Notify, BeginNotify
  <2> QED BY <2>1, <2>2 DEF CVInv, CVTypeOK
<1>4. CASE \E v \in Variables : \E all \in BOOLEAN : NotifyLookup(t, v, all)
  BY <1>4, NotifyLookupKeeps DEF NotifyLookup, CVInv, CVTypeOK
<1> QED BY <1>1, <1>2, <1>3, <1>4 DEF NotifyCall

\* The lock touches the wait.status only of threads that are not in a call.
LEMMA LockFrame ==
    ASSUME CVInv, UNCHANGED cvRest, wait' \in [Threads -> Statuses],
           \A u \in Threads : pc[u] # "idle" => wait'[u] = wait[u]
    PROVE  CVInv'
<1> USE DEF cvRest, entryVars, varVars, callVars, historyVars
<1>1. CVTypeOK'
  BY DEF CVInv, CVTypeOK
<1>2. LockIsHeld' /\ HashIsSound' /\ SchedulerLockIsHeld' /\ NotifiedReturnsResult'
  BY DEF CVInv, LockIsHeld, HashIsSound, SchedulerLockIsHeld, NotifiedReturnsResult
<1>3. ListsAreSound' /\ EntriesAreTracked'
  BY DEF CVInv, ListsAreSound, EntriesAreTracked, EntryOf, Taken, EntriesOf
<1>4. NotifierIsSound'
  BY DEF CVInv, NotifierIsSound, NotifierOf, EntriesOf, Removing, NotifyPcs
<1>5. StatusIsSound'
  BY DEF CVInv, StatusIsSound, RemovePcs
<1>6. \A w \in Variables : Counted(w)' = Counted(w)
  BY DEF Counted, EntriesOf, Removing, Notified
<1>7. CountIsExact'
  BY <1>6 DEF CVInv, CVTypeOK, CountIsExact
<1> QED BY <1>1, <1>2, <1>3, <1>4, <1>5, <1>7 DEF CVInv

\* What a thread does in condition_variable.cpp leaves the lock as it is.
LEMMA CVKeepsLock ==
    ASSUME LockInv, NEW t \in Threads, CVTypeOK', CVFrame(t), UNCHANGED lockVars, StageOf(t)'
    PROVE  LockInv'
<1> USE DEF lockVars
<1>1. TypeOK'
  BY DEF LockInv, TypeOK
<1>2. StageIsSound'
  BY DEF LockInv, StageIsSound, StageOf, CVFrame
<1>3. HolderIsSound' /\ LockIsRestored'
  BY DEF LockInv, HolderIsSound, LockIsRestored
<1>4. \A u \in Threads : stage[u] = "lock_blocked" => wait'[u] = wait[u]
  BY DEF LockInv, StageIsSound, StageOf, CVFrame
<1>5. ToSet(waiters) \subseteq Threads
  BY QueueMembers, MonitorAssumption DEF LockInv, TypeOK
<1>6. HandOffReaches'
  BY <1>4, <1>5 DEF LockInv, HandOffReaches, thread_is_blocked
<1> QED BY <1>1, <1>2, <1>3, <1>6 DEF LockInv

-------------------------------------------------------------------------------
(* The steps of the lock. *)

\* A thread that has nothing to do with the lock takes it, or queues.
LEMMA MutexLockKeeps ==
    ASSUME IndInv, NEW t \in Lockers, NEW levels \in 1..MaxRecursion,
           pc[t] = "idle", holder # t, t \notin ToSet(waiters), stage[t] # "lock_blocked",
           depth' \in [Threads -> 0..MaxRecursion], depth'[t] = levels,
           \A u \in Threads \ {t} : depth'[u] = depth[u],
           mutex_lock(t, levels), UNCHANGED cvRest
    PROVE  IndInv'
<1>1. t \in Threads /\ t # NULL
  BY MonitorAssumption, NullFacts
<1> USE <1>1 DEF mutex_lock, Stage, cvRest
<1>2. /\ wait' \in [Threads -> Statuses]
      /\ \A u \in Threads \ {t} : wait'[u] = wait[u]
  BY DEF thread_prepare_to_block, Statuses, IndInv, CVInv, CVTypeOK
<1>3. CVInv'
  BY <1>2, LockFrame DEF IndInv
<1>4. \A u \in Threads \ {t} : stage'[u] = stage[u] /\ saved'[u] = saved[u]
  BY DEF IndInv, LockInv, TypeOK
<1>5. CASE holder = NULL
  <2> USE <1>5
  <2>1. recursion = 0 /\ waiters = <<>>
    BY DEF IndInv, LockInv, HolderIsSound
  <2>2. /\ holder' = t /\ recursion' = levels /\ stage'[t] = "out"
        /\ waiters' = <<>> /\ wait' = wait /\ saved'[t] = 0
    BY <2>1 DEF IndInv, LockInv, TypeOK
  <2>3. TypeOK'
    <3>1. CVTypeOK'
      BY <1>3 DEF CVInv
    <3>2. stage' \in [Threads -> {"out", "unlock", "waiting", "lock_blocked"}]
      BY DEF IndInv, LockInv, TypeOK
    <3>3. saved' \in [Threads -> 0..MaxRecursion]
      <4>1. 0 \in 0..MaxRecursion
        BY MonitorAssumption
      <4> QED BY <4>1 DEF IndInv, LockInv, TypeOK
    <3> QED BY <2>2, <3>1, <3>2, <3>3, EmptyQueue DEF TypeOK
  <2>4. StageIsSound'
    BY <1>4, <2>2 DEF IndInv, LockInv, StageIsSound, StageOf, EntryPcs, OwnPcs, SelfPcs
  <2>5. HolderIsSound'
    BY <2>2, EmptyQueue DEF HolderIsSound
  <2>6. \A u \in Threads \ {t} : ~(stage[u] \in {"out", "unlock"} /\ depth[u] > 0)
    BY NullFacts DEF IndInv, LockInv, LockIsRestored
  <2>7. LockIsRestored'
    BY <1>4, <2>2, <2>6 DEF LockIsRestored
  <2>8. \A u \in Threads : stage[u] # "lock_blocked"
    BY <2>1, EmptyQueue, NullFacts DEF IndInv, LockInv, HandOffReaches
  <2>9. HandOffReaches'
    BY <1>4, <2>2, <2>8, EmptyQueue DEF HandOffReaches
  <2> QED BY <1>3, <2>3, <2>4, <2>5, <2>7, <2>9 DEF IndInv, LockInv
<1>6. CASE holder # NULL
  <2> USE <1>6
  <2>1. /\ waiters \in Seq(Lockers) /\ IsInjective(waiters) /\ waiters' = Append(waiters, t)
        /\ stage'[t] = "lock_blocked" /\ saved'[t] = levels /\ wait'[t] = Blocked
        /\ holder' = holder /\ recursion' = recursion
    BY DEF IndInv, LockInv, TypeOK, CVTypeOK, thread_prepare_to_block
  <2>2. /\ waiters' \in Seq(Lockers) /\ IsInjective(waiters')
        /\ ToSet(waiters') = ToSet(waiters) \cup {t}
    BY <2>1, AppendFacts
  <2>3. TypeOK'
    BY <1>3, <2>1, <2>2 DEF CVInv, IndInv, LockInv, TypeOK
  <2>4. StageIsSound'
    BY <1>4, <2>1 DEF IndInv, LockInv, StageIsSound, StageOf
  <2>5. HolderIsSound'
    <3>1. holder \in Threads \ {t}
      BY MonitorAssumption DEF IndInv, LockInv, TypeOK
    <3> QED BY <1>4, <2>1, <2>2, <3>1 DEF IndInv, LockInv, HolderIsSound
  <2>6. LockIsRestored'
    BY <1>4, <2>1 DEF IndInv, LockInv, LockIsRestored
  <2>7. HandOffReaches'
    <3>1. ToSet(waiters) \subseteq Threads \ {t}
      BY QueueMembers, MonitorAssumption, <2>1
    <3> QED BY <1>2, <1>4, <2>1, <2>2, <3>1
            DEF IndInv, LockInv, HandOffReaches, thread_is_blocked
  <2> QED BY <1>3, <2>3, <2>4, <2>5, <2>6, <2>7 DEF IndInv, LockInv
<1> QED BY <1>5, <1>6

\* The holder gives the lock up, to the head of the queue if there is one.
LEMMA MutexUnlockKeeps ==
    ASSUME IndInv, NEW t \in Lockers, holder = t, mutex_unlock(t), UNCHANGED cvRest,
           recursion' = 0, stage' \in [Threads -> {"out", "unlock", "waiting", "lock_blocked"}],
           saved' \in [Threads -> 0..MaxRecursion], depth' \in [Threads -> 0..MaxRecursion],
           \A u \in Threads \ {t} :
              stage'[u] = stage[u] /\ saved'[u] = saved[u] /\ depth'[u] = depth[u],
           stage'[t] = "waiting" \/ (stage'[t] = "out" /\ depth'[t] = 0),
           StageOf(t)'
    PROVE  IndInv'
<1>1. t \in Threads /\ t # NULL
  BY MonitorAssumption, NullFacts
<1> USE <1>1 DEF cvRest
<1>2. StageIsSound'
  BY DEF IndInv, LockInv, StageIsSound, StageOf
<1>3. \A u \in Threads \ {t} : ~(stage[u] \in {"out", "unlock"} /\ depth[u] > 0)
  BY DEF IndInv, LockInv, LockIsRestored
<1>4. LockIsRestored'
  BY <1>3 DEF LockIsRestored
<1>5. \A u \in Threads \ {t} : stage[u] = "lock_blocked" => u \in ToSet(waiters)
  BY DEF IndInv, LockInv, HandOffReaches
<1>6. ToSet(waiters) \subseteq Threads \ {t}
  BY QueueMembers, MonitorAssumption DEF IndInv, LockInv, TypeOK, HolderIsSound
<1>7. CASE waiters = <<>>
  <2>1. holder' = NULL /\ wait' = wait /\ waiters' = <<>>
    BY <1>7 DEF mutex_unlock
  <2>2. CVInv'
    BY <2>1, LockFrame DEF IndInv, CVInv, CVTypeOK
  <2>3. TypeOK'
    BY <2>1, <2>2, EmptyQueue, MonitorAssumption DEF CVInv, IndInv, LockInv, TypeOK
  <2>4. HolderIsSound'
    BY <2>1 DEF HolderIsSound
  <2>5. HandOffReaches'
    BY <1>5, <1>7, <2>1, EmptyQueue DEF HandOffReaches
  <2> QED BY <1>2, <1>4, <2>2, <2>3, <2>4, <2>5 DEF IndInv, LockInv
<1>8. CASE waiters # <<>>
  <2>1. PICK h : h = Head(waiters)
    OBVIOUS
  <2>2. /\ h \in ToSet(waiters) /\ Tail(waiters) \in Seq(Lockers)
        /\ ToSet(Tail(waiters)) = ToSet(waiters) \ {h} /\ IsInjective(Tail(waiters))
        /\ h \in Lockers
    BY <1>8, <2>1, TailFacts DEF IndInv, LockInv, TypeOK
  <2>3. h \in Threads \ {t} /\ stage[h] = "lock_blocked" /\ wait[h] = Blocked /\ pc[h] = "idle"
    BY <1>6, <2>2
    DEF IndInv, LockInv, HandOffReaches, StageIsSound, StageOf, thread_is_blocked
  <2>4. holder' = h /\ waiters' = Tail(waiters) /\ wait' = [wait EXCEPT ![h] = "B_OK"]
    BY <1>8, <2>1, <2>3 DEF mutex_unlock, thread_unblock, thread_is_blocked
  <2>5. /\ wait' \in [Threads -> Statuses] /\ wait'[h] = "B_OK"
        /\ \A u \in Threads \ {h} : wait'[u] = wait[u]
    BY <2>3, <2>4 DEF IndInv, CVInv, CVTypeOK, Statuses, Results
  <2>6. CVInv'
    BY <2>3, <2>5, LockFrame DEF IndInv
  <2>7. TypeOK'
    BY <2>2, <2>4, <2>6, MonitorAssumption DEF CVInv, IndInv, LockInv, TypeOK
  <2>8. HolderIsSound'
    BY <2>2, <2>3, <2>4, NullFacts DEF HolderIsSound, IndInv, LockInv, StageIsSound, StageOf
  <2>9. HandOffReaches'
    BY <1>5, <1>6, <2>2, <2>3, <2>4, <2>5
    DEF IndInv, LockInv, HandOffReaches, thread_is_blocked, Blocked
  <2> QED BY <1>2, <1>4, <2>6, <2>7, <2>8, <2>9 DEF IndInv, LockInv
<1> QED BY <1>7, <1>8

\* recursive_lock_lock(), recursive_lock_trylock() and recursive_lock_unlock().
LEMMA LockCallsKeep ==
    ASSUME IndInv, NEW t \in Threads,
           recursive_lock_lock(t) \/ recursive_lock_trylock(t) \/ recursive_lock_unlock(t)
    PROVE  IndInv'
<1>1. /\ t \in Lockers /\ stage[t] = "out" /\ pc[t] = "idle"
      /\ depth[t] \in 0..MaxRecursion /\ depth \in [Threads -> 0..MaxRecursion]
      /\ recursion \in 0..MaxRecursion /\ MaxRecursion \in Nat \ {0}
  BY MonitorAssumption DEF recursive_lock_lock, recursive_lock_trylock, recursive_lock_unlock,
     Outside, IndInv, LockInv, TypeOK
<1>2. /\ depth[t] > 0 => holder = t /\ recursion = depth[t]
      /\ holder = t => depth[t] > 0
      /\ t \notin ToSet(waiters)
  BY <1>1, MonitorAssumption, NullFacts
  DEF IndInv, LockInv, LockIsRestored, HolderIsSound, HandOffReaches
\* Locking again what one has ...
<1>3. ASSUME holder = t, UNCHANGED <<cvRest, wait, waiters, stage, saved, holder>>,
             NEW d \in 1..MaxRecursion, recursion' = d, depth' = [depth EXCEPT ![t] = d]
      PROVE  IndInv'
  <2>1. CVInv'
    BY <1>3, LockFrame DEF IndInv, CVInv, CVTypeOK
  <2>2. /\ depth' \in [Threads -> 0..MaxRecursion] /\ depth'[t] = d
        /\ \A u \in Threads \ {t} : depth'[u] = depth[u]
    BY <1>1, <1>3
  <2>3. TypeOK'
    BY <1>1, <1>3, <2>1, <2>2 DEF CVInv, IndInv, LockInv, TypeOK
  <2>4. StageIsSound'
    BY <1>1, <1>3, <2>2
    DEF IndInv, LockInv, StageIsSound, StageOf, cvRest, EntryPcs, OwnPcs, SelfPcs
  <2>5. HolderIsSound'
    BY <1>1, <1>3, <2>2, NullFacts DEF IndInv, LockInv, HolderIsSound
  <2>6. LockIsRestored' /\ HandOffReaches'
    BY <1>1, <1>3, <2>2 DEF IndInv, LockInv, LockIsRestored, HandOffReaches
  <2> QED BY <2>1, <2>3, <2>4, <2>5, <2>6 DEF IndInv, LockInv
\* ... and locking what one has not.
<1>4. ASSUME holder # t, mutex_lock(t, 1), UNCHANGED cvRest, depth' = [depth EXCEPT ![t] = @ + 1]
      PROVE  IndInv'
  <2>1. depth[t] = 0
    BY <1>1, <1>2, <1>4
  <2>2. /\ depth' \in [Threads -> 0..MaxRecursion] /\ depth'[t] = 1
        /\ \A u \in Threads \ {t} : depth'[u] = depth[u]
    BY <1>1, <1>4, <2>1
  <2> QED BY <1>1, <1>2, <1>4, <2>2, MutexLockKeeps
<1>5. CASE recursive_lock_lock(t)
  <2>1. CASE holder = t
    <3>1. /\ depth[t] + 1 \in 1..MaxRecursion /\ recursion' = depth[t] + 1
          /\ depth' = [depth EXCEPT ![t] = depth[t] + 1]
      BY <1>1, <1>2, <1>5, <2>1 DEF recursive_lock_lock
    <3> QED BY <1>3, <1>5, <2>1, <3>1 DEF recursive_lock_lock
  <2>2. CASE holder # t
    BY <1>4, <1>5, <2>2 DEF recursive_lock_lock
  <2> QED BY <2>1, <2>2
<1>6. CASE recursive_lock_trylock(t)
  <2>1. CASE holder = t
    <3>1. /\ depth[t] + 1 \in 1..MaxRecursion /\ recursion' = depth[t] + 1
          /\ depth' = [depth EXCEPT ![t] = depth[t] + 1]
      BY <1>1, <1>2, <1>6, <2>1 DEF recursive_lock_trylock
    <3> QED BY <1>3, <1>6, <2>1, <3>1 DEF recursive_lock_trylock
  <2>2. CASE holder # t
    <3>1. stage = [stage EXCEPT ![t] = "out"] /\ saved = [saved EXCEPT ![t] = 0]
      BY <1>1 DEF IndInv, LockInv, TypeOK, StageIsSound, StageOf
    <3>2. mutex_lock(t, 1)
      BY <1>6, <2>2, <3>1 DEF recursive_lock_trylock, mutex_lock, Stage
    <3> QED BY <1>4, <1>6, <2>2, <3>2 DEF recursive_lock_trylock
  <2> QED BY <2>1, <2>2
<1>7. CASE recursive_lock_unlock(t)
  <2>1. holder = t /\ recursion = depth[t] /\ depth[t] > 0
    BY <1>1, <1>2, <1>7 DEF recursive_lock_unlock
  <2>2. CASE recursion = 1
    <3>1. /\ depth' \in [Threads -> 0..MaxRecursion] /\ depth'[t] = 0
          /\ \A u \in Threads \ {t} : depth'[u] = depth[u]
      BY <1>1, <1>7, <2>1, <2>2 DEF recursive_lock_unlock
    <3>2. /\ UNCHANGED <<cvRest, stage, saved>> /\ mutex_unlock(t) /\ recursion' = 0
      BY <1>7, <2>2 DEF recursive_lock_unlock
    <3>3. StageOf(t)'
      BY <1>1, <3>1, <3>2 DEF IndInv, LockInv, StageIsSound, StageOf, cvRest
    <3>4. /\ stage' \in [Threads -> {"out", "unlock", "waiting", "lock_blocked"}]
          /\ saved' \in [Threads -> 0..MaxRecursion]
      BY <3>2 DEF IndInv, LockInv, TypeOK
    <3> QED BY <1>1, <2>1, <3>1, <3>2, <3>3, <3>4, MutexUnlockKeeps
  <2>3. CASE recursion # 1
    <3>1. depth[t] - 1 \in 1..MaxRecursion
      BY <1>1, <2>1, <2>3
    <3> QED BY <1>3, <1>7, <2>1, <2>3, <3>1 DEF recursive_lock_unlock
  <2> QED BY <2>2, <2>3
<1> QED BY <1>5, <1>6, <1>7

\* Who is unblocked after it queued has been handed the lock.
LEMMA LockBlockReturnKeeps ==
    ASSUME IndInv, NEW t \in Threads, LockBlockReturn(t) PROVE IndInv'
<1> USE DEF LockBlockReturn, Stage
<1>1. /\ t \notin ToSet(waiters) /\ holder = t /\ depth[t] > 0 /\ saved[t] = depth[t]
      /\ pc[t] = "idle" /\ t \in Lockers
  BY DEF IndInv, LockInv, HandOffReaches, StageIsSound, StageOf
<1>2. recursion = 0 /\ depth[t] \in 0..MaxRecursion
  BY <1>1 DEF IndInv, LockInv, HolderIsSound, TypeOK
<1>3. /\ recursion' = depth[t] /\ stage'[t] = "out" /\ saved'[t] = 0
      /\ \A u \in Threads \ {t} : stage'[u] = stage[u] /\ saved'[u] = saved[u]
  BY <1>1, <1>2 DEF IndInv, LockInv, TypeOK
<1>4. CVInv'
  BY LockFrame DEF IndInv, CVInv, CVTypeOK
<1>5. TypeOK'
  <2>1. 0 \in 0..MaxRecursion
    BY MonitorAssumption
  <2> QED BY <1>2, <1>3, <1>4, <2>1 DEF CVInv, IndInv, LockInv, TypeOK
<1>6. StageIsSound'
  BY <1>1, <1>3 DEF IndInv, LockInv, StageIsSound, StageOf, cvRest, EntryPcs, OwnPcs, SelfPcs
<1>7. HolderIsSound'
  BY <1>1, <1>3, NullFacts DEF IndInv, LockInv, HolderIsSound
<1>8. LockIsRestored'
  BY <1>1, <1>3 DEF IndInv, LockInv, LockIsRestored
<1>9. HandOffReaches'
  <2>1. ToSet(waiters) \subseteq Threads
    BY QueueMembers, MonitorAssumption DEF IndInv, LockInv, TypeOK
  <2> QED BY <1>1, <1>3, <2>1 DEF IndInv, LockInv, HandOffReaches
<1> QED BY <1>4, <1>5, <1>6, <1>7, <1>8, <1>9 DEF IndInv, LockInv

\* Wait(lock): the entry is added with the lock held, ...
LEMMA WaitAddKeeps == ASSUME IndInv, NEW t \in Threads, WaitAdd(t) PROVE IndInv'
<1> USE DEF WaitAdd, Outside, Stage
<1>1. AddCall(t)
  BY DEF AddCall
<1>2. CVInv' /\ CVFrame(t)
  BY <1>1, AddCallKeeps DEF IndInv
<1>3. pc'[t] = "added"
  BY DEF Add, AddLocked, Goto, IndInv, CVInv, CVTypeOK
<1>4. stage'[t] = "unlock" /\ \A u \in Threads \ {t} : stage'[u] = stage[u]
  BY DEF IndInv, LockInv, TypeOK
<1>5. TypeOK'
  BY <1>2 DEF CVInv, IndInv, LockInv, TypeOK
<1>6. StageIsSound'
  BY <1>2, <1>3, <1>4 DEF IndInv, LockInv, StageIsSound, StageOf, CVFrame
<1>7. LockIsRestored'
  BY <1>4 DEF IndInv, LockInv, LockIsRestored
<1>8. HolderIsSound'
  <2>1. holder = t
    BY DEF IndInv, LockInv, LockIsRestored
  <2> QED BY <1>4, <2>1 DEF IndInv, LockInv, HolderIsSound
<1>9. HandOffReaches'
  <2>1. ToSet(waiters) \subseteq Threads
    BY QueueMembers, MonitorAssumption DEF IndInv, LockInv, TypeOK
  <2>2. \A u \in Threads : stage[u] = "lock_blocked" => u # t /\ wait'[u] = wait[u]
    BY <1>2 DEF IndInv, LockInv, StageIsSound, StageOf, CVFrame
  <2> QED BY <1>4, <2>1, <2>2 DEF IndInv, LockInv, HandOffReaches, thread_is_blocked
<1> QED BY <1>2, <1>5, <1>6, <1>7, <1>8, <1>9 DEF IndInv, LockInv

\* ... the lock is given up however often it was taken, ...
LEMMA WaitUnlockKeeps == ASSUME IndInv, NEW t \in Threads, WaitUnlock(t) PROVE IndInv'
<1> USE DEF WaitUnlock, Stage
<1>1. /\ depth[t] > 0 /\ t \in Lockers /\ pc[t] = "added" /\ holder = t /\ recursion = depth[t]
  BY DEF IndInv, LockInv, StageIsSound, StageOf, LockIsRestored
<1>2. /\ stage' \in [Threads -> {"out", "unlock", "waiting", "lock_blocked"}]
      /\ saved' \in [Threads -> 0..MaxRecursion] /\ depth' \in [Threads -> 0..MaxRecursion]
      /\ \A u \in Threads \ {t} :
            stage'[u] = stage[u] /\ saved'[u] = saved[u] /\ depth'[u] = depth[u]
      /\ stage'[t] = "waiting" /\ saved'[t] = depth[t] /\ depth'[t] = depth[t]
  BY <1>1 DEF IndInv, LockInv, TypeOK
<1>3. StageOf(t)'
  BY <1>1, <1>2 DEF StageOf, cvRest, EntryPcs, OwnPcs
<1> QED BY <1>1, <1>2, <1>3, MutexUnlockKeeps

\* ... and taken again as often.
LEMMA WaitRelockKeeps == ASSUME IndInv, NEW t \in Threads, WaitRelock(t) PROVE IndInv'
<1> USE DEF WaitRelock
<1>1. /\ depth[t] > 0 /\ t \in Lockers /\ saved[t] = depth[t]
      /\ depth \in [Threads -> 0..MaxRecursion] /\ depth[t] \in 1..MaxRecursion
  BY DEF IndInv, LockInv, StageIsSound, StageOf, TypeOK
<1>2. holder # t /\ t \notin ToSet(waiters)
  BY <1>1, NullFacts, MonitorAssumption DEF IndInv, LockInv, HolderIsSound, HandOffReaches
<1>3. mutex_lock(t, depth[t]) /\ UNCHANGED <<cvRest, depth>>
  BY <1>1
<1> QED BY <1>1, <1>2, <1>3, MutexLockKeeps

\* A thread is in condition_variable.cpp, inside Wait(lock) or without the lock.
LEMMA CVCallsKeep ==
    ASSUME IndInv, NEW t \in Threads, UNCHANGED lockVars,
           \/ CVStep(t)
           \/ CVGiveUp(t)
           \/ stage[t] = "waiting" /\ UseEntry(t)
           \/ stage[t] = "out" /\ depth[t] = 0 /\ (AddCall(t) \/ UseEntry(t))
           \/ stage[t] = "out" /\ NotifyCall(t)
    PROVE  IndInv'
<1> USE DEF lockVars
<1>1. StageOf(t) /\ CVInv /\ LockInv /\ depth[t] \in Nat
  <2>1. MaxRecursion \in Nat /\ depth[t] \in 0..MaxRecursion
    BY MonitorAssumption DEF IndInv, LockInv, TypeOK
  <2> QED BY <2>1 DEF IndInv, LockInv, StageIsSound
<1>2. CVInv' /\ CVFrame(t) /\ StageOf(t)'
  <2>1. CASE CVStep(t)
    BY <1>1, <2>1, CVStepKeeps DEF StageOf
  <2>2. CASE CVGiveUp(t)
    <3>1. CVInv' /\ CVFrame(t)
      BY <1>1, <2>2, GiveUpKeeps
      DEF CVGiveUp, GiveUp, thread_unblock, CVFrame, CVInv, CVTypeOK
    <3> QED BY <1>1, <2>2, <3>1 DEF CVGiveUp, GiveUp, StageOf
  <2>3. CASE stage[t] = "waiting" /\ UseEntry(t)
    BY <1>1, <2>3, UseEntryFrame DEF StageOf
  <2>4. CASE stage[t] = "out" /\ depth[t] = 0 /\ (AddCall(t) \/ UseEntry(t))
    BY <1>1, <2>4, UseEntryFrame, AddCallKeeps DEF StageOf
  <2>5. CASE stage[t] = "out" /\ NotifyCall(t)
    BY <1>1, <2>5, NotifyCallKeeps DEF StageOf
  <2> QED BY <2>1, <2>2, <2>3, <2>4, <2>5
<1>3. CVTypeOK'
  BY <1>2 DEF CVInv
<1> QED BY <1>1, <1>2, <1>3, CVKeepsLock DEF IndInv

-------------------------------------------------------------------------------
LEMMA IndInvInit == Init => IndInv
<1> SUFFICES ASSUME Init PROVE IndInv
  OBVIOUS
<1> USE DEF Init, CVInit, EntryPcs, OwnPcs, SelfPcs
<1>1. CVTypeOK
  BY CVAssumption, EmptyQueue DEF CVTypeOK, NoCall, NotifyResults, Results, Statuses
<1>2. LockIsHeld /\ SchedulerLockIsHeld /\ NotifiedReturnsResult
  BY NullFacts DEF LockIsHeld, SchedulerLockIsHeld, NotifiedReturnsResult, NotifyPcs
<1>3. HashIsSound
  BY DEF HashIsSound, LookupPcs, NotifyPcs
<1>4. ListsAreSound /\ EntriesAreTracked /\ StatusIsSound
  BY EmptyQueue
  DEF ListsAreSound, EntriesAreTracked, EntryOf, StatusIsSound, EntriesOf, RemovePcs
<1>5. NotifierIsSound
  BY DEF NotifierIsSound, NotifierOf, NotifyPcs
<1>6. CountIsExact
  <2>1. \A v \in Variables : Counted(v) = {}
    BY EmptyQueue DEF Counted, EntriesOf, Removing, Notified
  <2> QED BY <2>1, FS_EmptySet DEF CountIsExact
<1>7. TypeOK
  <2>1. 0 \in 0..MaxRecursion
    BY MonitorAssumption
  <2> QED BY <1>1, <2>1, EmptyQueue DEF TypeOK
<1>8. StageIsSound /\ HolderIsSound /\ LockIsRestored /\ HandOffReaches
  BY EmptyQueue DEF StageIsSound, StageOf, HolderIsSound, LockIsRestored, HandOffReaches
<1> QED BY <1>1, <1>2, <1>3, <1>4, <1>5, <1>6, <1>7, <1>8 DEF IndInv, CVInv, LockInv

LEMMA IndInvNext == IndInv /\ [Next]_vars => IndInv'
<1> SUFFICES ASSUME IndInv, [Next]_vars PROVE IndInv'
  OBVIOUS
<1>1. CASE UNCHANGED vars
  <2> USE <1>1 DEF vars, cvVars, lockVars
  <2>1. CVInv'
    BY LockFrame DEF IndInv, CVInv, CVTypeOK, cvRest
  <2>2. LockInv'
    BY <2>1 DEF CVInv, IndInv, LockInv, TypeOK, StageIsSound, StageOf, HolderIsSound,
                LockIsRestored, HandOffReaches, thread_is_blocked
  <2> QED BY <2>1, <2>2 DEF IndInv
<1>2. CASE Next
  <2>1. PICK t \in Threads :
              \/ InCall(t) \/ LockStep(t)
              \/ CVGiveUp(t) /\ UNCHANGED lockVars
              \/ PlainWait(t) \/ PlainNotify(t)
              \/ recursive_lock_lock(t) \/ recursive_lock_trylock(t) \/ recursive_lock_unlock(t)
              \/ WaitAdd(t)
    BY <1>2 DEF Next
  <2>2. CASE LockStep(t)
    <3>1. CASE WaitEntry(t)
      BY <3>1, CVCallsKeep DEF WaitEntry, UseEntry
    <3> QED BY <2>2, <3>1, LockBlockReturnKeeps, WaitUnlockKeeps, WaitRelockKeeps DEF LockStep
  <2>3. CASE InCall(t) \/ (CVGiveUp(t) /\ UNCHANGED lockVars)
    BY <2>3, CVCallsKeep DEF InCall
  <2>4. CASE PlainWait(t) \/ PlainNotify(t)
    BY <2>4, CVCallsKeep DEF PlainWait, PlainNotify
  <2> QED BY <2>1, <2>2, <2>3, <2>4, LockCallsKeep, WaitAddKeeps
<1> QED BY <1>1, <1>2

\* The invariant holds in every state.
LEMMA Invariance == Spec => []IndInv
BY IndInvInit, IndInvNext, PTL DEF Spec

-------------------------------------------------------------------------------
\* fEntriesCount, which is changed under the spinlock by who adds and notifies and
\* outside it by who removes itself, is always the number of entries not done with.
THEOREM ConsistentAlways == Spec => []Consistent
<1>1. IndInv => Consistent
  BY DEF IndInv, CVInv, LockInv, Consistent
<1> QED BY <1>1, Invariance, PTL

\* No entry is used after its thread has returned from Wait(), and no variable
\* after it was unpublished, in _RemoveFromVariable() and _NotifyLocked().
THEOREM NothingIsUsedAfterwards == Spec => []NothingIsGone
<1>1. ASSUME IndInv PROVE NothingIsGone
  <2>1. CVInv
    BY <1>1 DEF IndInv
  <2>2. EntryIsAlive
    BY <2>1 DEF CVInv, ListsAreSound, NotifierIsSound, NotifierOf, Removing, NotifyPcs,
                EntryIsAlive, EntryPcs, OwnPcs, SelfPcs, AddPcs, RemovePcs
  <2>3. VariableIsAlive
    <3>1. \A t \in Threads : pc[t] \in SelfPcs => cached[t] \in alive
      BY <2>1, RemovedFrom
    <3> QED BY <2>1, <3>1 DEF CVInv, HashIsSound, LookupPcs, SelfPcs, VariableIsAlive
  <2>4. RemoverFindsVariable
    BY <2>1, RemovedFrom DEF RemoverFindsVariable, SelfPcs
  <2> QED BY <2>2, <2>3, <2>4 DEF NothingIsGone
<1> QED BY <1>1, Invariance, PTL

\* Wait() returns the notifier's result exactly if a notifier counted the entry,
\* also if the wait timed out or was interrupted at the same time.
THEOREM ResultIsReturned == Spec => []NotifiedReturnsResult
<1>1. IndInv => NotifiedReturnsResult
  BY DEF IndInv, CVInv
<1> QED BY <1>1, Invariance, PTL

\* A thread back from Wait(lock) owns the lock as deep as before, and a lock that
\* was handed over wakes its new owner: the wake-ups of notifications and of the
\* mutex, which share wait.status, are never taken for each other.
THEOREM LockSurvivesWait == Spec => []WaitsAreApart
<1>1. IndInv => WaitsAreApart
  BY DEF IndInv, LockInv, WaitsAreApart
<1> QED BY <1>1, Invariance, PTL
===============================================================================
