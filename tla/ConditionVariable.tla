-------------------------- MODULE ConditionVariable ---------------------------
(***************************************************************************)
(* The kernel's condition variables (src/system/kernel/                    *)
(* condition_variable.cpp).  A waiting thread has a ConditionVariableEntry *)
(* on its stack; entry and thread are one here.  The waiter, which may     *)
(* give up at any time, and the notifier, which may find the entry at any  *)
(* time, settle who takes the entry off the variable by an atomic exchange *)
(* of fThread: the one that finds it set does it and takes it out of       *)
(* fEntriesCount.  fVariable = NULL tells the waiter that the notifier is  *)
(* done with the entry, the count tells the notifier that the waiter is    *)
(* done with the variable.  An action is one access to a shared word, or   *)
(* one critical section in which nothing else is visible to other threads. *)
(***************************************************************************)
EXTENDS Integers, Sequences, SequencesExt, FiniteSets, WaitStatus

CONSTANTS
    Threads,
    Waiters,        \* the threads that wait ...
    FallibleWaiters,\* ... the ones that may time out or be interrupted
    Notifiers,      \* the threads that notify, publish and unpublish
    Variables,
    Published,      \* the variables known by an object; the others are anonymous
    NULL

ASSUME CVAssumption ==
    /\ IsFiniteSet(Threads)
    /\ Waiters \subseteq Threads
    /\ FallibleWaiters \subseteq Waiters
    /\ Notifiers \subseteq Threads
    /\ Published \subseteq Variables
    /\ NULL \notin Threads \cup Variables \cup Results

VARIABLES
    fThread,        \* per entry: fThread # NULL
    fVariable,      \* per entry
    fWaitStatus,    \* per entry
    wait,           \* Thread::wait.status
    fLock,          \* per variable: the thread that holds the spinlock
    fEntries,       \* per variable
    fEntriesCount,  \* per variable
    hashed,         \* the variables in sConditionVariableHash
    alive,          \* the variables whose memory is in use
    pc,             \* where in condition_variable.cpp a thread is
    cached,         \* its local variable "variable", or "this" of a notifier
    entry,          \* _NotifyLocked(): entry
    removedCount,   \* _NotifyLocked(): removedCount
    call,           \* _NotifyLocked(): all, result, and whether to unblock last
    leaving,        \* what calls _RemoveFromVariable()
    given,          \* history: the result a notifier counted the entry with
    misled          \* history: the threads whose Wait() returned another one

entryVars == <<fThread, fVariable, fWaitStatus>>
varVars == <<fLock, fEntries, fEntriesCount, hashed, alive>>
callVars == <<entry, removedCount, call>>
historyVars == <<given, misled>>
cvVars == <<entryVars, wait, varVars, pc, cached, callVars, leaving, historyVars>>

GivingUp == {"B_TIMED_OUT", "B_INTERRUPTED"}

NotifyResults == {"B_OK", "B_ENTRY_NOT_FOUND"}

AddPcs == {"add_lock", "added", "wait", "prepared", "blocked"}

\* Inside _RemoveFromVariable().
RemovePcs == {"remove", "exchange", "spin", "loop", "try"}

\* Inside _NotifyLocked(), fLock held.
NotifyPcs == {"notify", "clear_removed", "await_ack", "status", "clear", "count"}

CVTypeOK ==
    /\ fThread \in [Threads -> BOOLEAN]
    /\ fVariable \in [Threads -> Variables \cup {NULL}]
    /\ fWaitStatus \in [Threads -> {"added", "waiting"} \cup Results]
    /\ wait \in [Threads -> Statuses]
    /\ fLock \in [Variables -> Threads \cup {NULL}]
    /\ fEntries \in [Variables -> Seq(Threads)]
    /\ fEntriesCount \in [Variables -> Int]
    /\ hashed \subseteq Published
    /\ alive \subseteq Variables
    /\ pc \in [Threads -> {"idle", "find_lock", "unpublish_lock"}
                            \cup AddPcs \cup RemovePcs \cup NotifyPcs]
    /\ cached \in [Threads -> Variables \cup {NULL}]
    /\ entry \in [Threads -> Threads \cup {NULL}]
    /\ removedCount \in [Threads -> Int]
    /\ call \in [Threads -> [all : BOOLEAN, result : NotifyResults, last : BOOLEAN]]
    /\ leaving \in [Threads -> {"blocked", "immediate", "destroyed"}]
    /\ given \in [Threads -> NotifyResults \cup {NULL}]
    /\ misled \subseteq Threads

NoCall == [all |-> FALSE, result |-> "B_OK", last |-> FALSE]

CVInit ==
    /\ fThread = [t \in Threads |-> FALSE]
    /\ fVariable = [t \in Threads |-> NULL]
    /\ fWaitStatus = [t \in Threads |-> "B_OK"]
    /\ wait = [t \in Threads |-> "B_OK"]
    /\ fLock = [v \in Variables |-> NULL]
    /\ fEntries = [v \in Variables |-> <<>>]
    /\ fEntriesCount = [v \in Variables |-> 0]
    /\ hashed = {}
    /\ alive = Variables \ Published
    /\ pc = [t \in Threads |-> "idle"]
    /\ cached = [t \in Threads |-> NULL]
    /\ entry = [t \in Threads |-> NULL]
    /\ removedCount = [t \in Threads |-> 0]
    /\ call = [t \in Threads |-> NoCall]
    /\ leaving = [t \in Threads |-> "blocked"]
    /\ given = [t \in Threads |-> NULL]
    /\ misled = {}

-------------------------------------------------------------------------------
Goto(t, label) == pc' = [pc EXCEPT ![t] = label]

\* A notifier holds thread->scheduler_lock from when it looks at fWaitStatus to
\* after thread_unblock_locked().
SchedulerLockFree(t) == \A n \in Threads : pc[n] \in {"clear", "count"} => entry[n] # t

\* sConditionVariableHashLock is held until fLock is: for reading by who looked
\* an object up, for writing by Unpublish().
HashReadable == \A t \in Threads : pc[t] # "unpublish_lock"
HashWritable == HashReadable /\ \A t \in Threads : pc[t] \notin {"add_lock", "find_lock"}

\* thread->state == B_THREAD_WAITING
InWaitingState(t) == pc[t] = "blocked" /\ thread_is_blocked(wait, t)

-------------------------------------------------------------------------------
(* ConditionVariableEntry *)

\* Called, and returned from, with fLock held.
_AddToLockedVariable(t, v) ==
    /\ fThread' = [fThread EXCEPT ![t] = TRUE]
    /\ fVariable' = [fVariable EXCEPT ![t] = v]
    /\ fWaitStatus' = [fWaitStatus EXCEPT ![t] = "added"]
    /\ fEntries' = [fEntries EXCEPT ![v] = Append(@, t)]
    /\ fEntriesCount' = [fEntriesCount EXCEPT ![v] = @ + 1]

AddLocked(t, v) ==
    /\ fLock[v] = NULL
    /\ _AddToLockedVariable(t, v)
    /\ Goto(t, "added")
    /\ cached' = [cached EXCEPT ![t] = NULL]
    /\ UNCHANGED <<fLock, wait, hashed, alive, callVars, leaving, historyVars>>

\* ConditionVariable::Add(entry)
Add(t, v) ==
    /\ t \in Waiters /\ pc[t] = "idle"
    /\ v \notin Published
    /\ AddLocked(t, v)

\* ConditionVariableEntry::Add(object): find the variable.  If it is not there
\* nothing happens, and Wait(object) returns B_ENTRY_NOT_FOUND.
AddLookup(t, v) ==
    /\ t \in Waiters /\ pc[t] = "idle"
    /\ v \in hashed
    /\ HashReadable
    /\ cached' = [cached EXCEPT ![t] = v]
    /\ Goto(t, "add_lock")
    /\ UNCHANGED <<entryVars, wait, varVars, callVars, leaving, historyVars>>

AddFound(t) ==
    /\ pc[t] = "add_lock"
    /\ AddLocked(t, cached[t])

LeaveVariable(t, reason) ==
    /\ leaving' = [leaving EXCEPT ![t] = reason]
    /\ Goto(t, "remove")
    /\ UNCHANGED <<entryVars, wait, varVars, cached, callVars, historyVars>>

\* Wait() returns "status", entry and locals go out of scope.  The wait status
\* is not read before the next thread_prepare_to_block().
ReturnStatus(t, status) ==
    /\ misled' = IF \/ status = NULL
                    \/ given[t] # NULL /\ status = given[t]
                    \/ given[t] = NULL /\ status \in GivingUp \cup {"B_WOULD_BLOCK"}
                 THEN misled ELSE misled \cup {t}
    /\ given' = [given EXCEPT ![t] = NULL]
    /\ fWaitStatus' = [fWaitStatus EXCEPT ![t] = "B_OK"]
    /\ wait' = [wait EXCEPT ![t] = "B_OK"]
    /\ cached' = [cached EXCEPT ![t] = NULL]
    /\ leaving' = [leaving EXCEPT ![t] = "blocked"]
    /\ Goto(t, "idle")

\* Mutant: what thread_block() returned is returned.
ReturnRemoved_Error(t) ==
    LET status == IF leaving[t] = "immediate" THEN "B_WOULD_BLOCK" ELSE wait[t]
    IN  ReturnStatus(t, IF leaving[t] = "destroyed" THEN NULL ELSE status)

\* The end of a Wait() that called _RemoveFromVariable(): the status a notifier
\* left, if there is one.
ReturnRemoved(t) ==
    LET status == IF fWaitStatus[t] \notin {"added", "waiting"} THEN fWaitStatus[t]
                  ELSE IF leaving[t] = "immediate" THEN "B_WOULD_BLOCK"
                  ELSE wait[t]
    IN  ReturnStatus(t, IF leaving[t] = "destroyed" THEN NULL ELSE status)

\* ConditionVariableEntry::Wait(): notified already.
WaitNotified(t) ==
    /\ pc[t] = "added"
    /\ fVariable[t] = NULL
    /\ ReturnStatus(t, fWaitStatus[t])
    /\ UNCHANGED <<fThread, fVariable, varVars, callVars>>

\* Wait() with B_RELATIVE_TIMEOUT and no time.
WaitImmediate(t) ==
    /\ pc[t] = "added"
    /\ t \in FallibleWaiters
    /\ fVariable[t] # NULL
    /\ LeaveVariable(t, "immediate")

Wait(t) ==
    /\ pc[t] = "added"
    /\ fVariable[t] # NULL
    /\ Goto(t, "wait")
    /\ UNCHANGED <<entryVars, wait, varVars, cached, callVars, leaving, historyVars>>

\* Under the scheduler lock: the status a notifier has left meanwhile ...
WaitReturnEarly(t) ==
    /\ pc[t] = "wait"
    /\ SchedulerLockFree(t)
    /\ fWaitStatus[t] # "added"
    /\ ReturnStatus(t, fWaitStatus[t])
    /\ UNCHANGED <<fThread, fVariable, varVars, callVars>>

\* ... or thread_prepare_to_block().
WaitPrepare(t) ==
    /\ pc[t] = "wait"
    /\ SchedulerLockFree(t)
    /\ fWaitStatus[t] = "added"
    /\ fWaitStatus' = [fWaitStatus EXCEPT ![t] = "waiting"]
    /\ wait' = thread_prepare_to_block(wait, t)
    /\ Goto(t, "prepared")
    /\ UNCHANGED <<fThread, fVariable, varVars, cached, callVars, leaving, historyVars>>

\* thread_block(): sleep, unless unblocked already.
WaitBlock(t) ==
    /\ pc[t] = "prepared"
    /\ SchedulerLockFree(t)
    /\ \/ /\ thread_is_blocked(wait, t)
          /\ Goto(t, "blocked")
          /\ UNCHANGED leaving
       \/ /\ ~thread_is_blocked(wait, t)
          /\ Goto(t, "remove")
          /\ leaving' = [leaving EXCEPT ![t] = "blocked"]
    /\ UNCHANGED <<entryVars, wait, varVars, cached, callVars, historyVars>>

\* A signal, before or after the thread sleeps, or the timer once it does.
GiveUp(t, status) ==
    /\ t \in FallibleWaiters
    /\ pc[t] \in {"prepared", "blocked"}
    /\ status = "B_TIMED_OUT" => pc[t] = "blocked"
    /\ SchedulerLockFree(t)
    /\ thread_is_blocked(wait, t)
    /\ wait' = thread_unblock(wait, t, status)
    /\ UNCHANGED <<entryVars, varVars, pc, cached, callVars, leaving, historyVars>>

\* The scheduler takes the thread's lock to let it run.
WaitWake(t) ==
    /\ pc[t] = "blocked"
    /\ ~thread_is_blocked(wait, t)
    /\ SchedulerLockFree(t)
    /\ LeaveVariable(t, "blocked")

\* ~ConditionVariableEntry() of an entry that was added and not waited with.
Destroy(t) ==
    /\ pc[t] = "added"
    /\ \/ fVariable[t] # NULL /\ LeaveVariable(t, "destroyed")
       \/ /\ fVariable[t] = NULL
          /\ ReturnStatus(t, NULL)
          /\ UNCHANGED <<fThread, fVariable, varVars, callVars>>

-------------------------------------------------------------------------------
(* ConditionVariableEntry::_RemoveFromVariable() *)

StayInRemove(t, label) ==
    /\ Goto(t, label)
    /\ UNCHANGED <<fWaitStatus, wait, cached, leaving, historyVars>>

RemoveRead(t) ==
    /\ pc[t] = "remove"
    /\ cached' = [cached EXCEPT ![t] = fVariable[t]]
    /\ Goto(t, "exchange")
    /\ UNCHANGED <<entryVars, wait, varVars, callVars, leaving, historyVars>>

\* Mutant: fThread is only looked at.
RemoveExchange_NoExchange(t) ==
    /\ pc[t] = "exchange"
    /\ Goto(t, IF fThread[t] THEN "loop" ELSE "spin")
    /\ UNCHANGED <<entryVars, wait, varVars, cached, callVars, leaving, historyVars>>

\* atomic_pointer_get_and_set(&fThread, NULL)
RemoveExchange(t) ==
    /\ pc[t] = "exchange"
    /\ fThread' = [fThread EXCEPT ![t] = FALSE]
    /\ Goto(t, IF fThread[t] THEN "loop" ELSE "spin")
    /\ UNCHANGED <<fVariable, fWaitStatus, wait, varVars, cached, callVars, leaving,
                   historyVars>>

\* Mutant: the notifier has begun, so the entry is not waited for.
RemoveSpin_NoWait(t) ==
    /\ pc[t] = "spin"
    /\ ReturnRemoved(t)
    /\ UNCHANGED <<fThread, fVariable, varVars, callVars>>

\* The notifier was first: wait until it is done with the entry.
RemoveSpin(t) ==
    /\ pc[t] = "spin"
    /\ fVariable[t] = NULL
    /\ ReturnRemoved(t)
    /\ UNCHANGED <<fThread, fVariable, varVars, callVars>>

\* Mutant: the notifier's removal is not acknowledged.
RemoveCheck_NoAck(t) ==
    /\ pc[t] = "loop"
    /\ \/ fVariable[t] = NULL /\ ReturnRemoved(t)
       \/ fVariable[t] # NULL /\ StayInRemove(t, "try")
    /\ UNCHANGED <<fThread, fVariable, varVars, callVars>>

\* This thread was first.  A notifier that met the entry since waits for the
\* acknowledgement.
RemoveCheck(t) ==
    /\ pc[t] = "loop"
    /\ \/ /\ fVariable[t] = NULL
          /\ fEntriesCount' = [fEntriesCount EXCEPT ![cached[t]] = @ - 1]
          /\ ReturnRemoved(t)
       \/ /\ fVariable[t] # NULL
          /\ StayInRemove(t, "try")
          /\ UNCHANGED fEntriesCount
    /\ UNCHANGED <<fThread, fVariable, fLock, fEntries, hashed, alive, callVars>>

\* try_acquire_spinlock(&variable->fLock), and if that succeeds the critical
\* section up to its release.
RemoveTry(t) ==
    /\ pc[t] = "try"
    /\ \/ /\ fLock[cached[t]] # NULL
          /\ StayInRemove(t, "loop")
          /\ UNCHANGED <<fVariable, fEntries, fEntriesCount>>
       \/ /\ fLock[cached[t]] = NULL
          /\ \E i \in DOMAIN fEntries[fVariable[t]] :
                /\ fEntries[fVariable[t]][i] = t
                /\ fEntries' = [fEntries EXCEPT ![fVariable[t]] = RemoveAt(@, i)]
          /\ fVariable' = [fVariable EXCEPT ![t] = NULL]
          /\ fEntriesCount' = [fEntriesCount EXCEPT ![cached[t]] = @ - 1]
          /\ ReturnRemoved(t)
    /\ UNCHANGED <<fThread, fLock, hashed, alive, callVars>>

-------------------------------------------------------------------------------
(* ConditionVariable *)

\* Publish(): Init() and insert.
Publish(t, v) ==
    /\ t \in Notifiers /\ pc[t] = "idle"
    /\ v \in Published \ alive
    /\ HashWritable
    /\ fLock' = [fLock EXCEPT ![v] = NULL]
    /\ fEntries' = [fEntries EXCEPT ![v] = <<>>]
    /\ fEntriesCount' = [fEntriesCount EXCEPT ![v] = 0]
    /\ hashed' = hashed \cup {v}
    /\ alive' = alive \cup {v}
    /\ UNCHANGED <<entryVars, wait, pc, cached, callVars, leaving, historyVars>>

BeginNotify(t, v, all, result) ==
    /\ fLock[v] = NULL
    /\ fLock' = [fLock EXCEPT ![v] = t]
    /\ cached' = [cached EXCEPT ![t] = v]
    /\ call' = [call EXCEPT ![t] = [all |-> all, result |-> result, last |-> FALSE]]
    /\ Goto(t, "notify")
    /\ UNCHANGED <<entryVars, wait, fEntries, fEntriesCount, alive, entry, removedCount,
                   leaving, historyVars>>

\* NotifyOne(), NotifyAll(); nothing happens if there is no entry.
Notify(t, v, all) ==
    /\ t \in Notifiers /\ pc[t] = "idle"
    /\ v \notin Published
    /\ fEntries[v] # <<>>
    /\ BeginNotify(t, v, all, "B_OK")
    /\ UNCHANGED hashed

\* NotifyOne(object), NotifyAll(object)
NotifyLookup(t, v, all) ==
    /\ t \in Notifiers /\ pc[t] = "idle"
    /\ v \in hashed
    /\ HashReadable
    /\ cached' = [cached EXCEPT ![t] = v]
    /\ call' = [call EXCEPT ![t] = [all |-> all, result |-> "B_OK", last |-> FALSE]]
    /\ Goto(t, "find_lock")
    /\ UNCHANGED <<entryVars, wait, varVars, entry, removedCount, leaving, historyVars>>

NotifyFound(t) ==
    /\ pc[t] = "find_lock"
    /\ BeginNotify(t, cached[t], call[t].all, call[t].result)
    /\ UNCHANGED hashed

\* Unpublish(): lock the hash ...
Unpublish(t, v) ==
    /\ t \in Notifiers /\ pc[t] = "idle"
    /\ v \in hashed
    /\ HashWritable
    /\ cached' = [cached EXCEPT ![t] = v]
    /\ Goto(t, "unpublish_lock")
    /\ UNCHANGED <<entryVars, wait, varVars, callVars, leaving, historyVars>>

\* ... then the variable, take it out of the hash, and notify all.
UnpublishLocked(t) ==
    /\ pc[t] = "unpublish_lock"
    /\ hashed' = hashed \ {cached[t]}
    /\ BeginNotify(t, cached[t], TRUE, "B_ENTRY_NOT_FOUND")

\* The last step of a notification.  A variable that was unpublished is not used
\* any longer by who unpublished it.
EndNotify(t) ==
    /\ fLock' = [fLock EXCEPT ![cached[t]] = NULL]
    /\ alive' = IF call[t].result = "B_ENTRY_NOT_FOUND" THEN alive \ {cached[t]} ELSE alive
    /\ cached' = [cached EXCEPT ![t] = NULL]
    /\ call' = [call EXCEPT ![t] = NoCall]
    /\ Goto(t, "idle")

NotifyEmpty(t) ==
    /\ pc[t] = "notify"
    /\ fEntries[cached[t]] = <<>>
    /\ EndNotify(t)
    /\ UNCHANGED <<entryVars, wait, fEntries, fEntriesCount, hashed, entry, removedCount,
                   leaving, historyVars>>

\* fEntries.RemoveHead(), and the exchange of its fThread.
NotifyNext(t) ==
    LET v == cached[t]
        head == Head(fEntries[v])
    IN  /\ pc[t] = "notify"
        /\ fEntries[v] # <<>>
        /\ fEntries' = [fEntries EXCEPT ![v] = Tail(@)]
        /\ entry' = [entry EXCEPT ![t] = head]
        /\ fThread' = [fThread EXCEPT ![head] = FALSE]
        /\ \/ fThread[head] /\ Goto(t, "status") /\ UNCHANGED removedCount
           \/ /\ ~fThread[head]
              /\ removedCount' = [removedCount EXCEPT ![t] = fEntriesCount[v] - 1]
              /\ Goto(t, "clear_removed")
        /\ UNCHANGED <<fVariable, fWaitStatus, wait, fLock, fEntriesCount, hashed, alive,
                       cached, call, leaving, historyVars>>

\* The entry is removing itself: tell it that it need not ...
NotifyClearRemoved(t) ==
    /\ pc[t] = "clear_removed"
    /\ fVariable' = [fVariable EXCEPT ![entry[t]] = NULL]
    /\ Goto(t, "await_ack")
    /\ UNCHANGED <<fThread, fWaitStatus, wait, varVars, cached, callVars, leaving, historyVars>>

\* ... and wait until it knows.
NotifyAck(t) ==
    /\ pc[t] = "await_ack"
    /\ fEntriesCount[cached[t]] = removedCount[t]
    /\ entry' = [entry EXCEPT ![t] = NULL]
    /\ removedCount' = [removedCount EXCEPT ![t] = 0]
    /\ Goto(t, "notify")
    /\ UNCHANGED <<entryVars, wait, varVars, cached, call, leaving, historyVars>>

\* Mutant: the thread is always unblocked last.
NotifyStatus_Late(t) ==
    LET e == entry[t]
    IN  /\ pc[t] = "status"
        /\ SchedulerLockFree(e)
        /\ fWaitStatus' = [fWaitStatus EXCEPT ![e] = call[t].result]
        /\ given' = [given EXCEPT ![e] = call[t].result]
        /\ call' = [call EXCEPT ![t].last = fWaitStatus[e] = "waiting"]
        /\ Goto(t, "clear")
        /\ UNCHANGED <<fThread, fVariable, wait, varVars, cached, entry, removedCount,
                       leaving, misled>>

\* Take the scheduler lock, leave the result; a thread that does not sleep (yet,
\* or any more) is unblocked before fVariable lets it go.
NotifyStatus(t) ==
    LET e == entry[t]
        waiting == fWaitStatus[e] = "waiting"
    IN  /\ pc[t] = "status"
        /\ SchedulerLockFree(e)
        /\ fWaitStatus' = [fWaitStatus EXCEPT ![e] = call[t].result]
        /\ given' = [given EXCEPT ![e] = call[t].result]
        /\ wait' = IF waiting /\ ~InWaitingState(e)
                   THEN thread_unblock(wait, e, call[t].result) ELSE wait
        /\ call' = [call EXCEPT ![t].last = waiting /\ InWaitingState(e)]
        /\ Goto(t, "clear")
        /\ UNCHANGED <<fThread, fVariable, varVars, cached, entry, removedCount, leaving,
                       misled>>

NotifyClear(t) ==
    /\ pc[t] = "clear"
    /\ fVariable' = [fVariable EXCEPT ![entry[t]] = NULL]
    /\ Goto(t, "count")
    /\ UNCHANGED <<fThread, fWaitStatus, wait, varVars, cached, callVars, leaving, historyVars>>

\* Unblock a sleeping thread, unlock the scheduler; NotifyOne() is done.
NotifyCount(t) ==
    /\ pc[t] = "count"
    /\ fEntriesCount' = [fEntriesCount EXCEPT ![cached[t]] = @ - 1]
    /\ wait' = IF call[t].last THEN thread_unblock(wait, entry[t], call[t].result) ELSE wait
    /\ entry' = [entry EXCEPT ![t] = NULL]
    /\ \/ /\ call[t].all
          /\ call' = [call EXCEPT ![t].last = FALSE]
          /\ Goto(t, "notify")
          /\ UNCHANGED <<fLock, alive, cached>>
       \/ ~call[t].all /\ EndNotify(t)
    /\ UNCHANGED <<entryVars, fEntries, hashed, removedCount, leaving, historyVars>>

-------------------------------------------------------------------------------
\* The steps of a call that has begun, but for GiveUp().
CVStep(t) ==
    \/ AddFound(t)
    \/ WaitReturnEarly(t) \/ WaitPrepare(t) \/ WaitBlock(t) \/ WaitWake(t)
    \/ RemoveRead(t) \/ RemoveExchange(t) \/ RemoveSpin(t) \/ RemoveCheck(t) \/ RemoveTry(t)
    \/ NotifyFound(t) \/ UnpublishLocked(t)
    \/ NotifyEmpty(t) \/ NotifyNext(t) \/ NotifyClearRemoved(t) \/ NotifyAck(t)
    \/ NotifyStatus(t) \/ NotifyClear(t) \/ NotifyCount(t)

\* What the user of an added entry does with it.
UseEntry(t) == WaitNotified(t) \/ WaitImmediate(t) \/ Wait(t) \/ Destroy(t)

CVGiveUp(t) == \E status \in GivingUp : GiveUp(t, status)

AddCall(t) == \E v \in Variables : Add(t, v) \/ AddLookup(t, v)

NotifyCall(t) ==
    \E v \in Variables :
        \/ Publish(t, v)
        \/ Unpublish(t, v)
        \/ \E all \in BOOLEAN : Notify(t, v, all) \/ NotifyLookup(t, v, all)

CVNext ==
    \E t \in Threads :
        CVStep(t) \/ UseEntry(t) \/ CVGiveUp(t) \/ AddCall(t) \/ NotifyCall(t)

CVSpec == CVInit /\ [][CVNext]_cvVars

-------------------------------------------------------------------------------
EntriesOf(v) == ToSet(fEntries[v])

\* An entry lives on the stack of its thread: as long as it is in a list, and
\* until the notifier that took it off has cleared its fVariable, the thread
\* has not returned from Wait() (or left the entry's scope), whatever timed out
\* meanwhile.
EntryIsAlive ==
    /\ \A v \in Variables : \A e \in EntriesOf(v) :
          pc[e] \in AddPcs \cup RemovePcs /\ pc[e] # "add_lock"
    /\ \A n, e \in Threads :
          pc[n] \in {"clear_removed", "status", "clear"} /\ entry[n] = e =>
              pc[e] \in AddPcs \cup RemovePcs

\* Nobody touches a variable that was unpublished and may be gone: neither a
\* thread that looked it up before, nor one that is leaving it.
VariableIsAlive ==
    \A t \in Threads :
        pc[t] \in {"add_lock", "find_lock", "unpublish_lock", "loop", "try"} \cup NotifyPcs
            => cached[t] \in alive

\* A remover that gets fLock still finds its fVariable, which it goes through to
\* the list (condition_variable.cpp:225).
RemoverFindsVariable ==
    \A t \in Threads :
        pc[t] = "try" /\ fLock[cached[t]] = NULL => fVariable[t] = cached[t]

\* Nobody reads or writes an entry or a variable that is gone, though neither is
\* locked while waiter and notifier let go of each other.
NothingIsGone == EntryIsAlive /\ VariableIsAlive /\ RemoverFindsVariable

\* The entries a notifier has taken off and not counted yet.
Notified(v) ==
    {e \in Threads : \E n \in Threads :
        pc[n] \in {"status", "clear", "count"} /\ cached[n] = v /\ entry[n] = e}

\* The entries that remove themselves.
Removing(v) == {t \in Threads : pc[t] \in {"loop", "try"} /\ cached[t] = v}

Counted(v) == EntriesOf(v) \cup Removing(v) \cup Notified(v)

\* fEntriesCount is the number of entries that have not been taken off and
\* acknowledged: what the notifier that waits for an acknowledgement relies on,
\* and the users of EntriesCount().
CountIsExact == \A v \in alive : fEntriesCount[v] = Cardinality(Counted(v))

\* Every entry a notifier counts as notified makes its Wait() return the
\* notifier's result, also if the wait timed out at the same time; a Wait() that
\* no notifier counted returns an error, so no notification is lost or invented.
NotifiedReturnsResult == misled = {}
===============================================================================
