---------------------------- MODULE PthreadBarrier ----------------------------
(***************************************************************************)
(* libroot's barriers (src/system/libroot/posix/pthread/                   *)
(* pthread_barrier.cpp) over the kernel's user mutexes.  A barrier has two *)
(* user mutexes nobody ever unlocks: "lock", on which the threads of a     *)
(* round wait for the last one to come, and "mutex", on which the early    *)
(* ones of the next round wait for the last one to leave.  DISABLED opens  *)
(* them.  waiter_count counts up to waiter_max as threads come, then from  *)
(* 1 - waiter_max to 0 as they leave.  pthread_barrier_destroy(), which    *)
(* waits for the last one to leave, is left out.                           *)
(***************************************************************************)
EXTENDS UserMutex

CONSTANTS
    lock,           \* the address of pthread_barrier_t::lock
    mutex           \* the address of pthread_barrier_t::mutex

\* A barrier for all threads; Words = {lock, mutex} and Sems = {}.
waiter_max == Cardinality(Threads)

VARIABLES
    waiter_count,   \* pthread_barrier_t::waiter_count
    upc,            \* where in pthread_barrier.cpp a thread is
    entered         \* history: the rounds a thread has entered, less the
                    \* rounds all threads have entered

userVars == <<waiter_count, upc, entered>>
vars == <<kernelVars, userVars>>

\* Inside pthread_barrier_wait(), before and after the thread counted itself in.
Entering == {"none_exiting", "exiting", "enter"}
Inside == {"reset", "set_mutex", "disable_lock", "unblocking", "wait", "recheck", "leave",
           "enable_lock", "disable_mutex"}

TypeOK ==
    /\ KernelTypeOK
    /\ waiter_count \in (1 - waiter_max)..waiter_max
    /\ upc \in [Threads -> {"idle"} \cup Entering \cup Inside]
    /\ entered \in [Threads -> 0..1]

\* pthread_barrier_init()
Init ==
    /\ KernelInit
    /\ word = [w \in Words |-> IF w = lock THEN {"LOCKED"} ELSE {"LOCKED", "DISABLED"}]
    /\ value = [s \in Sems |-> 0]
    /\ waiter_count = 0
    /\ upc = [t \in Threads |-> "idle"]
    /\ entered = [t \in Threads |-> 0]

-------------------------------------------------------------------------------
UGoto(t, label) == upc' = [upc EXCEPT ![t] = label]

KernelUnchanged == UNCHANGED <<entryVars, callVars>>

pthread_barrier_wait(t) ==
    /\ upc[t] = "idle" /\ kpc[t] = "idle"
    /\ UGoto(t, "none_exiting")
    /\ KernelUnchanged
    /\ UNCHANGED <<wordVars, waiter_count, entered>>

\* barrier_ensure_none_exiting(): wait as long as the last round is being left.
barrier_ensure_none_exiting(t) ==
    /\ upc[t] = "none_exiting"
    /\ IF waiter_count < 0
       THEN _user_mutex_lock(t, mutex, FALSE) /\ UGoto(t, "exiting")
       ELSE KernelUnchanged /\ UGoto(t, "enter")
    /\ UNCHANGED <<wordVars, waiter_count, entered>>

NoneExiting(t) ==
    /\ upc[t] = "exiting"
    /\ kpc[t] = "idle"
    /\ UGoto(t, IF status[t] = "B_INTERRUPTED" THEN "none_exiting" ELSE "enter")
    /\ KernelUnchanged
    /\ UNCHANGED <<wordVars, waiter_count, entered>>

\* atomic_add(&barrier->waiter_count, 1) of a thread that comes.
EnterRound(t) ==
    LET rounds == [entered EXCEPT ![t] = @ + 1]
    IN  /\ upc[t] = "enter"
        /\ waiter_count' = waiter_count + 1
        /\ UGoto(t, IF waiter_count = waiter_max - 1 THEN "reset" ELSE "wait")
        /\ entered' = IF \A u \in Threads : rounds[u] > 0
                      THEN [u \in Threads |-> rounds[u] - 1] ELSE rounds
        /\ KernelUnchanged
        /\ UNCHANGED wordVars

\* The last one in: from now on the count is the threads that leave ...
ResetCount(t) ==
    /\ upc[t] = "reset"
    /\ waiter_count' = 1 - waiter_max
    /\ UGoto(t, "set_mutex")
    /\ KernelUnchanged
    /\ UNCHANGED <<wordVars, entered>>

\* ... the next round is closed ...
SetMutex(t) ==
    /\ upc[t] = "set_mutex"
    /\ word' = [word EXCEPT ![mutex] = {"LOCKED"}]
    /\ UGoto(t, "disable_lock")
    /\ KernelUnchanged
    /\ UNCHANGED <<value, waiter_count, entered>>

barrier_disable_and_unblock(t, w) ==
    /\ word' = [word EXCEPT ![w] = @ \cup {"DISABLED"}]
    /\ IF "WAITING" \in word[w] THEN _user_mutex_unblock(t, w, TRUE) ELSE KernelUnchanged

\* ... and this one opened.
DisableLock(t) ==
    /\ upc[t] = "disable_lock"
    /\ barrier_disable_and_unblock(t, lock)
    /\ UGoto(t, "unblocking")
    /\ UNCHANGED <<value, waiter_count, entered>>

SerialReturn(t) ==
    /\ upc[t] = "unblocking"
    /\ kpc[t] = "idle"
    /\ UGoto(t, "idle")
    /\ KernelUnchanged
    /\ UNCHANGED <<wordVars, waiter_count, entered>>

\* The others wait until the count is negative, whatever a wait returns.
WaitForLast(t) ==
    /\ upc[t] = "wait"
    /\ _user_mutex_lock(t, lock, FALSE)
    /\ UGoto(t, "recheck")
    /\ UNCHANGED <<wordVars, waiter_count, entered>>

Recheck(t) ==
    /\ upc[t] = "recheck"
    /\ kpc[t] = "idle"
    /\ UGoto(t, IF waiter_count > 0 THEN "wait" ELSE "leave")
    /\ KernelUnchanged
    /\ UNCHANGED <<wordVars, waiter_count, entered>>

\* atomic_add(&barrier->waiter_count, 1) of a thread that leaves.
LeaveRound(t) ==
    /\ upc[t] = "leave"
    /\ waiter_count' = waiter_count + 1
    /\ UGoto(t, IF waiter_count = -1 THEN "enable_lock" ELSE "idle")
    /\ KernelUnchanged
    /\ UNCHANGED <<wordVars, entered>>

\* The last one out: the lock is closed again ...
EnableLock(t) ==
    /\ upc[t] = "enable_lock"
    /\ word' = [word EXCEPT ![lock] = @ \ {"DISABLED"}]
    /\ UGoto(t, "disable_mutex")
    /\ KernelUnchanged
    /\ UNCHANGED <<value, waiter_count, entered>>

\* ... and the next round opened.
DisableMutex(t) ==
    /\ upc[t] = "disable_mutex"
    /\ barrier_disable_and_unblock(t, mutex)
    /\ UGoto(t, "unblocking")
    /\ UNCHANGED <<value, waiter_count, entered>>

-------------------------------------------------------------------------------
KernelNext(t) ==
    /\ KernelStep(t) \/ KernelGiveUp(t)
    /\ UNCHANGED userVars

\* The steps of a call that has begun.
UserStep(t) ==
    \/ barrier_ensure_none_exiting(t) \/ NoneExiting(t) \/ EnterRound(t)
    \/ ResetCount(t) \/ SetMutex(t) \/ DisableLock(t) \/ SerialReturn(t)
    \/ WaitForLast(t) \/ Recheck(t) \/ LeaveRound(t) \/ EnableLock(t) \/ DisableMutex(t)

Next ==
    \E t \in Threads :
        KernelNext(t) \/ UserStep(t) \/ pthread_barrier_wait(t)

Spec == Init /\ [][Next]_vars

-------------------------------------------------------------------------------
\* The rounds thread t has left, on the scale of entered.
Left(t) == entered[t] - (IF upc[t] \in Inside THEN 1 ELSE 0)

\* No thread leaves a round before all have entered it: "We aren't the last one
\* in. Wait until we are woken up" (pthread_barrier.cpp:97).
RoundIsComplete == \A t, u \in Threads : Left(t) <= entered[u]

===============================================================================
