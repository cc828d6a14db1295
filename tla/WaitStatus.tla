------------------------------ MODULE WaitStatus ------------------------------
(***************************************************************************)
(* Thread::wait.status, the word every blocking primitive of the kernel    *)
(* meets a sleeping thread through (headers/private/kernel/thread.h).  It  *)
(* is 1 from thread_prepare_to_block() until somebody unblocks the thread, *)
(* and from then on the status the wait returns.                           *)
(***************************************************************************)

\* wait.status == 1: the thread is waiting, or is about to.
Blocked == "blocked"

\* The statuses a wait can end with.
Results == {"B_OK", "B_ERROR", "B_TIMED_OUT", "B_INTERRUPTED", "B_BAD_SEM_ID",
            "B_WOULD_BLOCK", "B_ENTRY_NOT_FOUND"}

Statuses == Results \cup {Blocked}

thread_is_blocked(wait, t) == wait[t] = Blocked

thread_prepare_to_block(wait, t) == [wait EXCEPT ![t] = Blocked]

\* atomic_test_and_set(&wait.status, status, 1): only the first of several
\* wake-ups of one wait takes effect.
thread_unblock(wait, t, status) ==
    IF thread_is_blocked(wait, t) THEN [wait EXCEPT ![t] = status] ELSE wait

\* thread_unblock() of every thread of a set, all with the same status.
thread_unblock_all(wait, ts, status) ==
    [t \in DOMAIN wait |->
        IF t \in ts /\ thread_is_blocked(wait, t) THEN status ELSE wait[t]]
===============================================================================
