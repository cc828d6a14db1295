------------------------------- MODULE FifoLock -------------------------------
(***************************************************************************)
(* What a kernel mutex promises its callers, without threads, spinlocks or *)
(* counters: an exclusive lock with a FIFO queue, handed directly from its *)
(* owner to the head of the queue.                                         *)
(***************************************************************************)
EXTENDS Naturals, Sequences, SequencesExt

CONSTANTS Threads, Nobody

VARIABLES
    alive,      \* between mutex_init() and mutex_destroy()
    owner,      \* the thread that has the lock, or Nobody
    queue       \* the threads that wait for it

Init ==
    /\ alive \in BOOLEAN
    /\ owner = Nobody
    /\ queue = <<>>

Create ==
    /\ ~alive
    /\ alive' = TRUE
    /\ UNCHANGED <<owner, queue>>

\* Nobody has the lock, and nobody is entitled to it.
Take(t) ==
    /\ alive
    /\ owner = Nobody
    /\ queue = <<>>
    /\ owner' = t
    /\ UNCHANGED <<alive, queue>>

Wait(t) ==
    /\ owner \notin {Nobody, t}
    /\ t \notin ToSet(queue)
    /\ queue' = Append(queue, t)
    /\ UNCHANGED <<alive, owner>>

Release ==
    /\ owner # Nobody
    /\ \/ queue # <<>> /\ owner' = Head(queue) /\ queue' = Tail(queue)
       \/ queue = <<>> /\ owner' = Nobody /\ UNCHANGED queue
    /\ UNCHANGED alive

\* A waiter gives up; the others keep their order.
Leave(i) ==
    /\ queue' = RemoveAt(queue, i)
    /\ UNCHANGED <<alive, owner>>

Transfer(t) ==
    /\ owner \notin {Nobody, t}
    /\ owner' = t
    /\ UNCHANGED <<alive, queue>>

\* The lock ceases to exist, and with it every wait.
Destroy ==
    /\ alive
    /\ alive' = FALSE
    /\ owner' = Nobody
    /\ queue' = <<>>

Next ==
    \/ \E t \in Threads : Take(t) \/ Wait(t) \/ Transfer(t)
    \/ \E i \in DOMAIN queue : Leave(i)
    \/ Release
    \/ Create
    \/ Destroy

Spec == Init /\ [][Next]_<<alive, owner, queue>>
===============================================================================
