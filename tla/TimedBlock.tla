------------------------------ MODULE TimedBlock ------------------------------
(***************************************************************************)
(* thread_block_with_timeout() of src/system/kernel/thread.cpp over the    *)
(* per-CPU timer queues of src/system/kernel/timer.cpp.  Every thread has  *)
(* one timer, Thread::wait.unblock_timer, for all of its timed waits; its  *)
(* hook runs on the CPU the timer was added on, while the thread may run,  *)
(* return and wait again on another one.  Beside them there are periodic   *)
(* timers, added and cancelled by whoever owns them.  A critical section   *)
(* of a queue's spinlock is one step.  Times are the ticks still to go, so *)
(* schedule_time < system_time() is time < 0.                              *)
(***************************************************************************)
EXTENDS Integers, Sequences, SequencesExt, FiniteSets, FiniteSetsExt, WaitStatus

CONSTANTS
    Threads,
    RealTime,   \* the ones that wait with B_TIMEOUT_REAL_TIME_BASE
    Periodic,   \* the periodic timers
    CPUs,
    MaxDelay,   \* bound on a timeout, in ticks
    MaxLate,    \* bound on the ticks that an add_timer() call may take
    None        \* NULL, no CPU (0xffff), a hardware timer that is off

ASSUME TimerAssumption ==
    /\ IsFiniteSet(Threads) /\ IsFiniteSet(CPUs)
    /\ RealTime \subseteq Threads
    /\ Periodic \cap Threads = {}
    /\ MaxDelay \in Nat \ {0}
    /\ MaxLate \in Nat \ {0}
    /\ None \notin Threads \cup Periodic \cup CPUs \cup Int

Timers == Threads \cup Periodic

\* Of the periodic timers, in ticks.
Period == 1

\* The first of the times that are not told apart: earlier than the timer of an
\* add_timer() call that took as long as it may.
Past == -MaxLate

VARIABLES
    events,         \* per CPU: the queue
    current_event,  \* per CPU
    in_progress,    \* per CPU: current_event_in_progress
    hardware,       \* per CPU: ticks until the hardware timer fires
    late,           \* history, per CPU: how old the time was that the hardware
                    \* timer was set by
    handler,        \* per CPU: where in timer_interrupt() it is
    firing,         \* per CPU: the local variable "event" of timer_interrupt()
    time,           \* per timer: schedule_time
    cpu,            \* per timer
    user_data,      \* per thread: unblock_timer.user_data # NULL
    wait,           \* per thread: wait.status
    pc,             \* per timer: where its thread, or its owner, is
    spinning,       \* per timer: the CPU it waits in cancel_timer() on
    deadline        \* history, per thread: ticks until the wait in progress
                    \* should time out; None if it should not

timerVars ==
    <<events, current_event, in_progress, hardware, late, handler, firing, time, cpu>>
vars == <<timerVars, user_data, wait, pc, spinning, deadline>>

Ticks == Past..MaxDelay

HookLabels == {"hook", "hook_clear", "hook_done"}

TypeOK ==
    /\ events \in [CPUs -> Seq(Timers)]
    /\ current_event \in [CPUs -> Timers \cup {None}]
    /\ in_progress \in [CPUs -> BOOLEAN]
    /\ hardware \in [CPUs -> 0..MaxDelay \cup {None}]
    /\ late \in [CPUs -> 0..MaxLate]
    /\ handler \in [CPUs -> {"none", "loop", "after"} \cup HookLabels]
    /\ firing \in [CPUs -> Timers \cup {None}]
    /\ time \in [Timers -> Ticks]
    /\ cpu \in [Timers -> CPUs \cup {None}]
    /\ user_data \in [Threads -> BOOLEAN]
    /\ wait \in [Threads -> Statuses]
    /\ pc \in [Timers -> {"idle", "prepared", "blocked", "timed_blocked", "adding",
                          "added", "cancel", "cancel_wait"}]
    /\ spinning \in [Timers -> CPUs \cup {None}]
    /\ deadline \in [Threads -> Ticks \cup {None}]

Init ==
    /\ events = [c \in CPUs |-> <<>>]
    /\ current_event = [c \in CPUs |-> None]
    /\ in_progress = [c \in CPUs |-> FALSE]
    /\ hardware = [c \in CPUs |-> None]
    /\ late = [c \in CPUs |-> 0]
    /\ handler = [c \in CPUs |-> "none"]
    /\ firing = [c \in CPUs |-> None]
    /\ time = [e \in Timers |-> -1]
    /\ cpu = [e \in Timers |-> None]
    /\ user_data = [t \in Threads |-> FALSE]
    /\ wait = [t \in Threads |-> "B_OK"]
    /\ pc = [e \in Timers |-> "idle"]
    /\ spinning = [e \in Timers |-> None]
    /\ deadline = [t \in Threads |-> None]

-------------------------------------------------------------------------------
Goto(e, label) == pc' = [pc EXCEPT ![e] = label]

\* A thread runs on a CPU that is not in an interrupt handler, and on which
\* nobody spins with interrupts disabled.
CanRunOn(c) == handler[c] = "none" /\ \A e \in Timers : spinning[e] # c

NonNegative(tick) == IF tick < 0 THEN 0 ELSE tick

\* arch_timer_set_hardware_timer(), with a time that was read so many ticks ago:
\* schedule_time - now, or at once.
SetBy(c, tick, ago) ==
    /\ hardware' = [hardware EXCEPT ![c] = NonNegative(tick + ago)]
    /\ late' = [late EXCEPT ![c] = ago]

TurnOff(c) ==
    /\ hardware' = [hardware EXCEPT ![c] = None]
    /\ late' = [late EXCEPT ![c] = 0]

\* For the first event, if there is one, by the time it is.
set_hardware_timer(c, list, times) ==
    \/ list = <<>> /\ TurnOff(c)
    \/ list # <<>> /\ SetBy(c, times[Head(list)], 0)

\* The places of a list that the walk of add_event_to_list() may stop at: an
\* event that is not earlier, or the end.
Stops(e, list, times) ==
    {i \in 1 .. Len(list) : times[list[i]] >= times[e]} \cup {Len(list) + 1}

\* In front of the first event that is not earlier.
add_event_to_list(e, list, times) == InsertAt(list, Min(Stops(e, list, times)), e)

\* add_timer() from where interrupts are disabled, so many ticks after it has read
\* the time.  If the event is the first one, the hardware timer is set by that
\* time.
add_timer(e, c, times, ago) ==
    LET list == add_event_to_list(e, events[c], times)
    IN  /\ time' = times
        /\ events' = [events EXCEPT ![c] = list]
        /\ cpu' = [cpu EXCEPT ![e] = c]
        /\ \/ Head(list) = e /\ SetBy(c, times[e], ago)
           \/ Head(list) # e /\ UNCHANGED <<hardware, late>>
        /\ UNCHANGED <<current_event, in_progress, handler, firing>>

\* The timer is in a queue: take it out.
CancelQueued(e, c) ==
    /\ cpu[e] # None
    /\ current_event[cpu[e]] # e
    /\ \E i \in DOMAIN events[cpu[e]] :
          LET list == RemoveAt(events[cpu[e]], i)
          IN  /\ events[cpu[e]][i] = e
              /\ events' = [events EXCEPT ![cpu[e]] = list]
              /\ \/ cpu[e] = c /\ set_hardware_timer(c, list, time)
                 \/ cpu[e] # c /\ UNCHANGED <<hardware, late>>
    /\ cpu' = [cpu EXCEPT ![e] = None]
    /\ UNCHANGED <<current_event, in_progress, handler, firing, time>>

\* It never was, or has fired.
CancelNotFound(e) ==
    /\ cpu[e] # None => current_event[cpu[e]] # e /\ e \notin ToSet(events[cpu[e]])
    /\ UNCHANGED timerVars

\* Its hook is running: see to it that it is not queued again.
CancelCurrent(e) ==
    /\ cpu[e] # None
    /\ current_event[cpu[e]] = e
    /\ current_event' = [current_event EXCEPT ![cpu[e]] = None]
    /\ UNCHANGED <<events, in_progress, hardware, late, handler, firing, time, cpu>>

\* Called on CPU c.  The hook that is running on another CPU is waited for.
cancel_timer(e, c) ==
    \/ /\ \/ CancelQueued(e, c)
          \/ CancelNotFound(e)
          \/ CancelCurrent(e) /\ cpu[e] = c
       /\ Goto(e, "idle")
       /\ UNCHANGED spinning
    \/ /\ CancelCurrent(e)
       /\ cpu[e] # c
       /\ Goto(e, "cancel_wait")
       /\ spinning' = [spinning EXCEPT ![e] = c]

\* The owner of a timed wait, or of a periodic timer, is done with it.
Forget(e) == deadline' = [t \in Threads |-> IF t = e THEN None ELSE deadline[t]]

CancelWait(e) ==
    /\ pc[e] = "cancel_wait"
    /\ ~in_progress[cpu[e]]
    /\ spinning' = [spinning EXCEPT ![e] = None]
    /\ Goto(e, "idle")
    /\ Forget(e)
    /\ UNCHANGED <<timerVars, user_data, wait>>

-------------------------------------------------------------------------------
(* A thread *)

Prepare(t) ==
    /\ pc[t] = "idle"
    /\ wait' = thread_prepare_to_block(wait, t)
    /\ Goto(t, "prepared")
    /\ UNCHANGED <<timerVars, user_data, spinning, deadline>>

\* Whoever the thread waits for.
Unblock(t) ==
    /\ thread_is_blocked(wait, t)
    /\ wait' = thread_unblock(wait, t, "B_OK")
    /\ UNCHANGED <<timerVars, user_data, pc, spinning, deadline>>

\* Unblocked already: return.
BlockNot(t) ==
    /\ pc[t] = "prepared"
    /\ ~thread_is_blocked(wait, t)
    /\ Goto(t, "idle")
    /\ UNCHANGED <<timerVars, user_data, wait, spinning, deadline>>

\* thread_block(), or B_INFINITE_TIMEOUT.
Block(t) ==
    /\ pc[t] = "prepared"
    /\ thread_is_blocked(wait, t)
    /\ Goto(t, "blocked")
    /\ UNCHANGED <<timerVars, user_data, wait, spinning, deadline>>

\* thread_block_with_timeout(), with the scheduler lock held and interrupts
\* disabled: the time that add_timer() reads is the time it is.
BlockWithTimeout(t, c, delay) ==
    /\ pc[t] = "prepared"
    /\ thread_is_blocked(wait, t)
    /\ CanRunOn(c)
    /\ user_data' = [user_data EXCEPT ![t] = TRUE]
    /\ add_timer(t, c, [time EXCEPT ![t] = delay], 0)
    /\ deadline' = [deadline EXCEPT ![t] = delay]
    /\ Goto(t, "timed_blocked")
    /\ UNCHANGED <<wait, spinning>>

\* The same with an absolute timeout below zero: add_timer() refuses it, which
\* nobody looks at.
BlockNegative(t) ==
    /\ pc[t] = "prepared"
    /\ thread_is_blocked(wait, t)
    /\ user_data' = [user_data EXCEPT ![t] = TRUE]
    /\ Goto(t, "timed_blocked")
    /\ UNCHANGED <<timerVars, wait, spinning, deadline>>

\* The thread runs again, the scheduler lock is unlocked, user_data is read.
Wake(t) ==
    /\ pc[t] \in {"blocked", "timed_blocked"}
    /\ ~thread_is_blocked(wait, t)
    /\ \/ pc[t] = "timed_blocked" /\ user_data[t] /\ Goto(t, "cancel") /\ UNCHANGED deadline
       \/ (pc[t] = "blocked" \/ ~user_data[t]) /\ Goto(t, "idle") /\ Forget(t)
    /\ UNCHANGED <<timerVars, user_data, wait, spinning>>

Cancel(t, c) ==
    /\ pc[t] = "cancel"
    /\ CanRunOn(c)
    /\ cancel_timer(t, c)
    /\ \/ pc'[t] = "idle" /\ Forget(t)
       \/ pc'[t] # "idle" /\ UNCHANGED deadline
    /\ UNCHANGED <<user_data, wait>>

-------------------------------------------------------------------------------
(* The owner of a periodic timer *)

\* add_timer() until it disables interrupts: the time is read and the schedule
\* time computed.
ReadTime(p) ==
    /\ pc[p] = "idle"
    /\ \E c \in CPUs : CanRunOn(c)
    /\ time' = [time EXCEPT ![p] = Period]
    /\ Goto(p, "adding")
    /\ UNCHANGED <<events, current_event, in_progress, hardware, late, handler, firing, cpu,
                   user_data, wait, spinning, deadline>>

\* The rest, for which the caller may have to wait: it can be preempted before, and
\* go on on another CPU.
AddPeriodic(p, c) ==
    /\ pc[p] = "adding"
    /\ CanRunOn(c)
    /\ add_timer(p, c, time, Period - time[p])
    /\ Goto(p, "added")
    /\ UNCHANGED <<user_data, wait, spinning, deadline>>

CancelPeriodic(p, c) ==
    /\ pc[p] = "added"
    /\ CanRunOn(c)
    /\ cancel_timer(p, c)
    /\ UNCHANGED <<user_data, wait, deadline>>

-------------------------------------------------------------------------------
(* timer_interrupt() on CPU c *)

Handler(c, label) == handler' = [handler EXCEPT ![c] = label]

TimerInterrupt(c) ==
    /\ CanRunOn(c)
    /\ hardware[c] = 0
    /\ TurnOff(c)
    /\ Handler(c, "loop")
    /\ UNCHANGED <<events, current_event, in_progress, firing, time, cpu, user_data, wait,
                   pc, spinning, deadline>>

Due(c) == events[c] # <<>> /\ time[Head(events[c])] < 0

\* Mutant: the event is not made known as the current one.
BeginEvent_NotCurrent(c) ==
    /\ handler[c] = "loop"
    /\ Due(c)
    /\ events' = [events EXCEPT ![c] = Tail(@)]
    /\ in_progress' = [in_progress EXCEPT ![c] = TRUE]
    /\ firing' = [firing EXCEPT ![c] = Head(events[c])]
    /\ Handler(c, "hook")
    /\ UNCHANGED <<current_event, hardware, late, time, cpu, user_data, wait, pc, spinning,
                   deadline>>

BeginEvent(c) ==
    /\ handler[c] = "loop"
    /\ Due(c)
    /\ events' = [events EXCEPT ![c] = Tail(@)]
    /\ current_event' = [current_event EXCEPT ![c] = Head(events[c])]
    /\ in_progress' = [in_progress EXCEPT ![c] = TRUE]
    /\ firing' = [firing EXCEPT ![c] = Head(events[c])]
    /\ Handler(c, "hook")
    /\ UNCHANGED <<hardware, late, time, cpu, user_data, wait, pc, spinning, deadline>>

\* thread_block_timeout(): unblock the thread ...
HookUnblock(c) ==
    /\ handler[c] = "hook" /\ firing[c] \in Threads
    /\ wait' = thread_unblock(wait, firing[c], "B_TIMED_OUT")
    /\ Handler(c, "hook_clear")
    /\ UNCHANGED <<events, current_event, in_progress, hardware, late, firing, time, cpu,
                   user_data, pc, spinning, deadline>>

\* ... and tell it that it need not cancel the timer.
HookClear(c) ==
    /\ handler[c] = "hook_clear"
    /\ user_data' = [user_data EXCEPT ![firing[c]] = FALSE]
    /\ Handler(c, "hook_done")
    /\ UNCHANGED <<events, current_event, in_progress, hardware, late, firing, time, cpu,
                   wait, pc, spinning, deadline>>

HookPeriodic(c) ==
    /\ handler[c] = "hook" /\ firing[c] \in Periodic
    /\ Handler(c, "hook_done")
    /\ UNCHANGED <<events, current_event, in_progress, hardware, late, firing, time, cpu,
                   user_data, wait, pc, spinning, deadline>>

\* A hook that cancels its own timer, which is not waited for.
HookCancel(c) ==
    LET p == firing[c]
    IN  /\ handler[c] = "hook" /\ p \in Periodic
        /\ pc[p] = "added"
        /\ current_event[c] = p
        /\ current_event' = [current_event EXCEPT ![c] = None]
        /\ Handler(c, "hook_done")
        /\ Goto(p, "idle")
        /\ UNCHANGED <<events, in_progress, hardware, late, firing, time, cpu, user_data,
                       wait, spinning, deadline>>

HookDone(c) ==
    /\ handler[c] = "hook_done"
    /\ in_progress' = [in_progress EXCEPT ![c] = FALSE]
    /\ Handler(c, "after")
    /\ UNCHANGED <<events, current_event, hardware, late, firing, time, cpu, user_data, wait,
                   pc, spinning, deadline>>

\* Mutant: a periodic event is queued again whether it was cancelled or not.
EndEvent_Requeue(c) ==
    LET e == firing[c]
        times == [time EXCEPT ![e] = 0]
        again == e \in Periodic
    IN  /\ handler[c] = "after"
        /\ time' = IF again THEN times ELSE time
        /\ events' = IF again
                     THEN [events EXCEPT ![c] = add_event_to_list(e, @, times)] ELSE events
        /\ current_event' = [current_event EXCEPT ![c] = None]
        /\ firing' = [firing EXCEPT ![c] = None]
        /\ Handler(c, "loop")
        /\ UNCHANGED <<in_progress, hardware, late, cpu, user_data, wait, pc, spinning,
                       deadline>>

\* Under the spinlock again: the next time of a periodic event that was not
\* cancelled.  One period after a time in the past, or the closest multiple of it
\* in the past, is now: the period is one tick.
EndEvent(c) ==
    LET e == firing[c]
        times == [time EXCEPT ![e] = 0]
        again == e \in Periodic /\ current_event[c] # None
    IN  /\ handler[c] = "after"
        /\ time' = IF again THEN times ELSE time
        /\ events' = IF again
                     THEN [events EXCEPT ![c] = add_event_to_list(e, @, times)] ELSE events
        /\ current_event' = [current_event EXCEPT ![c] = None]
        /\ firing' = [firing EXCEPT ![c] = None]
        /\ Handler(c, "loop")
        /\ UNCHANGED <<in_progress, hardware, late, cpu, user_data, wait, pc, spinning,
                       deadline>>

\* Mutant: the hardware timer is left off.
EndInterrupt_Off(c) ==
    /\ handler[c] = "loop"
    /\ ~Due(c)
    /\ Handler(c, "none")
    /\ UNCHANGED <<events, current_event, in_progress, hardware, late, firing, time, cpu,
                   user_data, wait, pc, spinning, deadline>>

\* Nothing is due any more: set the hardware timer for the first event.
EndInterrupt(c) ==
    /\ handler[c] = "loop"
    /\ ~Due(c)
    /\ \/ events[c] # <<>> /\ set_hardware_timer(c, events[c], time)
       \/ events[c] = <<>> /\ UNCHANGED <<hardware, late>>
    /\ Handler(c, "none")
    /\ UNCHANGED <<events, current_event, in_progress, firing, time, cpu, user_data, wait,
                   pc, spinning, deadline>>

-------------------------------------------------------------------------------
Shifted(tick, diff) == IF tick + diff < Past THEN Past ELSE tick + diff

\* What a queue is after its timers by the real-time clock were taken out and put
\* back, the last one first: in the order of the new times, each of those timers
\* in front of the others of its time.
IsRequeued(list, queue, times) ==
    /\ IsInjective(list)
    /\ \A i, j \in DOMAIN list : i < j =>
          \/ times[list[i]] < times[list[j]]
          \/ /\ times[list[i]] = times[list[j]]
             /\ list[i] \in RealTime \/ list[j] \notin RealTime
             /\ (list[i] \in RealTime <=> list[j] \in RealTime) =>
                   \E k, l \in DOMAIN queue : k < l /\ queue[k] = list[i] /\ queue[l] = list[j]

\* Mutant: only a new first event among those that stayed counts.
per_cpu_real_time_clock_changed_Stayed(c, diff) ==
    LET affected == ToSet(events[c]) \cap RealTime
        times == [e \in Timers |-> IF e \in affected THEN Shifted(time[e], diff) ELSE time[e]]
    IN  /\ CanRunOn(c)
        /\ affected # {}
        /\ \A e \in affected : times[e] <= MaxDelay
        /\ time' = times
        /\ \E list \in [DOMAIN events[c] -> ToSet(events[c])] :
              /\ IsRequeued(list, events[c], times)
              /\ events' = [events EXCEPT ![c] = list]
              /\ \/ Head(events[c]) \in RealTime /\ set_hardware_timer(c, list, times)
                 \/ Head(events[c]) \notin RealTime /\ UNCHANGED <<hardware, late>>
        /\ deadline' = [t \in Threads |-> IF t \in affected THEN times[t] ELSE deadline[t]]
        /\ UNCHANGED <<current_event, in_progress, handler, firing, cpu, user_data, wait, pc,
                       spinning>>

\* The real-time clock was set: the timers that go by it are taken out of the
\* queue, shifted, and put back.  The hardware timer is set if the first event
\* was one of them, or is one now.
per_cpu_real_time_clock_changed(c, diff) ==
    LET affected == ToSet(events[c]) \cap RealTime
        times == [e \in Timers |-> IF e \in affected THEN Shifted(time[e], diff) ELSE time[e]]
    IN  /\ CanRunOn(c)
        /\ affected # {}
        /\ \A e \in affected : times[e] <= MaxDelay
        /\ time' = times
        /\ \E list \in [DOMAIN events[c] -> ToSet(events[c])] :
              LET firstEventChanged == \/ Head(events[c]) \in RealTime
                                       \/ Head(list) # Head(events[c])
              IN  /\ IsRequeued(list, events[c], times)
                  /\ events' = [events EXCEPT ![c] = list]
                  /\ \/ firstEventChanged /\ set_hardware_timer(c, list, times)
                     \/ ~firstEventChanged /\ UNCHANGED <<hardware, late>>
        /\ deadline' = [t \in Threads |-> IF t \in affected THEN times[t] ELSE deadline[t]]
        /\ UNCHANGED <<current_event, in_progress, handler, firing, cpu, user_data, wait, pc,
                       spinning>>

\* The clock and the hardware timers.
Later(tick) == IF tick = Past THEN Past ELSE tick - 1

\* No add_timer() call takes more than MaxLate ticks.
Tick ==
    /\ \A p \in Periodic : pc[p] = "adding" => time[p] > Period - MaxLate
    /\ time' = [e \in Timers |-> Later(time[e])]
    /\ hardware' = [c \in CPUs |-> IF hardware[c] = None THEN None
                                   ELSE NonNegative(hardware[c] - 1)]
    /\ deadline' = [t \in Threads |-> IF deadline[t] = None THEN None ELSE Later(deadline[t])]
    /\ UNCHANGED <<events, current_event, in_progress, late, handler, firing, cpu, user_data,
                   wait, pc, spinning>>

InHandler(c) ==
    \/ BeginEvent(c) \/ HookUnblock(c) \/ HookClear(c) \/ HookPeriodic(c) \/ HookCancel(c)
    \/ HookDone(c) \/ EndEvent(c) \/ EndInterrupt(c)

Leave(t) == Wake(t) \/ CancelWait(t) \/ \E c \in CPUs : Cancel(t, c)

BlockCall(t) ==
    \/ Prepare(t) \/ BlockNot(t) \/ Block(t) \/ BlockNegative(t)
    \/ \E c \in CPUs, delay \in 0..MaxDelay : BlockWithTimeout(t, c, delay)

Next ==
    \/ \E t \in Threads : BlockCall(t) \/ Unblock(t) \/ Leave(t)
    \/ \E p \in Periodic :
          \/ CancelWait(p) \/ ReadTime(p)
          \/ \E c \in CPUs : AddPeriodic(p, c) \/ CancelPeriodic(p, c)
    \/ \E c \in CPUs : TimerInterrupt(c) \/ InHandler(c)
    \/ \E c \in CPUs, diff \in {-1, 1} : per_cpu_real_time_clock_changed(c, diff)
    \/ Tick

Spec == Init /\ [][Next]_vars

\* Time passes; an interrupt is taken when interrupts are enabled again and its
\* handler runs on; a thread that was unblocked runs some time, and so does one
\* that was preempted in add_timer(), or spins in cancel_timer() and sees
\* in_progress change in the end.
FairSpec ==
    /\ Spec
    /\ WF_vars(Tick)
    /\ \A c \in CPUs : SF_vars(TimerInterrupt(c)) /\ WF_vars(InHandler(c))
    /\ \A t \in Threads : SF_vars(Leave(t))
    /\ \A e \in Timers : SF_vars(CancelWait(e))
    /\ \A p \in Periodic : SF_vars(\E c \in CPUs : AddPeriodic(p, c))

-------------------------------------------------------------------------------
Waiting == {"prepared", "blocked", "timed_blocked", "cancel", "cancel_wait"}

\* A wait ends with B_TIMED_OUT only if it had a timeout, and not before it: no
\* timer of an earlier wait of the thread ends this one.
TimeoutIsDue ==
    \A t \in Threads :
        pc[t] \in Waiting /\ wait[t] = "B_TIMED_OUT" => deadline[t] \in Past..-1

\* As long as the hook of a thread's timer may unblock the thread or write its
\* user_data, the thread has not left the wait the timer was added for.
HookMeetsItsWait ==
    \A c \in CPUs :
        handler[c] \in {"hook", "hook_clear"} /\ firing[c] \in Threads =>
            /\ pc[firing[c]] \in {"timed_blocked", "cancel", "cancel_wait"}
            /\ deadline[firing[c]] # None
            /\ user_data[firing[c]]

\* A timeout ends the wait it was meant for, when it is due, and no other.
TimeoutMeetsItsWait == TimeoutIsDue /\ HookMeetsItsWait

\* Once cancel_timer() has returned (or a thread its wait), the timer is in no
\* queue and no hook of it is running, or will, except on a CPU whose hook
\* cancelled it itself.
CancelIsFinal ==
    \A e \in Timers :
        pc[e] \in {"idle", "prepared", "adding"} =>
            \A c \in CPUs : /\ e \notin ToSet(events[c])
                            /\ ~(firing[c] = e /\ handler[c] = "hook")

\* In ascending order of schedule_time.
InOrder(list, times) ==
    \A i, j \in DOMAIN list : i < j => times[list[i]] <= times[list[j]]

\* A timer is in one queue at most, once, and knows which: the queues are linked
\* through the timers.
QueuedOnce ==
    \A c \in CPUs :
        /\ IsInjective(events[c])
        /\ \A e \in ToSet(events[c]) : cpu[e] = c
        /\ InOrder(events[c], time)

\* Outside the handler the hardware timer of a CPU goes off no later than its
\* first event is due and, if an add_timer() call has set it, than that call's
\* delay after it: add_timer() sets the hardware by the time it read before it
\* disabled interrupts.
HardwareIsSet ==
    \A c \in CPUs :
        handler[c] = "none" /\ events[c] # <<>> =>
            /\ hardware[c] # None
            /\ hardware[c] <= NonNegative(time[Head(events[c])] + late[c])

\* The queues are sound and the hardware is set for them.
Consistent == TypeOK /\ QueuedOnce /\ HardwareIsSet

\* The clock was set back: what goes by it is due later.
SetBack == \E c \in CPUs : per_cpu_real_time_clock_changed(c, 1)

\* A wait with a timeout ends, whoever else forgets about the thread, unless the
\* clock is set back for ever.
TimedWaitEnds ==
    <>[][~SetBack]_vars => \A t \in Threads : deadline[t] # None ~> deadline[t] = None
===============================================================================
