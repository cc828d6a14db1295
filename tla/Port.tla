--------------------------------- MODULE Port ---------------------------------
(***************************************************************************)
(* A message port (src/system/kernel/port.cpp): readers and writers wait   *)
(* on the condition variables of the port, without its lock, and look the  *)
(* port up by its id again when they wake, while others close or delete    *)
(* it; a writer that has its slot may have to wait once more, for a share  *)
(* of the memory all messages have together.  A critical section of        *)
(* Port::lock is one step.  The condition variables are what Monitor's run *)
(* shows them to be: a wait ends with the result it was notified with, or, *)
(* not notified, with a timeout or a signal.  A message takes one unit of  *)
(* space.                                                                  *)
(***************************************************************************)
EXTENDS Integers, Sequences, SequencesExt, FiniteSets, WaitStatus

CONSTANTS
    Readers,        \* the threads that read ...
    Lookers,        \* ... the ones that also peek, and ask for message infos
    Writers,        \* the threads that write
    Fallible,       \* the threads whose waits may time out or be interrupted
    Infos,          \* select_infos
    QueueLength,    \* create_port(): queueLength
    SpaceLimit      \* kTotalSpaceLimit, in messages

ASSUME PortAssumption ==
    /\ IsFiniteSet(Readers) /\ IsFiniteSet(Writers) /\ IsFiniteSet(Infos)
    /\ Lookers \subseteq Readers
    /\ Readers \cap Writers = {}
    /\ Fallible \subseteq Readers \cup Writers
    /\ QueueLength \in Nat \ {0}
    /\ SpaceLimit \in Nat \ {0}

Threads == Readers \cup Writers

Events == {"READ", "WRITE", "INVALID"}

VARIABLES
    state,              \* Port::state
    hashed,             \* whether sPorts has the port
    uninit,             \* uninit_port() was called
    capacity,
    read_count,
    write_count,
    messages,           \* the number of messages in the list
    conditions,         \* read_condition, write_condition, sNoSpaceCondition
    select_infos,
    told,               \* per info: the events it was notified of
    sTotalSpaceCommited,
    sWaitingForSpace,
    pc,                 \* where in port.cpp a thread is
    call,               \* what it is doing
    result,             \* what its wait returns
    overbooked          \* history: a writer without a slot has woken another one

portVars == <<state, hashed, uninit, capacity>>
queueVars == <<read_count, write_count, messages>>
selectVars == <<select_infos, told>>
spaceVars == <<sTotalSpaceCommited, sWaitingForSpace>>
vars == <<portVars, queueVars, conditions, selectVars, spaceVars, pc, call, result, overbooked>>

Calls == {"read", "peek", "info", "write"}

TypeOK ==
    /\ state \in {"kUnused", "kActive", "kDeleted"}
    /\ hashed \in BOOLEAN /\ uninit \in BOOLEAN
    /\ capacity \in {0, QueueLength}
    /\ read_count \in Nat
    /\ write_count \in Int
    /\ messages \in Nat
    /\ conditions \in [{"read", "write", "space"} -> Seq(Threads)]
    /\ select_infos \subseteq Infos
    /\ told \in [Infos -> SUBSET Events]
    /\ sTotalSpaceCommited \in 0..SpaceLimit
    /\ sWaitingForSpace \in 0..Cardinality(Writers)
    /\ pc \in [Threads -> {"idle", "lock", "wait", "relock", "copy", "put",
                           "space", "space_wait", "space_woken", "space_lock"}]
    /\ call \in [Threads -> Calls]
    /\ result \in [Threads -> {"B_OK", "B_TIMED_OUT", "B_INTERRUPTED", "B_BAD_PORT_ID"}]
    /\ overbooked \in BOOLEAN

Init ==
    /\ state = "kUnused" /\ hashed = FALSE /\ uninit = FALSE
    /\ capacity = QueueLength
    /\ read_count = 0
    /\ write_count = QueueLength
    /\ messages = 0
    /\ conditions = [c \in {"read", "write", "space"} |-> <<>>]
    /\ select_infos = {}
    /\ told = [i \in Infos |-> {}]
    /\ sTotalSpaceCommited = 0
    /\ sWaitingForSpace = 0
    /\ pc = [t \in Threads |-> "idle"]
    /\ call = [t \in Threads |-> IF t \in Writers THEN "write" ELSE "read"]
    /\ result = [t \in Threads |-> "B_OK"]
    /\ overbooked = FALSE

-------------------------------------------------------------------------------
Goto(t, label) == pc' = [pc EXCEPT ![t] = label]

is_port_closed == capacity = 0

\* The look-up and the test of the state; the lock is taken afterwards.
get_locked_port == hashed /\ state = "kActive"

notify_port_select_events(event) ==
    told' = [i \in Infos |-> IF i \in select_infos THEN told[i] \cup {event} ELSE told[i]]

\* ConditionVariable::NotifyOne(): a result of B_OK was set by Waits().
AfterNotifyOne(c) == [conditions EXCEPT ![c] = IF @ = <<>> THEN @ ELSE Tail(@)]

NotifyOne(c) == conditions' = AfterNotifyOne(c)

\* put_port_message(): those that wait for space, if they have counted themselves.
NotifySpace(conds) ==
    [conds EXCEPT !["space"] = IF sWaitingForSpace > 0 THEN <<>> ELSE @]

\* The readers' and the writers' conditions, NotifyAll(B_BAD_PORT_ID), and the end
\* of the select_infos.
EndWaits ==
    LET waiting == ToSet(conditions["read"]) \cup ToSet(conditions["write"])
    IN  /\ conditions' = [conditions EXCEPT !["read"] = <<>>, !["write"] = <<>>]
        /\ result' = [t \in Threads |-> IF t \in waiting THEN "B_BAD_PORT_ID" ELSE result[t]]
        /\ notify_port_select_events("INVALID")
        /\ select_infos' = {}

\* ConditionVariable::Add(), unlock, and the wait.
Waits(t, c, label) ==
    /\ conditions' = [conditions EXCEPT ![c] = Append(@, t)]
    /\ result' = [result EXCEPT ![t] = "B_OK"]
    /\ Goto(t, label)

IsWaiting(t) == \E c \in DOMAIN conditions : t \in ToSet(conditions[c])

\* A timeout or a signal; only a writer that waits for space tells them apart.
GiveUp(t, status) ==
    /\ t \in Fallible
    /\ \E c \in DOMAIN conditions : \E i \in DOMAIN conditions[c] :
          /\ conditions[c][i] = t
          /\ status = "B_INTERRUPTED" => c = "space"
          /\ conditions' = [conditions EXCEPT ![c] = RemoveAt(@, i)]
    /\ result' = [result EXCEPT ![t] = status]
    /\ UNCHANGED <<portVars, queueVars, selectVars, spaceVars, pc, call, overbooked>>

-------------------------------------------------------------------------------
(* The port's life.  close_port(), and select_port() and deselect_port() below,  *)
(* find the port and lock it in one step.                                        *)

\* create_port(), into the hash tables ...
CreateInsert ==
    /\ state = "kUnused" /\ ~hashed
    /\ hashed' = TRUE
    /\ UNCHANGED <<state, uninit, capacity, queueVars, conditions, selectVars, spaceVars, pc,
                   call, result, overbooked>>

\* ... and existent.
CreateActivate ==
    /\ state = "kUnused" /\ hashed
    /\ state' = "kActive"
    /\ UNCHANGED <<hashed, uninit, capacity, queueVars, conditions, selectVars, spaceVars, pc,
                   call, result, overbooked>>

close_port ==
    /\ get_locked_port
    /\ capacity' = 0
    /\ EndWaits
    /\ UNCHANGED <<state, hashed, uninit, queueVars, spaceVars, pc, call, overbooked>>

\* A port that is being created is waited for; of several deletions one succeeds.
delete_port_logical ==
    /\ hashed /\ state = "kActive"
    /\ state' = "kDeleted"
    /\ UNCHANGED <<hashed, uninit, capacity, queueVars, conditions, selectVars, spaceVars, pc,
                   call, result, overbooked>>

DeleteRemove ==
    /\ state = "kDeleted" /\ hashed
    /\ hashed' = FALSE
    /\ UNCHANGED <<state, uninit, capacity, queueVars, conditions, selectVars, spaceVars, pc,
                   call, result, overbooked>>

uninit_port ==
    /\ state = "kDeleted" /\ ~hashed /\ ~uninit
    /\ uninit' = TRUE
    /\ EndWaits
    /\ UNCHANGED <<state, hashed, capacity, queueVars, spaceVars, pc, call, overbooked>>

-------------------------------------------------------------------------------
(* select_port() and deselect_port() *)

select_port(i) ==
    /\ get_locked_port
    /\ i \notin select_infos
    /\ ~is_port_closed
    /\ select_infos' = select_infos \cup {i}
    /\ told' = [told EXCEPT ![i] = (IF messages > 0 THEN {"READ"} ELSE {})
                                   \cup (IF write_count > 0 THEN {"WRITE"} ELSE {})]
    /\ UNCHANGED <<portVars, queueVars, conditions, spaceVars, pc, call, result, overbooked>>

deselect_port(i) ==
    /\ get_locked_port
    /\ i \in select_infos
    /\ select_infos' = select_infos \ {i}
    /\ told' = [told EXCEPT ![i] = {}]
    /\ UNCHANGED <<portVars, queueVars, conditions, spaceVars, pc, call, result, overbooked>>

-------------------------------------------------------------------------------
(* read_port_etc(), with and without B_PEEK_PORT_MESSAGE, and               *)
(* _get_port_message_info_etc()                                             *)

Reading == {"read", "peek", "info"}

Return(t) ==
    /\ Goto(t, "idle")
    /\ call' = [call EXCEPT ![t] = IF t \in Writers THEN "write" ELSE "read"]
    /\ result' = [result EXCEPT ![t] = "B_OK"]

ReturnOnly(t) ==
    /\ Return(t)
    /\ UNCHANGED <<portVars, queueVars, conditions, selectVars, spaceVars, overbooked>>

\* B_BAD_PORT_ID
BeginNot(t) ==
    /\ pc[t] = "idle"
    /\ ~get_locked_port
    /\ UNCHANGED vars

Begin(t, what) ==
    /\ pc[t] = "idle"
    /\ t \in (CASE what = "write" -> Writers [] what = "read" -> Readers [] OTHER -> Lookers)
    /\ get_locked_port
    /\ Goto(t, "lock")
    /\ call' = [call EXCEPT ![t] = what]
    /\ UNCHANGED <<portVars, queueVars, conditions, selectVars, spaceVars, result, overbooked>>

\* The wait is over; the port is looked up again.
Woken(t) ==
    /\ pc[t] = "wait"
    /\ ~IsWaiting(t)
    /\ \/ /\ get_locked_port
          /\ ~(call[t] = "info" /\ result[t] # "B_OK")
          /\ Goto(t, "relock")
          /\ UNCHANGED <<portVars, queueVars, conditions, selectVars, spaceVars, call, result,
                         overbooked>>
       \/ /\ ~get_locked_port \/ (call[t] = "info" /\ result[t] # "B_OK")
          /\ ReturnOnly(t)

AtReadLock(t) == pc[t] \in {"lock", "relock"} /\ call[t] \in Reading

\* The port is closed and empty, or the wait failed.
ReadFail(t) ==
    /\ AtReadLock(t)
    /\ (is_port_closed /\ messages = 0) \/ result[t] # "B_OK"
    /\ ReturnOnly(t)

MayRead(t) ==
    /\ AtReadLock(t)
    /\ ~(is_port_closed /\ messages = 0)
    /\ result[t] = "B_OK"

\* B_WOULD_BLOCK
ReadWouldBlock(t) ==
    /\ MayRead(t)
    /\ pc[t] = "lock"
    /\ read_count = 0
    /\ ReturnOnly(t)

ReadWait(t) ==
    /\ MayRead(t)
    /\ read_count = 0
    /\ Waits(t, "read", "wait")
    /\ UNCHANGED <<portVars, queueVars, selectVars, spaceVars, call, overbooked>>

\* Mutant: the one that only looked does not wake the next reader.
ReadLook_Keep(t) ==
    /\ MayRead(t)
    /\ read_count > 0
    /\ call[t] \in {"peek", "info"}
    /\ Return(t)
    /\ UNCHANGED <<portVars, queueVars, conditions, selectVars, spaceVars, overbooked>>

\* The message stays where it is.
ReadLook(t) ==
    /\ MayRead(t)
    /\ read_count > 0
    /\ call[t] \in {"peek", "info"}
    /\ NotifyOne("read")
    /\ Return(t)
    /\ UNCHANGED <<portVars, queueVars, selectVars, spaceVars, overbooked>>

ReadTake(t) ==
    /\ MayRead(t)
    /\ read_count > 0
    /\ call[t] = "read"
    /\ messages' = messages - 1
    /\ write_count' = write_count + 1
    /\ read_count' = read_count - 1
    /\ notify_port_select_events("WRITE")
    /\ NotifyOne("write")
    /\ Goto(t, "copy")
    /\ UNCHANGED <<portVars, select_infos, spaceVars, call, result, overbooked>>

\* put_port_message(), after the message was copied: give the space back ...
PutFree(t) ==
    /\ pc[t] = "copy"
    /\ sTotalSpaceCommited' = sTotalSpaceCommited - 1
    /\ Goto(t, "put")
    /\ UNCHANGED <<portVars, queueVars, conditions, selectVars, sWaitingForSpace, call, result,
                   overbooked>>

\* ... and wake those that wait for it.
PutNotify(t) ==
    /\ pc[t] = "put"
    /\ conditions' = NotifySpace(conditions)
    /\ Return(t)
    /\ UNCHANGED <<portVars, queueVars, selectVars, spaceVars, overbooked>>

-------------------------------------------------------------------------------
(* writev_port_etc() *)

\* error: the slot, or the place in the queue for one, is given up.
GiveUpSlot(t, count, conds) ==
    /\ write_count' = count
    /\ notify_port_select_events("WRITE")
    /\ conditions' = conds
    /\ Return(t)
    /\ UNCHANGED <<portVars, read_count, messages, select_infos, spaceVars>>

HasSpace == sTotalSpaceCommited + 1 <= SpaceLimit

\* Mutant: select() is not told.
Enqueue_Unselected(t) ==
    /\ HasSpace
    /\ sTotalSpaceCommited' = sTotalSpaceCommited + 1
    /\ messages' = messages + 1
    /\ read_count' = read_count + 1
    /\ NotifyOne("read")
    /\ Return(t)
    /\ UNCHANGED <<portVars, selectVars, sWaitingForSpace, overbooked>>

\* There is space for the message.
Enqueue(t) ==
    /\ HasSpace
    /\ sTotalSpaceCommited' = sTotalSpaceCommited + 1
    /\ messages' = messages + 1
    /\ read_count' = read_count + 1
    /\ notify_port_select_events("READ")
    /\ NotifyOne("read")
    /\ Return(t)
    /\ UNCHANGED <<portVars, select_infos, sWaitingForSpace, overbooked>>

\* user_memcpy() of the payload failed: the message, and its space, are put back.
CopyFails(t, count) ==
    /\ HasSpace
    /\ GiveUpSlot(t, count, NotifySpace(AfterNotifyOne("write")))
    /\ UNCHANGED overbooked

\* No space, and no time to wait for it.
NoSpace(t, count) ==
    /\ ~HasSpace
    /\ GiveUpSlot(t, count, AfterNotifyOne("write"))
    /\ UNCHANGED overbooked

\* get_port_message(): a share of the space, added and taken away again, is not
\* to be had.  The port is unlocked.
AwaitSpace(t) ==
    /\ ~HasSpace
    /\ Waits(t, "space", "space")
    /\ UNCHANGED <<portVars, read_count, messages, selectVars, spaceVars, overbooked>>

AtWriteLock(t) == pc[t] = "lock" /\ call[t] = "write"

\* The port is closed.
WriteClosed(t) ==
    /\ AtWriteLock(t) \/ (pc[t] = "relock" /\ call[t] = "write") \/ pc[t] = "space_lock"
    /\ is_port_closed
    /\ ReturnOnly(t)

\* B_WOULD_BLOCK
WriteWouldBlock(t) ==
    /\ AtWriteLock(t)
    /\ ~is_port_closed
    /\ write_count <= 0
    /\ ReturnOnly(t)

WriteWait(t) ==
    /\ AtWriteLock(t)
    /\ ~is_port_closed
    /\ write_count <= 0
    /\ write_count' = write_count - 1
    /\ Waits(t, "write", "wait")
    /\ UNCHANGED <<portVars, read_count, messages, selectVars, spaceVars, call, overbooked>>

\* A free slot.
WriteNow(t) ==
    /\ AtWriteLock(t)
    /\ ~is_port_closed
    /\ write_count > 0
    /\ \/ Enqueue(t) /\ write_count' = write_count - 1
       \/ AwaitSpace(t) /\ write_count' = write_count - 1 /\ UNCHANGED call
       \/ CopyFails(t, write_count)
       \/ NoSpace(t, write_count)

\* The wait for a slot was notified: it is this thread's.
WriteSlot(t) ==
    /\ pc[t] = "relock" /\ call[t] = "write"
    /\ ~is_port_closed
    /\ result[t] = "B_OK"
    /\ \/ Enqueue(t) /\ UNCHANGED write_count
       \/ CopyFails(t, write_count + 1)
       \/ AwaitSpace(t) /\ UNCHANGED <<write_count, call>>

\* Mutant: nothing is given back.
WriteFail_NoSlot(t) ==
    /\ pc[t] = "relock" /\ call[t] = "write"
    /\ ~is_port_closed
    /\ result[t] # "B_OK"
    /\ ReturnOnly(t)

\* The wait failed.  The next writer is woken all the same.
WriteFail(t) ==
    /\ pc[t] = "relock" /\ call[t] = "write"
    /\ ~is_port_closed
    /\ result[t] # "B_OK"
    /\ GiveUpSlot(t, write_count + 1, AfterNotifyOne("write"))
    /\ overbooked' = (overbooked \/ conditions["write"] # <<>>)

\* Having added itself to the condition the writer counts itself.
SpaceCount(t) ==
    /\ pc[t] = "space"
    /\ sWaitingForSpace' = sWaitingForSpace + 1
    /\ Goto(t, "space_wait")
    /\ UNCHANGED <<portVars, queueVars, conditions, selectVars, sTotalSpaceCommited, call,
                   result, overbooked>>

SpaceWoken(t) ==
    /\ pc[t] = "space_wait"
    /\ ~IsWaiting(t)
    /\ sWaitingForSpace' = sWaitingForSpace - 1
    /\ Goto(t, "space_woken")
    /\ UNCHANGED <<portVars, queueVars, conditions, selectVars, sTotalSpaceCommited, call,
                   result, overbooked>>

\* If the port is gone, writev_port_etc() returns without the lock.
SpaceLookup(t) ==
    /\ pc[t] = "space_woken"
    /\ \/ /\ get_locked_port
          /\ Goto(t, "space_lock")
          /\ UNCHANGED <<portVars, queueVars, conditions, selectVars, spaceVars, call, result,
                         overbooked>>
       \/ ~get_locked_port /\ ReturnOnly(t)

\* Mutant: whether the port was closed meanwhile is not looked at.
SpaceAgain_Unchecked(t) ==
    /\ pc[t] = "space_lock"
    /\ \/ /\ result[t] = "B_TIMED_OUT"
          /\ GiveUpSlot(t, write_count + 1, AfterNotifyOne("write"))
          /\ UNCHANGED overbooked
       \/ /\ result[t] # "B_TIMED_OUT"
          /\ \/ Enqueue(t) /\ UNCHANGED write_count
             \/ CopyFails(t, write_count + 1)
             \/ AwaitSpace(t) /\ UNCHANGED <<write_count, call>>

\* Only a timeout ends the wait for space, a signal does not.
SpaceAgain(t) ==
    /\ pc[t] = "space_lock"
    /\ ~is_port_closed
    /\ \/ /\ result[t] = "B_TIMED_OUT"
          /\ GiveUpSlot(t, write_count + 1, AfterNotifyOne("write"))
          /\ UNCHANGED overbooked
       \/ /\ result[t] # "B_TIMED_OUT"
          /\ \/ Enqueue(t) /\ UNCHANGED write_count
             \/ CopyFails(t, write_count + 1)
             \/ AwaitSpace(t) /\ UNCHANGED <<write_count, call>>

-------------------------------------------------------------------------------
Read(t) ==
    \/ ReadFail(t) \/ ReadWouldBlock(t) \/ ReadWait(t) \/ ReadLook(t) \/ ReadTake(t)
    \/ PutFree(t) \/ PutNotify(t)

Write(t) ==
    \/ WriteClosed(t) \/ WriteWouldBlock(t) \/ WriteWait(t) \/ WriteNow(t) \/ WriteSlot(t)
    \/ WriteFail(t) \/ SpaceCount(t) \/ SpaceWoken(t) \/ SpaceLookup(t) \/ SpaceAgain(t)

InCall(t) == Woken(t) \/ Read(t) \/ Write(t)

PortLife ==
    \/ CreateInsert \/ CreateActivate \/ close_port \/ delete_port_logical \/ DeleteRemove
    \/ uninit_port

Next ==
    \/ \E t \in Threads, what \in Calls : Begin(t, what)
    \/ \E t \in Threads : BeginNot(t) \/ InCall(t)
    \/ \E t \in Threads, status \in {"B_TIMED_OUT", "B_INTERRUPTED"} : GiveUp(t, status)
    \/ \E i \in Infos : select_port(i) \/ deselect_port(i)
    \/ PortLife

Spec == Init /\ [][Next]_vars

-------------------------------------------------------------------------------
InUse == state = "kActive" /\ ~is_port_closed

\* The writers that have lowered write_count and not written: they have a slot,
\* wait for one, or were told that they will not get one.
InLine == {t \in Writers : pc[t] \notin {"idle", "lock"}}

InSpaceWait == {"space", "space_wait", "space_woken", "space_lock"}

\* The ones that have one.
Holders == {t \in InLine : pc[t] \in InSpaceWait \/ (~IsWaiting(t) /\ result[t] = "B_OK")}

Losers == InLine \ (Holders \cup ToSet(conditions["write"]))

\* The readers that were woken for a message and have not locked the port yet.
Called == {t \in Readers : pc[t] \in {"wait", "relock"} /\ ~IsWaiting(t) /\ result[t] = "B_OK"}

\* read_count is the number of messages and write_count the number of free slots,
\* less those in line for one: whatever way writers and readers leave, no slot is
\* given back twice, or never.
CountsAreExact ==
    /\ read_count = messages
    /\ InUse => write_count = capacity - messages - Cardinality(InLine)

\* The same of the space that all messages share.
SpaceIsExact ==
    /\ sTotalSpaceCommited = messages + Cardinality({t \in Readers : pc[t] = "copy"})
    /\ sWaitingForSpace = Cardinality({t \in Writers : pc[t] = "space_wait"})

\* A reader is left waiting only if there are as many called as there are messages:
\* no wake-up is lost on a thread that gives up, only looks, or comes too late.
NoStrandedReader ==
    InUse /\ conditions["read"] # <<>> => read_count <= Cardinality(Called)

\* A writer is left waiting only if every slot is taken or will be passed on.
NoStrandedWriter ==
    InUse /\ conditions["write"] # <<>> =>
        messages + Cardinality(Holders) + Cardinality(Losers) >= capacity

\* Unless a writer that gave up waiting has woken another one, which then takes it
\* for a slot, the queue keeps to its length.
QueueIsBounded ==
    InUse /\ ~overbooked => messages + Cardinality(Holders) <= capacity

\* No wake-up for a message, or for a slot, is lost.
NobodyIsStranded == NoStrandedReader /\ NoStrandedWriter

\* Slots and space are accounted for, and the queue keeps to its length.
Consistent == TypeOK /\ CountsAreExact /\ SpaceIsExact /\ QueueIsBounded

\* On a closed port nobody waits for a message or for a slot, and no select() is
\* left.  The writers that wait for space are not among those close_port() wakes.
ClosedEndsWaits ==
    is_port_closed =>
        conditions["read"] = <<>> /\ conditions["write"] = <<>> /\ select_infos = {}

\* A step on a closed port: it stays closed, no message gets in, and nobody begins
\* to wait for anything.
OnlyEmpties ==
    is_port_closed =>
        /\ is_port_closed'
        /\ messages' <= messages
        /\ \A t \in Threads : IsWaiting(t)' => IsWaiting(t)

\* close_port() ends the waits for messages and slots for good, and from then on
\* nothing gets into the queue, also not from a writer that has its slot and was
\* waiting for space: when its wait ends it finds the port closed.
ClosedIsOver == []ClosedEndsWaits /\ [][OnlyEmpties]_vars

\* What can be read, or written, select() was told of since it asked.
SelectIsTold ==
    \A i \in select_infos :
        /\ messages > 0 => "READ" \in told[i]
        /\ InUse /\ write_count > 0 => "WRITE" \in told[i]
===============================================================================
