------------------------------ MODULE PortProofs ------------------------------
(***************************************************************************)
(* The safety of a port for any number of readers and writers, any length  *)
(* of its queue and any limit of the space: no slot, message or wake-up is *)
(* lost, whoever times out, is interrupted, or finds the port closed.      *)
(***************************************************************************)
EXTENDS Port, QueueLemmas

\* The threads that wait on a condition variable.
On(c) == ToSet(conditions[c])

\* A port is in the hash table while it is in use, and nobody has been near it
\* before.
LifeIsSound ==
    /\ state = "kActive" => hashed
    /\ state = "kUnused" =>
          /\ capacity = QueueLength /\ write_count = QueueLength /\ messages = 0
          /\ select_infos = {}
          /\ \A t \in Threads : pc[t] = "idle"

\* Where in the code a reader and a writer can be, and with which result.
CallsAreSound ==
    \A t \in Threads :
        /\ t \in Writers => call[t] = "write" /\ pc[t] \notin {"copy", "put"}
        /\ t \in Readers => call[t] \in Reading /\ pc[t] \notin InSpaceWait
        /\ pc[t] \in {"idle", "lock", "copy", "put"} => result[t] = "B_OK"

\* Who waits is in the call it should be in, once, and was not notified.
QueuesAreSound ==
    /\ \A c \in {"read", "write", "space"} : IsInjective(conditions[c])
    /\ \A t \in On("read") : t \in Readers /\ pc[t] = "wait" /\ result[t] = "B_OK"
    /\ \A t \in On("write") : t \in Writers /\ pc[t] = "wait" /\ result[t] = "B_OK"
    /\ \A t \in On("space") :
          t \in Writers /\ pc[t] \in {"space", "space_wait"} /\ result[t] = "B_OK"

\* The writers that were told that they will not get a slot, and have not given
\* it back yet.
Lost == {t \in Writers : pc[t] \in {"wait", "relock"} /\ result[t] # "B_OK"}

\* The readers that were told that there is a message.
Summoned ==
    {t \in Readers : pc[t] \in {"wait", "relock"} /\ t \notin On("read") /\ result[t] = "B_OK"}

Copying == {t \in Readers : pc[t] = "copy"}

Counted == {t \in Writers : pc[t] = "space_wait"}

\* As long as writers wait, the free slots are all promised to those before them ...
SlotsArePromised ==
    InUse /\ On("write") # {} => write_count + Cardinality(On("write")) <= 0

\* ... and no more are promised than there are.
PromisesAreKept ==
    InUse /\ ~overbooked => write_count + Cardinality(On("write")) + Cardinality(Lost) >= 0

\* As long as readers wait, every message is promised to one that does not any more.
MessagesArePromised ==
    InUse /\ On("read") # {} => messages <= Cardinality(Summoned)

IndInv ==
    /\ TypeOK
    /\ LifeIsSound
    /\ CallsAreSound
    /\ QueuesAreSound
    /\ CountsAreExact
    /\ SpaceIsExact
    /\ SlotsArePromised
    /\ PromisesAreKept
    /\ MessagesArePromised
    /\ ClosedEndsWaits
    /\ SelectIsTold

-------------------------------------------------------------------------------
(* Counting. *)

\* A set of threads can be counted.
LEMMA CountThreads ==
    ASSUME NEW S \in SUBSET Threads
    PROVE  /\ IsFiniteSet(S)
           /\ Cardinality(S) \in Nat
           /\ Cardinality(S) = 0 <=> S = {}
           /\ \A t \in S : Cardinality(S \ {t}) = Cardinality(S) - 1
           /\ \A t : t \notin S => Cardinality(S \cup {t}) = Cardinality(S) + 1
<1>1. IsFiniteSet(Threads)
  BY PortAssumption, FS_Union DEF Threads
<1>2. IsFiniteSet(S)
  BY <1>1, FS_Subset
<1> QED BY <1>2, FS_CardinalityType, FS_EmptySet, FS_AddElement, FS_RemoveElement

One(b) == IF b THEN 1 ELSE 0

\* A set that changes by one thread at most.
LEMMA CountMove ==
    ASSUME NEW S \in SUBSET Threads, NEW T \in SUBSET Threads, NEW t \in Threads,
           \A u \in Threads \ {t} : u \in S <=> u \in T
    PROVE  /\ Cardinality(S) \in Nat /\ Cardinality(T) \in Nat
           /\ Cardinality(T) = Cardinality(S) + One(t \in T) - One(t \in S)
<1>1. Cardinality(S) \in Nat /\ Cardinality(T) \in Nat
  BY CountThreads
<1>2. CASE t \in S <=> t \in T
  <2>1. S = T
    BY <1>2
  <2> QED BY <1>1, <1>2, <2>1 DEF One
<1>3. CASE t \in S /\ t \notin T
  <2>1. T = S \ {t}
    BY <1>3
  <2>2. Cardinality(T) = Cardinality(S) - 1
    BY <1>3, <2>1, CountThreads
  <2> QED BY <1>1, <1>3, <2>2 DEF One
<1>4. CASE t \notin S /\ t \in T
  <2>1. T = S \cup {t}
    BY <1>4
  <2>2. Cardinality(T) = Cardinality(S) + 1
    BY <1>4, <2>1, CountThreads
  <2> QED BY <1>1, <1>4, <2>2 DEF One
<1> QED BY <1>2, <1>3, <1>4

\* A thread takes a step in its call.
Move(t, l, r) ==
    /\ pc' = [pc EXCEPT ![t] = l]
    /\ result' = [result EXCEPT ![t] = r]

\* What such a step does to the sets that are counted.
LEMMA MoveCounts ==
    ASSUME TypeOK, NEW t \in Threads, NEW l, NEW r, Move(t, l, r)
    PROVE  /\ Cardinality(InLine) \in Nat /\ Cardinality(InLine') \in Nat
           /\ Cardinality(InLine') = Cardinality(InLine)
                + One(t \in Writers /\ l \notin {"idle", "lock"}) - One(t \in InLine)
           /\ Cardinality(Lost) \in Nat /\ Cardinality(Lost') \in Nat
           /\ Cardinality(Lost') = Cardinality(Lost)
                + One(t \in Writers /\ l \in {"wait", "relock"} /\ r # "B_OK") - One(t \in Lost)
           /\ Cardinality(Copying) \in Nat /\ Cardinality(Copying') \in Nat
           /\ Cardinality(Copying') = Cardinality(Copying)
                + One(t \in Readers /\ l = "copy") - One(t \in Copying)
           /\ Cardinality(Counted) \in Nat /\ Cardinality(Counted') \in Nat
           /\ Cardinality(Counted') = Cardinality(Counted)
                + One(t \in Writers /\ l = "space_wait") - One(t \in Counted)
<1>1. /\ pc'[t] = l /\ \A u \in Threads \ {t} : pc'[u] = pc[u]
      /\ result'[t] = r /\ \A u \in Threads \ {t} : result'[u] = result[u]
  BY DEF Move, TypeOK
<1>2. Readers \subseteq Threads /\ Writers \subseteq Threads
  BY DEF Threads
<1>3. /\ InLine \in SUBSET Threads /\ InLine' \in SUBSET Threads
      /\ \A u \in Threads \ {t} : u \in InLine <=> u \in InLine'
      /\ t \in InLine' <=> t \in Writers /\ l \notin {"idle", "lock"}
  BY <1>1, <1>2 DEF InLine
<1>4. /\ Lost \in SUBSET Threads /\ Lost' \in SUBSET Threads
      /\ \A u \in Threads \ {t} : u \in Lost <=> u \in Lost'
      /\ t \in Lost' <=> t \in Writers /\ l \in {"wait", "relock"} /\ r # "B_OK"
  BY <1>1, <1>2 DEF Lost
<1>5. /\ Copying \in SUBSET Threads /\ Copying' \in SUBSET Threads
      /\ \A u \in Threads \ {t} : u \in Copying <=> u \in Copying'
      /\ t \in Copying' <=> t \in Readers /\ l = "copy"
  BY <1>1, <1>2 DEF Copying
<1>6. /\ Counted \in SUBSET Threads /\ Counted' \in SUBSET Threads
      /\ \A u \in Threads \ {t} : u \in Counted <=> u \in Counted'
      /\ t \in Counted' <=> t \in Writers /\ l = "space_wait"
  BY <1>1, <1>2 DEF Counted
<1>7. /\ Cardinality(InLine) \in Nat /\ Cardinality(InLine') \in Nat
      /\ Cardinality(InLine') = Cardinality(InLine) + One(t \in InLine') - One(t \in InLine)
  BY <1>3, CountMove
<1>8. /\ Cardinality(Lost) \in Nat /\ Cardinality(Lost') \in Nat
      /\ Cardinality(Lost') = Cardinality(Lost) + One(t \in Lost') - One(t \in Lost)
  BY <1>4, CountMove
<1>9. /\ Cardinality(Copying) \in Nat /\ Cardinality(Copying') \in Nat
      /\ Cardinality(Copying') = Cardinality(Copying) + One(t \in Copying') - One(t \in Copying)
  BY <1>5, CountMove
<1>10. /\ Cardinality(Counted) \in Nat /\ Cardinality(Counted') \in Nat
       /\ Cardinality(Counted') = Cardinality(Counted) + One(t \in Counted') - One(t \in Counted)
  BY <1>6, CountMove
<1> QED BY <1>3, <1>4, <1>5, <1>6, <1>7, <1>8, <1>9, <1>10 DEF One

-------------------------------------------------------------------------------
(* The queues. *)

ConditionVariables == {"read", "write", "space"}

\* Who waits, and that only threads can.
LEMMA WaitingOn ==
    ASSUME TypeOK
    PROVE  /\ DOMAIN conditions = ConditionVariables
           /\ \A c \in ConditionVariables :
                 /\ conditions[c] \in Seq(Threads)
                 /\ On(c) \in SUBSET Threads
                 /\ On(c) = {} <=> conditions[c] = <<>>
           /\ \A t : IsWaiting(t) <=> \E c \in ConditionVariables : t \in On(c)
<1>1. DOMAIN conditions = ConditionVariables
  BY DEF TypeOK, ConditionVariables
<1>2. \A c \in ConditionVariables : conditions[c] \in Seq(Threads)
  BY DEF TypeOK, ConditionVariables
<1> QED BY <1>1, <1>2, QueueMembers DEF On, IsWaiting

\* Threads that are not in a wait are in no queue.
LEMMA NotWaiting ==
    ASSUME TypeOK, QueuesAreSound, NEW t,
           ~IsWaiting(t) \/ pc[t] \notin {"wait", "space", "space_wait"}
    PROVE  \A c \in ConditionVariables : t \notin On(c)
BY WaitingOn DEF QueuesAreSound, ConditionVariables

\* Queues that have lost threads but not got any.
Shrinks(conds) ==
    /\ conds \in [{"read", "write", "space"} -> Seq(Threads)]
    /\ \A c \in ConditionVariables : IsInjective(conds[c]) /\ ToSet(conds[c]) \subseteq On(c)

\* The condition variable has one waiter less, if it had any.
OneLess(c, conds) ==
    IF On(c) = {} THEN ToSet(conds[c]) = {}
                  ELSE \E h \in On(c) : ToSet(conds[c]) = On(c) \ {h}

LEMMA Unchanged ==
    ASSUME TypeOK, QueuesAreSound
    PROVE  Shrinks(conditions)
BY DEF TypeOK, QueuesAreSound, Shrinks, On, ConditionVariables

LEMMA NotifyFacts ==
    ASSUME TypeOK, QueuesAreSound, NEW c \in ConditionVariables
    PROVE  /\ Shrinks(AfterNotifyOne(c))
           /\ OneLess(c, AfterNotifyOne(c))
           /\ \A d \in ConditionVariables \ {c} : AfterNotifyOne(c)[d] = conditions[d]
<1> DEFINE q == conditions[c]
           conds == AfterNotifyOne(c)
<1>1. q \in Seq(Threads) /\ IsInjective(q)
  BY WaitingOn DEF QueuesAreSound, ConditionVariables
<1>2. CASE q = <<>>
  <2>1. conds = conditions
    BY <1>2 DEF AfterNotifyOne, TypeOK
  <2>2. On(c) = {}
    BY <1>2, WaitingOn
  <2> QED BY <2>1, <2>2, Unchanged DEF OneLess, On
<1>3. CASE q # <<>>
  <2>1. conds = [conditions EXCEPT ![c] = Tail(q)]
    BY <1>3 DEF AfterNotifyOne
  <2>2. conds[c] = Tail(q) /\ \A d \in ConditionVariables \ {c} : conds[d] = conditions[d]
    BY <2>1 DEF TypeOK, ConditionVariables
  <2>3. /\ Head(q) \in ToSet(q) /\ Tail(q) \in Seq(Threads)
        /\ ToSet(Tail(q)) = ToSet(q) \ {Head(q)} /\ IsInjective(Tail(q))
    BY <1>1, <1>3, TailFacts
  <2>4. conds \in [{"read", "write", "space"} -> Seq(Threads)]
    BY <2>1, <2>3 DEF TypeOK
  <2>5. Shrinks(conds)
    BY <2>2, <2>3, <2>4 DEF Shrinks, On, QueuesAreSound, ConditionVariables
  <2>6. OneLess(c, conds)
    BY <2>2, <2>3 DEF OneLess, On
  <2> QED BY <2>2, <2>5, <2>6
<1> QED BY <1>2, <1>3

LEMMA SpaceFacts ==
    ASSUME NEW conds, Shrinks(conds)
    PROVE  /\ Shrinks(NotifySpace(conds))
           /\ NotifySpace(conds)["read"] = conds["read"]
           /\ NotifySpace(conds)["write"] = conds["write"]
<1>1. <<>> \in Seq(Threads) /\ IsInjective(<<>>) /\ ToSet(<<>>) = {}
  BY EmptyQueue
<1>2. conds \in [{"read", "write", "space"} -> Seq(Threads)]
  BY DEF Shrinks
<1>3. CASE sWaitingForSpace > 0
  <2>1. NotifySpace(conds) = [conds EXCEPT !["space"] = <<>>]
    BY <1>3 DEF NotifySpace
  <2>2. NotifySpace(conds) \in [{"read", "write", "space"} -> Seq(Threads)]
    BY <1>1, <1>2, <2>1
  <2>3. /\ NotifySpace(conds)["read"] = conds["read"]
        /\ NotifySpace(conds)["write"] = conds["write"]
        /\ NotifySpace(conds)["space"] = <<>>
    BY <1>2, <2>1
  <2> QED BY <1>1, <2>2, <2>3 DEF Shrinks, ConditionVariables
<1>4. CASE ~(sWaitingForSpace > 0)
  <2>1. NotifySpace(conds) = conds
    BY <1>2, <1>4 DEF NotifySpace
  <2> QED BY <2>1
<1> QED BY <1>3, <1>4

\* How many wait for a slot.
LEMMA WaitingCounts ==
    ASSUME TypeOK, NEW conds, Shrinks(conds), conditions' = conds
    PROVE  /\ Cardinality(On("write")) \in Nat /\ Cardinality(On("write")') \in Nat
           /\ Cardinality(On("write")) = 0 <=> On("write") = {}
           /\ Cardinality(On("write")') = 0 <=> On("write")' = {}
           /\ conds["write"] = conditions["write"] => On("write")' = On("write")
           /\ OneLess("write", conds) =>
                 Cardinality(On("write")') = Cardinality(On("write")) - One(On("write") # {})
<1>1. On("write") \in SUBSET Threads /\ On("write")' = ToSet(conds["write"])
  BY WaitingOn DEF On, ConditionVariables
<1>2. On("write")' \in SUBSET Threads
  BY <1>1 DEF Shrinks, ConditionVariables
<1>3. /\ Cardinality(On("write")) \in Nat /\ Cardinality(On("write")') \in Nat
      /\ Cardinality(On("write")) = 0 <=> On("write") = {}
      /\ Cardinality(On("write")') = 0 <=> On("write")' = {}
  BY <1>1, <1>2, CountThreads
<1>4. ASSUME OneLess("write", conds)
      PROVE  Cardinality(On("write")') = Cardinality(On("write")) - One(On("write") # {})
  <2>1. CASE On("write") = {}
    BY <1>1, <1>3, <1>4, <2>1 DEF OneLess, One
  <2>2. CASE On("write") # {}
    <3>1. PICK h \in On("write") : On("write")' = On("write") \ {h}
      BY <1>1, <1>4, <2>2 DEF OneLess
    <3>2. Cardinality(On("write")') = Cardinality(On("write")) - 1
      BY <1>1, <3>1, CountThreads
    <3> QED BY <2>2, <3>2 DEF One
  <2> QED BY <2>1, <2>2
<1>5. conds["write"] = conditions["write"] => On("write")' = On("write")
  BY <1>1 DEF On
<1> QED BY <1>3, <1>4, <1>5

\* How many readers were told of a message.
LEMMA SummonedCounts ==
    ASSUME TypeOK, QueuesAreSound, NEW conds, Shrinks(conds), conditions' = conds,
           NEW t \in Threads, NEW l, NEW r, Move(t, l, r), t \notin On("read")
    PROVE  LET came == One(t \in Readers /\ l \in {"wait", "relock"} /\ r = "B_OK")
               left == One(t \in Summoned)
           IN  /\ Cardinality(Summoned) \in Nat /\ Cardinality(Summoned') \in Nat
               /\ conds["read"] = conditions["read"] =>
                     /\ On("read")' = On("read")
                     /\ Cardinality(Summoned') = Cardinality(Summoned) + came - left
               /\ OneLess("read", conds) =>
                     Cardinality(Summoned')
                        = Cardinality(Summoned) + One(On("read") # {}) + came - left
<1>1. /\ pc'[t] = l /\ \A u \in Threads \ {t} : pc'[u] = pc[u]
      /\ result'[t] = r /\ \A u \in Threads \ {t} : result'[u] = result[u]
  BY DEF Move, TypeOK
<1>2. Readers \subseteq Threads
  BY DEF Threads
<1>3. /\ On("read")' = ToSet(conds["read"]) /\ On("read")' \subseteq On("read")
      /\ t \notin On("read")'
  BY DEF On, Shrinks, ConditionVariables
<1>4. Summoned \in SUBSET Threads /\ Summoned' \in SUBSET Threads
  BY <1>2 DEF Summoned
<1>5. t \in Summoned' <=> t \in Readers /\ l \in {"wait", "relock"} /\ r = "B_OK"
  BY <1>1, <1>3 DEF Summoned
<1>6. Cardinality(Summoned) \in Nat /\ Cardinality(Summoned') \in Nat
  BY <1>4, CountThreads
<1>7. ASSUME On("read")' = On("read")
      PROVE  Cardinality(Summoned') = Cardinality(Summoned)
                + One(t \in Readers /\ l \in {"wait", "relock"} /\ r = "B_OK")
                - One(t \in Summoned)
  <2>1. \A u \in Threads \ {t} : u \in Summoned <=> u \in Summoned'
    BY <1>1, <1>7 DEF Summoned
  <2>2. Cardinality(Summoned') = Cardinality(Summoned) + One(t \in Summoned') - One(t \in Summoned)
    BY <1>4, <2>1, CountMove
  <2> QED BY <1>5, <2>2 DEF One
<1>8. ASSUME OneLess("read", conds), On("read") # {}
      PROVE  Cardinality(Summoned') = Cardinality(Summoned) + 1
                + One(t \in Readers /\ l \in {"wait", "relock"} /\ r = "B_OK")
                - One(t \in Summoned)
  <2>1. PICK h \in On("read") : On("read")' = On("read") \ {h}
    BY <1>3, <1>8 DEF OneLess
  <2>2. h \in Readers /\ h # t /\ pc[h] = "wait" /\ result[h] = "B_OK" /\ h \notin Summoned
    BY <2>1 DEF QueuesAreSound, Summoned
  <2> DEFINE S == Summoned \cup {h}
  <2>3. S \in SUBSET Threads /\ Cardinality(S) = Cardinality(Summoned) + 1
    BY <1>2, <1>4, <2>2, CountThreads
  <2>4. ASSUME NEW u \in Threads \ {t} PROVE u \in S <=> u \in Summoned'
    <3>1. pc'[u] = pc[u] /\ result'[u] = result[u]
      BY <1>1, <2>4
    <3> QED BY <2>1, <2>2, <3>1 DEF Summoned
  <2>5. t \in S <=> t \in Summoned
    BY <2>2
  <2>6. Cardinality(Summoned') = Cardinality(S) + One(t \in Summoned') - One(t \in S)
    BY <1>4, <2>3, <2>4, CountMove
  <2> QED BY <1>5, <1>6, <2>3, <2>5, <2>6 DEF One
<1>9. OneLess("read", conds) /\ On("read") = {} => On("read")' = On("read")
  BY <1>3
<1>10. conds["read"] = conditions["read"] => On("read")' = On("read")
  BY <1>3 DEF On
<1> QED BY <1>6, <1>7, <1>8, <1>9, <1>10 DEF One

-------------------------------------------------------------------------------
(* Steps of the threads. *)

Pcs == {"idle", "lock", "wait", "relock", "copy", "put",
        "space", "space_wait", "space_woken", "space_lock"}

Outcomes == {"B_OK", "B_TIMED_OUT", "B_INTERRUPTED", "B_BAD_PORT_ID"}

\* Where the thread goes is where such a thread can be.
Allowed(t, l, r, w) ==
    /\ l \in Pcs /\ r \in Outcomes /\ w \in Calls
    /\ t \in Writers => w = "write" /\ l \notin {"copy", "put"}
    /\ t \in Readers => w \in Reading /\ l \notin InSpaceWait
    /\ l \in {"idle", "lock", "copy", "put"} => r = "B_OK"

\* The thread does not wait, or goes on to wait where it does.
Free(t, l, r) ==
    /\ t \notin On("read") /\ t \notin On("write")
    /\ t \in On("space") => l \in {"space", "space_wait"} /\ r = "B_OK"

\* A step of such a thread, which may wake others, keeps what is said of threads and
\* queues.
LEMMA StepIsSound ==
    ASSUME IndInv, NEW t \in Threads, NEW l, NEW r, NEW w,
           Move(t, l, r), call' = [call EXCEPT ![t] = w], Allowed(t, l, r, w),
           NEW conds, Shrinks(conds), conditions' = conds,
           Free(t, l, r) \/ \A c \in ConditionVariables : t \notin ToSet(conds[c]),
           state # "kUnused", UNCHANGED <<portVars, select_infos>>
    PROVE  /\ pc' \in [Threads -> Pcs] /\ result' \in [Threads -> Outcomes]
           /\ call' \in [Threads -> Calls]
           /\ LifeIsSound' /\ CallsAreSound' /\ QueuesAreSound' /\ ClosedEndsWaits'
<1> USE DEF IndInv
<1>1. /\ pc' \in [Threads -> Pcs] /\ result' \in [Threads -> Outcomes]
      /\ call' \in [Threads -> Calls]
  BY DEF Move, Allowed, TypeOK, Pcs, Outcomes
<1>2. /\ pc'[t] = l /\ \A u \in Threads \ {t} : pc'[u] = pc[u]
      /\ result'[t] = r /\ \A u \in Threads \ {t} : result'[u] = result[u]
      /\ call'[t] = w /\ \A u \in Threads \ {t} : call'[u] = call[u]
  BY DEF Move, TypeOK
<1>3. LifeIsSound'
  BY DEF LifeIsSound, portVars
<1>4. CallsAreSound'
  BY <1>2 DEF CallsAreSound, Allowed
<1>5. /\ \A c \in ConditionVariables : IsInjective(conditions'[c]) /\ On(c)' \subseteq On(c)
      /\ \A c \in ConditionVariables : On(c)' \subseteq Threads /\ On(c)' = ToSet(conds[c])
      /\ conditions' \in [{"read", "write", "space"} -> Seq(Threads)]
  BY WaitingOn DEF Shrinks, On
<1>6. QueuesAreSound'
  <2>1. \A c \in {"read", "write", "space"} : IsInjective(conditions'[c])
    BY <1>5 DEF ConditionVariables
  <2>2. \A u \in On("read")' : u \in Readers /\ pc'[u] = "wait" /\ result'[u] = "B_OK"
    BY <1>2, <1>5 DEF QueuesAreSound, ConditionVariables, Free
  <2>3. \A u \in On("write")' : u \in Writers /\ pc'[u] = "wait" /\ result'[u] = "B_OK"
    BY <1>2, <1>5 DEF QueuesAreSound, ConditionVariables, Free
  <2>4. \A u \in On("space")' :
           u \in Writers /\ pc'[u] \in {"space", "space_wait"} /\ result'[u] = "B_OK"
    BY <1>2, <1>5 DEF QueuesAreSound, ConditionVariables, Free
  <2> QED BY <2>1, <2>2, <2>3, <2>4 DEF QueuesAreSound
<1>7. ClosedEndsWaits'
  <2> SUFFICES ASSUME is_port_closed'
               PROVE  conditions'["read"] = <<>> /\ conditions'["write"] = <<>>
                      /\ select_infos' = {}
    BY DEF ClosedEndsWaits
  <2>1. conditions["read"] = <<>> /\ conditions["write"] = <<>> /\ select_infos = {}
    BY DEF ClosedEndsWaits, is_port_closed, portVars
  <2>2. On("read")' = {} /\ On("write")' = {}
    BY <1>5, <2>1, WaitingOn DEF ConditionVariables
  <2>3. \A c \in ConditionVariables : conditions'[c] \in Seq(Threads)
    BY <1>5 DEF ConditionVariables
  <2> QED BY <2>1, <2>2, <2>3, QueueMembers DEF On, ConditionVariables
<1> QED BY <1>1, <1>3, <1>4, <1>6, <1>7

\* Those that wait for space have room in the count.
LEMMA CountedFits ==
    ASSUME sWaitingForSpace' = Cardinality(Counted')
    PROVE  sWaitingForSpace' \in 0..Cardinality(Writers)
<1>1. Counted' \subseteq Writers
  BY DEF Counted
<1>2. Cardinality(Counted') <= Cardinality(Writers) /\ Cardinality(Writers) \in Nat
  BY <1>1, PortAssumption, FS_Subset, FS_CardinalityType
<1>3. Cardinality(Counted') \in Nat
  BY <1>1, PortAssumption, FS_Subset, FS_CardinalityType
<1> QED BY <1>2, <1>3

\* A step that neither puts a message into the queue nor takes one out, of a
\* thread that keeps its place in line, or leaves a port that is not in use.
LEMMA QuietStep ==
    ASSUME IndInv, NEW t \in Threads, NEW l, NEW r, NEW w,
           Move(t, l, r), call' = [call EXCEPT ![t] = w], Allowed(t, l, r, w),
           NEW conds, Shrinks(conds), conditions' = conds,
           conds["read"] = conditions["read"], conds["write"] = conditions["write"],
           Free(t, l, r),
           state # "kUnused", UNCHANGED <<portVars, queueVars, selectVars, overbooked>>,
           InUse => /\ t \in InLine <=> t \in Writers /\ l \notin {"idle", "lock"}
                    /\ t \in Lost <=> t \in Writers /\ l \in {"wait", "relock"} /\ r # "B_OK"
                    /\ t \in Summoned /\ messages > 0 => l \in {"wait", "relock"} /\ r = "B_OK",
           sTotalSpaceCommited' = sTotalSpaceCommited
                + One(t \in Readers /\ l = "copy") - One(t \in Copying),
           sTotalSpaceCommited' <= SpaceLimit,
           sWaitingForSpace' = sWaitingForSpace
                + One(t \in Writers /\ l = "space_wait") - One(t \in Counted)
    PROVE  IndInv'
<1>1. /\ pc' \in [Threads -> Pcs] /\ result' \in [Threads -> Outcomes]
      /\ call' \in [Threads -> Calls]
      /\ LifeIsSound' /\ CallsAreSound' /\ QueuesAreSound' /\ ClosedEndsWaits'
  BY StepIsSound DEF selectVars
<1>2. TypeOK /\ QueuesAreSound /\ t \notin On("read")
  BY DEF IndInv, Free
<1>3. On("write")' = On("write") /\ On("read")' = On("read")
  BY <1>2, WaitingCounts, SummonedCounts
<1>4. SpaceIsExact' /\ sTotalSpaceCommited' \in 0..SpaceLimit
  <2>1. /\ Cardinality(Copying) \in Nat /\ Cardinality(Copying') \in Nat
        /\ Cardinality(Copying') = Cardinality(Copying)
             + One(t \in Readers /\ l = "copy") - One(t \in Copying)
        /\ Cardinality(Counted) \in Nat /\ Cardinality(Counted') \in Nat
        /\ Cardinality(Counted') = Cardinality(Counted)
             + One(t \in Writers /\ l = "space_wait") - One(t \in Counted)
    BY <1>2, MoveCounts
  <2>2. /\ sTotalSpaceCommited = messages + Cardinality(Copying)
        /\ sWaitingForSpace = Cardinality(Counted)
    BY DEF IndInv, SpaceIsExact, Copying, Counted
  <2>3. messages \in Nat /\ messages' = messages /\ SpaceLimit \in Nat
    BY <1>2, PortAssumption DEF TypeOK, queueVars
  <2>4. /\ sTotalSpaceCommited' = messages' + Cardinality(Copying')
        /\ sWaitingForSpace' = Cardinality(Counted')
    BY <2>1, <2>2, <2>3 DEF One
  <2> QED BY <2>1, <2>3, <2>4 DEF SpaceIsExact, Copying, Counted
<1>5. TypeOK'
  <2>1. sWaitingForSpace' \in 0..Cardinality(Writers)
    BY <1>4, CountedFits DEF SpaceIsExact, Counted
  <2>2. conditions' \in [{"read", "write", "space"} -> Seq(Threads)]
    BY DEF Shrinks
  <2> QED BY <1>1, <1>2, <1>4, <2>1, <2>2
          DEF TypeOK, Pcs, Outcomes, portVars, queueVars, selectVars
<1>6. InUse' <=> InUse
  BY DEF InUse, is_port_closed, portVars
<1>7. CountsAreExact' /\ PromisesAreKept' /\ SlotsArePromised'
  <2>1. InUse => /\ Cardinality(InLine') = Cardinality(InLine)
                 /\ Cardinality(Lost') = Cardinality(Lost)
    BY <1>2, MoveCounts DEF One
  <2> QED BY <1>3, <1>6, <2>1
          DEF IndInv, CountsAreExact, PromisesAreKept, SlotsArePromised, portVars, queueVars
<1>8. MessagesArePromised'
  <2> SUFFICES ASSUME InUse', On("read")' # {} PROVE messages' <= Cardinality(Summoned')
    BY DEF MessagesArePromised
  <2>1. /\ Cardinality(Summoned) \in Nat /\ Cardinality(Summoned') \in Nat
        /\ Cardinality(Summoned') = Cardinality(Summoned)
             + One(t \in Readers /\ l \in {"wait", "relock"} /\ r = "B_OK") - One(t \in Summoned)
    BY <1>2, SummonedCounts
  <2>2. messages <= Cardinality(Summoned) /\ messages' = messages /\ messages \in Nat
    BY <1>2, <1>3, <1>6 DEF IndInv, MessagesArePromised, TypeOK, queueVars
  <2>3. t \in Summoned => t \in Readers
    BY DEF Summoned
  <2> QED BY <1>6, <2>1, <2>2, <2>3 DEF One
<1>9. SelectIsTold'
  BY <1>6 DEF IndInv, SelectIsTold, queueVars, selectVars
<1> QED BY <1>1, <1>4, <1>5, <1>7, <1>8, <1>9 DEF IndInv

\* Nobody is in a call before there is a port.
LEMMA InCallFacts ==
    ASSUME IndInv, NEW t \in Threads, pc[t] # "idle"
    PROVE  state # "kUnused"
BY DEF IndInv, LifeIsSound

\* What a thread's call and result are when they do not change, and when it returns.
LEMMA MoveForms ==
    ASSUME TypeOK, NEW t \in Threads
    PROVE  /\ \A l : Goto(t, l) /\ UNCHANGED result => Move(t, l, result[t])
           /\ UNCHANGED call => call' = [call EXCEPT ![t] = call[t]]
           /\ Return(t) =>
                 /\ Move(t, "idle", "B_OK")
                 /\ call' = [call EXCEPT ![t] = IF t \in Writers THEN "write" ELSE "read"]
BY DEF TypeOK, Goto, Move, Return

LEMMA AllowedForms ==
    ASSUME TypeOK, CallsAreSound, NEW t \in Threads
    PROVE  /\ Allowed(t, "idle", "B_OK", IF t \in Writers THEN "write" ELSE "read")
           /\ \A l \in Pcs : /\ t \in Writers => l \notin {"copy", "put"}
                             /\ t \in Readers => l \notin InSpaceWait
                             /\ l \in {"idle", "lock", "copy", "put"} => result[t] = "B_OK"
                             => Allowed(t, l, result[t], call[t])
<1>1. t \in Writers => t \notin Readers
  BY PortAssumption
<1> QED BY <1>1 DEF TypeOK, CallsAreSound, Allowed, Pcs, Outcomes, Calls, Reading, InSpaceWait,
                    Threads

\* A call that returns and has no place in line, or whose port is not in use.
LEMMA QuietReturn ==
    ASSUME IndInv, NEW t \in Threads, pc[t] \notin {"idle", "copy", "space_wait"},
           ~IsWaiting(t) \/ pc[t] \notin {"wait", "space", "space_wait"},
           ReturnOnly(t),
           InUse => t \notin InLine /\ (t \in Summoned => messages = 0)
    PROVE  IndInv'
<1> DEFINE w == IF t \in Writers THEN "write" ELSE "read"
<1>1. TypeOK /\ QueuesAreSound /\ CallsAreSound
  BY DEF IndInv
<1>2. Free(t, "idle", "B_OK")
  BY <1>1, NotWaiting DEF Free, ConditionVariables
<1>3. /\ Move(t, "idle", "B_OK")
      /\ call' = [call EXCEPT ![t] = w]
      /\ UNCHANGED <<portVars, queueVars, conditions, selectVars, spaceVars, overbooked>>
  BY <1>1, MoveForms DEF ReturnOnly
<1>4. Allowed(t, "idle", "B_OK", w)
  BY <1>1, AllowedForms
<1>5. Shrinks(conditions) /\ state # "kUnused"
  BY <1>1, Unchanged, InCallFacts
<1>6. t \notin Copying /\ t \notin Counted /\ (t \in Lost => t \in InLine)
  BY DEF Copying, Counted, Lost, InLine
<1>7. /\ sTotalSpaceCommited' = sTotalSpaceCommited
           + One(t \in Readers /\ "idle" = "copy") - One(t \in Copying)
      /\ sTotalSpaceCommited' <= SpaceLimit
      /\ sWaitingForSpace' = sWaitingForSpace
           + One(t \in Writers /\ "idle" = "space_wait") - One(t \in Counted)
  BY <1>1, <1>3, <1>6, PortAssumption DEF One, spaceVars, TypeOK
<1>8. InUse => /\ t \in InLine <=> t \in Writers /\ "idle" \notin {"idle", "lock"}
               /\ t \in Lost <=> t \in Writers /\ "idle" \in {"wait", "relock"} /\ "B_OK" # "B_OK"
               /\ ~(t \in Summoned /\ messages > 0)
  BY <1>6
<1> HIDE DEF w
<1> QED BY <1>2, <1>3, <1>4, <1>5, <1>7, <1>8, QuietStep

\* A thread goes on, and keeps what it has.
LEMMA QuietGoto ==
    ASSUME IndInv, NEW t \in Threads, NEW l \in Pcs, NEW w, Goto(t, l), UNCHANGED result,
           call' = [call EXCEPT ![t] = w], Allowed(t, l, result[t], w),
           state # "kUnused",
           \/ ~IsWaiting(t) \/ pc[t] \notin {"wait", "space", "space_wait"}
           \/ pc[t] = "space" /\ l = "space_wait",
           UNCHANGED <<portVars, queueVars, conditions, selectVars, overbooked>>,
           \/ t \in Writers /\ pc[t] \in {"wait", "relock"} /\ l \in {"wait", "relock"}
           \/ t \in Writers /\ pc[t] \in InSpaceWait /\ l \in InSpaceWait
           \/ t \in Writers /\ pc[t] = "idle" /\ l = "lock"
           \/ t \in Readers /\ pc[t] \in {"wait", "relock"} /\ l \in {"wait", "relock"}
           \/ t \in Readers /\ pc[t] \notin {"wait", "relock"},
           sTotalSpaceCommited' = sTotalSpaceCommited
                + One(t \in Readers /\ l = "copy") - One(t \in Copying),
           sTotalSpaceCommited' <= SpaceLimit,
           sWaitingForSpace' = sWaitingForSpace
                + One(t \in Writers /\ l = "space_wait") - One(t \in Counted)
    PROVE  IndInv'
<1>1. TypeOK /\ QueuesAreSound /\ CallsAreSound
  BY DEF IndInv
<1>2. Free(t, l, result[t])
  <2>1. CASE pc[t] = "space" /\ l = "space_wait"
    BY <2>1 DEF IndInv, QueuesAreSound, Free
  <2>2. CASE ~IsWaiting(t) \/ pc[t] \notin {"wait", "space", "space_wait"}
    BY <1>1, <2>2, NotWaiting DEF Free, ConditionVariables
  <2> QED BY <2>1, <2>2
<1>3. Move(t, l, result[t])
  BY <1>1, MoveForms
<1>4. Shrinks(conditions)
  BY <1>1, Unchanged
<1>5. ~(t \in Readers /\ t \in Writers)
  BY PortAssumption
<1>6. /\ t \in InLine <=> t \in Writers /\ l \notin {"idle", "lock"}
      /\ t \in Lost <=> t \in Writers /\ l \in {"wait", "relock"} /\ result[t] # "B_OK"
      /\ t \in Summoned => l \in {"wait", "relock"} /\ result[t] = "B_OK"
  BY <1>5 DEF InLine, Lost, Summoned, InSpaceWait
<1> QED BY <1>2, <1>3, <1>4, <1>6, QuietStep

\* Entering a call.
LEMMA BeginStep ==
    ASSUME IndInv, NEW t \in Threads, NEW what \in Calls, Begin(t, what)
    PROVE  IndInv'
<1>1. TypeOK /\ QueuesAreSound /\ CallsAreSound
  BY DEF IndInv
<1>2. /\ pc[t] = "idle" /\ result[t] = "B_OK" /\ state # "kUnused"
      /\ t \in (CASE what = "write" -> Writers [] what = "read" -> Readers [] OTHER -> Lookers)
      /\ Goto(t, "lock") /\ call' = [call EXCEPT ![t] = what] /\ UNCHANGED result
      /\ UNCHANGED <<portVars, queueVars, conditions, selectVars, overbooked>>
      /\ UNCHANGED <<sTotalSpaceCommited, sWaitingForSpace>>
  BY <1>1 DEF Begin, get_locked_port, CallsAreSound, spaceVars
<1>3. /\ what = "write" => t \in Writers /\ t \notin Readers
      /\ what # "write" => t \in Readers /\ t \notin Writers
  BY <1>2, PortAssumption
<1>4. Allowed(t, "lock", result[t], what) /\ "lock" \in Pcs
  BY <1>2, <1>3 DEF Allowed, Pcs, Outcomes, Calls, Reading, InSpaceWait
<1>5. t \notin Copying /\ t \notin Counted
  BY <1>2 DEF Copying, Counted
<1>6. /\ sTotalSpaceCommited' = sTotalSpaceCommited
           + One(t \in Readers /\ "lock" = "copy") - One(t \in Copying)
      /\ sTotalSpaceCommited' <= SpaceLimit
      /\ sWaitingForSpace' = sWaitingForSpace
           + One(t \in Writers /\ "lock" = "space_wait") - One(t \in Counted)
  BY <1>1, <1>2, <1>5, PortAssumption DEF One, TypeOK
<1>7. \/ t \in Writers /\ pc[t] = "idle"
      \/ t \in Readers /\ pc[t] \notin {"wait", "relock"}
  BY <1>2, <1>3
<1> QED BY <1>2, <1>4, <1>6, <1>7, QuietGoto

\* Going on within a call, without a change of the space.
LEMMA QuietMove ==
    ASSUME IndInv, NEW t \in Threads, NEW l \in Pcs, Goto(t, l),
           ~IsWaiting(t) \/ pc[t] \notin {"wait", "space", "space_wait"},
           UNCHANGED <<portVars, queueVars, conditions, selectVars, spaceVars, call, result,
                       overbooked>>,
           \/ pc[t] = "wait" /\ l = "relock"
           \/ t \in Writers /\ pc[t] = "space_woken" /\ l = "space_lock"
    PROVE  IndInv'
<1>1. TypeOK /\ QueuesAreSound /\ CallsAreSound
  BY DEF IndInv
<1>2. /\ UNCHANGED result /\ UNCHANGED <<portVars, queueVars, conditions, selectVars, overbooked>>
      /\ call' = [call EXCEPT ![t] = call[t]] /\ state # "kUnused"
  BY <1>1, MoveForms, InCallFacts
<1>3. t \in Readers <=> t \notin Writers
  BY PortAssumption DEF Threads
<1>4. Allowed(t, l, result[t], call[t])
  BY <1>1, <1>3, AllowedForms DEF InSpaceWait
<1>5. t \notin Copying /\ t \notin Counted
  BY DEF Copying, Counted
<1>6. /\ sTotalSpaceCommited' = sTotalSpaceCommited
           + One(t \in Readers /\ l = "copy") - One(t \in Copying)
      /\ sTotalSpaceCommited' <= SpaceLimit
      /\ sWaitingForSpace' = sWaitingForSpace
           + One(t \in Writers /\ l = "space_wait") - One(t \in Counted)
  BY <1>1, <1>5, PortAssumption DEF One, TypeOK, spaceVars
<1>7. \/ t \in Writers /\ pc[t] \in {"wait", "relock"} /\ l \in {"wait", "relock"}
      \/ t \in Writers /\ pc[t] \in InSpaceWait /\ l \in InSpaceWait
      \/ t \in Readers /\ pc[t] \in {"wait", "relock"} /\ l \in {"wait", "relock"}
  BY <1>3 DEF InSpaceWait
<1> QED BY <1>2, <1>4, <1>6, <1>7, QuietGoto

\* A port that is in use is found.
LEMMA FoundInUse ==
    ASSUME IndInv, InUse
    PROVE  get_locked_port
BY DEF IndInv, LifeIsSound, InUse, get_locked_port

\* The end of a wait.
LEMMA WokenStep ==
    ASSUME IndInv, NEW t \in Threads, Woken(t)
    PROVE  IndInv'
<1>1. pc[t] = "wait" /\ ~IsWaiting(t)
  BY DEF Woken
<1>2. CASE /\ Goto(t, "relock")
           /\ UNCHANGED <<portVars, queueVars, conditions, selectVars, spaceVars, call, result,
                          overbooked>>
  BY <1>1, <1>2, QuietMove DEF Pcs
<1>3. CASE /\ ~get_locked_port \/ (call[t] = "info" /\ result[t] # "B_OK")
           /\ ReturnOnly(t)
  <2>1. InUse => t \notin InLine /\ t \notin Summoned
    BY <1>3, FoundInUse DEF IndInv, InLine, Summoned, CallsAreSound
  <2> QED BY <1>1, <1>3, <2>1, QuietReturn
<1> QED BY <1>2, <1>3 DEF Woken

\* Returning with nothing read, or written.
LEMMA ReadFailStep ==
    ASSUME IndInv, NEW t \in Threads, ReadFail(t) \/ ReadWouldBlock(t)
    PROVE  IndInv'
<1>1. /\ pc[t] \in {"lock", "relock"} /\ call[t] \in Reading /\ ReturnOnly(t)
      /\ \/ is_port_closed \/ result[t] # "B_OK" \/ read_count = 0
  BY DEF ReadFail, ReadWouldBlock, MayRead, AtReadLock
<1>2. t \notin InLine
  BY <1>1 DEF InLine, IndInv, CallsAreSound, Reading
<1>3. InUse => (t \in Summoned => messages = 0)
  BY <1>1 DEF InUse, Summoned, IndInv, CountsAreExact
<1> QED BY <1>1, <1>2, <1>3, QuietReturn

LEMMA WriteRefusedStep ==
    ASSUME IndInv, NEW t \in Threads, WriteClosed(t) \/ WriteWouldBlock(t)
    PROVE  IndInv'
<1>1. /\ pc[t] \in {"lock", "relock", "space_lock"} /\ ReturnOnly(t)
      /\ is_port_closed \/ pc[t] = "lock"
  BY DEF WriteClosed, WriteWouldBlock, AtWriteLock
<1>2. InUse => t \notin InLine /\ t \notin Summoned
  BY <1>1 DEF InUse, InLine, Summoned
<1> QED BY <1>1, <1>2, QuietReturn

LEMMA SpaceLookupStep ==
    ASSUME IndInv, NEW t \in Threads, SpaceLookup(t)
    PROVE  IndInv'
<1>1. pc[t] = "space_woken" /\ t \in Writers
  BY DEF SpaceLookup, IndInv, CallsAreSound, InSpaceWait, Threads
<1>2. CASE /\ Goto(t, "space_lock")
           /\ UNCHANGED <<portVars, queueVars, conditions, selectVars, spaceVars, call, result,
                          overbooked>>
  BY <1>1, <1>2, QuietMove DEF Pcs
<1>3. CASE ~get_locked_port /\ ReturnOnly(t)
  BY <1>1, <1>3, FoundInUse, QuietReturn
<1> QED BY <1>2, <1>3 DEF SpaceLookup

\* The copied message gives its space back ...
LEMMA PutFreeStep ==
    ASSUME IndInv, NEW t \in Threads, PutFree(t)
    PROVE  IndInv'
<1>1. TypeOK /\ QueuesAreSound /\ CallsAreSound
  BY DEF IndInv
<1>2. /\ pc[t] = "copy" /\ Goto(t, "put") /\ UNCHANGED <<call, result, sWaitingForSpace>>
      /\ UNCHANGED <<portVars, queueVars, conditions, selectVars, overbooked>>
      /\ sTotalSpaceCommited' = sTotalSpaceCommited - 1
  BY DEF PutFree
<1>3. t \in Readers /\ t \notin Writers /\ t \in Copying /\ result[t] = "B_OK"
  BY <1>1, <1>2 DEF CallsAreSound, Threads, Copying
<1>4. Allowed(t, "put", result[t], call[t]) /\ "put" \in Pcs
  BY <1>1, <1>3, AllowedForms DEF Pcs, InSpaceWait
<1>5. call' = [call EXCEPT ![t] = call[t]] /\ state # "kUnused"
  BY <1>1, <1>2, MoveForms, InCallFacts
<1>6. /\ sTotalSpaceCommited' = sTotalSpaceCommited
           + One(t \in Readers /\ "put" = "copy") - One(t \in Copying)
      /\ sTotalSpaceCommited' <= SpaceLimit
      /\ sWaitingForSpace' = sWaitingForSpace
           + One(t \in Writers /\ "put" = "space_wait") - One(t \in Counted)
  BY <1>1, <1>2, <1>3, PortAssumption DEF One, TypeOK, Counted
<1> QED BY <1>2, <1>3, <1>4, <1>5, <1>6, QuietGoto

\* ... and wakes those that wait for it.
LEMMA PutNotifyStep ==
    ASSUME IndInv, NEW t \in Threads, PutNotify(t)
    PROVE  IndInv'
<1> DEFINE w == IF t \in Writers THEN "write" ELSE "read"
           conds == NotifySpace(conditions)
<1>1. TypeOK /\ QueuesAreSound /\ CallsAreSound
  BY DEF IndInv
<1>2. /\ pc[t] = "put" /\ Move(t, "idle", "B_OK") /\ call' = [call EXCEPT ![t] = w]
      /\ conditions' = conds
      /\ UNCHANGED <<portVars, queueVars, selectVars, overbooked>>
      /\ UNCHANGED <<sTotalSpaceCommited, sWaitingForSpace>>
  BY <1>1, MoveForms DEF PutNotify, spaceVars
<1>3. Free(t, "idle", "B_OK") /\ Allowed(t, "idle", "B_OK", w) /\ state # "kUnused"
  BY <1>1, <1>2, NotWaiting, AllowedForms, InCallFacts DEF Free, ConditionVariables
<1>4. Shrinks(conds) /\ conds["read"] = conditions["read"] /\ conds["write"] = conditions["write"]
  BY <1>1, Unchanged, SpaceFacts
<1>5. t \notin Copying /\ t \notin Counted /\ t \notin Summoned /\ t \notin Lost /\ t \notin InLine
  BY <1>1, <1>2 DEF Copying, Counted, Summoned, Lost, InLine, CallsAreSound
<1>6. /\ sTotalSpaceCommited' = sTotalSpaceCommited
           + One(t \in Readers /\ "idle" = "copy") - One(t \in Copying)
      /\ sTotalSpaceCommited' <= SpaceLimit
      /\ sWaitingForSpace' = sWaitingForSpace
           + One(t \in Writers /\ "idle" = "space_wait") - One(t \in Counted)
  BY <1>1, <1>2, <1>5, PortAssumption DEF One, TypeOK
<1> HIDE DEF w, conds
<1> QED BY <1>2, <1>3, <1>4, <1>5, <1>6, QuietStep

\* A writer counts itself among those that wait for space, and out again.
LEMMA SpaceWaitStep ==
    ASSUME IndInv, NEW t \in Threads, SpaceCount(t) \/ SpaceWoken(t)
    PROVE  IndInv'
<1>1. TypeOK /\ QueuesAreSound /\ CallsAreSound
  BY DEF IndInv
<1>2. PICK l \in {"space_wait", "space_woken"} :
         /\ Goto(t, l) /\ UNCHANGED <<call, result, sTotalSpaceCommited>>
         /\ UNCHANGED <<portVars, queueVars, conditions, selectVars, overbooked>>
         /\ \/ /\ pc[t] = "space" /\ l = "space_wait"
               /\ sWaitingForSpace' = sWaitingForSpace + 1
            \/ /\ pc[t] = "space_wait" /\ l = "space_woken" /\ ~IsWaiting(t)
               /\ sWaitingForSpace' = sWaitingForSpace - 1
  BY DEF SpaceCount, SpaceWoken
<1>3. t \in Writers /\ t \notin Readers /\ t \notin Copying /\ (t \in Counted <=> l = "space_woken")
  BY <1>1, <1>2 DEF CallsAreSound, Threads, Copying, Counted, InSpaceWait
<1>4. l \in Pcs /\ pc[t] \in InSpaceWait /\ l \in InSpaceWait
  BY <1>2 DEF Pcs, InSpaceWait
<1>5. Allowed(t, l, result[t], call[t])
  BY <1>1, <1>2, <1>3, <1>4, AllowedForms
<1>6. call' = [call EXCEPT ![t] = call[t]] /\ state # "kUnused"
  BY <1>1, <1>2, MoveForms, InCallFacts
<1>7. sTotalSpaceCommited \in 0..SpaceLimit /\ sWaitingForSpace \in Nat
  BY <1>1, PortAssumption, FS_CardinalityType DEF TypeOK
<1>8. /\ sTotalSpaceCommited' = sTotalSpaceCommited
           + One(t \in Readers /\ l = "copy") - One(t \in Copying)
      /\ sTotalSpaceCommited' <= SpaceLimit
      /\ sWaitingForSpace' = sWaitingForSpace
           + One(t \in Writers /\ l = "space_wait") - One(t \in Counted)
  BY <1>2, <1>3, <1>7, PortAssumption DEF One
<1> QED BY <1>2, <1>3, <1>4, <1>5, <1>6, <1>8, QuietGoto

-------------------------------------------------------------------------------
(* Steps that end in a wait. *)

\* The condition variable a thread waits on, and where it is then.
WaitsFor(t, c, l) ==
    \/ c = "read" /\ t \in Readers /\ l = "wait" /\ ~is_port_closed
    \/ c = "write" /\ t \in Writers /\ l = "wait" /\ ~is_port_closed
    \/ c = "space" /\ t \in Writers /\ l = "space"

\* Queueing up keeps what is said of threads and queues.
LEMMA WaitIsSound ==
    ASSUME IndInv, NEW t \in Threads, NEW c, NEW l, WaitsFor(t, c, l),
           pc[t] \notin {"idle", "wait", "space", "space_wait"},
           Waits(t, c, l), UNCHANGED <<portVars, call, select_infos>>
    PROVE  /\ Move(t, l, "B_OK")
           /\ conditions' \in [{"read", "write", "space"} -> Seq(Threads)]
           /\ pc' \in [Threads -> Pcs] /\ result' \in [Threads -> Outcomes]
           /\ LifeIsSound' /\ CallsAreSound' /\ QueuesAreSound' /\ ClosedEndsWaits'
           /\ t \notin On(c) /\ On(c)' = On(c) \cup {t}
           /\ \A d \in ConditionVariables \ {c} : On(d)' = On(d)
<1> USE DEF IndInv
<1>1. Move(t, l, "B_OK")
  BY DEF Waits, Goto, Move
<1>2. /\ pc'[t] = l /\ \A u \in Threads \ {t} : pc'[u] = pc[u]
      /\ result'[t] = "B_OK" /\ \A u \in Threads \ {t} : result'[u] = result[u]
  BY <1>1 DEF Move, TypeOK
<1>3. pc' \in [Threads -> Pcs] /\ result' \in [Threads -> Outcomes]
  BY <1>1 DEF Move, WaitsFor, TypeOK, Pcs, Outcomes
<1>4. LifeIsSound'
  BY InCallFacts DEF LifeIsSound, portVars
<1>5. CallsAreSound'
  <2>1. ~(t \in Readers /\ t \in Writers)
    BY PortAssumption
  <2> QED BY <1>2, <2>1 DEF CallsAreSound, WaitsFor, InSpaceWait
<1>6. \A d \in ConditionVariables : t \notin On(d) /\ On(d) \in SUBSET Threads
  BY NotWaiting, WaitingOn
<1>7. /\ c \in ConditionVariables
      /\ conditions' = [conditions EXCEPT ![c] = Append(conditions[c], t)]
  BY DEF Waits, WaitsFor, ConditionVariables
<1>8. conditions[c] \in Seq(Threads) /\ IsInjective(conditions[c]) /\ t \notin ToSet(conditions[c])
  BY <1>6, <1>7, WaitingOn DEF QueuesAreSound, ConditionVariables, On
<1>9. /\ Append(conditions[c], t) \in Seq(Threads)
      /\ ToSet(Append(conditions[c], t)) = ToSet(conditions[c]) \cup {t}
      /\ IsInjective(Append(conditions[c], t))
  BY <1>8, AppendFacts
<1>10. /\ conditions' \in [{"read", "write", "space"} -> Seq(Threads)]
       /\ conditions'[c] = Append(conditions[c], t)
       /\ \A d \in ConditionVariables \ {c} : conditions'[d] = conditions[d]
  BY <1>7, <1>9 DEF TypeOK, ConditionVariables
<1>11. On(c)' = On(c) \cup {t} /\ \A d \in ConditionVariables \ {c} : On(d)' = On(d)
  BY <1>9, <1>10 DEF On
<1>12. QueuesAreSound'
  <2>1. \A d \in {"read", "write", "space"} : IsInjective(conditions'[d])
    BY <1>9, <1>10 DEF QueuesAreSound, ConditionVariables
  <2>2. \A u \in On("read")' : u \in Readers /\ pc'[u] = "wait" /\ result'[u] = "B_OK"
    BY <1>2, <1>6, <1>11 DEF QueuesAreSound, ConditionVariables, WaitsFor
  <2>3. \A u \in On("write")' : u \in Writers /\ pc'[u] = "wait" /\ result'[u] = "B_OK"
    BY <1>2, <1>6, <1>11 DEF QueuesAreSound, ConditionVariables, WaitsFor
  <2>4. \A u \in On("space")' :
           u \in Writers /\ pc'[u] \in {"space", "space_wait"} /\ result'[u] = "B_OK"
    BY <1>2, <1>6, <1>11 DEF QueuesAreSound, ConditionVariables, WaitsFor
  <2> QED BY <2>1, <2>2, <2>3, <2>4 DEF QueuesAreSound
<1>13. ClosedEndsWaits'
  BY <1>7, <1>10 DEF ClosedEndsWaits, WaitsFor, is_port_closed, portVars, ConditionVariables
<1> QED BY <1>1, <1>3, <1>4, <1>5, <1>6, <1>7, <1>10, <1>11, <1>12, <1>13

\* What does not change when a thread starts to wait.
LEMMA WaitFrame ==
    ASSUME IndInv, NEW t \in Threads, NEW c, NEW l, WaitsFor(t, c, l),
           pc[t] \notin {"idle", "wait", "space", "space_wait", "copy"},
           Waits(t, c, l), write_count' \in Int,
           UNCHANGED <<portVars, read_count, messages, selectVars, spaceVars, call, overbooked>>
    PROVE  TypeOK' /\ SpaceIsExact' /\ (InUse' <=> InUse)
<1>1. TypeOK
  BY DEF IndInv
<1>2. /\ Move(t, l, "B_OK")
      /\ conditions' \in [{"read", "write", "space"} -> Seq(Threads)]
      /\ pc' \in [Threads -> Pcs] /\ result' \in [Threads -> Outcomes]
  BY WaitIsSound DEF selectVars
<1>3. t \notin Copying /\ t \notin Counted /\ l \notin {"copy", "space_wait"}
  BY DEF Copying, Counted, WaitsFor
<1>4. Cardinality(Copying') = Cardinality(Copying) /\ Cardinality(Counted') = Cardinality(Counted)
  BY <1>1, <1>2, <1>3, MoveCounts DEF One
<1>5. SpaceIsExact'
  BY <1>4 DEF IndInv, SpaceIsExact, Copying, Counted, spaceVars
<1>6. TypeOK'
  BY <1>1, <1>2 DEF TypeOK, Pcs, Outcomes, portVars, selectVars, spaceVars
<1> QED BY <1>5, <1>6 DEF InUse, is_port_closed, portVars

\* Waiting for a message.
LEMMA ReadWaitStep ==
    ASSUME IndInv, NEW t \in Threads, ReadWait(t)
    PROVE  IndInv'
<1>1. TypeOK /\ CallsAreSound
  BY DEF IndInv
<1>2. /\ pc[t] \in {"lock", "relock"} /\ call[t] \in Reading /\ messages = 0 /\ ~is_port_closed
      /\ Waits(t, "read", "wait")
      /\ UNCHANGED <<portVars, queueVars, selectVars, spaceVars, call, overbooked>>
  BY DEF ReadWait, MayRead, AtReadLock, IndInv, CountsAreExact
<1>3. t \in Readers /\ t \notin Writers
  BY <1>1, <1>2 DEF CallsAreSound, Reading, Threads
<1>4. WaitsFor(t, "read", "wait")
  BY <1>2, <1>3 DEF WaitsFor
<1>5. /\ Move(t, "wait", "B_OK")
      /\ LifeIsSound' /\ CallsAreSound' /\ QueuesAreSound' /\ ClosedEndsWaits'
      /\ On("write")' = On("write")
  BY <1>2, <1>4, WaitIsSound DEF selectVars, ConditionVariables
<1>6. write_count' \in Int /\ UNCHANGED <<read_count, messages, write_count>>
  BY <1>1, <1>2 DEF queueVars, TypeOK
<1>7. TypeOK' /\ SpaceIsExact' /\ (InUse' <=> InUse)
  BY <1>2, <1>4, <1>6, WaitFrame
<1>8. Cardinality(InLine') = Cardinality(InLine) /\ Cardinality(Lost') = Cardinality(Lost)
  <2>1. t \notin InLine /\ t \notin Lost
    BY <1>3 DEF InLine, Lost
  <2> QED BY <1>1, <1>3, <1>5, <2>1, MoveCounts DEF One
<1>9. CountsAreExact' /\ SlotsArePromised' /\ PromisesAreKept'
  BY <1>2, <1>5, <1>6, <1>7, <1>8
     DEF IndInv, CountsAreExact, SlotsArePromised, PromisesAreKept, portVars
<1>10. MessagesArePromised'
  <2>1. Summoned' \in SUBSET Threads
    BY DEF Summoned, Threads
  <2>2. Cardinality(Summoned') \in Nat
    BY <2>1, CountThreads
  <2> QED BY <1>2, <1>6, <2>2 DEF MessagesArePromised
<1>11. SelectIsTold'
  BY <1>2, <1>6, <1>7 DEF IndInv, SelectIsTold, selectVars
<1> QED BY <1>5, <1>7, <1>9, <1>10, <1>11 DEF IndInv

\* A writer that starts to wait leaves the readers alone.
LEMMA WriterWaits ==
    ASSUME IndInv, NEW t \in Threads, t \in Writers, NEW c \in {"write", "space"}, NEW l,
           WaitsFor(t, c, l), pc[t] \notin {"idle", "wait", "space", "space_wait"},
           Waits(t, c, l), write_count' \in Int, write_count' <= write_count,
           UNCHANGED <<portVars, read_count, messages, selectVars, spaceVars, call, overbooked>>,
           CountsAreExact', SlotsArePromised', PromisesAreKept'
    PROVE  IndInv'
<1>1. TypeOK /\ CallsAreSound
  BY DEF IndInv
<1>2. t \notin Readers /\ pc[t] \notin {"idle", "wait", "space", "space_wait", "copy"}
  BY <1>1, PortAssumption DEF CallsAreSound
<1>3. /\ Move(t, l, "B_OK") /\ LifeIsSound' /\ CallsAreSound' /\ QueuesAreSound' /\ ClosedEndsWaits'
      /\ On("read")' = On("read")
  BY WaitIsSound DEF selectVars, ConditionVariables
<1>4. TypeOK' /\ SpaceIsExact' /\ (InUse' <=> InUse)
  BY <1>2, WaitFrame
<1>5. \A u \in Readers : pc'[u] = pc[u] /\ result'[u] = result[u]
  BY <1>1, <1>2, <1>3 DEF Move, TypeOK, Threads
<1>6. Summoned' = Summoned
  BY <1>3, <1>5 DEF Summoned
<1>7. MessagesArePromised'
  BY <1>3, <1>4, <1>6 DEF IndInv, MessagesArePromised
<1>8. write_count' > 0 => write_count > 0
  BY <1>1 DEF TypeOK
<1>9. SelectIsTold'
  BY <1>4, <1>8 DEF IndInv, SelectIsTold, selectVars
<1> QED BY <1>3, <1>4, <1>7, <1>9 DEF IndInv

\* Waiting for a slot.
LEMMA WriteWaitStep ==
    ASSUME IndInv, NEW t \in Threads, WriteWait(t)
    PROVE  IndInv'
<1>1. TypeOK /\ CallsAreSound
  BY DEF IndInv
<1>2. /\ pc[t] = "lock" /\ call[t] = "write" /\ ~is_port_closed /\ write_count <= 0
      /\ write_count' = write_count - 1 /\ Waits(t, "write", "wait")
      /\ UNCHANGED <<portVars, read_count, messages, selectVars, spaceVars, call, overbooked>>
  BY DEF WriteWait, AtWriteLock
<1>3. t \in Writers
  BY <1>1, <1>2 DEF CallsAreSound, Threads, Reading
<1>4. WaitsFor(t, "write", "wait")
  BY <1>2, <1>3 DEF WaitsFor
<1>5. /\ Move(t, "wait", "B_OK")
      /\ t \notin On("write") /\ On("write")' = On("write") \cup {t}
  BY <1>2, <1>4, WaitIsSound DEF selectVars
<1>6. /\ On("write") \in SUBSET Threads
      /\ Cardinality(On("write")) \in Nat
      /\ Cardinality(On("write")) = 0 <=> On("write") = {}
      /\ Cardinality(On("write")') = Cardinality(On("write")) + 1
  BY <1>1, <1>5, WaitingOn, CountThreads DEF ConditionVariables
<1>7. t \notin InLine /\ t \notin Lost
  BY <1>2 DEF InLine, Lost
<1>8. /\ Cardinality(InLine) \in Nat /\ Cardinality(InLine') = Cardinality(InLine) + 1
      /\ Cardinality(Lost) \in Nat /\ Cardinality(Lost') = Cardinality(Lost)
  BY <1>1, <1>3, <1>5, <1>7, MoveCounts DEF One
<1>9. write_count \in Int /\ write_count' \in Int /\ write_count' <= write_count
  BY <1>1, <1>2 DEF TypeOK
<1>10. InUse' <=> InUse
  BY <1>2 DEF InUse, is_port_closed, portVars
<1>11. CountsAreExact'
  <2>1. capacity \in Nat /\ messages \in Nat
    BY <1>1, PortAssumption DEF TypeOK
  <2>2. InUse => write_count = capacity - messages - Cardinality(InLine)
    BY DEF IndInv, CountsAreExact
  <2>3. InUse => write_count' = capacity' - messages' - Cardinality(InLine')
    BY <1>2, <1>8, <1>9, <2>1, <2>2 DEF portVars
  <2> QED BY <1>2, <1>10, <2>3 DEF IndInv, CountsAreExact
<1>12. SlotsArePromised'
  <2>1. InUse => write_count + Cardinality(On("write")) <= 0
    BY <1>2, <1>6, <1>9 DEF IndInv, SlotsArePromised
  <2> QED BY <1>2, <1>6, <1>9, <1>10, <2>1 DEF SlotsArePromised
<1>13. PromisesAreKept'
  <2>1. InUse /\ ~overbooked =>
           write_count + Cardinality(On("write")) + Cardinality(Lost) >= 0
    BY DEF IndInv, PromisesAreKept
  <2> QED BY <1>2, <1>6, <1>8, <1>9, <1>10, <2>1 DEF PromisesAreKept
<1> QED BY <1>2, <1>3, <1>4, <1>9, <1>11, <1>12, <1>13, WriterWaits

\* Waiting for space, with a slot.
LEMMA AwaitSpaceStep ==
    ASSUME IndInv, NEW t \in Threads, t \in Writers,
           pc[t] \in {"lock", "relock", "space_lock"}, t \notin Lost,
           AwaitSpace(t), UNCHANGED call,
           write_count' = write_count - One(t \notin InLine), t \notin InLine => write_count > 0
    PROVE  IndInv'
<1>1. TypeOK /\ CallsAreSound
  BY DEF IndInv
<1>2. /\ Waits(t, "space", "space")
      /\ UNCHANGED <<portVars, read_count, messages, selectVars, spaceVars, call, overbooked>>
  BY DEF AwaitSpace
<1>3. WaitsFor(t, "space", "space")
  BY DEF WaitsFor
<1>4. Move(t, "space", "B_OK") /\ On("write")' = On("write")
  BY <1>2, <1>3, WaitIsSound DEF selectVars, ConditionVariables
<1>5. /\ On("write") \in SUBSET Threads /\ Cardinality(On("write")) \in Nat
      /\ Cardinality(On("write")) = 0 <=> On("write") = {}
  BY <1>1, WaitingOn, CountThreads DEF ConditionVariables
<1>6. /\ Cardinality(InLine) \in Nat
      /\ Cardinality(InLine') = Cardinality(InLine) + One(t \notin InLine)
      /\ Cardinality(Lost) \in Nat /\ Cardinality(Lost') = Cardinality(Lost)
  BY <1>1, <1>4, MoveCounts DEF One
<1>7. /\ write_count \in Int /\ write_count' \in Int /\ write_count' <= write_count
      /\ write_count >= 0 => write_count' >= 0
  BY <1>1 DEF TypeOK, One
<1>8. InUse' <=> InUse
  BY <1>2 DEF InUse, is_port_closed, portVars
<1>9. CountsAreExact'
  <2>1. capacity \in Nat /\ messages \in Nat
    BY <1>1, PortAssumption DEF TypeOK
  <2>2. InUse => write_count = capacity - messages - Cardinality(InLine)
    BY DEF IndInv, CountsAreExact
  <2>3. InUse => write_count' = capacity' - messages' - Cardinality(InLine')
    BY <1>2, <1>6, <1>7, <2>1, <2>2 DEF portVars, One
  <2> QED BY <1>2, <1>8, <2>3 DEF IndInv, CountsAreExact
<1>10. SlotsArePromised'
  BY <1>4, <1>5, <1>7, <1>8 DEF IndInv, SlotsArePromised
<1>11. PromisesAreKept'
  <2>1. InUse /\ ~overbooked =>
           write_count + Cardinality(On("write")) + Cardinality(Lost) >= 0
    BY DEF IndInv, PromisesAreKept
  <2>2. CASE t \in InLine
    <3>1. write_count' = write_count
      BY <1>7, <2>2 DEF One
    <3> QED BY <1>2, <1>4, <1>6, <1>8, <2>1, <3>1 DEF PromisesAreKept
  <2>3. CASE t \notin InLine
    <3>1. write_count' >= 0
      BY <1>7, <2>3
    <3> QED BY <1>4, <1>5, <1>6, <1>7, <3>1 DEF PromisesAreKept
  <2> QED BY <2>2, <2>3
<1> QED BY <1>2, <1>3, <1>7, <1>9, <1>10, <1>11, WriterWaits

-------------------------------------------------------------------------------
(* Steps that wake others. *)

\* select() is told of an event.
LEMMA TellFacts ==
    ASSUME TypeOK, NEW event \in Events, notify_port_select_events(event)
    PROVE  /\ told' \in [Infos -> SUBSET Events]
           /\ \A i \in select_infos : told'[i] = told[i] \cup {event}
BY DEF TypeOK, notify_port_select_events

\* The types, after a step that changes the counts.
LEMMA StepTypes ==
    ASSUME TypeOK, UNCHANGED <<portVars, select_infos>>,
           pc' \in [Threads -> Pcs], result' \in [Threads -> Outcomes],
           call' \in [Threads -> Calls], Shrinks(conditions'),
           messages' \in Nat, read_count' = messages', write_count' \in Int,
           told' \in [Infos -> SUBSET Events], overbooked' \in BOOLEAN,
           SpaceIsExact', sTotalSpaceCommited' <= SpaceLimit
    PROVE  TypeOK' /\ (InUse' <=> InUse)
<1>1. sWaitingForSpace' \in 0..Cardinality(Writers)
  BY CountedFits DEF SpaceIsExact, Counted
<1>2. sTotalSpaceCommited' \in 0..SpaceLimit
  <2>1. Copying' \in SUBSET Threads
    BY DEF Copying, Threads
  <2>2. Cardinality(Copying') \in Nat /\ sTotalSpaceCommited' = messages' + Cardinality(Copying')
    BY <2>1, CountThreads DEF SpaceIsExact, Copying
  <2> QED BY <2>2, PortAssumption
<1>3. conditions' \in [{"read", "write", "space"} -> Seq(Threads)]
  BY DEF Shrinks
<1> QED BY <1>1, <1>2, <1>3 DEF TypeOK, Pcs, Outcomes, portVars, InUse, is_port_closed

\* A message is put into the queue, by a writer that has a slot or takes one.
LEMMA EnqueueStep ==
    ASSUME IndInv, NEW t \in Threads, t \in Writers,
           pc[t] \in {"lock", "relock", "space_lock"}, t \notin Lost, Enqueue(t),
           write_count' = write_count - One(t \notin InLine), t \notin InLine => write_count > 0
    PROVE  IndInv'
<1> DEFINE w == IF t \in Writers THEN "write" ELSE "read"
           conds == AfterNotifyOne("read")
<1>1. TypeOK /\ QueuesAreSound /\ CallsAreSound
  BY DEF IndInv
<1>2. /\ Move(t, "idle", "B_OK") /\ call' = [call EXCEPT ![t] = w] /\ conditions' = conds
      /\ sTotalSpaceCommited + 1 <= SpaceLimit
      /\ sTotalSpaceCommited' = sTotalSpaceCommited + 1
      /\ messages' = messages + 1 /\ read_count' = read_count + 1
      /\ notify_port_select_events("READ")
      /\ UNCHANGED <<portVars, select_infos, sWaitingForSpace, overbooked>>
  BY <1>1, MoveForms DEF Enqueue, HasSpace, NotifyOne
<1>3. Free(t, "idle", "B_OK") /\ Allowed(t, "idle", "B_OK", w) /\ state # "kUnused"
  BY <1>1, NotWaiting, AllowedForms, InCallFacts DEF Free, ConditionVariables
<1>4. Shrinks(conds) /\ OneLess("read", conds) /\ conds["write"] = conditions["write"]
  BY <1>1, NotifyFacts DEF ConditionVariables
<1> HIDE DEF w, conds
<1>5. /\ pc' \in [Threads -> Pcs] /\ result' \in [Threads -> Outcomes]
      /\ call' \in [Threads -> Calls]
      /\ LifeIsSound' /\ CallsAreSound' /\ QueuesAreSound' /\ ClosedEndsWaits'
  BY <1>2, <1>3, <1>4, StepIsSound
<1>6. t \notin Copying /\ t \notin Counted /\ t \notin Summoned /\ t \notin Readers
  BY PortAssumption DEF Copying, Counted, Summoned
<1>7. /\ Cardinality(InLine) \in Nat
      /\ Cardinality(InLine') = Cardinality(InLine) - One(t \in InLine)
      /\ Cardinality(Lost) \in Nat /\ Cardinality(Lost') = Cardinality(Lost)
      /\ Cardinality(Copying) \in Nat /\ Cardinality(Copying') = Cardinality(Copying)
      /\ Cardinality(Counted') = Cardinality(Counted)
  BY <1>1, <1>2, <1>6, MoveCounts DEF One
<1>8. /\ Cardinality(On("write")) \in Nat /\ On("write")' = On("write")
      /\ Cardinality(On("write")) = 0 <=> On("write") = {}
  BY <1>1, <1>2, <1>4, WaitingCounts
<1>9. /\ Cardinality(Summoned) \in Nat
      /\ Cardinality(Summoned') = Cardinality(Summoned) + One(On("read") # {})
  BY <1>1, <1>2, <1>3, <1>4, <1>6, SummonedCounts DEF One, Free
<1>10. /\ messages \in Nat /\ read_count = messages /\ write_count \in Int /\ write_count' \in Int
       /\ write_count' <= write_count /\ (write_count >= 0 => write_count' >= 0)
       /\ sTotalSpaceCommited \in Nat /\ capacity \in Nat
  BY <1>1, PortAssumption DEF TypeOK, One, IndInv, CountsAreExact
<1>11. SpaceIsExact'
  <2>1. sTotalSpaceCommited = messages + Cardinality(Copying)
    BY DEF IndInv, SpaceIsExact, Copying
  <2>2. sTotalSpaceCommited' = messages' + Cardinality(Copying')
    BY <1>2, <1>7, <1>10, <2>1
  <2> QED BY <1>2, <1>7, <2>2 DEF IndInv, SpaceIsExact, Copying, Counted
<1>12. /\ told' \in [Infos -> SUBSET Events]
       /\ \A i \in select_infos : told'[i] = told[i] \cup {"READ"}
  BY <1>1, <1>2, TellFacts DEF Events
<1>13. TypeOK' /\ (InUse' <=> InUse)
  <2>1. messages' \in Nat /\ read_count' = messages' /\ sTotalSpaceCommited' <= SpaceLimit
    BY <1>2, <1>10
  <2>2. overbooked' \in BOOLEAN
    BY <1>1, <1>2 DEF TypeOK
  <2> QED BY <1>1, <1>2, <1>4, <1>5, <1>10, <1>11, <1>12, <2>1, <2>2, StepTypes
<1>14. CountsAreExact'
  <2>1. InUse => write_count = capacity - messages - Cardinality(InLine)
    BY DEF IndInv, CountsAreExact
  <2>2. InUse => write_count' = capacity' - messages' - Cardinality(InLine')
    BY <1>2, <1>7, <1>10, <2>1 DEF portVars, One
  <2> QED BY <1>2, <1>10, <1>13, <2>2 DEF CountsAreExact
<1>15. SlotsArePromised'
  BY <1>8, <1>10, <1>13 DEF IndInv, SlotsArePromised
<1>16. PromisesAreKept'
  <2>1. InUse /\ ~overbooked =>
           write_count + Cardinality(On("write")) + Cardinality(Lost) >= 0
    BY DEF IndInv, PromisesAreKept
  <2>2. CASE t \in InLine
    <3>1. write_count' = write_count
      BY <1>10, <2>2 DEF One
    <3> QED BY <1>2, <1>7, <1>8, <1>13, <2>1, <3>1 DEF PromisesAreKept
  <2>3. CASE t \notin InLine
    <3>1. write_count' >= 0
      BY <1>10, <2>3
    <3> QED BY <1>7, <1>8, <1>10, <3>1 DEF PromisesAreKept
  <2> QED BY <2>2, <2>3
<1>17. MessagesArePromised'
  <2>1. On("read")' \subseteq On("read")
    BY <1>2, <1>4 DEF Shrinks, On, ConditionVariables
  <2> QED BY <1>2, <1>9, <1>10, <1>13, <2>1 DEF IndInv, MessagesArePromised, One
<1>18. SelectIsTold'
  <2>1. write_count' > 0 => write_count > 0
    BY <1>10
  <2> QED BY <1>2, <1>12, <1>13, <2>1 DEF IndInv, SelectIsTold
<1> QED BY <1>5, <1>11, <1>13, <1>14, <1>15, <1>16, <1>17, <1>18 DEF IndInv

\* A writer leaves without having written.  It gives back what it has, and wakes the
\* next one in line: if it had lost its place, that one takes the wake-up for a slot.
LEMMA GiveUpSlotStep ==
    ASSUME IndInv, NEW t \in Threads, t \in Writers, pc[t] \in {"lock", "relock", "space_lock"},
           NEW count, count = write_count + One(t \in InLine), t \notin InLine => write_count > 0,
           NEW conds, Shrinks(conds), OneLess("write", conds), conds["read"] = conditions["read"],
           GiveUpSlot(t, count, conds),
           overbooked' = (overbooked \/ (t \in Lost /\ On("write") # {}))
    PROVE  IndInv'
<1> DEFINE w == IF t \in Writers THEN "write" ELSE "read"
<1>1. TypeOK /\ QueuesAreSound /\ CallsAreSound
  BY DEF IndInv
<1>2. /\ Move(t, "idle", "B_OK") /\ call' = [call EXCEPT ![t] = w] /\ conditions' = conds
      /\ write_count' = count
      /\ notify_port_select_events("WRITE")
      /\ UNCHANGED <<portVars, select_infos, read_count, messages, spaceVars>>
  BY <1>1, MoveForms DEF GiveUpSlot
<1>3. Free(t, "idle", "B_OK") /\ Allowed(t, "idle", "B_OK", w) /\ state # "kUnused"
  BY <1>1, NotWaiting, AllowedForms, InCallFacts DEF Free, ConditionVariables
<1> HIDE DEF w
<1>4. /\ pc' \in [Threads -> Pcs] /\ result' \in [Threads -> Outcomes]
      /\ call' \in [Threads -> Calls]
      /\ LifeIsSound' /\ CallsAreSound' /\ QueuesAreSound' /\ ClosedEndsWaits'
  BY <1>2, <1>3, StepIsSound
<1>5. /\ t \notin Copying /\ t \notin Counted /\ t \notin Summoned /\ t \notin Readers
      /\ t \in Lost => t \in InLine
  BY PortAssumption DEF Copying, Counted, Summoned, Lost, InLine
<1>6. /\ Cardinality(InLine) \in Nat
      /\ Cardinality(InLine') = Cardinality(InLine) - One(t \in InLine)
      /\ Cardinality(Lost) \in Nat /\ Cardinality(Lost') \in Nat
      /\ Cardinality(Lost') = Cardinality(Lost) - One(t \in Lost)
      /\ Cardinality(Copying') = Cardinality(Copying)
      /\ Cardinality(Counted') = Cardinality(Counted)
  BY <1>1, <1>2, <1>5, MoveCounts DEF One
<1>7. /\ Cardinality(On("write")) \in Nat /\ Cardinality(On("write")') \in Nat
      /\ Cardinality(On("write")) = 0 <=> On("write") = {}
      /\ Cardinality(On("write")') = 0 <=> On("write")' = {}
      /\ Cardinality(On("write")') = Cardinality(On("write")) - One(On("write") # {})
  BY <1>1, <1>2, WaitingCounts
<1>8. On("read")' = On("read") /\ Cardinality(Summoned') = Cardinality(Summoned)
  BY <1>1, <1>2, <1>3, <1>5, SummonedCounts DEF One, Free
<1>9. /\ messages \in Nat /\ read_count = messages /\ write_count \in Int /\ write_count' \in Int
      /\ sTotalSpaceCommited <= SpaceLimit /\ capacity \in Nat
  BY <1>1, <1>2, PortAssumption DEF TypeOK, One, IndInv, CountsAreExact
<1>10. SpaceIsExact'
  BY <1>2, <1>6 DEF IndInv, SpaceIsExact, Copying, Counted, spaceVars
<1>11. /\ told' \in [Infos -> SUBSET Events]
       /\ \A i \in select_infos : told'[i] = told[i] \cup {"WRITE"}
  BY <1>1, <1>2, TellFacts DEF Events
<1>12. TypeOK' /\ (InUse' <=> InUse)
  <2>1. messages' \in Nat /\ read_count' = messages' /\ sTotalSpaceCommited' <= SpaceLimit
    BY <1>2, <1>9 DEF spaceVars
  <2>2. overbooked' \in BOOLEAN
    OBVIOUS
  <2> QED BY <1>1, <1>2, <1>4, <1>9, <1>10, <1>11, <2>1, <2>2, StepTypes
<1>13. CountsAreExact'
  <2>1. InUse => write_count = capacity - messages - Cardinality(InLine)
    BY DEF IndInv, CountsAreExact
  <2>2. InUse => write_count' = capacity' - messages' - Cardinality(InLine')
    BY <1>2, <1>6, <1>9, <2>1 DEF portVars, One
  <2> QED BY <1>2, <1>9, <1>12, <2>2 DEF CountsAreExact
<1>14. SlotsArePromised'
  <2> SUFFICES ASSUME InUse, On("write")' # {}
               PROVE  write_count' + Cardinality(On("write")') <= 0
    BY <1>12 DEF SlotsArePromised
  <2>1. On("write") # {}
    BY <1>7 DEF One
  <2>2. write_count + Cardinality(On("write")) <= 0
    BY <2>1 DEF IndInv, SlotsArePromised
  <2> QED BY <1>2, <1>7, <1>9, <2>1, <2>2 DEF One
<1>15. PromisesAreKept'
  <2> SUFFICES ASSUME InUse, ~overbooked'
               PROVE  write_count' + Cardinality(On("write")') + Cardinality(Lost') >= 0
    BY <1>12 DEF PromisesAreKept
  <2>1. /\ write_count + Cardinality(On("write")) + Cardinality(Lost) >= 0
        /\ t \in Lost => On("write") = {}
    BY DEF IndInv, PromisesAreKept
  <2>2. CASE t \notin InLine
    <3>1. write_count' > 0
      BY <1>2, <1>9, <2>2 DEF One
    <3> QED BY <1>6, <1>7, <1>9, <3>1
  <2>3. CASE t \in InLine
    <3>1. write_count' = write_count + 1
      BY <1>2, <2>3 DEF One
    <3> QED BY <1>6, <1>7, <1>9, <2>1, <3>1 DEF One
  <2> QED BY <2>2, <2>3
<1>16. MessagesArePromised'
  BY <1>2, <1>8, <1>12 DEF IndInv, MessagesArePromised
<1>17. SelectIsTold'
  BY <1>2, <1>11, <1>12 DEF IndInv, SelectIsTold
<1> QED BY <1>4, <1>10, <1>12, <1>13, <1>14, <1>15, <1>16, <1>17 DEF IndInv

\* A message is taken out of the queue.
LEMMA ReadTakeStep ==
    ASSUME IndInv, NEW t \in Threads, ReadTake(t)
    PROVE  IndInv'
<1> DEFINE conds == AfterNotifyOne("write")
<1>1. TypeOK /\ QueuesAreSound /\ CallsAreSound
  BY DEF IndInv
<1>2. /\ pc[t] \in {"lock", "relock"} /\ call[t] = "read" /\ result[t] = "B_OK" /\ read_count > 0
      /\ messages' = messages - 1 /\ write_count' = write_count + 1
      /\ read_count' = read_count - 1
      /\ notify_port_select_events("WRITE") /\ conditions' = conds
      /\ Goto(t, "copy")
      /\ UNCHANGED <<portVars, select_infos, spaceVars, call, result, overbooked>>
  BY DEF ReadTake, MayRead, AtReadLock, NotifyOne
<1>3. t \in Readers /\ t \notin Writers
  BY <1>1, <1>2 DEF CallsAreSound, Threads
<1>4. Free(t, "copy", "B_OK") /\ Allowed(t, "copy", "B_OK", call[t]) /\ state # "kUnused"
  BY <1>1, <1>2, <1>3, NotWaiting, AllowedForms, InCallFacts
     DEF Free, ConditionVariables, Pcs, InSpaceWait
<1>5. Move(t, "copy", "B_OK") /\ call' = [call EXCEPT ![t] = call[t]]
  BY <1>1, <1>2, MoveForms
<1>6. Shrinks(conds) /\ OneLess("write", conds) /\ conds["read"] = conditions["read"]
  BY <1>1, NotifyFacts DEF ConditionVariables
<1> HIDE DEF conds
<1>7. /\ pc' \in [Threads -> Pcs] /\ result' \in [Threads -> Outcomes]
      /\ call' \in [Threads -> Calls]
      /\ LifeIsSound' /\ CallsAreSound' /\ QueuesAreSound' /\ ClosedEndsWaits'
  BY <1>2, <1>4, <1>5, <1>6, StepIsSound
<1>8. t \notin Copying /\ t \notin Counted /\ t \notin Lost /\ t \notin InLine
  BY <1>2, <1>3 DEF Copying, Counted, Lost, InLine
<1>9. /\ Cardinality(InLine) \in Nat /\ Cardinality(InLine') = Cardinality(InLine)
      /\ Cardinality(Lost) \in Nat /\ Cardinality(Lost') = Cardinality(Lost)
      /\ Cardinality(Copying) \in Nat /\ Cardinality(Copying') = Cardinality(Copying) + 1
      /\ Cardinality(Counted') = Cardinality(Counted)
  BY <1>1, <1>3, <1>5, <1>8, MoveCounts DEF One
<1>10. /\ Cardinality(On("write")) \in Nat /\ Cardinality(On("write")') \in Nat
       /\ Cardinality(On("write")) = 0 <=> On("write") = {}
       /\ Cardinality(On("write")') = 0 <=> On("write")' = {}
       /\ Cardinality(On("write")') = Cardinality(On("write")) - One(On("write") # {})
  BY <1>1, <1>2, <1>6, WaitingCounts
<1>11. /\ Cardinality(Summoned) \in Nat /\ Cardinality(Summoned') \in Nat
       /\ On("read")' = On("read") /\ Cardinality(Summoned') >= Cardinality(Summoned) - 1
  BY <1>1, <1>2, <1>4, <1>5, <1>6, SummonedCounts DEF One, Free
<1>12. /\ messages \in Nat /\ read_count = messages /\ messages > 0
       /\ write_count \in Int /\ write_count' \in Int
       /\ sTotalSpaceCommited <= SpaceLimit /\ capacity \in Nat
  BY <1>1, <1>2, PortAssumption DEF TypeOK, IndInv, CountsAreExact
<1>13. SpaceIsExact'
  <2>1. sTotalSpaceCommited = messages + Cardinality(Copying)
    BY DEF IndInv, SpaceIsExact, Copying
  <2>2. sTotalSpaceCommited' = messages' + Cardinality(Copying')
    BY <1>2, <1>9, <1>12, <2>1 DEF spaceVars
  <2> QED BY <1>2, <1>9, <2>2 DEF IndInv, SpaceIsExact, Copying, Counted, spaceVars
<1>14. /\ told' \in [Infos -> SUBSET Events]
       /\ \A i \in select_infos : told'[i] = told[i] \cup {"WRITE"}
  BY <1>1, <1>2, TellFacts DEF Events
<1>15. TypeOK' /\ (InUse' <=> InUse)
  <2>1. messages' \in Nat /\ read_count' = messages' /\ sTotalSpaceCommited' <= SpaceLimit
    BY <1>2, <1>12 DEF spaceVars
  <2>2. overbooked' \in BOOLEAN
    BY <1>1, <1>2 DEF TypeOK
  <2> QED BY <1>1, <1>2, <1>6, <1>7, <1>12, <1>13, <1>14, <2>1, <2>2, StepTypes
<1>16. CountsAreExact'
  <2>1. InUse => write_count = capacity - messages - Cardinality(InLine)
    BY DEF IndInv, CountsAreExact
  <2>2. InUse => write_count' = capacity' - messages' - Cardinality(InLine')
    BY <1>2, <1>9, <1>12, <2>1 DEF portVars
  <2> QED BY <1>2, <1>12, <1>15, <2>2 DEF CountsAreExact
<1>17. SlotsArePromised'
  BY <1>2, <1>10, <1>12, <1>15 DEF IndInv, SlotsArePromised, One
<1>18. PromisesAreKept'
  BY <1>2, <1>9, <1>10, <1>12, <1>15 DEF IndInv, PromisesAreKept, One
<1>19. MessagesArePromised'
  BY <1>2, <1>11, <1>12, <1>15 DEF IndInv, MessagesArePromised
<1>20. SelectIsTold'
  BY <1>2, <1>12, <1>14, <1>15 DEF IndInv, SelectIsTold
<1> QED BY <1>7, <1>13, <1>15, <1>16, <1>17, <1>18, <1>19, <1>20 DEF IndInv

\* A reader that only looked passes the wake-up on.
LEMMA ReadLookStep ==
    ASSUME IndInv, NEW t \in Threads, ReadLook(t)
    PROVE  IndInv'
<1> DEFINE w == IF t \in Writers THEN "write" ELSE "read"
           conds == AfterNotifyOne("read")
<1>1. TypeOK /\ QueuesAreSound /\ CallsAreSound
  BY DEF IndInv
<1>2. /\ pc[t] \in {"lock", "relock"} /\ call[t] \in Reading
      /\ Move(t, "idle", "B_OK") /\ call' = [call EXCEPT ![t] = w] /\ conditions' = conds
      /\ UNCHANGED <<portVars, queueVars, selectVars, spaceVars, overbooked>>
  BY <1>1, MoveForms DEF ReadLook, MayRead, AtReadLock, NotifyOne
<1>3. t \in Readers /\ t \notin Writers
  BY <1>1, <1>2 DEF CallsAreSound, Threads, Reading
<1>4. Free(t, "idle", "B_OK") /\ Allowed(t, "idle", "B_OK", w) /\ state # "kUnused"
  BY <1>1, <1>2, NotWaiting, AllowedForms, InCallFacts DEF Free, ConditionVariables
<1>5. Shrinks(conds) /\ OneLess("read", conds) /\ conds["write"] = conditions["write"]
  BY <1>1, NotifyFacts DEF ConditionVariables
<1> HIDE DEF w, conds
<1>6. /\ pc' \in [Threads -> Pcs] /\ result' \in [Threads -> Outcomes]
      /\ call' \in [Threads -> Calls]
      /\ LifeIsSound' /\ CallsAreSound' /\ QueuesAreSound' /\ ClosedEndsWaits'
  BY <1>2, <1>4, <1>5, StepIsSound DEF selectVars
<1>7. t \notin Copying /\ t \notin Counted /\ t \notin Lost /\ t \notin InLine
  BY <1>2, <1>3 DEF Copying, Counted, Lost, InLine
<1>8. /\ Cardinality(InLine') = Cardinality(InLine) /\ Cardinality(Lost') = Cardinality(Lost)
      /\ Cardinality(Copying') = Cardinality(Copying)
      /\ Cardinality(Counted') = Cardinality(Counted)
  BY <1>1, <1>2, <1>3, <1>7, MoveCounts DEF One
<1>9. On("write")' = On("write")
  BY <1>1, <1>2, <1>5, WaitingCounts
<1>10. /\ Cardinality(Summoned) \in Nat /\ Cardinality(Summoned') \in Nat
       /\ On("read") # {} => Cardinality(Summoned') >= Cardinality(Summoned)
       /\ On("read")' \subseteq On("read")
  BY <1>1, <1>2, <1>4, <1>5, SummonedCounts DEF One, Free, Shrinks, On, ConditionVariables
<1>11. SpaceIsExact'
  BY <1>2, <1>8 DEF IndInv, SpaceIsExact, Copying, Counted, spaceVars, queueVars
<1>12. TypeOK' /\ (InUse' <=> InUse)
  <2>1. /\ messages' \in Nat /\ read_count' = messages' /\ write_count' \in Int
        /\ told' \in [Infos -> SUBSET Events] /\ overbooked' \in BOOLEAN
        /\ sTotalSpaceCommited' <= SpaceLimit /\ UNCHANGED <<portVars, select_infos>>
    BY <1>1, <1>2, PortAssumption
       DEF TypeOK, IndInv, CountsAreExact, queueVars, spaceVars, selectVars
  <2> QED BY <1>1, <1>2, <1>5, <1>6, <1>11, <2>1, StepTypes
<1>13. CountsAreExact' /\ SlotsArePromised' /\ PromisesAreKept'
  BY <1>2, <1>8, <1>9, <1>12
     DEF IndInv, CountsAreExact, SlotsArePromised, PromisesAreKept, portVars, queueVars
<1>14. MessagesArePromised'
  <2> SUFFICES ASSUME InUse, On("read") # {} PROVE messages <= Cardinality(Summoned')
    BY <1>2, <1>10, <1>12 DEF MessagesArePromised, queueVars
  <2>1. messages <= Cardinality(Summoned) /\ messages \in Nat
    BY <1>1 DEF IndInv, MessagesArePromised, TypeOK
  <2> QED BY <1>10, <2>1
<1>15. SelectIsTold'
  BY <1>2, <1>12 DEF IndInv, SelectIsTold, queueVars, selectVars
<1> QED BY <1>6, <1>11, <1>12, <1>13, <1>14, <1>15 DEF IndInv

\* The writer's steps once it has the lock.
LEMMA WriteStep ==
    ASSUME IndInv, NEW t \in Threads, WriteNow(t) \/ WriteSlot(t) \/ WriteFail(t) \/ SpaceAgain(t)
    PROVE  IndInv'
<1>1. TypeOK /\ QueuesAreSound /\ CallsAreSound
  BY DEF IndInv
<1>2. pc[t] \in {"lock", "relock", "space_lock"} /\ (pc[t] # "space_lock" => call[t] = "write")
  BY DEF WriteNow, WriteSlot, WriteFail, SpaceAgain, AtWriteLock
<1>3. t \in Writers
  BY <1>1, <1>2 DEF CallsAreSound, Threads, Reading, InSpaceWait
<1>4. t \in InLine <=> pc[t] # "lock"
  BY <1>2, <1>3 DEF InLine
<1>5. t \in Lost <=> pc[t] = "relock" /\ result[t] # "B_OK"
  BY <1>1, <1>2, <1>3 DEF Lost, CallsAreSound
<1>6. write_count \in Int
  BY <1>1 DEF TypeOK
<1>7. /\ Shrinks(AfterNotifyOne("write")) /\ OneLess("write", AfterNotifyOne("write"))
      /\ AfterNotifyOne("write")["read"] = conditions["read"]
  BY <1>1, NotifyFacts DEF ConditionVariables
<1>8. LET conds == NotifySpace(AfterNotifyOne("write"))
      IN  Shrinks(conds) /\ OneLess("write", conds) /\ conds["read"] = conditions["read"]
  BY <1>7, SpaceFacts DEF OneLess
<1>9. conditions["write"] # <<>> <=> On("write") # {}
  BY <1>1, WaitingOn DEF ConditionVariables
<1>10. CASE WriteNow(t)
  <2>1. pc[t] = "lock" /\ write_count > 0 /\ t \notin InLine /\ t \notin Lost
    BY <1>4, <1>5, <1>10 DEF WriteNow, AtWriteLock
  <2>2. write_count = write_count + One(t \in InLine) /\ One(t \notin InLine) = 1
    BY <1>6, <2>1 DEF One
  <2>3. CASE Enqueue(t) /\ write_count' = write_count - 1
    BY <1>2, <1>3, <2>1, <2>2, <2>3, EnqueueStep
  <2>4. CASE AwaitSpace(t) /\ write_count' = write_count - 1 /\ UNCHANGED call
    BY <1>2, <1>3, <2>1, <2>2, <2>4, AwaitSpaceStep
  <2>5. CASE CopyFails(t, write_count)
    <3>1. overbooked' = (overbooked \/ (t \in Lost /\ On("write") # {}))
      BY <1>1, <2>1, <2>5 DEF CopyFails, TypeOK
    <3> QED BY <1>2, <1>3, <1>8, <2>1, <2>2, <2>5, <3>1, GiveUpSlotStep DEF CopyFails
  <2>6. CASE NoSpace(t, write_count)
    <3>1. overbooked' = (overbooked \/ (t \in Lost /\ On("write") # {}))
      BY <1>1, <2>1, <2>6 DEF NoSpace, TypeOK
    <3> QED BY <1>2, <1>3, <1>7, <2>1, <2>2, <2>6, <3>1, GiveUpSlotStep DEF NoSpace
  <2> QED BY <1>10, <2>3, <2>4, <2>5, <2>6 DEF WriteNow
<1>11. ASSUME t \in InLine, t \notin Lost,
              \/ Enqueue(t) /\ UNCHANGED write_count
              \/ CopyFails(t, write_count + 1)
              \/ AwaitSpace(t) /\ UNCHANGED <<write_count, call>>
       PROVE  IndInv'
  <2>1. write_count + 1 = write_count + One(t \in InLine) /\ One(t \notin InLine) = 0
    BY <1>6, <1>11 DEF One
  <2>2. UNCHANGED write_count => write_count' = write_count - One(t \notin InLine)
    BY <1>6, <2>1
  <2>3. CASE Enqueue(t) /\ UNCHANGED write_count
    BY <1>2, <1>3, <1>11, <2>2, <2>3, EnqueueStep
  <2>4. CASE CopyFails(t, write_count + 1)
    <3>1. overbooked' = (overbooked \/ (t \in Lost /\ On("write") # {}))
      BY <1>1, <1>11, <2>4 DEF CopyFails, TypeOK
    <3> QED BY <1>2, <1>3, <1>8, <1>11, <2>1, <2>4, <3>1, GiveUpSlotStep DEF CopyFails
  <2>5. CASE AwaitSpace(t) /\ UNCHANGED <<write_count, call>>
    BY <1>2, <1>3, <1>11, <2>2, <2>5, AwaitSpaceStep
  <2> QED BY <1>11, <2>3, <2>4, <2>5
<1>12. CASE WriteSlot(t)
  BY <1>4, <1>5, <1>11, <1>12 DEF WriteSlot
<1>13. CASE WriteFail(t)
  <2>1. pc[t] = "relock" /\ t \in InLine /\ t \in Lost
    BY <1>4, <1>5, <1>13 DEF WriteFail
  <2>2. write_count + 1 = write_count + One(t \in InLine)
    BY <1>6, <2>1 DEF One
  <2>3. overbooked' = (overbooked \/ (t \in Lost /\ On("write") # {}))
    BY <1>9, <1>13, <2>1 DEF WriteFail
  <2> QED BY <1>2, <1>3, <1>7, <1>13, <2>1, <2>2, <2>3, GiveUpSlotStep DEF WriteFail
<1>14. CASE SpaceAgain(t)
  <2>1. pc[t] = "space_lock" /\ t \in InLine /\ t \notin Lost
    BY <1>4, <1>5, <1>14 DEF SpaceAgain
  <2>2. CASE GiveUpSlot(t, write_count + 1, AfterNotifyOne("write")) /\ UNCHANGED overbooked
    <3>1. overbooked' = (overbooked \/ (t \in Lost /\ On("write") # {}))
      BY <1>1, <2>1, <2>2 DEF TypeOK
    <3>2. write_count + 1 = write_count + One(t \in InLine)
      BY <1>6, <2>1 DEF One
    <3> QED BY <1>2, <1>3, <1>7, <2>1, <2>2, <3>1, <3>2, GiveUpSlotStep
  <2> QED BY <1>11, <1>14, <2>1, <2>2 DEF SpaceAgain
<1> QED BY <1>10, <1>12, <1>13, <1>14

\* A wait times out or is interrupted.
LEMMA GiveUpStep ==
    ASSUME IndInv, NEW t \in Threads, NEW status \in {"B_TIMED_OUT", "B_INTERRUPTED"},
           GiveUp(t, status)
    PROVE  IndInv'
<1>1. TypeOK /\ QueuesAreSound /\ CallsAreSound
  BY DEF IndInv
<1>2. PICK c \in ConditionVariables : \E i \in DOMAIN conditions[c] :
         /\ conditions[c][i] = t
         /\ conditions' = [conditions EXCEPT ![c] = RemoveAt(conditions[c], i)]
  BY <1>1, WaitingOn DEF GiveUp
<1>3. PICK i \in DOMAIN conditions[c] :
         /\ conditions[c][i] = t
         /\ conditions' = [conditions EXCEPT ![c] = RemoveAt(conditions[c], i)]
  BY <1>2
<1>4. /\ result' = [result EXCEPT ![t] = status]
      /\ UNCHANGED <<portVars, queueVars, selectVars, spaceVars, pc, call, overbooked>>
  BY DEF GiveUp
<1> DEFINE conds == [conditions EXCEPT ![c] = RemoveAt(conditions[c], i)]
<1>5. conditions[c] \in Seq(Threads) /\ IsInjective(conditions[c])
  BY <1>1, WaitingOn DEF QueuesAreSound, ConditionVariables
<1>6. /\ RemoveAt(conditions[c], i) \in Seq(Threads) /\ IsInjective(RemoveAt(conditions[c], i))
      /\ ToSet(RemoveAt(conditions[c], i)) = On(c) \ {t}
  BY <1>3, <1>5, RemoveAtFacts DEF On
<1>7. /\ conds \in [{"read", "write", "space"} -> Seq(Threads)]
      /\ ToSet(conds[c]) = On(c) \ {t}
      /\ IsInjective(conds[c])
      /\ \A d \in ConditionVariables \ {c} : conds[d] = conditions[d]
  BY <1>1, <1>6 DEF TypeOK, ConditionVariables
<1>8. conditions' = conds
  BY <1>3
<1> HIDE DEF conds
<1>9. t \in On(c)
  BY <1>3 DEF On, ToSet
<1>10. Shrinks(conds)
  BY <1>1, <1>7 DEF Shrinks, QueuesAreSound, ConditionVariables, On
<1>11. /\ pc[t] \in {"wait", "space", "space_wait"}
       /\ c = "read" => t \in Readers /\ t \notin Writers
       /\ c = "write" => t \in Writers /\ pc[t] = "wait" /\ t \notin Readers
       /\ c = "space" => t \in Writers /\ pc[t] # "wait" /\ t \notin Readers
       /\ result[t] = "B_OK"
  BY <1>1, <1>9, PortAssumption DEF QueuesAreSound, ConditionVariables
<1>12. \A d \in ConditionVariables : t \notin ToSet(conds[d])
  BY <1>1, <1>7, <1>11 DEF QueuesAreSound, ConditionVariables, On
<1>13. Move(t, pc[t], status) /\ call' = [call EXCEPT ![t] = call[t]]
  BY <1>1, <1>4 DEF Move, TypeOK
<1>14. Allowed(t, pc[t], status, call[t]) /\ state # "kUnused"
  BY <1>1, <1>11, InCallFacts DEF Allowed, CallsAreSound, TypeOK, Pcs, Outcomes
<1>15. /\ pc' \in [Threads -> Pcs] /\ result' \in [Threads -> Outcomes]
       /\ call' \in [Threads -> Calls]
       /\ LifeIsSound' /\ CallsAreSound' /\ QueuesAreSound' /\ ClosedEndsWaits'
  BY <1>4, <1>8, <1>10, <1>12, <1>13, <1>14, StepIsSound DEF selectVars
<1>16. InLine' = InLine /\ Copying' = Copying /\ Counted' = Counted
  BY <1>4 DEF InLine, Copying, Counted
<1>17. SpaceIsExact'
  BY <1>4, <1>16 DEF IndInv, SpaceIsExact, Copying, Counted, spaceVars, queueVars
<1>18. TypeOK' /\ (InUse' <=> InUse)
  <2>1. /\ messages' \in Nat /\ read_count' = messages' /\ write_count' \in Int
        /\ told' \in [Infos -> SUBSET Events] /\ overbooked' \in BOOLEAN
        /\ sTotalSpaceCommited' <= SpaceLimit /\ UNCHANGED <<portVars, select_infos>>
    BY <1>1, <1>4, PortAssumption
       DEF TypeOK, IndInv, CountsAreExact, queueVars, spaceVars, selectVars
  <2> QED BY <1>1, <1>8, <1>10, <1>15, <1>17, <2>1, StepTypes
<1>19. CountsAreExact'
  BY <1>4, <1>16, <1>18 DEF IndInv, CountsAreExact, portVars, queueVars
<1>20. SlotsArePromised' /\ PromisesAreKept'
  <2>1. /\ Cardinality(On("write")) \in Nat /\ Cardinality(On("write")') \in Nat
        /\ On("write") \in SUBSET Threads
    BY <1>1, <1>8, <1>10, WaitingCounts, WaitingOn DEF ConditionVariables
  <2>2. CASE c = "write"
    <3>1. On("write")' = On("write") \ {t}
      BY <1>7, <1>8, <2>2 DEF On
    <3>2. Cardinality(On("write")') = Cardinality(On("write")) - 1
      BY <1>9, <2>1, <2>2, <3>1, CountThreads
    <3>3. Cardinality(Lost) \in Nat /\ Cardinality(Lost') = Cardinality(Lost) + 1
      <4>1. t \notin Lost
        BY <1>11 DEF Lost
      <4> QED BY <1>1, <1>11, <1>13, <2>2, <4>1, MoveCounts DEF One
    <3>4. write_count \in Int /\ write_count' = write_count /\ overbooked' = overbooked
      BY <1>1, <1>4 DEF TypeOK, queueVars
    <3>5. SlotsArePromised'
      BY <1>18, <2>1, <3>1, <3>2, <3>4 DEF IndInv, SlotsArePromised
    <3>6. PromisesAreKept'
      BY <1>18, <2>1, <3>2, <3>3, <3>4 DEF IndInv, PromisesAreKept
    <3> QED BY <3>5, <3>6
  <2>3. CASE c # "write"
    <3>1. On("write")' = On("write")
      BY <1>7, <1>8, <2>3 DEF On, ConditionVariables
    <3>2. t \notin Lost /\ ~(t \in Writers /\ pc[t] \in {"wait", "relock"} /\ status # "B_OK")
      BY <1>2, <1>11, <2>3 DEF Lost, ConditionVariables
    <3>3. Cardinality(Lost') = Cardinality(Lost)
      BY <1>1, <1>13, <3>2, MoveCounts DEF One
    <3> QED BY <1>4, <1>18, <3>1, <3>3 DEF IndInv, SlotsArePromised, PromisesAreKept, queueVars
  <2> QED BY <2>2, <2>3
<1>21. MessagesArePromised'
  <2>1. /\ On("read")' \subseteq On("read") /\ On("read") \ {t} \subseteq On("read")'
        /\ t \in Readers => t \in On("read")
    BY <1>2, <1>7, <1>8, <1>11, <1>9 DEF On, ConditionVariables
  <2>2. /\ \A u \in Readers \ {t} : pc'[u] = pc[u] /\ result'[u] = result[u]
        /\ t \in Readers => result'[t] = status
    BY <1>1, <1>4 DEF TypeOK, Threads
  <2>3. t \notin Summoned /\ t \notin Summoned'
    BY <2>1, <2>2 DEF Summoned
  <2>4. \A u \in Readers \ {t} : u \in Summoned <=> u \in Summoned'
    BY <2>1, <2>2 DEF Summoned
  <2>5. Summoned' = Summoned
    BY <2>3, <2>4 DEF Summoned
  <2> QED BY <1>4, <1>18, <2>1, <2>5 DEF IndInv, MessagesArePromised, queueVars
<1>22. SelectIsTold'
  BY <1>4, <1>18 DEF IndInv, SelectIsTold, queueVars, selectVars
<1> QED BY <1>15, <1>17, <1>18, <1>19, <1>20, <1>21, <1>22 DEF IndInv

-------------------------------------------------------------------------------
(* The life of the port. *)

\* A port that is not in use has no slots to promise.
LEMMA OutOfUse ==
    ASSUME IndInv, ~InUse', TypeOK', LifeIsSound', CallsAreSound', QueuesAreSound',
           ClosedEndsWaits',
           UNCHANGED <<queueVars, spaceVars, pc>>,
           \A i \in select_infos' : i \in select_infos /\ told'[i] = told[i]
    PROVE  IndInv'
<1>1. CountsAreExact'
  BY DEF IndInv, CountsAreExact, queueVars
<1>2. SpaceIsExact'
  BY DEF IndInv, SpaceIsExact, spaceVars, queueVars
<1>3. SlotsArePromised' /\ PromisesAreKept' /\ MessagesArePromised'
  BY DEF SlotsArePromised, PromisesAreKept, MessagesArePromised
<1>4. SelectIsTold'
  BY DEF IndInv, SelectIsTold, queueVars
<1> QED BY <1>1, <1>2, <1>3, <1>4 DEF IndInv

\* Everybody is sent home.
LEMMA EndWaitsFacts ==
    ASSUME IndInv, EndWaits, UNCHANGED <<pc, call>>
    PROVE  /\ conditions' \in [{"read", "write", "space"} -> Seq(Threads)]
           /\ conditions'["read"] = <<>> /\ conditions'["write"] = <<>>
           /\ result' \in [Threads -> Outcomes] /\ told' \in [Infos -> SUBSET Events]
           /\ select_infos' = {}
           /\ CallsAreSound' /\ QueuesAreSound'
<1> USE DEF IndInv
<1> DEFINE waiting == On("read") \cup On("write")
<1>1. /\ conditions' = [conditions EXCEPT !["read"] = <<>>, !["write"] = <<>>]
      /\ result' = [t \in Threads |-> IF t \in waiting THEN "B_BAD_PORT_ID" ELSE result[t]]
      /\ notify_port_select_events("INVALID") /\ select_infos' = {}
  BY DEF EndWaits, On
<1>2. <<>> \in Seq(Threads) /\ IsInjective(<<>>) /\ ToSet(<<>>) = {}
  BY EmptyQueue
<1>3. /\ conditions' \in [{"read", "write", "space"} -> Seq(Threads)]
      /\ conditions'["read"] = <<>> /\ conditions'["write"] = <<>>
      /\ conditions'["space"] = conditions["space"]
  BY <1>1, <1>2 DEF TypeOK
<1>4. result' \in [Threads -> Outcomes] /\ told' \in [Infos -> SUBSET Events]
  BY <1>1, TellFacts DEF TypeOK, Outcomes, Events
<1>5. \A t \in Threads : pc[t] # "wait" => result'[t] = result[t]
  BY <1>1 DEF QueuesAreSound
<1>6. CallsAreSound'
  BY <1>5 DEF CallsAreSound
<1>7. QueuesAreSound'
  <2>1. On("read")' = {} /\ On("write")' = {} /\ On("space")' = On("space")
    BY <1>2, <1>3 DEF On
  <2>2. \A c \in {"read", "write", "space"} : IsInjective(conditions'[c])
    BY <1>2, <1>3 DEF QueuesAreSound
  <2>3. \A t \in On("space") :
           t \in Writers /\ pc'[t] \in {"space", "space_wait"} /\ result'[t] = "B_OK"
    BY <1>5 DEF QueuesAreSound, Threads
  <2> QED BY <2>1, <2>2, <2>3 DEF QueuesAreSound
<1> QED BY <1>1, <1>3, <1>4, <1>6, <1>7

LEMMA PortLifeStep ==
    ASSUME IndInv, PortLife
    PROVE  IndInv'
<1>1. TypeOK
  BY DEF IndInv
<1>2. ASSUME CreateInsert \/ delete_port_logical \/ DeleteRemove
      PROVE  IndInv'
  <2>1. /\ UNCHANGED <<uninit, capacity, queueVars, conditions, selectVars, spaceVars, pc, call,
                       result, overbooked>>
        /\ state' # "kActive" /\ state' \in {"kUnused", "kDeleted"} /\ hashed' \in BOOLEAN
        /\ state' = "kUnused" => state = "kUnused"
    BY <1>1, <1>2 DEF CreateInsert, delete_port_logical, DeleteRemove, TypeOK
  <2>2. TypeOK'
    BY <1>1, <2>1 DEF TypeOK, queueVars, selectVars, spaceVars
  <2>3. LifeIsSound'
    BY <2>1 DEF IndInv, LifeIsSound, queueVars, selectVars
  <2>4. CallsAreSound' /\ QueuesAreSound'
    BY <2>1 DEF IndInv, CallsAreSound, QueuesAreSound, On
  <2>5. ClosedEndsWaits'
    BY <2>1 DEF IndInv, ClosedEndsWaits, is_port_closed, selectVars
  <2>6. ~InUse'
    BY <2>1 DEF InUse
  <2> QED BY <2>1, <2>2, <2>3, <2>4, <2>5, <2>6, OutOfUse DEF selectVars
<1>3. CASE CreateActivate
  <2>1. /\ state = "kUnused" /\ hashed /\ state' = "kActive"
        /\ UNCHANGED <<hashed, uninit, capacity, queueVars, conditions, selectVars, spaceVars, pc,
                       call, result, overbooked>>
    BY <1>3 DEF CreateActivate
  <2>2. /\ capacity = QueueLength /\ write_count = QueueLength /\ messages = 0
        /\ select_infos = {} /\ \A t \in Threads : pc[t] = "idle"
    BY <2>1 DEF IndInv, LifeIsSound
  <2>3. TypeOK'
    BY <1>1, <2>1 DEF TypeOK, queueVars, selectVars, spaceVars
  <2>4. LifeIsSound' /\ CallsAreSound' /\ QueuesAreSound' /\ ClosedEndsWaits' /\ SpaceIsExact'
    BY <2>1 DEF IndInv, LifeIsSound, CallsAreSound, QueuesAreSound, On, ClosedEndsWaits,
                is_port_closed, SpaceIsExact, selectVars, spaceVars, queueVars
  <2>5. On("write")' = {} /\ On("read")' = {} /\ InLine' = {}
    BY <2>1, <2>2 DEF IndInv, QueuesAreSound, On, InLine, Threads
  <2>6. Lost' \in SUBSET Threads /\ InLine' \in SUBSET Threads /\ On("write")' \in SUBSET Threads
    BY <2>5 DEF Lost, Threads
  <2>7. /\ Cardinality(InLine') = 0 /\ Cardinality(On("write")') = 0
        /\ Cardinality(Lost') \in Nat
    BY <2>5, <2>6, CountThreads
  <2>8. CountsAreExact'
    BY <2>1, <2>2, <2>7, PortAssumption DEF IndInv, CountsAreExact, queueVars
  <2>9. SlotsArePromised' /\ MessagesArePromised'
    BY <2>5 DEF SlotsArePromised, MessagesArePromised
  <2>10. PromisesAreKept'
    BY <2>1, <2>2, <2>7, PortAssumption DEF PromisesAreKept, queueVars
  <2>11. SelectIsTold'
    BY <2>1, <2>2 DEF SelectIsTold, selectVars
  <2> QED BY <2>3, <2>4, <2>8, <2>9, <2>10, <2>11 DEF IndInv
<1>4. CASE close_port
  <2>1. /\ state = "kActive" /\ capacity' = 0 /\ EndWaits
        /\ UNCHANGED <<state, hashed, uninit, queueVars, spaceVars, pc, call, overbooked>>
    BY <1>4 DEF close_port, get_locked_port
  <2>2. TypeOK' /\ LifeIsSound' /\ CallsAreSound' /\ QueuesAreSound' /\ select_infos' = {}
    BY <1>1, <2>1, EndWaitsFacts DEF IndInv, TypeOK, LifeIsSound, queueVars, spaceVars, Outcomes
  <2>3. ClosedEndsWaits' /\ ~InUse'
    BY <2>1, EndWaitsFacts DEF ClosedEndsWaits, InUse, is_port_closed
  <2> QED BY <2>1, <2>2, <2>3, OutOfUse
<1>5. CASE uninit_port
  <2>1. /\ state = "kDeleted" /\ uninit' = TRUE /\ EndWaits
        /\ UNCHANGED <<state, hashed, capacity, queueVars, spaceVars, pc, call, overbooked>>
    BY <1>5 DEF uninit_port
  <2>2. TypeOK' /\ LifeIsSound' /\ CallsAreSound' /\ QueuesAreSound' /\ select_infos' = {}
    BY <1>1, <2>1, EndWaitsFacts DEF IndInv, TypeOK, LifeIsSound, queueVars, spaceVars, Outcomes
  <2>3. ClosedEndsWaits' /\ ~InUse'
    BY <2>1, EndWaitsFacts DEF ClosedEndsWaits, InUse
  <2> QED BY <2>1, <2>2, <2>3, OutOfUse
<1> QED BY <1>2, <1>3, <1>4, <1>5 DEF PortLife

\* select() and its end.
LEMMA SelectStep ==
    ASSUME IndInv, NEW i \in Infos, select_port(i) \/ deselect_port(i)
    PROVE  IndInv'
<1>1. TypeOK
  BY DEF IndInv
<1>2. /\ UNCHANGED <<portVars, queueVars, conditions, spaceVars, pc, call, result, overbooked>>
      /\ state = "kActive" /\ select_infos' \subseteq select_infos \cup {i}
      /\ is_port_closed => select_infos' \subseteq select_infos
  BY DEF select_port, deselect_port, get_locked_port
<1>3. TypeOK'
  <2>1. select_infos' \subseteq Infos
    BY <1>1, <1>2 DEF TypeOK
  <2>2. told' \in [Infos -> SUBSET Events]
    BY <1>1 DEF select_port, deselect_port, TypeOK, Events
  <2> QED BY <1>1, <1>2, <2>1, <2>2 DEF TypeOK, portVars, queueVars, spaceVars
<1>4. /\ CallsAreSound' /\ QueuesAreSound' /\ CountsAreExact' /\ SpaceIsExact'
  BY <1>2 DEF IndInv, CallsAreSound, QueuesAreSound, On, CountsAreExact, SpaceIsExact, InUse,
              is_port_closed, InLine, portVars, queueVars, spaceVars
<1>5. SlotsArePromised' /\ PromisesAreKept' /\ MessagesArePromised'
  BY <1>2 DEF IndInv, SlotsArePromised, PromisesAreKept, MessagesArePromised, On, InUse,
              is_port_closed, Lost, Summoned, portVars, queueVars
<1>6. LifeIsSound' /\ ClosedEndsWaits'
  BY <1>2 DEF IndInv, LifeIsSound, ClosedEndsWaits, is_port_closed, portVars
<1>7. SelectIsTold'
  <2>1. CASE select_port(i)
    BY <1>1, <1>2, <2>1 DEF select_port, IndInv, SelectIsTold, TypeOK, queueVars, InUse,
                            is_port_closed, portVars
  <2>2. CASE deselect_port(i)
    BY <1>1, <1>2, <2>2 DEF deselect_port, IndInv, SelectIsTold, TypeOK, queueVars, InUse,
                            is_port_closed, portVars
  <2> QED BY <2>1, <2>2
<1> QED BY <1>3, <1>4, <1>5, <1>6, <1>7 DEF IndInv

-------------------------------------------------------------------------------
\* The initial state satisfies the inductive invariant.
LEMMA IndInvInit == Init => IndInv
<1> SUFFICES ASSUME Init PROVE IndInv
  OBVIOUS
<1>1. <<>> \in Seq(Threads) /\ IsInjective(<<>>) /\ ToSet(<<>>) = {}
  BY EmptyQueue
<1>2. Copying = {} /\ Counted = {} /\ \A c \in ConditionVariables : On(c) = {}
  BY <1>1 DEF Init, Copying, Counted, On, Threads, ConditionVariables
<1>3. Cardinality(Copying) = 0 /\ Cardinality(Counted) = 0 /\ Cardinality(Writers) \in Nat
  BY <1>2, FS_EmptySet, FS_CardinalityType, PortAssumption
<1>4. TypeOK
  <2>1. conditions \in [{"read", "write", "space"} -> Seq(Threads)]
    BY <1>1 DEF Init
  <2>2. /\ state \in {"kUnused", "kActive", "kDeleted"} /\ hashed \in BOOLEAN /\ uninit \in BOOLEAN
        /\ overbooked \in BOOLEAN
    BY DEF Init
  <2>3. /\ capacity \in {0, QueueLength} /\ read_count \in Nat /\ write_count \in Int
        /\ messages \in Nat /\ sTotalSpaceCommited \in 0..SpaceLimit
        /\ sWaitingForSpace \in 0..Cardinality(Writers)
    BY <1>3, PortAssumption DEF Init
  <2>4. select_infos \subseteq Infos /\ told \in [Infos -> SUBSET Events]
    BY DEF Init
  <2>5. pc \in [Threads -> Pcs] /\ call \in [Threads -> Calls] /\ result \in [Threads -> Outcomes]
    BY DEF Init, Pcs, Calls, Outcomes
  <2> QED BY <2>1, <2>2, <2>3, <2>4, <2>5 DEF TypeOK, Pcs, Outcomes
<1>5. LifeIsSound
  BY DEF Init, LifeIsSound
<1>6. CallsAreSound
  BY PortAssumption DEF Init, CallsAreSound, Reading, InSpaceWait
<1>7. QueuesAreSound
  BY <1>1, <1>2 DEF Init, QueuesAreSound, ConditionVariables
<1>8. SpaceIsExact
  BY <1>3 DEF Init, SpaceIsExact, Copying, Counted
<1>9. /\ CountsAreExact /\ SlotsArePromised /\ PromisesAreKept /\ MessagesArePromised
      /\ ClosedEndsWaits /\ SelectIsTold
  BY PortAssumption
     DEF Init, InUse, CountsAreExact, SlotsArePromised, PromisesAreKept, MessagesArePromised,
         ClosedEndsWaits, SelectIsTold, is_port_closed
<1> QED BY <1>4, <1>5, <1>6, <1>7, <1>8, <1>9 DEF IndInv

\* The inductive invariant looks at the variables only.
LEMMA IndInvStutter == ASSUME IndInv, UNCHANGED vars PROVE IndInv'
BY DEF IndInv, vars, portVars, queueVars, selectVars, spaceVars, TypeOK, LifeIsSound,
       CallsAreSound, QueuesAreSound, On, CountsAreExact, SpaceIsExact, SlotsArePromised,
       PromisesAreKept, MessagesArePromised, ClosedEndsWaits, SelectIsTold, InUse, is_port_closed,
       InLine, Lost, Summoned

\* Every step preserves it.
LEMMA IndInvNext == IndInv /\ [Next]_vars => IndInv'
<1> SUFFICES ASSUME IndInv, [Next]_vars PROVE IndInv'
  OBVIOUS
<1>1. ASSUME NEW t \in Threads, NEW what \in Calls, Begin(t, what) PROVE IndInv'
  BY <1>1, BeginStep
<1>2. ASSUME NEW t \in Threads, Read(t) PROVE IndInv'
  BY <1>2, ReadFailStep, ReadWaitStep, ReadLookStep, ReadTakeStep, PutFreeStep, PutNotifyStep
     DEF Read
<1>3. ASSUME NEW t \in Threads, Write(t) PROVE IndInv'
  BY <1>3, WriteRefusedStep, WriteWaitStep, WriteStep, SpaceWaitStep, SpaceLookupStep DEF Write
<1>4. ASSUME NEW t \in Threads, BeginNot(t) \/ InCall(t) PROVE IndInv'
  BY <1>2, <1>3, <1>4, WokenStep, IndInvStutter DEF BeginNot, InCall
<1>5. ASSUME NEW t \in Threads, NEW status \in {"B_TIMED_OUT", "B_INTERRUPTED"},
             GiveUp(t, status)
      PROVE  IndInv'
  BY <1>5, GiveUpStep
<1>6. ASSUME NEW i \in Infos, select_port(i) \/ deselect_port(i) PROVE IndInv'
  BY <1>6, SelectStep
<1>7. CASE UNCHANGED vars
  BY <1>7, IndInvStutter
<1> QED BY <1>1, <1>4, <1>5, <1>6, <1>7, PortLifeStep DEF Next

THEOREM Invariance == Spec => []IndInv
BY IndInvInit, IndInvNext, PTL DEF Spec

-------------------------------------------------------------------------------
\* Sets without a thread in common.
LEMMA CountDisjoint ==
    ASSUME NEW S \in SUBSET Threads, NEW T \in SUBSET Threads, S \cap T = {}
    PROVE  Cardinality(S \cup T) = Cardinality(S) + Cardinality(T)
<1>1. /\ IsFiniteSet(S) /\ Cardinality(S) \in Nat
      /\ IsFiniteSet(T) /\ Cardinality(T) \in Nat
  BY CountThreads
<1>2. Cardinality(S \cup T) = Cardinality(S) + Cardinality(T) - Cardinality(S \cap T)
  BY <1>1, FS_Union
<1>3. Cardinality(S \cap T) = 0
  BY FS_EmptySet
<1> QED BY <1>1, <1>2, <1>3

\* The writers in line have a slot, wait for one, or have lost it.
LEMMA LineFacts ==
    ASSUME IndInv
    PROVE  /\ Losers = Lost /\ Called = Summoned
           /\ Cardinality(Holders) \in Nat /\ Cardinality(Lost) \in Nat
           /\ Cardinality(On("write")) \in Nat
           /\ Cardinality(InLine)
                = Cardinality(Holders) + Cardinality(Lost) + Cardinality(On("write"))
<1> USE DEF IndInv
<1>1. \A t : IsWaiting(t) <=> t \in On("read") \cup On("write") \cup On("space")
  BY WaitingOn DEF ConditionVariables
<1>2. Called = Summoned
  BY <1>1, PortAssumption DEF Called, Summoned, QueuesAreSound
<1>3. \A t \in InLine : pc[t] \in InSpaceWait \cup {"wait", "relock"} /\ t \in Threads
  BY DEF InLine, CallsAreSound, TypeOK, Threads, InSpaceWait
<1>4. \A t \in InLine : pc[t] \notin InSpaceWait => (IsWaiting(t) <=> t \in On("write"))
  BY <1>1, PortAssumption DEF QueuesAreSound, InLine, InSpaceWait
<1>5. On("write") \subseteq InLine
  BY DEF QueuesAreSound, InLine
<1>6. Losers = Lost
  <2>1. ASSUME NEW t \in Losers PROVE t \in Lost
    <3>1. t \in InLine /\ t \notin Holders /\ t \notin On("write")
      BY <2>1 DEF Losers, On
    <3> QED BY <1>3, <1>4, <3>1 DEF Holders, Lost, InLine
  <2>2. ASSUME NEW t \in Lost PROVE t \in Losers
    <3>1. t \in InLine /\ t \notin On("write")
      BY <2>2 DEF Lost, InLine, QueuesAreSound
    <3>2. t \notin Holders
      BY <2>2 DEF Lost, Holders, InSpaceWait
    <3> QED BY <3>1, <3>2 DEF Losers, On
  <2> QED BY <2>1, <2>2
<1>7. Holders \cap Lost = {} /\ (Holders \cup Lost) \cap On("write") = {}
  BY <1>1 DEF Holders, Lost, QueuesAreSound, InSpaceWait
<1>8. InLine = Holders \cup Lost \cup On("write")
  BY <1>5, <1>6 DEF Losers, Holders, On
<1>9. /\ Holders \in SUBSET Threads /\ Lost \in SUBSET Threads /\ On("write") \in SUBSET Threads
      /\ Holders \cup Lost \in SUBSET Threads
  BY <1>3, <1>8
<1>10. /\ Cardinality(Holders) \in Nat /\ Cardinality(Lost) \in Nat
       /\ Cardinality(On("write")) \in Nat
  BY <1>9, CountThreads
<1>11. Cardinality(Holders \cup Lost) = Cardinality(Holders) + Cardinality(Lost)
  BY <1>7, <1>9, CountDisjoint
<1>12. Cardinality((Holders \cup Lost) \cup On("write"))
          = Cardinality(Holders \cup Lost) + Cardinality(On("write"))
  BY <1>7, <1>9, CountDisjoint
<1> QED BY <1>2, <1>6, <1>8, <1>10, <1>11, <1>12

\* Slots and space are accounted for on every way out of read_port_etc() and
\* writev_port_etc(), and unless a writer that has given up waiting wakes another
\* one, the queue keeps to its length.
THEOREM ConsistentAlways == Spec => []Consistent
<1>1. IndInv => Consistent
  <2> SUFFICES ASSUME IndInv PROVE Consistent
    OBVIOUS
  <2>1. ASSUME InUse, ~overbooked PROVE messages + Cardinality(Holders) <= capacity
    <3>1. /\ write_count = capacity - messages - Cardinality(InLine)
          /\ write_count + Cardinality(On("write")) + Cardinality(Lost) >= 0
      BY <2>1 DEF IndInv, CountsAreExact, PromisesAreKept
    <3>2. capacity \in Nat /\ messages \in Nat /\ write_count \in Int
      BY PortAssumption DEF IndInv, TypeOK
    <3> QED BY <3>1, <3>2, LineFacts
  <2> QED BY <2>1 DEF IndInv, Consistent, QueueIsBounded
<1> QED BY <1>1, Invariance, PTL

\* Nobody waits for a message that has no reader on its way, or for a slot that is
\* neither taken nor about to be passed on.
THEOREM NoWakeupIsLost == Spec => []NobodyIsStranded
<1>1. IndInv => NobodyIsStranded
  <2> SUFFICES ASSUME IndInv PROVE NobodyIsStranded
    OBVIOUS
  <2>1. \A c \in ConditionVariables : conditions[c] # <<>> <=> On(c) # {}
    BY WaitingOn DEF IndInv
  <2>2. NoStrandedReader
    BY <2>1, LineFacts
       DEF NoStrandedReader, IndInv, MessagesArePromised, CountsAreExact, ConditionVariables
  <2>3. ASSUME InUse, On("write") # {}
        PROVE  messages + Cardinality(Holders) + Cardinality(Losers) >= capacity
    <3>1. /\ write_count = capacity - messages - Cardinality(InLine)
          /\ write_count + Cardinality(On("write")) <= 0
      BY <2>3 DEF IndInv, CountsAreExact, SlotsArePromised
    <3>2. capacity \in Nat /\ messages \in Nat /\ write_count \in Int
      BY PortAssumption DEF IndInv, TypeOK
    <3> QED BY <3>1, <3>2, LineFacts
  <2>4. NoStrandedWriter
    BY <2>1, <2>3 DEF NoStrandedWriter, ConditionVariables
  <2> QED BY <2>2, <2>4 DEF NobodyIsStranded
<1> QED BY <1>1, Invariance, PTL

\* The steps that change neither the port nor its queue of messages nor who waits.
LEMMA QuietCloses ==
    ASSUME IndInv, is_port_closed, UNCHANGED <<capacity, messages, conditions>>
    PROVE  is_port_closed' /\ messages' <= messages /\ Shrinks(conditions')
BY Unchanged DEF IndInv, TypeOK, is_port_closed

\* What is written, and who waits, is guarded by a look at capacity.
LEMMA ClosedCall ==
    ASSUME IndInv, is_port_closed, NEW t \in Threads, InCall(t)
    PROVE  is_port_closed' /\ messages' <= messages /\ Shrinks(conditions')
<1> USE DEF IndInv
<1>1. CASE ReturnOnly(t)
  BY <1>1, QuietCloses DEF ReturnOnly, portVars, queueVars
<1>2. CASE Woken(t)
  BY <1>1, <1>2, QuietCloses DEF Woken, portVars, queueVars
<1>3. CASE ReadFail(t) \/ ReadWouldBlock(t) \/ WriteClosed(t) \/ WriteWouldBlock(t)
  BY <1>1, <1>3 DEF ReadFail, ReadWouldBlock, WriteClosed, WriteWouldBlock
<1>4. CASE ReadWait(t)
  <2>1. read_count = 0 /\ messages # 0
    BY <1>4 DEF ReadWait, MayRead
  <2> QED BY <2>1 DEF CountsAreExact
<1>5. CASE ReadLook(t)
  <2>1. UNCHANGED <<capacity, messages>> /\ conditions' = AfterNotifyOne("read")
    BY <1>5 DEF ReadLook, NotifyOne, portVars, queueVars
  <2>2. Shrinks(AfterNotifyOne("read"))
    BY NotifyFacts DEF ConditionVariables
  <2> QED BY <2>1, <2>2 DEF TypeOK, is_port_closed
<1>6. CASE ReadTake(t)
  <2>1. /\ UNCHANGED capacity
        /\ messages' = messages - 1
        /\ conditions' = AfterNotifyOne("write")
    BY <1>6 DEF ReadTake, NotifyOne, portVars
  <2>2. Shrinks(AfterNotifyOne("write"))
    BY NotifyFacts DEF ConditionVariables
  <2> QED BY <2>1, <2>2 DEF TypeOK, is_port_closed
<1>7. CASE PutFree(t) \/ SpaceCount(t) \/ SpaceWoken(t)
  BY <1>7, QuietCloses DEF PutFree, SpaceCount, SpaceWoken, portVars, queueVars
<1>8. CASE PutNotify(t)
  <2>1. UNCHANGED <<capacity, messages>> /\ conditions' = NotifySpace(conditions)
    BY <1>8 DEF PutNotify, portVars, queueVars
  <2>2. Shrinks(NotifySpace(conditions))
    BY Unchanged, SpaceFacts
  <2> QED BY <2>1, <2>2 DEF TypeOK, is_port_closed
<1>9. CASE SpaceLookup(t)
  BY <1>1, <1>9, QuietCloses DEF SpaceLookup, portVars, queueVars
<1>10. ~(WriteWait(t) \/ WriteNow(t) \/ WriteSlot(t) \/ WriteFail(t) \/ SpaceAgain(t))
  BY DEF WriteWait, WriteNow, WriteSlot, WriteFail, SpaceAgain
<1> QED BY <1>2, <1>3, <1>4, <1>5, <1>6, <1>7, <1>8, <1>9, <1>10 DEF InCall, Read, Write

\* A wait that is given up leaves its queue.
LEMMA ClosedGiveUp ==
    ASSUME IndInv, is_port_closed, NEW t \in Threads, NEW status, GiveUp(t, status)
    PROVE  is_port_closed' /\ messages' <= messages /\ Shrinks(conditions')
<1> USE DEF IndInv
<1>1. UNCHANGED <<capacity, messages>>
  BY DEF GiveUp, portVars, queueVars
<1>2. PICK c \in DOMAIN conditions : \E i \in DOMAIN conditions[c] :
         conditions' = [conditions EXCEPT ![c] = RemoveAt(conditions[c], i)]
  BY DEF GiveUp
<1>3. PICK i \in DOMAIN conditions[c] :
         conditions' = [conditions EXCEPT ![c] = RemoveAt(conditions[c], i)]
  BY <1>2
<1>4. c \in ConditionVariables /\ conditions[c] \in Seq(Threads) /\ IsInjective(conditions[c])
  BY WaitingOn DEF QueuesAreSound, ConditionVariables
<1>5. /\ RemoveAt(conditions[c], i) \in Seq(Threads)
      /\ ToSet(RemoveAt(conditions[c], i)) \subseteq On(c)
      /\ IsInjective(RemoveAt(conditions[c], i))
  BY <1>4, RemoveAtFacts DEF On
<1>6. /\ conditions'[c] = RemoveAt(conditions[c], i)
      /\ \A d \in ConditionVariables \ {c} : conditions'[d] = conditions[d]
      /\ conditions' \in [{"read", "write", "space"} -> Seq(Threads)]
  BY <1>3, <1>4, <1>5 DEF TypeOK, ConditionVariables
<1>7. Shrinks(conditions')
  BY <1>5, <1>6 DEF Shrinks, QueuesAreSound, On, ConditionVariables
<1> QED BY <1>1, <1>7 DEF TypeOK, is_port_closed

\* close_port(), once more, and delete_port() wake those that wait.
LEMMA ClosedLife ==
    ASSUME IndInv, is_port_closed, PortLife
    PROVE  is_port_closed' /\ messages' <= messages /\ Shrinks(conditions')
<1> USE DEF IndInv
<1>1. CASE CreateInsert \/ CreateActivate \/ delete_port_logical \/ DeleteRemove
  BY <1>1, QuietCloses
  DEF CreateInsert, CreateActivate, delete_port_logical, DeleteRemove, queueVars
<1>2. CASE close_port \/ uninit_port
  <2>1. /\ capacity' = 0 /\ UNCHANGED messages
        /\ conditions' = [conditions EXCEPT !["read"] = <<>>, !["write"] = <<>>]
    BY <1>2 DEF close_port, uninit_port, EndWaits, queueVars, is_port_closed
  <2>2. <<>> \in Seq(Threads) /\ ToSet(<<>>) = {} /\ IsInjective(<<>>)
    BY EmptyQueue
  <2>3. /\ conditions' \in [{"read", "write", "space"} -> Seq(Threads)]
        /\ conditions'["read"] = <<>> /\ conditions'["write"] = <<>>
        /\ conditions'["space"] = conditions["space"]
    BY <2>1, <2>2 DEF TypeOK
  <2>4. Shrinks(conditions')
    BY <2>2, <2>3 DEF Shrinks, QueuesAreSound, On, ConditionVariables
  <2> QED BY <2>1, <2>4 DEF TypeOK, is_port_closed
<1> QED BY <1>1, <1>2 DEF PortLife

LEMMA ClosedStep ==
    ASSUME IndInv, is_port_closed, Next
    PROVE  is_port_closed' /\ messages' <= messages /\ Shrinks(conditions')
<1>1. ASSUME NEW t \in Threads, NEW what \in Calls, Begin(t, what)
      PROVE  UNCHANGED <<capacity, messages, conditions>>
  BY <1>1 DEF Begin, portVars, queueVars
<1>2. ASSUME NEW t \in Threads, BeginNot(t) PROVE UNCHANGED <<capacity, messages, conditions>>
  BY <1>2 DEF BeginNot, vars, portVars, queueVars
<1>3. ASSUME NEW i \in Infos, select_port(i) \/ deselect_port(i)
      PROVE  UNCHANGED <<capacity, messages, conditions>>
  BY <1>3 DEF select_port, deselect_port, portVars, queueVars
<1> QED BY <1>1, <1>2, <1>3, QuietCloses, ClosedCall, ClosedGiveUp, ClosedLife DEF Next

\* close_port() leaves nobody waiting for a message, a slot or an event of select();
\* afterwards nobody begins to wait, for these or for space, and no message gets
\* in, also not from a writer that was waiting for space when the port was closed.
THEOREM ClosedPortIsOver == Spec => ClosedIsOver
<1>1. IndInv => ClosedEndsWaits
  BY DEF IndInv
<1>2. IndInv /\ IndInv' /\ [Next]_vars => [OnlyEmpties]_vars
  <2> SUFFICES ASSUME IndInv, IndInv', Next PROVE OnlyEmpties
    OBVIOUS
  <2> SUFFICES ASSUME is_port_closed
               PROVE  /\ is_port_closed' /\ messages' <= messages
                      /\ \A t \in Threads : IsWaiting(t)' => IsWaiting(t)
    BY DEF OnlyEmpties
  <2>1. is_port_closed' /\ messages' <= messages /\ Shrinks(conditions')
    BY ClosedStep
  <2>2. ASSUME NEW t \in Threads, IsWaiting(t)' PROVE IsWaiting(t)
    <3>1. conditions' \in [{"read", "write", "space"} -> Seq(Threads)]
      BY <2>1 DEF Shrinks
    <3>2. PICK c \in ConditionVariables : t \in ToSet(conditions'[c])
      BY <2>2, <3>1 DEF IsWaiting, ConditionVariables
    <3>3. t \in On(c)
      BY <2>1, <3>2 DEF Shrinks
    <3> QED BY <3>3, WaitingOn DEF IndInv
  <2> QED BY <2>1, <2>2
<1> QED BY <1>1, <1>2, Invariance, PTL DEF Spec, ClosedIsOver

\* select() learns of every message and every free slot.
THEOREM SelectLearns == Spec => []SelectIsTold
<1>1. IndInv => SelectIsTold
  BY DEF IndInv
<1> QED BY <1>1, Invariance, PTL
===============================================================================
