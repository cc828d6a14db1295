----------------------------- MODULE QueueLemmas ------------------------------
(***************************************************************************)
(* Facts about the FIFO queues of waiters that the proofs share: what the  *)
(* three changes the code makes to a queue (append at the tail, take the   *)
(* head, unlink in the middle) do to the set of queued threads, and that   *)
(* they keep a queue without duplicates free of duplicates; and how many   *)
(* threads are queued, for the counters that say so.                       *)
(***************************************************************************)
EXTENDS Integers, Sequences, SequencesExt, SequenceTheorems, FiniteSets, FiniteSetTheorems,
        WellFoundedInduction, TLAPS

\* Queueing a thread that is not queued yet adds it and nobody else.
LEMMA AppendFacts ==
    ASSUME NEW S, NEW q \in Seq(S), NEW e \in S,
           IsInjective(q), e \notin ToSet(q)
    PROVE  /\ Append(q, e) \in Seq(S)
           /\ ToSet(Append(q, e)) = ToSet(q) \cup {e}
           /\ IsInjective(Append(q, e))
<1>1. /\ Append(q, e) \in Seq(S)
      /\ Len(Append(q, e)) = Len(q) + 1
      /\ \A i \in 1..Len(q) : Append(q, e)[i] = q[i]
      /\ Append(q, e)[Len(q) + 1] = e
      /\ DOMAIN q = 1..Len(q)
      /\ DOMAIN Append(q, e) = 1..Len(q) + 1
      /\ Len(q) \in Nat
  OBVIOUS
<1>2. ToSet(Append(q, e)) = ToSet(q) \cup {e}
  BY <1>1 DEF ToSet
<1>3. IsInjective(Append(q, e))
  BY <1>1 DEF IsInjective, ToSet
<1> QED BY <1>1, <1>2, <1>3

\* Taking the head of a queue removes that thread and nobody else.
LEMMA TailFacts ==
    ASSUME NEW S, NEW q \in Seq(S), q # <<>>, IsInjective(q)
    PROVE  /\ Head(q) \in S
           /\ Head(q) \in ToSet(q)
           /\ Tail(q) \in Seq(S)
           /\ ToSet(Tail(q)) = ToSet(q) \ {Head(q)}
           /\ IsInjective(Tail(q))
<1>1. /\ Tail(q) \in Seq(S)
      /\ Len(q) \in Nat \ {0}
      /\ Head(q) = q[1]
      /\ DOMAIN q = 1..Len(q)
      /\ DOMAIN Tail(q) = 1..(Len(q) - 1)
      /\ \A i \in 1..(Len(q) - 1) : Tail(q)[i] = q[i + 1]
  OBVIOUS
<1>2. Head(q) \in S /\ Head(q) \in ToSet(q)
  BY <1>1 DEF ToSet
<1>3. IsInjective(Tail(q))
  BY <1>1 DEF IsInjective
<1>4. ASSUME NEW x \in ToSet(Tail(q)) PROVE x \in ToSet(q) \ {Head(q)}
  BY <1>1 DEF ToSet, IsInjective
<1>5. ASSUME NEW x \in ToSet(q) \ {Head(q)} PROVE x \in ToSet(Tail(q))
  <2>1. PICK i \in 1..Len(q) : x = q[i]
    BY <1>1 DEF ToSet
  <2>2. i - 1 \in 1..(Len(q) - 1) /\ Tail(q)[i - 1] = x
    BY <1>1, <1>5, <2>1
  <2> QED BY <1>1, <2>2 DEF ToSet
<1> QED BY <1>1, <1>2, <1>3, <1>4, <1>5

\* What is where in a queue without its i-th thread.
LEMMA RemoveAtItems ==
    ASSUME NEW S, NEW q \in Seq(S), NEW i \in DOMAIN q
    PROVE  LET r == RemoveAt(q, i)
           IN  /\ r \in Seq(S)
               /\ Len(r) = Len(q) - 1
               /\ DOMAIN r = 1..(Len(q) - 1)
               /\ \A j \in 1..(Len(q) - 1) : r[j] = IF j < i THEN q[j] ELSE q[j + 1]
<1> DEFINE before == SubSeq(q, 1, i - 1)
           after == SubSeq(q, i + 1, Len(q))
           r == RemoveAt(q, i)
<1>1. /\ Len(q) \in Nat
      /\ DOMAIN q = 1..Len(q)
      /\ i \in 1..Len(q)
      /\ \A j \in 1..Len(q) : q[j] \in S
  OBVIOUS
<1>2. /\ before \in Seq(S)
      /\ Len(before) = i - 1
      /\ \A j \in 1..(i - 1) : before[j] = q[j]
  <2>1. \A j \in 1..(i - 1) : q[j] \in S
    BY <1>1
  <2>2. /\ before \in Seq(S)
        /\ Len(before) = IF 1 <= i - 1 THEN (i - 1) - 1 + 1 ELSE 0
        /\ \A j \in 1..((i - 1) - 1 + 1) : before[j] = q[1 + j - 1]
    BY <1>1, <2>1, SubSeqProperties
  <2> HIDE DEF before
  <2> QED BY <1>1, <2>2
<1>3. /\ after \in Seq(S)
      /\ Len(after) = Len(q) - i
      /\ \A j \in 1..(Len(q) - i) : after[j] = q[i + j]
  <2>1. \A j \in (i + 1)..Len(q) : q[j] \in S
    BY <1>1
  <2>2. /\ after \in Seq(S)
        /\ Len(after) = IF i + 1 <= Len(q) THEN Len(q) - (i + 1) + 1 ELSE 0
        /\ \A j \in 1..(Len(q) - (i + 1) + 1) : after[j] = q[i + 1 + j - 1]
    BY <1>1, <2>1, SubSeqProperties
  <2> HIDE DEF after
  <2>3. Len(after) = Len(q) - i
    BY <1>1, <2>2
  <2>4. ASSUME NEW j \in 1..(Len(q) - i) PROVE after[j] = q[i + j]
    <3>1. j \in 1..(Len(q) - (i + 1) + 1) /\ i + 1 + j - 1 = i + j
      BY <1>1
    <3> QED BY <2>2, <3>1
  <2> QED BY <2>2, <2>3, <2>4
<1>4. /\ r \in Seq(S)
      /\ Len(r) = Len(q) - 1
      /\ DOMAIN r = 1..(Len(q) - 1)
      /\ \A j \in 1..(Len(q) - 1) : r[j] = IF j < i THEN q[j] ELSE q[j + 1]
  <2>1. r = before \o after
    BY DEF RemoveAt
  <2> HIDE DEF before, after, r
  <2>2. /\ r \in Seq(S)
        /\ Len(r) = Len(before) + Len(after)
        /\ \A j \in 1..(Len(before) + Len(after)) :
              r[j] = IF j <= Len(before) THEN before[j] ELSE after[j - Len(before)]
    BY <1>2, <1>3, <2>1, ConcatProperties
  <2>3. Len(before) + Len(after) = Len(q) - 1
    BY <1>1, <1>2, <1>3
  <2>4. ASSUME NEW j \in 1..(Len(q) - 1)
        PROVE  r[j] = IF j < i THEN q[j] ELSE q[j + 1]
    <3>1. CASE j < i
      BY <1>1, <1>2, <2>2, <2>3, <3>1
    <3>2. CASE j >= i
      <4>1. /\ j - Len(before) \in 1..(Len(q) - i)
            /\ i + (j - Len(before)) = j + 1
            /\ ~(j <= Len(before)) /\ ~(j < i)
        BY <1>1, <1>2, <3>2
      <4>2. r[j] = after[j - Len(before)]
        BY <2>2, <2>3, <4>1
      <4>3. after[j - Len(before)] = q[j + 1]
        BY <1>3, <4>1
      <4> QED BY <4>1, <4>2, <4>3
    <3> QED BY <1>1, <3>1, <3>2
  <2> QED BY <2>2, <2>3, <2>4
<1> QED BY <1>4

\* Unlinking the i-th thread of a queue removes that thread and nobody else.
LEMMA RemoveAtFacts ==
    ASSUME NEW S, NEW q \in Seq(S), NEW i \in DOMAIN q, IsInjective(q)
    PROVE  /\ RemoveAt(q, i) \in Seq(S)
           /\ ToSet(RemoveAt(q, i)) = ToSet(q) \ {q[i]}
           /\ IsInjective(RemoveAt(q, i))
<1> DEFINE r == RemoveAt(q, i)
<1>1. /\ Len(q) \in Nat
      /\ DOMAIN q = 1..Len(q)
      /\ i \in 1..Len(q)
      /\ \A j \in 1..Len(q) : q[j] \in S
  OBVIOUS
<1>4. /\ r \in Seq(S)
      /\ Len(r) = Len(q) - 1
      /\ DOMAIN r = 1..(Len(q) - 1)
      /\ \A j \in 1..(Len(q) - 1) : r[j] = IF j < i THEN q[j] ELSE q[j + 1]
  BY RemoveAtItems
<1> HIDE DEF r
<1>5. ASSUME NEW j \in 1..(Len(q) - 1), NEW k \in 1..(Len(q) - 1), r[j] = r[k]
      PROVE  j = k
  <2> DEFINE orig(n) == IF n < i THEN n ELSE n + 1
  <2>1. /\ orig(j) \in 1..Len(q) /\ r[j] = q[orig(j)]
        /\ orig(k) \in 1..Len(q) /\ r[k] = q[orig(k)]
    BY <1>1, <1>4
  <2>2. orig(j) = orig(k)
    BY <1>1, <1>5, <2>1 DEF IsInjective
  <2> QED BY <1>1, <2>2
<1>5a. IsInjective(r)
  BY <1>4, <1>5 DEF IsInjective
<1>6. ASSUME NEW x \in ToSet(r) PROVE x \in ToSet(q) \ {q[i]}
  <2>1. PICK j \in 1..(Len(q) - 1) : x = r[j]
    BY <1>4 DEF ToSet
  <2>2. PICK k \in 1..Len(q) : x = q[k] /\ k # i
    <3>1. CASE j < i
      BY <1>1, <1>4, <2>1, <3>1
    <3>2. CASE j >= i
      <4>1. j + 1 \in 1..Len(q) /\ j + 1 # i /\ x = q[j + 1]
        BY <1>1, <1>4, <2>1, <3>2
      <4> QED BY <4>1
    <3> QED BY <1>1, <3>1, <3>2
  <2> QED BY <1>1, <2>2 DEF ToSet, IsInjective
<1>7. ASSUME NEW x \in ToSet(q) \ {q[i]} PROVE x \in ToSet(r)
  <2>1. PICK j \in 1..Len(q) : x = q[j]
    BY <1>1 DEF ToSet
  <2>2. CASE j < i
    BY <1>1, <1>4, <2>1, <2>2 DEF ToSet
  <2>3. CASE j > i
    <3>1. j - 1 \in 1..(Len(q) - 1) /\ r[j - 1] = x
      BY <1>1, <1>4, <2>1, <2>3
    <3> QED BY <1>4, <3>1 DEF ToSet
  <2> QED BY <1>1, <1>7, <2>1, <2>2, <2>3
<1>8. ToSet(r) = ToSet(q) \ {q[i]}
  BY <1>6, <1>7
<1> QED BY <1>4, <1>5a, <1>8 DEF r

\* Unlinking somebody else leaves the head where it is.
LEMMA RemoveAtHead ==
    ASSUME NEW S, NEW q \in Seq(S), NEW i \in DOMAIN q, i # 1
    PROVE  RemoveAt(q, i) # <<>> /\ RemoveAt(q, i)[1] = q[1]
<1> DEFINE before == SubSeq(q, 1, i - 1)
           after == SubSeq(q, i + 1, Len(q))
<1>1. /\ Len(q) \in Nat
      /\ i \in 2..Len(q)
      /\ \A j \in 1..Len(q) : q[j] \in S
  OBVIOUS
<1>2. /\ before \in Seq(S)
      /\ Len(before) = IF 1 <= i - 1 THEN (i - 1) - 1 + 1 ELSE 0
      /\ \A j \in 1..((i - 1) - 1 + 1) : before[j] = q[1 + j - 1]
  <2>1. \A j \in 1..(i - 1) : q[j] \in S
    BY <1>1
  <2> QED BY <1>1, <2>1, SubSeqProperties
<1>3. after \in Seq(S)
  <2>1. \A j \in (i + 1)..Len(q) : q[j] \in S
    BY <1>1
  <2> QED BY <1>1, <2>1, SubSeqProperties
<1>4. RemoveAt(q, i) = before \o after
  BY DEF RemoveAt
<1> HIDE DEF before, after
<1>5. Len(before) \in Nat /\ Len(before) >= 1 /\ Len(after) \in Nat
  BY <1>1, <1>2, <1>3
<1>6. before[1] = q[1]
  BY <1>1, <1>2
<1>7. /\ before \o after \in Seq(S)
      /\ Len(before \o after) = Len(before) + Len(after)
      /\ (before \o after)[1] = before[1]
  BY <1>2, <1>3, <1>5, ConcatProperties
<1>8. before \o after # <<>>
  BY <1>5, <1>7
<1> QED BY <1>4, <1>6, <1>7, <1>8

\* What is where in a list with e in front of its i-th item.
LEMMA InsertAtItems ==
    ASSUME NEW S, NEW q \in Seq(S), NEW e \in S, NEW i \in 1..(Len(q) + 1)
    PROVE  LET r == InsertAt(q, i, e)
           IN  /\ r \in Seq(S)
               /\ DOMAIN r = 1..(Len(q) + 1)
               /\ \A j \in 1..(Len(q) + 1) :
                     r[j] = IF j < i THEN q[j] ELSE IF j = i THEN e ELSE q[j - 1]
<1> DEFINE before == SubSeq(q, 1, i - 1)
           after == SubSeq(q, i, Len(q))
           r == InsertAt(q, i, e)
<1>1. /\ Len(q) \in Nat
      /\ i \in Nat /\ 1 <= i /\ i <= Len(q) + 1
      /\ \A j \in 1..Len(q) : q[j] \in S
  OBVIOUS
<1>2. /\ before \in Seq(S)
      /\ Len(before) = i - 1
      /\ \A j \in 1..(i - 1) : before[j] = q[j]
  <2>1. \A j \in 1..(i - 1) : q[j] \in S
    BY <1>1
  <2>2. /\ before \in Seq(S)
        /\ Len(before) = IF 1 <= i - 1 THEN (i - 1) - 1 + 1 ELSE 0
        /\ \A j \in 1..((i - 1) - 1 + 1) : before[j] = q[1 + j - 1]
    BY <1>1, <2>1, SubSeqProperties
  <2> HIDE DEF before
  <2> QED BY <1>1, <2>2
<1>3. /\ after \in Seq(S)
      /\ Len(after) = Len(q) - i + 1
      /\ \A j \in 1..(Len(q) - i + 1) : after[j] = q[i + j - 1]
  <2>1. \A j \in i..Len(q) : q[j] \in S
    BY <1>1
  <2>2. /\ after \in Seq(S)
        /\ Len(after) = IF i <= Len(q) THEN Len(q) - i + 1 ELSE 0
        /\ \A j \in 1..(Len(q) - i + 1) : after[j] = q[i + j - 1]
    BY <1>1, <2>1, SubSeqProperties
  <2> HIDE DEF after
  <2>3. Len(after) = Len(q) - i + 1
    BY <1>1, <2>2
  <2> QED BY <2>2, <2>3
<1>4. r = (before \o <<e>>) \o after
  BY DEF InsertAt
<1> HIDE DEF before, after, r
<1> DEFINE front == before \o <<e>>
<1>5. /\ front \in Seq(S)
      /\ Len(front) = i
      /\ \A j \in 1..i : front[j] = IF j < i THEN q[j] ELSE e
  <2>1. /\ <<e>> \in Seq(S) /\ Len(<<e>>) = 1 /\ <<e>>[1] = e
    OBVIOUS
  <2>2. /\ front \in Seq(S)
        /\ Len(front) = Len(before) + Len(<<e>>)
        /\ \A j \in 1..(Len(before) + Len(<<e>>)) :
              front[j] = IF j <= Len(before) THEN before[j] ELSE <<e>>[j - Len(before)]
    BY <1>2, <2>1, ConcatProperties
  <2>3. Len(before) + Len(<<e>>) = i
    BY <1>1, <1>2, <2>1
  <2> HIDE DEF front
  <2>4. ASSUME NEW j \in 1..i PROVE front[j] = IF j < i THEN q[j] ELSE e
    <3>1. CASE j < i
      <4>1. j <= Len(before) /\ j \in 1..(i - 1)
        BY <1>1, <1>2, <3>1
      <4> QED BY <1>2, <2>2, <2>3, <3>1, <4>1
    <3>2. CASE j = i
      <4>1. ~(j <= Len(before)) /\ j - Len(before) = 1 /\ ~(j < i)
        BY <1>1, <1>2, <3>2
      <4>2. front[j] = <<e>>[j - Len(before)]
        BY <2>2, <2>3, <4>1
      <4> QED BY <2>1, <4>1, <4>2
    <3> QED BY <1>1, <3>1, <3>2
  <2> QED BY <2>2, <2>3, <2>4
<1>r. r = front \o after
  BY <1>4
<1> HIDE DEF front
<1>6. /\ r \in Seq(S)
      /\ Len(r) = Len(front) + Len(after)
      /\ \A j \in 1..(Len(front) + Len(after)) :
            r[j] = IF j <= Len(front) THEN front[j] ELSE after[j - Len(front)]
  BY <1>3, <1>5, <1>r, ConcatProperties
<1>7. Len(front) + Len(after) = Len(q) + 1
  BY <1>1, <1>3, <1>5
<1>8. ASSUME NEW j \in 1..(Len(q) + 1)
      PROVE  r[j] = IF j < i THEN q[j] ELSE IF j = i THEN e ELSE q[j - 1]
  <2>1. CASE j <= i
    BY <1>1, <1>5, <1>6, <1>7, <2>1
  <2>2. CASE j > i
    <3>1. /\ j - Len(front) \in 1..(Len(q) - i + 1)
          /\ i + (j - Len(front)) - 1 = j - 1
          /\ ~(j <= Len(front)) /\ ~(j < i) /\ j # i
      BY <1>1, <1>5, <2>2
    <3>2. r[j] = after[j - Len(front)]
      BY <1>6, <1>7, <3>1
    <3>3. after[j - Len(front)] = q[j - 1]
      BY <1>3, <3>1
    <3> QED BY <3>1, <3>2, <3>3
  <2> QED BY <1>1, <2>1, <2>2
<1>9. DOMAIN r = 1..(Len(q) + 1)
  BY <1>6, <1>7
<1> QED BY <1>6, <1>8, <1>9 DEF r

\* Putting e, which is not in a list yet, somewhere into it adds e and nothing else.
LEMMA InsertAtFacts ==
    ASSUME NEW S, NEW q \in Seq(S), NEW e \in S, NEW i \in 1..(Len(q) + 1),
           IsInjective(q), e \notin ToSet(q)
    PROVE  /\ InsertAt(q, i, e) \in Seq(S)
           /\ ToSet(InsertAt(q, i, e)) = ToSet(q) \cup {e}
           /\ IsInjective(InsertAt(q, i, e))
<1> DEFINE r == InsertAt(q, i, e)
<1>1. /\ Len(q) \in Nat
      /\ DOMAIN q = 1..Len(q)
      /\ i \in 1..(Len(q) + 1)
      /\ \A j \in 1..Len(q) : q[j] \in ToSet(q)
  BY DEF ToSet
<1>2. /\ r \in Seq(S)
      /\ DOMAIN r = 1..(Len(q) + 1)
      /\ \A j \in 1..(Len(q) + 1) :
            r[j] = IF j < i THEN q[j] ELSE IF j = i THEN e ELSE q[j - 1]
  BY InsertAtItems
<1> HIDE DEF r
<1>3. ASSUME NEW j \in 1..(Len(q) + 1), NEW k \in 1..(Len(q) + 1), r[j] = r[k]
      PROVE  j = k
  <2> DEFINE orig(n) == IF n < i THEN n ELSE n - 1
  <2>1. ASSUME NEW n \in 1..(Len(q) + 1), n # i
        PROVE  orig(n) \in 1..Len(q) /\ r[n] = q[orig(n)]
    BY <1>1, <1>2, <2>1
  <2>2. r[i] = e
    BY <1>1, <1>2
  <2>3. CASE j = i \/ k = i
    BY <1>1, <1>3, <2>1, <2>2, <2>3
  <2>4. CASE j # i /\ k # i
    <3>1. orig(j) = orig(k)
      BY <1>1, <1>3, <2>1, <2>4 DEF IsInjective
    <3> QED BY <1>1, <2>4, <3>1
  <2> QED BY <2>3, <2>4
<1>4. IsInjective(r)
  BY <1>2, <1>3 DEF IsInjective
<1>5. ASSUME NEW x \in ToSet(r) PROVE x \in ToSet(q) \cup {e}
  <2>1. PICK j \in 1..(Len(q) + 1) : x = r[j]
    BY <1>2 DEF ToSet
  <2>2. CASE j < i
    BY <1>1, <1>2, <2>1, <2>2
  <2>3. CASE j = i
    BY <1>1, <1>2, <2>1, <2>3
  <2>4. CASE j > i
    <3>1. j - 1 \in 1..Len(q) /\ ~(j < i) /\ j # i
      BY <1>1, <2>4
    <3> QED BY <1>1, <1>2, <2>1, <3>1
  <2> QED BY <1>1, <2>2, <2>3, <2>4
<1>6. ASSUME NEW x \in ToSet(q) PROVE x \in ToSet(r)
  <2>1. PICK j \in 1..Len(q) : x = q[j]
    BY <1>1 DEF ToSet
  <2>2. CASE j < i
    <3>1. j \in 1..(Len(q) + 1) /\ r[j] = x
      BY <1>1, <1>2, <2>1, <2>2
    <3> QED BY <1>2, <3>1 DEF ToSet
  <2>3. CASE j >= i
    <3>1. j + 1 \in 1..(Len(q) + 1) /\ ~(j + 1 < i) /\ j + 1 # i /\ (j + 1) - 1 = j
      BY <1>1, <2>3
    <3>2. r[j + 1] = x
      BY <1>2, <2>1, <3>1
    <3> QED BY <1>2, <3>1, <3>2 DEF ToSet
  <2> QED BY <1>1, <2>2, <2>3
<1>7. e \in ToSet(r)
  <2>1. r[i] = e
    BY <1>1, <1>2
  <2> QED BY <1>1, <1>2, <2>1 DEF ToSet
<1> QED BY <1>2, <1>4, <1>5, <1>6, <1>7 DEF r

\* An empty queue holds nobody ...
LEMMA EmptyQueue ==
    ASSUME NEW S
    PROVE  <<>> \in Seq(S) /\ ToSet(<<>>) = {} /\ IsInjective(<<>>)
BY DEF ToSet, IsInjective

\* ... and a queue with a thread in it is not empty.
LEMMA QueueMembers ==
    ASSUME NEW S, NEW q \in Seq(S)
    PROVE  (q # <<>> <=> ToSet(q) # {}) /\ ToSet(q) \subseteq S
<1>1. DOMAIN q = 1..Len(q) /\ Len(q) \in Nat /\ \A i \in 1..Len(q) : q[i] \in S
  OBVIOUS
<1>2. ToSet(q) \subseteq S
  BY <1>1 DEF ToSet
<1>3. ASSUME q # <<>> PROVE ToSet(q) # {}
  <2>1. 1 \in DOMAIN q
    BY <1>3
  <2> QED BY <2>1 DEF ToSet
<1>4. ASSUME q = <<>> PROVE ToSet(q) = {}
  BY <1>4, EmptyQueue
<1> QED BY <1>2, <1>3, <1>4

\* What is left of a queue without its first n threads.
LEMMA SuffixFacts ==
    ASSUME NEW S, NEW q \in Seq(S), IsInjective(q), NEW n \in 0..Len(q)
    PROVE  LET r == SubSeq(q, n + 1, Len(q))
           IN  /\ r \in Seq(S)
               /\ IsInjective(r)
               /\ ToSet(r) = ToSet(q) \ {q[i] : i \in 1..n}
               /\ n < Len(q) => r # <<>> /\ r[1] = q[n + 1]
               /\ n = Len(q) => r = <<>>
<1> DEFINE r == SubSeq(q, n + 1, Len(q))
<1>1. /\ Len(q) \in Nat /\ n \in Nat /\ n <= Len(q)
      /\ DOMAIN q = 1..Len(q)
      /\ \A j \in 1..Len(q) : q[j] \in S
  OBVIOUS
<1>2. /\ r \in Seq(S)
      /\ Len(r) = IF n + 1 <= Len(q) THEN Len(q) - (n + 1) + 1 ELSE 0
      /\ \A j \in 1..(Len(q) - (n + 1) + 1) : r[j] = q[n + 1 + j - 1]
  <2>1. \A j \in (n + 1)..Len(q) : q[j] \in S
    BY <1>1
  <2> QED BY <1>1, <2>1, SubSeqProperties
<1> HIDE DEF r
<1>3. Len(r) = Len(q) - n /\ DOMAIN r = 1..(Len(q) - n)
  <2>1. Len(r) = Len(q) - n
    <3>1. Len(q) \in Nat /\ n \in Nat /\ n <= Len(q)
      BY <1>1
    <3>2. Len(r) = IF n + 1 <= Len(q) THEN Len(q) - (n + 1) + 1 ELSE 0
      BY <1>2
    <3> QED BY <3>1, <3>2
  <2>2. DOMAIN r = 1..Len(r)
    BY <1>2
  <2> QED BY <2>1, <2>2
<1>4. ASSUME NEW j \in 1..(Len(q) - n) PROVE n + j \in 1..Len(q) /\ r[j] = q[n + j]
  <2>1. j \in 1..(Len(q) - (n + 1) + 1) /\ n + 1 + j - 1 = n + j /\ n + j \in 1..Len(q)
    BY <1>1
  <2> QED BY <1>2, <2>1
<1>5. ASSUME NEW j \in 1..(Len(q) - n), NEW k \in 1..(Len(q) - n), r[j] = r[k] PROVE j = k
  <2>1. n + j = n + k
    BY <1>1, <1>4, <1>5 DEF IsInjective
  <2> QED BY <1>1, <2>1
<1>6. IsInjective(r)
  BY <1>3, <1>5 DEF IsInjective
<1>7. ASSUME NEW x \in ToSet(r) PROVE x \in ToSet(q) \ {q[i] : i \in 1..n}
  <2>1. PICK j \in 1..(Len(q) - n) : x = r[j]
    BY <1>3 DEF ToSet
  <2>2. n + j \in 1..Len(q) /\ x = q[n + j] /\ \A i \in 1..n : i \in 1..Len(q) /\ i # n + j
    BY <1>1, <1>4, <2>1
  <2> QED BY <1>1, <2>2 DEF ToSet, IsInjective
<1>8. ASSUME NEW x \in ToSet(q) \ {q[i] : i \in 1..n} PROVE x \in ToSet(r)
  <2>1. PICK k \in 1..Len(q) : x = q[k]
    BY <1>1 DEF ToSet
  <2>2. k - n \in 1..(Len(q) - n) /\ n + (k - n) = k
    BY <1>1, <1>8, <2>1
  <2>3. x = r[k - n]
    BY <1>4, <2>1, <2>2
  <2> QED BY <1>3, <2>2, <2>3 DEF ToSet
<1>9. ASSUME n < Len(q) PROVE r # <<>> /\ r[1] = q[n + 1]
  <2>1. 1 \in 1..(Len(q) - n)
    BY <1>1, <1>9
  <2>2. r # <<>>
    BY <1>1, <1>3, <1>9
  <2> QED BY <1>4, <2>1, <2>2
<1>10. n = Len(q) => r = <<>>
  BY <1>1, <1>2, <1>3
<1> QED BY <1>2, <1>6, <1>7, <1>8, <1>9, <1>10 DEF r

\* The first n of pairwise different threads are n.
LEMMA PrefixCount ==
    ASSUME NEW n \in Nat, NEW f, \A i, j \in 1..n : f[i] = f[j] => i = j,
           NEW T, \A x : x \in T <=> \E i \in 1..n : x = f[i]
    PROVE  IsFiniteSet(T) /\ Cardinality(T) = n
<1> DEFINE g == [i \in 1..n |-> f[i]]
<1>1. g \in Bijection(1..n, T)
  BY DEF Bijection, Injection, Surjection, IsInjective
<1>2. ExistsBijection(1..n, T)
  BY <1>1 DEF ExistsBijection
<1> QED BY <1>2, FS_CountingElements, FS_NatBijection

\* A set of natural numbers that is not empty has a smallest one.
LEMMA MinFacts ==
    ASSUME NEW S \in SUBSET Nat, S # {}
    PROVE  Min(S) \in S /\ \A y \in S : Min(S) <= y
<1>1. \E x \in S : \A y \in S : ~(<<y, x>> \in OpToRel(<, Nat))
  BY NatLessThanWellFounded, WFMin
<1>2. \A x, y \in Nat : <<y, x>> \in OpToRel(<, Nat) <=> y < x
  BY DEF OpToRel
<1>3. \A x, y \in Nat : x <= y \/ y < x
  OBVIOUS
<1>4. \E x \in S : \A y \in S : x <= y
  BY <1>1, <1>2, <1>3
<1> QED BY <1>4 DEF Min
===============================================================================
