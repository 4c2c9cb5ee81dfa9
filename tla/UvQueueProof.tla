---------------------------- MODULE UvQueueProof -----------------------------
(***************************************************************************)
(* The lists of include/libuv/queue.h stay well formed, the lists of two   *)
(* heads stay apart, and the lists implement the queues of FifoQueues, for *)
(* any number of heads and nodes. The invariant is that the two pointers   *)
(* of every node are those of some sequences of distinct items.            *)
(***************************************************************************)
EXTENDS UvQueueUse, FiniteSetTheorems, SequenceTheorems, WellFoundedInduction, TLAPS

\* The k-th node behind head h of the sequences c; the head closes the ring.
At(c, h, k) == IF k \in 1..Len(c[h]) THEN c[h][k] ELSE h

\* The sequences have no node twice.
Distinct(c) == \A g, h \in Heads : \A i \in 1..Len(c[g]), j \in 1..Len(c[h]) :
                   c[g][i] = c[h][j] => g = h /\ i = j

InSome(c, n) == \E h \in Heads : \E i \in 1..Len(c[h]) : c[h][i] = n

\* Heap r holds the sequences c: next leads from node to node of a sequence and back to
\* its head, prev the other way round, and a node of no sequence is alone.
Lists(r, c) ==
    /\ r \in QueueHeap(Node) /\ c \in [Heads -> Seq(Items)] /\ Distinct(c)
    /\ \A h \in Heads : \A k \in 0..Len(c[h]) : /\ r.next[At(c, h, k)] = At(c, h, k + 1)
                                                /\ r.prev[At(c, h, k + 1)] = At(c, h, k)
    /\ \A n \in Items : ~InSome(c, n) => r.next[n] = n /\ r.prev[n] = n

\* The inductive invariant.
IInv == \E c \in [Heads -> Seq(Items)] : Lists(q, c)

LEMMA ItemOf ==
    ASSUME NEW c \in [Heads -> Seq(Items)], NEW h \in Heads
    PROVE  /\ Len(c[h]) \in Nat
           /\ \A k \in 1..Len(c[h]) : At(c, h, k) = c[h][k] /\ c[h][k] \in Items /\ c[h][k] \notin Heads
           /\ At(c, h, 0) = h /\ At(c, h, Len(c[h]) + 1) = h
           /\ \A k \in Nat : At(c, h, k) \in Node
<1> DEFINE s == c[h]
<1>1. s \in Seq(Items)
  OBVIOUS
<1> HIDE DEF s
<1>2. Len(s) \in Nat /\ \A k \in 1..Len(s) : s[k] \in Items /\ s[k] \notin Heads
  BY <1>1, HeadsNotItems, LenProperties, ElementOfSeq
<1> QED
  BY <1>2 DEF s, At, Node

-----------------------------------------------------------------------------
(* Lists makes the heap well formed.                                       *)

LEMMA ListsWellFormed ==
    ASSUME NEW c, Lists(q, c)
    PROVE  WellFormed /\ HeadsApart
<1>1. c \in [Heads -> Seq(Items)] /\ q \in QueueHeap(Node)
  BY DEF Lists
<1>2. ASSUME NEW n \in Node PROVE q.prev[q.next[n]] = n /\ q.next[q.prev[n]] = n
  <2>1. CASE n \in Heads
    <3>1. Len(c[n]) \in Nat /\ At(c, n, 0) = n /\ At(c, n, Len(c[n]) + 1) = n
      BY <1>1, <2>1, ItemOf
    <3>2. /\ q.next[At(c, n, 0)] = At(c, n, 0 + 1) /\ q.prev[At(c, n, 0 + 1)] = At(c, n, 0)
          /\ q.next[At(c, n, Len(c[n]))] = At(c, n, Len(c[n]) + 1)
          /\ q.prev[At(c, n, Len(c[n]) + 1)] = At(c, n, Len(c[n]))
      <4>1. 0 \in 0..Len(c[n]) /\ Len(c[n]) \in 0..Len(c[n])
        BY <3>1
      <4> QED
        BY <2>1, <4>1, Zenon DEF Lists
    <3> QED
      BY <3>1, <3>2
  <2>2. CASE n \in Items /\ InSome(c, n)
    <3>1. PICK h \in Heads : \E i \in 1..Len(c[h]) : c[h][i] = n
      BY <2>2 DEF InSome
    <3>2. PICK i \in 1..Len(c[h]) : c[h][i] = n
      BY <3>1
    <3>3. i \in 0..Len(c[h]) /\ i - 1 \in 0..Len(c[h]) /\ (i - 1) + 1 = i /\ At(c, h, i) = n
      BY <1>1, <3>2, ItemOf
    <3>4. /\ q.next[At(c, h, i)] = At(c, h, i + 1) /\ q.prev[At(c, h, i + 1)] = At(c, h, i)
          /\ q.next[At(c, h, i - 1)] = At(c, h, (i - 1) + 1)
          /\ q.prev[At(c, h, (i - 1) + 1)] = At(c, h, i - 1)
      BY <3>3, Zenon DEF Lists
    <3> QED
      BY <3>3, <3>4
  <2>3. CASE n \in Items /\ ~InSome(c, n)
    BY <2>3 DEF Lists
  <2> QED
    BY <2>1, <2>2, <2>3 DEF Node
<1>3. ASSUME NEW h \in Heads, q.next[h] \in Heads PROVE q.next[h] = h
  <2>1. Len(c[h]) \in Nat /\ At(c, h, 0) = h
    BY <1>1, ItemOf
  <2>2. q.next[h] = At(c, h, 1)
    <3>1. 0 \in 0..Len(c[h]) /\ 0 + 1 = 1
      BY <2>1
    <3>2. q.next[At(c, h, 0)] = At(c, h, 0 + 1)
      BY <3>1, Zenon DEF Lists
    <3> QED
      BY <2>1, <3>1, <3>2
  <2>3. CASE 1 \in 1..Len(c[h])
    <3>1. At(c, h, 1) = c[h][1] /\ c[h][1] \notin Heads
      BY <1>1, <2>3, ItemOf
    <3> QED
      BY <1>3, <2>2, <3>1
  <2>4. CASE 1 \notin 1..Len(c[h])
    BY <2>2, <2>4 DEF At
  <2> QED
    BY <2>3, <2>4
<1> QED
  BY <1>1, <1>2, <1>3 DEF WellFormed, HeadsApart, QueueLinked

-----------------------------------------------------------------------------
(* Every operation leaves a heap that holds sequences.                     *)

LEMMA NewLists ==
    /\ [h \in Heads |-> <<>>] \in [Heads -> Seq(Items)]
    /\ Lists(NewQueueHeap(Node), [h \in Heads |-> <<>>])
<1> DEFINE c == [h \in Heads |-> <<>>]
           r == NewQueueHeap(Node)
<1>1. c \in [Heads -> Seq(Items)] /\ \A h \in Heads : Len(c[h]) = 0
  OBVIOUS
<1>2. r \in QueueHeap(Node) /\ \A n \in Node : r.next[n] = n /\ r.prev[n] = n
  BY DEF NewQueueHeap, QueueHeap
<1>3. ASSUME NEW h \in Heads, NEW k \in Int PROVE At(c, h, k) = h
  BY <1>1 DEF At
<1>4. Distinct(c)
  BY <1>1 DEF Distinct
<1> HIDE DEF c, r
<1>5. ASSUME NEW h \in Heads, NEW k \in 0..Len(c[h])
      PROVE  r.next[At(c, h, k)] = At(c, h, k + 1) /\ r.prev[At(c, h, k + 1)] = At(c, h, k)
  <2>1. k \in Int /\ k + 1 \in Int
    OBVIOUS
  <2>2. At(c, h, k) = h /\ At(c, h, k + 1) = h
    BY <1>3, <2>1
  <2> QED
    BY <1>2, <2>2 DEF Node
<1>6. \A n \in Items : r.next[n] = n /\ r.prev[n] = n
  BY <1>2 DEF Node
<1>7. Lists(r, c)
  BY <1>1, <1>2, <1>4, <1>5, <1>6 DEF Lists
<1> QED
  BY <1>1, <1>7 DEF c, r

\* Different places of the rings have different nodes: place 0, or place Len + 1, is the
\* head's.
LEMMA Apart ==
    ASSUME NEW c \in [Heads -> Seq(Items)], Distinct(c), NEW g \in Heads, NEW h \in Heads
    PROVE  /\ \A i \in 0..Len(c[g]), j \in 0..Len(c[h]) :
                 At(c, g, i) = At(c, h, j) => g = h /\ i = j
           /\ \A i \in 1..(Len(c[g]) + 1), j \in 1..(Len(c[h]) + 1) :
                 At(c, g, i) = At(c, h, j) => g = h /\ i = j
<1>1. /\ Len(c[g]) \in Nat /\ Len(c[h]) \in Nat
      /\ \A k \in 1..Len(c[g]) : At(c, g, k) = c[g][k] /\ c[g][k] \notin Heads
      /\ \A k \in 1..Len(c[h]) : At(c, h, k) = c[h][k] /\ c[h][k] \notin Heads
      /\ At(c, g, 0) = g /\ At(c, g, Len(c[g]) + 1) = g
      /\ At(c, h, 0) = h /\ At(c, h, Len(c[h]) + 1) = h
  BY ItemOf
<1>2. ASSUME NEW i \in 0..Len(c[g]), NEW j \in 0..Len(c[h]), At(c, g, i) = At(c, h, j)
      PROVE  g = h /\ i = j
  <2>1. (i = 0 /\ j = 0) \/ (i = 0 /\ j \in 1..Len(c[h])) \/ (i \in 1..Len(c[g]) /\ j = 0)
        \/ (i \in 1..Len(c[g]) /\ j \in 1..Len(c[h]))
    BY <1>1
  <2>2. CASE i \in 1..Len(c[g]) /\ j \in 1..Len(c[h])
    <3>1. c[g][i] = c[h][j]
      BY <1>1, <1>2, <2>2
    <3> QED
      BY <2>2, <3>1, Zenon DEF Distinct
  <2>3. CASE i = 0 \/ j = 0
    BY <1>1, <1>2, <2>1, <2>3
  <2> QED
    BY <2>1, <2>2, <2>3
<1>3. ASSUME NEW i \in 1..(Len(c[g]) + 1), NEW j \in 1..(Len(c[h]) + 1), At(c, g, i) = At(c, h, j)
      PROVE  g = h /\ i = j
  <2>1. \/ i = Len(c[g]) + 1 /\ j = Len(c[h]) + 1
        \/ i = Len(c[g]) + 1 /\ j \in 1..Len(c[h])
        \/ i \in 1..Len(c[g]) /\ j = Len(c[h]) + 1
        \/ i \in 1..Len(c[g]) /\ j \in 1..Len(c[h])
    BY <1>1
  <2>2. CASE i \in 1..Len(c[g]) /\ j \in 1..Len(c[h])
    <3>1. c[g][i] = c[h][j]
      BY <1>1, <1>3, <2>2
    <3> QED
      BY <2>2, <3>1, Zenon DEF Distinct
  <2>3. CASE i = Len(c[g]) + 1 \/ j = Len(c[h]) + 1
    BY <1>1, <1>3, <2>1, <2>3
  <2> QED
    BY <2>1, <2>2, <2>3
<1> QED
  BY <1>2, <1>3

\* A node of no sequence is at no place of a ring.
LEMMA NotAt ==
    ASSUME NEW c \in [Heads -> Seq(Items)], NEW n \in Items, ~InSome(c, n)
    PROVE  \A h \in Heads : \A k \in Nat : At(c, h, k) # n
<1> SUFFICES ASSUME NEW h \in Heads, NEW k \in Nat PROVE At(c, h, k) # n
  OBVIOUS
<1>1. n \notin Heads
  BY HeadsNotItems
<1>2. CASE k \in 1..Len(c[h])
  BY <1>2 DEF At, InSome
<1>3. CASE k \notin 1..Len(c[h])
  BY <1>1, <1>3 DEF At
<1> QED
  BY <1>2, <1>3

\* uv__queue_insert_tail appends to the sequence of its head.
LEMMA InsertLists ==
    ASSUME NEW r, NEW c, Lists(r, c), NEW g \in Heads, NEW n \in Items, QueueEmpty(r, n)
    PROVE  /\ ~InSome(c, n)
           /\ [c EXCEPT ![g] = Append(@, n)] \in [Heads -> Seq(Items)]
           /\ Lists(QueueInsertTail(r, g, n), [c EXCEPT ![g] = Append(@, n)])
<1> DEFINE d == [c EXCEPT ![g] = Append(@, n)]
           t == QueueInsertTail(r, g, n)
           L == Len(c[g])
           last == At(c, g, L)
<1>1. /\ c \in [Heads -> Seq(Items)] /\ Distinct(c) /\ r \in QueueHeap(Node)
      /\ r.next \in [Node -> Node] /\ r.prev \in [Node -> Node] /\ L \in Nat
      /\ n \in Node /\ g \in Node /\ n \notin Heads /\ last \in Node
  BY ItemOf, HeadsNotItems DEF Lists, QueueHeap, Node
<1>2. ~InSome(c, n)
  <2> SUFFICES ASSUME NEW h \in Heads, NEW i \in 1..Len(c[h]), c[h][i] = n PROVE FALSE
    BY DEF InSome
  <2>1. Len(c[h]) \in Nat /\ At(c, h, i) = n
    BY <1>1, ItemOf
  <2>2. i \in 0..Len(c[h]) /\ i \in 1..(Len(c[h]) + 1) /\ i + 1 \in 1..(Len(c[h]) + 1) /\ i # i + 1
    BY <2>1
  <2>3. r.next[At(c, h, i)] = At(c, h, i + 1)
    BY <2>2, Zenon DEF Lists
  <2>4. At(c, h, i) = At(c, h, i + 1)
    BY <2>1, <2>3 DEF QueueEmpty
  <2> QED
    BY <1>1, <2>2, <2>4, Apart
<1>3. /\ d \in [Heads -> Seq(Items)] /\ Len(d[g]) = L + 1
      /\ \A h \in Heads : h # g => d[h] = c[h]
      /\ \A k \in 1..L : d[g][k] = c[g][k]
      /\ d[g][L + 1] = n
  <2> DEFINE s == c[g]
  <2>1. s \in Seq(Items)
    BY <1>1
  <2>2. d \in [Heads -> Seq(Items)] /\ d[g] = Append(s, n) /\ \A h \in Heads : h # g => d[h] = c[h]
    BY <1>1
  <2> HIDE DEF s, d
  <2>3. /\ Len(Append(s, n)) = Len(s) + 1
        /\ \A k \in 1..Len(s) : Append(s, n)[k] = s[k]
        /\ Append(s, n)[Len(s) + 1] = n
    BY <2>1, AppendProperties
  <2> QED
    BY <2>2, <2>3 DEF s
<1>4. /\ \A h \in Heads : h # g => \A k \in Int : At(d, h, k) = At(c, h, k)
      /\ \A k \in 0..(L + 2) : At(d, g, k) = IF k = L + 1 THEN n ELSE At(c, g, k)
  <2> HIDE DEF d, L
  <2>1. ASSUME NEW h \in Heads, h # g, NEW k \in Int PROVE At(d, h, k) = At(c, h, k)
    BY <1>3, <2>1 DEF At
  <2>2. ASSUME NEW k \in 0..(L + 2) PROVE At(d, g, k) = IF k = L + 1 THEN n ELSE At(c, g, k)
    <3>1. CASE k \in 1..L
      BY <1>1, <1>3, <3>1 DEF At, L
    <3>2. CASE k = L + 1
      BY <1>1, <1>3, <3>2 DEF At, L
    <3>3. CASE k = 0 \/ k = L + 2
      BY <1>1, <1>3, <3>3 DEF At, L
    <3> QED
      BY <1>1, <3>1, <3>2, <3>3
  <2> QED
    BY <2>1, <2>2
<1>5. /\ t.next = [r.next EXCEPT ![n] = g, ![last] = n]
      /\ t.prev = [r.prev EXCEPT ![n] = last, ![g] = n]
      /\ t \in QueueHeap(Node)
  <2>1. r.prev[g] = last
    <3>1. L \in 0..L
      BY <1>1
    <3>2. r.prev[At(c, g, L + 1)] = last
      BY <3>1, Zenon DEF Lists
    <3>3. At(c, g, L + 1) = g
      BY <1>1, ItemOf
    <3> QED
      BY <3>2, <3>3
  <2> HIDE DEF last
  <2> QED
    BY <1>1, <2>1 DEF QueueInsertTail, QueueHeap
<1>6. \A h \in Heads : \A k \in Nat : At(c, h, k) # n
  BY <1>1, <1>2, NotAt
<1>7. n # last /\ n # g /\ L \in 0..L /\ L + 1 \in 1..(L + 1) /\ At(c, g, L + 1) = g
  BY <1>1, <1>6, ItemOf
<1>8. Distinct(d)
  <2> SUFFICES ASSUME NEW h \in Heads, NEW e \in Heads, NEW i \in 1..Len(d[h]), NEW j \in 1..Len(d[e]),
                      d[h][i] = d[e][j]
               PROVE  h = e /\ i = j
    BY DEF Distinct
  <2>1. ASSUME NEW f \in Heads, NEW k \in 1..Len(d[f]), d[f][k] # n
        PROVE  k \in 1..Len(c[f]) /\ d[f][k] = c[f][k]
    BY <1>1, <1>3, <2>1
  <2>2. ASSUME NEW f \in Heads, NEW k \in 1..Len(d[f]), d[f][k] = n
        PROVE  f = g /\ k = L + 1
    <3>1. ~(k \in 1..Len(c[f]) /\ d[f][k] = c[f][k])
      BY <1>2, <2>2 DEF InSome
    <3> HIDE DEF d
    <3> QED
      BY <1>1, <1>3, <3>1
  <2> HIDE DEF d, L
  <2>3. CASE d[h][i] = n
    <3>1. h = g /\ i = L + 1
      BY <2>2, <2>3, Zenon
    <3>2. d[e][j] = n
      BY <2>3
    <3>3. e = g /\ j = L + 1
      BY <2>2, <3>2, Zenon
    <3> QED
      BY <3>1, <3>3
  <2>4. CASE d[h][i] # n
    BY <1>1, <2>1, <2>4 DEF Distinct
  <2> QED
    BY <2>3, <2>4
<1> HIDE DEF d, t, last, L
<1>9. ASSUME NEW h \in Heads, NEW k \in 0..Len(d[h])
      PROVE  t.next[At(d, h, k)] = At(d, h, k + 1) /\ t.prev[At(d, h, k + 1)] = At(d, h, k)
  <2>1. CASE h # g
    <3>1. /\ At(d, h, k) = At(c, h, k) /\ At(d, h, k + 1) = At(c, h, k + 1) /\ k \in Nat
          /\ Len(c[h]) \in Nat /\ k \in 0..Len(c[h]) /\ k + 1 \in 1..(Len(c[h]) + 1)
      BY <1>1, <1>3, <1>4, <2>1, ItemOf
    <3>2. r.next[At(c, h, k)] = At(c, h, k + 1) /\ r.prev[At(c, h, k + 1)] = At(c, h, k)
      BY <3>1, Zenon DEF Lists
    <3>3. At(c, h, k) # last
      BY <1>1, <1>7, <2>1, <3>1, Apart DEF last, L
    <3>4. At(c, h, k + 1) # g
      BY <1>1, <1>7, <2>1, <3>1, Apart DEF L
    <3>5. At(c, h, k) # n /\ At(c, h, k + 1) # n /\ At(c, h, k) \in Node /\ At(c, h, k + 1) \in Node
      BY <1>1, <1>6, <3>1, ItemOf
    <3> QED
      BY <1>1, <1>5, <3>1, <3>2, <3>3, <3>4, <3>5
  <2>2. CASE h = g /\ k < L
    <3>1. /\ At(d, g, k) = At(c, g, k) /\ At(d, g, k + 1) = At(c, g, k + 1) /\ k \in 0..L /\ k # L
          /\ k + 1 \in 1..(L + 1) /\ k + 1 # L + 1 /\ k \in Nat /\ k + 1 \in Nat
      BY <1>1, <1>3, <1>4, <2>2
    <3>2. r.next[At(c, g, k)] = At(c, g, k + 1) /\ r.prev[At(c, g, k + 1)] = At(c, g, k)
      BY <3>1, Zenon DEF Lists, L
    <3>3. At(c, g, k) # last /\ At(c, g, k + 1) # g
      BY <1>1, <1>7, <3>1, Apart DEF last, L
    <3>4. At(c, g, k) # n /\ At(c, g, k + 1) # n /\ At(c, g, k) \in Node /\ At(c, g, k + 1) \in Node
      BY <1>1, <1>6, <3>1, ItemOf
    <3> QED
      BY <1>1, <1>5, <2>2, <3>1, <3>2, <3>3, <3>4
  <2>3. CASE h = g /\ k = L
    <3>1. At(d, g, L) = last /\ At(d, g, L + 1) = n
      BY <1>1, <1>4 DEF last
    <3> QED
      BY <1>1, <1>5, <1>7, <2>3, <3>1
  <2>4. CASE h = g /\ k = L + 1
    <3>1. At(d, g, L + 1) = n /\ At(d, g, L + 2) = g /\ (L + 1) + 1 = L + 2
      BY <1>1, <1>3, <1>4 DEF At
    <3> QED
      BY <1>1, <1>5, <1>7, <2>4, <3>1
  <2>5. h # g \/ (h = g /\ (k < L \/ k = L \/ k = L + 1))
    BY <1>1, <1>3
  <2> QED
    BY <2>1, <2>2, <2>3, <2>4, <2>5
<1>10. ASSUME NEW m \in Items, ~InSome(d, m) PROVE t.next[m] = m /\ t.prev[m] = m
  <2>1. m # n
    <3>1. L + 1 \in 1..Len(d[g]) /\ d[g][L + 1] = n
      BY <1>1, <1>3
    <3> QED
      BY <1>10, <3>1 DEF InSome
  <2>2. ~InSome(c, m)
    <3> SUFFICES ASSUME NEW h \in Heads, NEW i \in 1..Len(c[h]), c[h][i] = m PROVE FALSE
      BY DEF InSome
    <3>1. i \in 1..Len(d[h]) /\ d[h][i] = m
      <4>1. CASE h = g
        BY <1>1, <1>3, <4>1 DEF L
      <4>2. CASE h # g
        BY <1>3, <4>2
      <4> QED
        BY <4>1, <4>2
    <3> QED
      BY <1>10, <3>1 DEF InSome
  <2>3. m # last /\ m # g /\ m \in Node
    BY <1>1, <2>2, NotAt, HeadsNotItems DEF last, Node
  <2>4. r.next[m] = m /\ r.prev[m] = m
    BY <2>2 DEF Lists
  <2> QED
    BY <1>1, <1>5, <2>1, <2>3, <2>4
<1>11. Lists(t, d)
  BY <1>3, <1>5, <1>8, <1>9, <1>10 DEF Lists
<1> QED
  BY <1>2, <1>3, <1>11 DEF d, t

\* A sequence without its i-th element.
LEMMA WithoutElement ==
    ASSUME NEW s \in Seq(Items), NEW i \in 1..Len(s)
    PROVE  /\ Fifo!Without(s, i) \in Seq(Items) /\ Len(Fifo!Without(s, i)) = Len(s) - 1
           /\ \A k \in 1..(Len(s) - 1) : Fifo!Without(s, i)[k] = IF k < i THEN s[k] ELSE s[k + 1]
<1> DEFINE L == Len(s)
           a == SubSeq(s, 1, i - 1)
           b == SubSeq(s, i + 1, L)
<1>1. L \in Nat /\ i \in Nat /\ \A k \in 1..L : s[k] \in Items
  BY LenProperties, ElementOfSeq
<1>2. a \in Seq(Items) /\ Len(a) = i - 1 /\ \A k \in 1..(i - 1) : a[k] = s[k]
  <2> DEFINE e == i - 1
  <2>1. e \in Nat /\ 1 \in Nat /\ e - 1 + 1 = e /\ (1 <= e \/ e = 0) /\ e <= L
    BY <1>1
  <2> HIDE DEF e, L
  <2>2. \A k \in 1..e : s[k] \in Items
    BY <1>1, <2>1
  <2>3. /\ SubSeq(s, 1, e) \in Seq(Items) /\ Len(SubSeq(s, 1, e)) = IF 1 <= e THEN e - 1 + 1 ELSE 0
        /\ \A k \in 1..(e - 1 + 1) : SubSeq(s, 1, e)[k] = s[1 + k - 1]
    BY <2>1, <2>2, SubSeqProperties
  <2>4. SubSeq(s, 1, e) \in Seq(Items) /\ Len(SubSeq(s, 1, e)) = e
        /\ \A k \in 1..e : SubSeq(s, 1, e)[k] = s[k]
    BY <2>1, <2>3
  <2> QED
    BY <2>4 DEF e
<1>3. b \in Seq(Items) /\ Len(b) = L - i /\ \A k \in 1..(L - i) : b[k] = s[i + k]
  <2> DEFINE e == i + 1
  <2>1. e \in Nat /\ L - e + 1 = L - i /\ (e <= L \/ L - i = 0) /\ i <= L
    BY <1>1
  <2>2. \A k \in e..L : s[k] \in Items
    BY <1>1
  <2> HIDE DEF e, L
  <2>3. /\ SubSeq(s, e, L) \in Seq(Items) /\ Len(SubSeq(s, e, L)) = IF e <= L THEN L - e + 1 ELSE 0
        /\ \A k \in 1..(L - e + 1) : SubSeq(s, e, L)[k] = s[e + k - 1]
    BY <1>1, <2>1, <2>2, SubSeqProperties
  <2>4. ASSUME NEW k \in 1..(L - i) PROVE e + k - 1 = i + k
    BY <1>1 DEF e
  <2>5. Len(SubSeq(s, e, L)) = L - i
    BY <1>1, <2>1, <2>3
  <2> QED
    BY <2>1, <2>3, <2>4, <2>5 DEF e
<1> HIDE DEF a, b, L
<1>4. /\ a \o b \in Seq(Items) /\ Len(a \o b) = Len(a) + Len(b)
      /\ \A k \in 1..(Len(a) + Len(b)) : (a \o b)[k] = IF k <= Len(a) THEN a[k] ELSE b[k - Len(a)]
  BY <1>2, <1>3, ConcatProperties
<1>5. Len(a) + Len(b) = L - 1
  BY <1>1, <1>2, <1>3 DEF L
<1>6. ASSUME NEW k \in 1..(L - 1) PROVE (a \o b)[k] = IF k < i THEN s[k] ELSE s[k + 1]
  <2>1. (a \o b)[k] = IF k <= i - 1 THEN a[k] ELSE b[k - (i - 1)]
    BY <1>2, <1>4, <1>5
  <2>2. CASE k < i
    <3>1. k \in 1..(i - 1) /\ k <= i - 1
      BY <1>1, <2>2
    <3> QED
      BY <1>2, <2>1, <2>2, <3>1
  <2>3. CASE k >= i
    <3> DEFINE j == k - (i - 1)
    <3>1. j \in 1..(L - i) /\ i + j = k + 1 /\ ~(k <= i - 1) /\ ~(k < i)
      BY <1>1, <2>3
    <3> HIDE DEF j
    <3>2. b[j] = s[k + 1]
      BY <1>3, <3>1
    <3>3. (a \o b)[k] = b[j]
      BY <2>1, <3>1 DEF j
    <3> QED
      BY <3>1, <3>2, <3>3
  <2>4. k < i \/ k >= i
    BY <1>1
  <2> QED
    BY <2>2, <2>3, <2>4
<1>7. Fifo!Without(s, i) = a \o b
  BY Zenon DEF Fifo!Without, a, b, L
<1> QED
  BY <1>4, <1>5, <1>6, <1>7 DEF L

\* uv__queue_remove and uv__queue_init take a node out of its sequence.
LEMMA UnlinkLists ==
    ASSUME NEW r, NEW c, Lists(r, c), NEW g \in Heads, NEW i \in 1..Len(c[g])
    PROVE  /\ [c EXCEPT ![g] = Fifo!Without(@, i)] \in [Heads -> Seq(Items)]
           /\ Lists(QueueUnlink(r, c[g][i]), [c EXCEPT ![g] = Fifo!Without(@, i)])
<1> DEFINE d == [c EXCEPT ![g] = Fifo!Without(@, i)]
           n == c[g][i]
           t == QueueUnlink(r, n)
           L == Len(c[g])
           before == At(c, g, i - 1)
           after == At(c, g, i + 1)
<1>1. /\ c \in [Heads -> Seq(Items)] /\ Distinct(c) /\ r \in QueueHeap(Node)
      /\ r.next \in [Node -> Node] /\ r.prev \in [Node -> Node] /\ L \in Nat /\ i \in 1..L
      /\ n \in Items /\ n \in Node /\ n \notin Heads /\ n = At(c, g, i)
  BY ItemOf DEF Lists, QueueHeap, Node
<1> HIDE DEF L
<1>2. i - 1 \in 0..L /\ i \in 0..L /\ i \in 1..(L + 1) /\ i + 1 \in 1..(L + 1) /\ (i - 1) + 1 = i
  BY <1>1
<1>3. before \in Node /\ after \in Node /\ before # n /\ after # n
  BY <1>1, <1>2, Apart, ItemOf DEF L
<1>4. r.prev[n] = before /\ r.next[n] = after
  <2>1. /\ r.next[At(c, g, i)] = At(c, g, i + 1)
        /\ r.prev[At(c, g, (i - 1) + 1)] = At(c, g, i - 1)
    BY <1>2, Zenon DEF Lists, L
  <2> QED
    BY <1>1, <1>2, <2>1
<1>5. /\ d \in [Heads -> Seq(Items)] /\ Len(d[g]) = L - 1
      /\ \A h \in Heads : h # g => d[h] = c[h]
      /\ \A k \in 1..(L - 1) : d[g][k] = IF k < i THEN c[g][k] ELSE c[g][k + 1]
  <2> DEFINE s == c[g]
             w == Fifo!Without(s, i)
  <2>1. s \in Seq(Items) /\ i \in 1..Len(s) /\ Len(s) = L
    BY <1>1 DEF L
  <2>2. w \in Seq(Items) /\ Len(w) = L - 1 /\ \A k \in 1..(L - 1) : w[k] = IF k < i THEN s[k] ELSE s[k + 1]
    <3> HIDE DEF s
    <3> QED
      BY <2>1, WithoutElement
  <2> HIDE DEF w
  <2>3. d = [c EXCEPT ![g] = w]
    BY DEF w
  <2> HIDE DEF d
  <2>4. d \in [Heads -> Seq(Items)] /\ d[g] = w /\ \A h \in Heads : h # g => d[h] = c[h]
    BY <1>1, <2>2, <2>3
  <2> QED
    BY <2>2, <2>4
<1> HIDE DEF d
<1>6. /\ \A h \in Heads : h # g => \A k \in Int : At(d, h, k) = At(c, h, k)
      /\ \A k \in 0..L : At(d, g, k) = IF k < i THEN At(c, g, k) ELSE At(c, g, k + 1)
  <2>1. ASSUME NEW h \in Heads, h # g, NEW k \in Int PROVE At(d, h, k) = At(c, h, k)
    BY <1>5, <2>1 DEF At
  <2>2. ASSUME NEW k \in 0..L PROVE At(d, g, k) = IF k < i THEN At(c, g, k) ELSE At(c, g, k + 1)
    <3>1. CASE k \in 1..(L - 1) /\ k < i
      BY <1>1, <1>5, <3>1 DEF At, L
    <3>2. CASE k \in 1..(L - 1) /\ ~(k < i)
      <4>1. k \in 1..Len(d[g]) /\ k + 1 \in 1..Len(c[g])
        BY <1>1, <1>5, <3>2 DEF L
      <4> QED
        BY <1>5, <3>2, <4>1 DEF At
    <3>3. CASE k = 0
      BY <1>1, <1>5, <3>3 DEF At, L
    <3>4. CASE k = L
      BY <1>1, <1>5, <3>4 DEF At, L
    <3> QED
      BY <1>1, <3>1, <3>2, <3>3, <3>4
  <2> QED
    BY <2>1, <2>2
<1>7. /\ t.next = [r.next EXCEPT ![before] = after, ![n] = n]
      /\ t.prev = [r.prev EXCEPT ![after] = before, ![n] = n]
      /\ t \in QueueHeap(Node)
  <2> HIDE DEF before, after, n
  <2> QED
    BY <1>1, <1>3, <1>4 DEF QueueUnlink, QueueRemove, QueueInit, QueueHeap
<1>8. Distinct(d)
  <2> SUFFICES ASSUME NEW h \in Heads, NEW e \in Heads, NEW k \in 1..Len(d[h]), NEW j \in 1..Len(d[e]),
                      d[h][k] = d[e][j]
               PROVE  h = e /\ k = j
    BY DEF Distinct
  <2> DEFINE from(f, m) == IF f = g /\ ~(m < i) THEN m + 1 ELSE m
  <2>1. ASSUME NEW f \in Heads, NEW m \in 1..Len(d[f])
        PROVE  from(f, m) \in 1..Len(c[f]) /\ d[f][m] = c[f][from(f, m)]
    <3>1. CASE f = g
      BY <1>1, <1>5, <3>1 DEF L
    <3>2. CASE f # g
      BY <1>5, <3>2
    <3> QED
      BY <3>1, <3>2
  <2> HIDE DEF from
  <2>2. from(h, k) \in 1..Len(c[h]) /\ from(e, j) \in 1..Len(c[e])
        /\ c[h][from(h, k)] = c[e][from(e, j)]
    BY <2>1
  <2>3. h = e /\ from(h, k) = from(e, j)
    <3> DEFINE v == from(h, k)
               w == from(e, j)
    <3>1. v \in 1..Len(c[h]) /\ w \in 1..Len(c[e]) /\ c[h][v] = c[e][w]
      BY <2>2
    <3> HIDE DEF v, w
    <3>2. Distinct(c)
      BY <1>1
    <3>3. h = e
      BY <3>1, <3>2 DEF Distinct
    <3>4. v = w
      BY <3>1, <3>2 DEF Distinct
    <3> QED
      BY <3>3, <3>4 DEF v, w
  <2>4. k \in Int /\ j \in Int
    OBVIOUS
  <2> QED
    BY <1>1, <2>3, <2>4 DEF from
<1> HIDE DEF t, before, after, n
<1>9. ASSUME NEW h \in Heads, NEW k \in 0..Len(d[h])
      PROVE  t.next[At(d, h, k)] = At(d, h, k + 1) /\ t.prev[At(d, h, k + 1)] = At(d, h, k)
  <2>1. CASE h # g
    <3>1. /\ At(d, h, k) = At(c, h, k) /\ At(d, h, k + 1) = At(c, h, k + 1) /\ k \in Nat /\ k + 1 \in Nat
          /\ Len(c[h]) \in Nat /\ k \in 0..Len(c[h]) /\ k + 1 \in 1..(Len(c[h]) + 1)
      BY <1>1, <1>5, <1>6, <2>1, ItemOf
    <3>2. r.next[At(c, h, k)] = At(c, h, k + 1) /\ r.prev[At(c, h, k + 1)] = At(c, h, k)
      BY <3>1, Zenon DEF Lists
    <3>3. /\ At(c, h, k) # before /\ At(c, h, k) # n
          /\ At(c, h, k + 1) # after /\ At(c, h, k + 1) # n
      BY <1>1, <1>2, <2>1, <3>1, Apart DEF before, after, L
    <3>4. At(c, h, k) \in Node /\ At(c, h, k + 1) \in Node
      BY <1>1, <3>1, ItemOf
    <3> QED
      BY <1>1, <1>3, <1>7, <3>1, <3>2, <3>3, <3>4
  <2>2. CASE h = g /\ k = i - 1
    <3>1. At(d, g, k) = before /\ At(d, g, k + 1) = after /\ k + 1 = i
      BY <1>1, <1>2, <1>6, <2>2 DEF before, after
    <3> QED
      BY <1>1, <1>3, <1>7, <2>2, <3>1
  <2>3. CASE h = g /\ k # i - 1
    <3> DEFINE p == IF k < i THEN k ELSE k + 1
    <3>1. /\ p \in 0..L /\ p + 1 \in 1..(L + 1) /\ p # i - 1 /\ p # i /\ p + 1 # i + 1 /\ p + 1 # i
          /\ p \in Nat /\ p + 1 \in Nat
      BY <1>1, <1>5, <2>3
    <3>2. At(d, g, k) = At(c, g, p) /\ At(d, g, k + 1) = At(c, g, p + 1)
      <4>1. k \in 0..L /\ k + 1 \in 0..L
        BY <1>1, <1>5, <2>3
      <4>2. CASE k < i
        <5>1. k + 1 < i
          <6>1. i \in Int /\ k \in Int /\ k # i - 1 /\ k < i
            BY <1>1, <2>3, <4>1, <4>2
          <6> QED
            BY <6>1
        <5> QED
          BY <1>6, <4>1, <4>2, <5>1
      <4>3. CASE ~(k < i)
        <5>1. ~(k + 1 < i)
          BY <1>1, <4>1, <4>3
        <5> QED
          BY <1>6, <4>1, <4>3, <5>1
      <4> QED
        BY <4>2, <4>3
    <3> HIDE DEF p
    <3>3. r.next[At(c, g, p)] = At(c, g, p + 1) /\ r.prev[At(c, g, p + 1)] = At(c, g, p)
      BY <3>1, Zenon DEF Lists, L
    <3>4. /\ At(c, g, p) # before /\ At(c, g, p) # n
          /\ At(c, g, p + 1) # after /\ At(c, g, p + 1) # n
      <4>1. /\ \A k1 \in 0..L, k2 \in 0..L : At(c, g, k1) = At(c, g, k2) => k1 = k2
            /\ \A k1 \in 1..(L + 1), k2 \in 1..(L + 1) : At(c, g, k1) = At(c, g, k2) => k1 = k2
        <5>1. c \in [Heads -> Seq(Items)] /\ Distinct(c)
          BY <1>1
        <5>2. \A k1 \in 0..L, k2 \in 0..L : At(c, g, k1) = At(c, g, k2) => k1 = k2
          BY <5>1, Apart DEF L
        <5>3. \A k1 \in 1..(L + 1), k2 \in 1..(L + 1) : At(c, g, k1) = At(c, g, k2) => k1 = k2
          BY <5>1, Apart DEF L
        <5> QED
          BY <5>2, <5>3
      <4>2. At(c, g, p) # before /\ At(c, g, p) # n
        BY <1>1, <1>2, <3>1, <4>1 DEF before
      <4>3. At(c, g, p + 1) # after /\ At(c, g, p + 1) # n
        <5> DEFINE v == p + 1
        <5>1. v \in 1..(L + 1) /\ v # i + 1 /\ v # i
          BY <3>1
        <5> HIDE DEF v
        <5>2. At(c, g, v) # after /\ At(c, g, v) # n
          BY <1>1, <1>2, <4>1, <5>1 DEF after
        <5> QED
          BY <5>2 DEF v
      <4> QED
        BY <4>2, <4>3
    <3>5. At(c, g, p) \in Node /\ At(c, g, p + 1) \in Node
      BY <1>1, <3>1, ItemOf
    <3> QED
      BY <1>1, <1>3, <1>7, <2>3, <3>2, <3>3, <3>4, <3>5
  <2> QED
    BY <2>1, <2>2, <2>3
<1>10. ASSUME NEW m \in Items, ~InSome(d, m) PROVE t.next[m] = m /\ t.prev[m] = m
  <2>1. CASE m = n
    BY <1>1, <1>3, <1>7, <2>1
  <2>2. CASE m # n
    <3>1. ~InSome(c, m)
      <4> SUFFICES ASSUME NEW h \in Heads, NEW j \in 1..Len(c[h]), c[h][j] = m PROVE InSome(d, m)
        BY <1>10 DEF InSome
      <4>1. CASE h # g
        BY <1>5, <4>1 DEF InSome
      <4>2. CASE h = g
        <5> DEFINE k == IF j < i THEN j ELSE j - 1
        <5>1. j # i
          BY <2>2, <4>2 DEF n
        <5>2. k \in 1..(L - 1) /\ (IF k < i THEN k ELSE k + 1) = j
          BY <1>1, <4>2, <5>1 DEF L
        <5> HIDE DEF k
        <5>3. d[g][k] = c[g][j]
          BY <1>5, <5>2
        <5>4. k \in 1..Len(d[g]) /\ d[g][k] = m
          BY <1>5, <4>2, <5>2, <5>3
        <5> QED
          BY <5>4 DEF InSome
      <4> QED
        BY <4>1, <4>2
    <3>2. i - 1 \in Nat /\ i + 1 \in Nat
      BY <1>1
    <3>3. m # before /\ m # after /\ m \in Node
      BY <1>1, <3>1, <3>2, NotAt DEF before, after, Node
    <3>4. r.next[m] = m /\ r.prev[m] = m
      BY <3>1 DEF Lists
    <3> QED
      BY <1>1, <1>3, <1>7, <2>2, <3>3, <3>4
  <2> QED
    BY <2>1, <2>2
<1>11. Lists(t, d)
  BY <1>5, <1>7, <1>8, <1>9, <1>10 DEF Lists
<1> QED
  BY <1>5, <1>11 DEF d, t, n

-----------------------------------------------------------------------------
(* The sequences a heap holds are what a walk over it finds.               *)

LEMMA MaxIs ==
    ASSUME NEW S \in SUBSET Int, NEW m \in S, \A y \in S : y <= m
    PROVE  Max(S) = m
<1>1. \E x \in S : \A y \in S : x >= y
  OBVIOUS
<1>2. Max(S) \in S /\ \A y \in S : Max(S) >= y
  BY <1>1, Zenon DEF Max
<1> DEFINE z == Max(S)
<1> HIDE DEF z
<1>3. z \in S /\ \A y \in S : z >= y
  BY <1>2 DEF z
<1>4. z = m
  BY <1>3
<1> QED
  BY <1>4 DEF z

\* Induction, of which the numbers that have the property are the set.
LEMMA Induction ==
    ASSUME NEW S, 1 \in S, \A n \in Nat \ {0} : n \in S => n + 1 \in S
    PROVE  \A n \in Nat \ {0} : n \in S
<1> SUFFICES ASSUME NEW n \in Nat \ {0}, n \notin S PROVE FALSE
  OBVIOUS
<1> DEFINE T == (Nat \ {0}) \ S
<1>1. T \subseteq Nat /\ T # {}
  OBVIOUS
<1>2. PICK m \in T : \A k \in T : ~(<<k, m>> \in OpToRel(<, Nat))
  BY <1>1, NatLessThanWellFounded, WFMin
<1>3. m # 1 /\ m - 1 \in Nat \ {0}
  OBVIOUS
<1>4. m - 1 \notin T
  <2> SUFFICES ASSUME m - 1 \in T PROVE FALSE
    OBVIOUS
  <2>1. m - 1 \in Nat /\ m \in Nat /\ m - 1 < m
    BY <1>3
  <2>2. <<m - 1, m>> \in OpToRel(<, Nat)
    BY <2>1, Zenon DEF OpToRel
  <2> QED
    BY <1>2, <2>2
<1> QED
  BY <1>3, <1>4

\* No sequence is longer than there are items.
LEMMA NoLonger ==
    ASSUME NEW c \in [Heads -> Seq(Items)], Distinct(c), NEW h \in Heads
    PROVE  Cardinality(Items) \in Nat /\ Len(c[h]) <= Cardinality(Items)
<1> DEFINE s == c[h]
           L == Len(s)
<1>1. L \in Nat /\ s \in [1..L -> Items]
  BY LenProperties
<1>2. \A i, j \in 1..L : s[i] = s[j] => i = j
  BY DEF Distinct
<1> HIDE DEF s, L
<1>3. s \in Injection(1..L, Items)
  BY <1>1, <1>2, Zenon DEF Injection, IsInjective
<1>4. Cardinality(1..L) <= Cardinality(Items)
  BY <1>3, ItemsFinite, FS_Injection
<1>5. Cardinality(1..L) = L
  BY <1>1, FS_Interval
<1> QED
  BY <1>4, <1>5, ItemsFinite, FS_CardinalityType DEF s, L

LEMMA WalkIs ==
    ASSUME NEW r, NEW c, Lists(r, c), NEW h \in Heads
    PROVE  \A k \in 1..Cardinality(Items) : Walk(r, h)[k] = At(c, h, k)
<1> DEFINE N == Cardinality(Items)
           L == Len(c[h])
           W == Walk(r, h)
           at == [k \in 1..N |-> At(c, h, k)]
<1>1. N \in Nat /\ L \in Nat /\ L <= N /\ c \in [Heads -> Seq(Items)]
  BY NoLonger, ItemOf DEF Lists
<1>2. ASSUME NEW k \in Int
      PROVE  (k > L => At(c, h, k) = h) /\ (k \in 1..L => At(c, h, k) \notin Heads)
  BY <1>1, <1>2, ItemOf DEF At
<1>3. ASSUME NEW k \in 0..L PROVE r.next[At(c, h, k)] = At(c, h, k + 1)
  BY DEF Lists
<1> HIDE DEF N, L
<1>4. ASSUME NEW k \in 1..N
      PROVE  At(c, h, k) = IF k = 1 THEN r.next[h]
                           ELSE IF At(c, h, k - 1) \in Heads THEN At(c, h, k - 1)
                           ELSE r.next[At(c, h, k - 1)]
  <2>1. CASE k = 1
    <3>1. 0 \in 0..L /\ 0 + 1 = 1 /\ At(c, h, 0) = h
      BY <1>1, ItemOf
    <3>2. r.next[At(c, h, 0)] = At(c, h, 0 + 1)
      BY <1>3, <3>1
    <3> QED
      BY <2>1, <3>1, <3>2
  <2>2. CASE k # 1 /\ k - 1 <= L
    <3> DEFINE j == k - 1
    <3>1. j \in 1..L /\ j \in 0..L /\ j + 1 = k /\ j \in Int
      BY <1>1, <2>2
    <3> HIDE DEF j
    <3>2. At(c, h, j) \notin Heads /\ r.next[At(c, h, j)] = At(c, h, k)
      BY <1>2, <1>3, <3>1
    <3> QED
      BY <2>2, <3>2 DEF j
  <2>3. CASE k # 1 /\ k - 1 > L
    <3>1. k - 1 \in Int /\ k > L
      BY <1>1, <2>3
    <3>2. At(c, h, k - 1) = h /\ At(c, h, k) = h
      BY <1>2, <2>3, <3>1
    <3> QED
      BY <2>3, <3>2
  <2> QED
    BY <1>1, <2>1, <2>2, <2>3
<1>5. W = [k \in 1..N |-> IF k = 1 THEN r.next[h]
                          ELSE IF W[k - 1] \in Heads THEN W[k - 1] ELSE r.next[W[k - 1]]]
  <2>1. at = [k \in 1..N |-> IF k = 1 THEN r.next[h]
                             ELSE IF at[k - 1] \in Heads THEN at[k - 1] ELSE r.next[at[k - 1]]]
    <3>1. ASSUME NEW k \in 1..N
          PROVE  At(c, h, k) = IF k = 1 THEN r.next[h]
                               ELSE IF at[k - 1] \in Heads THEN at[k - 1] ELSE r.next[at[k - 1]]
      <4>1. k # 1 => at[k - 1] = At(c, h, k - 1)
        BY <1>1
      <4> HIDE DEF at
      <4> QED
        BY <1>4, <4>1
    <3> QED
      BY <3>1
  <2> HIDE DEF at
  <2> QED
    BY <2>1, Zenon DEF Walk, N
<1> HIDE DEF W
<1> DEFINE S == {k \in Nat \ {0} : k <= N => W[k] = At(c, h, k)}
<1>6. 1 \in S
  <2> SUFFICES ASSUME 1 <= N PROVE W[1] = At(c, h, 1)
    OBVIOUS
  <2>1. 1 \in 1..N
    BY <1>1
  <2> QED
    BY <1>4, <1>5, <2>1
<1>7. ASSUME NEW k \in Nat \ {0}, k \in S PROVE k + 1 \in S
  <2> DEFINE m == k + 1
  <2> SUFFICES ASSUME m <= N PROVE W[m] = At(c, h, m)
    OBVIOUS
  <2>1. m \in 1..N /\ m # 1 /\ m - 1 = k /\ W[k] = At(c, h, k)
    BY <1>1, <1>7
  <2> HIDE DEF m
  <2>2. W[m] = IF W[k] \in Heads THEN W[k] ELSE r.next[W[k]]
    BY <1>5, <2>1
  <2>3. At(c, h, m) = IF At(c, h, k) \in Heads THEN At(c, h, k) ELSE r.next[At(c, h, k)]
    BY <1>4, <2>1
  <2> QED
    BY <2>1, <2>2, <2>3
<1> HIDE DEF S
<1>8. \A k \in Nat \ {0} : k \in S
  BY <1>6, <1>7, Induction
<1> QED
  BY <1>1, <1>8 DEF S, W, N

LEMMA ListsContents ==
    ASSUME NEW r, NEW c, Lists(r, c)
    PROVE  ContentsOf(r) = c
<1> SUFFICES ASSUME NEW h \in Heads PROVE Following(r, h) = c[h]
  <2>1. c = [h \in Heads |-> c[h]]
    BY DEF Lists
  <2> QED
    BY <2>1 DEF ContentsOf
<1> DEFINE N == Cardinality(Items)
           L == Len(c[h])
           K == {k \in 0..N : \A j \in 1..k : Walk(r, h)[j] \notin Heads}
           len == Max(K)
<1>1. /\ N \in Nat /\ L \in Nat /\ L <= N /\ c \in [Heads -> Seq(Items)]
      /\ \A k \in 1..L : At(c, h, k) = c[h][k] /\ c[h][k] \notin Heads
      /\ At(c, h, L + 1) = h
  BY NoLonger, ItemOf DEF Lists
<1>2. c[h] = [k \in 1..L |-> c[h][k]]
  <2>1. c[h] \in Seq(Items)
    BY <1>1
  <2> DEFINE s == c[h]
  <2> HIDE DEF s
  <2>2. s = [k \in 1..Len(s) |-> s[k]]
    <3>1. s \in [1..Len(s) -> Items]
      BY <2>1, LenProperties DEF s
    <3> QED
      BY <3>1
  <2> QED
    BY <2>2, Zenon DEF s
<1>3. \A k \in 1..N : Walk(r, h)[k] = At(c, h, k)
  BY WalkIs
<1> HIDE DEF N, L
<1>4. L \in K
  BY <1>1, <1>3
<1>5. ASSUME NEW k \in K PROVE k <= L
  <2> SUFFICES ASSUME k > L PROVE FALSE
    BY <1>1
  <2>1. L + 1 \in 1..k /\ L + 1 \in 1..N
    BY <1>1
  <2> QED
    BY <1>1, <1>3, <2>1
<1>6. K \in SUBSET Int
  OBVIOUS
<1>7. Following(r, h) = [k \in 1..len |-> Walk(r, h)[k]]
  BY Zenon DEF Following, N
<1> HIDE DEF K
<1>8. len = L
  BY <1>4, <1>5, <1>6, MaxIs
<1> HIDE DEF len
<1>9. ASSUME NEW k \in 1..L PROVE Walk(r, h)[k] = c[h][k]
  <2>1. k \in 1..N
    BY <1>1
  <2> QED
    BY <1>1, <1>3, <2>1
<1> QED
  BY <1>2, <1>7, <1>8, <1>9

-----------------------------------------------------------------------------
(* Every step is a step of FifoQueues.                                     *)

LEMMA QueuedInSome ==
    ASSUME NEW c, Contents = c, NEW n
    PROVE  Fifo!Queued(n) <=> InSome(c, n)
BY DEF Fifo!Queued, InSome

LEMMA WithoutFirst ==
    ASSUME NEW s \in Seq(Items), 1 \in 1..Len(s)
    PROVE  Fifo!Without(s, 1) = Tail(s)
<1> DEFINE w == Fifo!Without(s, 1)
<1>1. /\ w \in Seq(Items) /\ Len(w) = Len(s) - 1
      /\ \A k \in 1..(Len(s) - 1) : w[k] = IF k < 1 THEN s[k] ELSE s[k + 1]
  BY WithoutElement
<1>2. s # <<>>
  OBVIOUS
<1>3. /\ Tail(s) \in Seq(Items) /\ Len(Tail(s)) = Len(s) - 1
      /\ \A k \in 1..Len(Tail(s)) : Tail(s)[k] = s[k + 1]
  BY <1>2, HeadTailProperties
<1> HIDE DEF w
<1> DEFINE t == Tail(s)
<1> HIDE DEF t
<1>4. \A k \in 1..Len(w) : w[k] = t[k]
  <2> SUFFICES ASSUME NEW k \in 1..Len(w) PROVE w[k] = t[k]
    OBVIOUS
  <2>1. k \in 1..(Len(s) - 1) /\ ~(k < 1) /\ k \in 1..Len(t)
    BY <1>1, <1>3 DEF t
  <2> QED
    BY <1>1, <1>3, <2>1 DEF t
<1>5. w = t
  BY <1>1, <1>3, <1>4, SeqEqual DEF t
<1> QED
  BY <1>5 DEF w, t

LEMMA InsertStep ==
    ASSUME NEW c, Lists(q, c), NEW h \in Heads, NEW n \in Items, Insert(h, n)
    PROVE  IInv' /\ Fifo!Put(h, n)
<1> DEFINE d == [c EXCEPT ![h] = Append(@, n)]
<1>1. ~InSome(c, n) /\ d \in [Heads -> Seq(Items)] /\ Lists(q', d)
  BY InsertLists DEF Insert
<1>2. Contents = c /\ Contents' = d
  BY <1>1, ListsContents DEF Contents
<1>3. Fifo!Put(h, n)
  BY <1>1, <1>2, QueuedInSome DEF Fifo!Put
<1> QED
  BY <1>1, <1>3 DEF IInv

LEMMA WithdrawStep ==
    ASSUME NEW c, Lists(q, c), NEW h \in Heads, NEW i \in 1..Len(c[h]), q' = QueueUnlink(q, c[h][i])
    PROVE  /\ IInv' /\ Fifo!Withdraw(h, i) /\ i \in 1..Len(Contents[h])
           /\ i = 1 => Fifo!TakeHead(h)
<1> DEFINE d == [c EXCEPT ![h] = Fifo!Without(@, i)]
<1>1. d \in [Heads -> Seq(Items)] /\ Lists(q', d)
  BY UnlinkLists
<1>2. Contents = c /\ Contents' = d
  BY <1>1, ListsContents DEF Contents
<1>3. Fifo!Withdraw(h, i)
  BY <1>2 DEF Fifo!Withdraw
<1>4. ASSUME i = 1 PROVE Fifo!TakeHead(h)
  <2>1. c[h] \in Seq(Items) /\ 1 \in 1..Len(c[h]) /\ c \in [Heads -> Seq(Items)]
    BY <1>4 DEF Lists
  <2>2. Fifo!Without(c[h], i) = Tail(c[h])
    BY <1>4, <2>1, WithoutFirst
  <2>3. c[h] # <<>>
    BY <2>1
  <2>4. d = [c EXCEPT ![h] = Tail(@)]
    BY <2>1, <2>2
  <2> QED
    BY <1>2, <2>3, <2>4 DEF Fifo!TakeHead
<1> QED
  BY <1>1, <1>2, <1>3, <1>4 DEF IInv

LEMMA PopStep ==
    ASSUME NEW c, Lists(q, c), NEW h \in Heads, Pop(h)
    PROVE  IInv' /\ Fifo!TakeHead(h)
<1>1. c \in [Heads -> Seq(Items)] /\ Len(c[h]) \in Nat /\ At(c, h, 0) = h
  BY ItemOf DEF Lists
<1>2. q.next[h] = At(c, h, 1)
  <2>1. 0 \in 0..Len(c[h]) /\ 0 + 1 = 1
    BY <1>1
  <2>2. q.next[At(c, h, 0)] = At(c, h, 0 + 1)
    BY <2>1, Zenon DEF Lists
  <2> QED
    BY <1>1, <2>1, <2>2
<1>3. q.next[h] # h /\ q' = QueueUnlink(q, q.next[h])
  BY DEF Pop, QueueEmpty, QueueHead
<1>4. 1 \in 1..Len(c[h]) /\ At(c, h, 1) = c[h][1]
  BY <1>2, <1>3 DEF At
<1>5. q' = QueueUnlink(q, c[h][1])
  BY <1>2, <1>3, <1>4
<1> QED
  BY <1>4, <1>5, WithdrawStep

LEMMA UnlinkStep ==
    ASSUME NEW c, Lists(q, c), NEW n \in Items, Unlink(n)
    PROVE  IInv' /\ [Fifo!FifoNext]_Contents
<1>1. CASE InSome(c, n)
  <2>1. PICK h \in Heads : \E i \in 1..Len(c[h]) : c[h][i] = n
    BY <1>1 DEF InSome
  <2>2. PICK i \in 1..Len(c[h]) : c[h][i] = n
    BY <2>1
  <2>3. q' = QueueUnlink(q, c[h][i])
    BY <2>2 DEF Unlink
  <2>4. IInv' /\ Fifo!Withdraw(h, i) /\ i \in 1..Len(Contents[h])
    BY <2>3, WithdrawStep
  <2> QED
    BY <2>4 DEF Fifo!FifoNext
<1>2. CASE ~InSome(c, n)
  <2>1. q.next[n] = n /\ q.prev[n] = n /\ q \in QueueHeap(Node)
    BY <1>2 DEF Lists
  <2>2. q' = q
    BY <2>1 DEF Unlink, QueueUnlink, QueueRemove, QueueInit, QueueHeap
  <2>3. c \in [Heads -> Seq(Items)] /\ Lists(q', c) /\ Contents' = Contents
    BY <2>2 DEF Lists, Contents
  <2> QED
    BY <2>3 DEF IInv
<1> QED
  BY <1>1, <1>2

LEMMA NextStep ==
    ASSUME IInv, [Next]_q
    PROVE  /\ IInv' /\ [Fifo!FifoNext]_Contents
           /\ [\A h \in Heads : Pop(h) => Fifo!TakeHead(h)]_q
<1>1. PICK c \in [Heads -> Seq(Items)] : Lists(q, c)
  BY DEF IInv
<1>2. ASSUME NEW h \in Heads, NEW n \in Items, Insert(h, n) PROVE IInv' /\ [Fifo!FifoNext]_Contents
  BY <1>1, <1>2, InsertStep DEF Fifo!FifoNext
<1>3. ASSUME NEW h \in Heads, Pop(h) PROVE IInv' /\ [Fifo!FifoNext]_Contents /\ Fifo!TakeHead(h)
  BY <1>1, <1>3, PopStep DEF Fifo!FifoNext
<1>4. ASSUME NEW n \in Items, Unlink(n) PROVE IInv' /\ [Fifo!FifoNext]_Contents
  BY <1>1, <1>4, UnlinkStep
<1>5. CASE UNCHANGED q
  BY <1>1, <1>5 DEF IInv, Contents
<1> QED
  BY <1>2, <1>3, <1>4, <1>5 DEF Next

LEMMA InitStep == Init => IInv /\ Fifo!FifoInit
<1> SUFFICES ASSUME Init PROVE IInv /\ Fifo!FifoInit
  OBVIOUS
<1> DEFINE c == [h \in Heads |-> <<>>]
<1>1. c \in [Heads -> Seq(Items)] /\ Lists(q, c)
  BY NewLists DEF Init
<1>2. Contents = c
  BY <1>1, ListsContents DEF Contents
<1> QED
  BY <1>1, <1>2 DEF IInv, Fifo!FifoInit

-----------------------------------------------------------------------------
(* The theorems.                                                           *)

\* No list ever leads into the list of another head: whatever the watchers and
\* connections linked and unlinked, uv__queue_head of one list never returns
\* the head of another.
THEOREM ListsStayApart == Spec => [](WellFormed /\ HeadsApart)
<1>1. IInv => WellFormed /\ HeadsApart
  BY ListsWellFormed DEF IInv
<1> QED
  BY <1>1, InitStep, NextStep, PTL DEF Spec

\* next and prev stay inverse in every list of queue.h.
COROLLARY ListsStayWellFormed == Spec => []WellFormed
BY ListsStayApart, PTL

\* The circular lists of queue.h are queues: for any number of lists and nodes, each
\* insertion, removal or pop rewires four pointers so that exactly one sequence changes,
\* at its tail, at one place or at its head.
THEOREM ListsAreQueues == Spec => RefinesFifo
BY InitStep, NextStep, PTL DEF Spec, RefinesFifo, Fifo!FifoSpec
=============================================================================
