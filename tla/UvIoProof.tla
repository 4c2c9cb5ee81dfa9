------------------------------ MODULE UvIoProof ------------------------------
(***************************************************************************)
(* What the operations of include/libuv/queue.h do to a well-formed heap,  *)
(* and what every operation of uv_poll.c keeps true of a loop, for any     *)
(* number of watchers and descriptors: lemmas for the modules that use a   *)
(* loop.                                                                   *)
(***************************************************************************)
EXTENDS UvIo, FiniteSetTheorems, SequenceTheorems, TLAPS

-----------------------------------------------------------------------------
(* The queue.                                                              *)

\* Linking a node that is alone keeps a queue well formed and touches nothing
\* but the node, the head and the last node.
LEMMA InsertTail ==
    ASSUME NEW N, NEW q \in QueueHeap(N), NEW h \in N, NEW n \in N, h # n,
           QueueLinked(q, N), QueueEmpty(q, n)
    PROVE  /\ QueueInsertTail(q, h, n) \in QueueHeap(N)
           /\ QueueLinked(QueueInsertTail(q, h, n), N)
           /\ ~QueueEmpty(QueueInsertTail(q, h, n), n)
           /\ \A m \in N \ {h, n} : QueueEmpty(QueueInsertTail(q, h, n), m) <=> QueueEmpty(q, m)
<1> DEFINE nx == q.next
           pv == q.prev
           r  == QueueInsertTail(q, h, n)
<1>1. nx \in [N -> N] /\ pv \in [N -> N]
  BY DEF QueueHeap
<1>2. /\ r.next = [nx EXCEPT ![n] = h, ![pv[h]] = n]
      /\ r.prev = [pv EXCEPT ![n] = pv[h], ![h] = n]
      /\ r \in QueueHeap(N)
  BY <1>1 DEF QueueInsertTail, QueueHeap
<1>3. \A m \in N : pv[nx[m]] = m /\ nx[pv[m]] = m
  BY DEF QueueLinked
<1>4. nx[n] = n /\ pv[n] = n /\ pv[h] # n
  BY <1>1, <1>3 DEF QueueEmpty
<1>5. ASSUME NEW m \in N PROVE r.prev[r.next[m]] = m /\ r.next[r.prev[m]] = m
  BY <1>1, <1>2, <1>3, <1>4
<1>6. r.next[n] = h
  BY <1>1, <1>2, <1>4
<1>7. ASSUME NEW m \in N \ {h, n} PROVE r.next[m] = m <=> nx[m] = m
  BY <1>1, <1>2, <1>3, <1>4
<1> QED
  BY <1>2, <1>5, <1>6, <1>7 DEF QueueLinked, QueueEmpty

\* Removing and initialising a node leaves it alone, keeps a queue well formed,
\* and links no node that was alone.
LEMMA UnlinkNode ==
    ASSUME NEW N, NEW q \in QueueHeap(N), NEW n \in N, QueueLinked(q, N)
    PROVE  /\ QueueUnlink(q, n) \in QueueHeap(N)
           /\ QueueLinked(QueueUnlink(q, n), N)
           /\ QueueEmpty(QueueUnlink(q, n), n)
           /\ \A m \in N : QueueEmpty(q, m) => QueueEmpty(QueueUnlink(q, n), m)
<1> DEFINE nx == q.next
           pv == q.prev
           r  == QueueUnlink(q, n)
<1>1. nx \in [N -> N] /\ pv \in [N -> N]
  BY DEF QueueHeap
<1>2. /\ r.next = [nx EXCEPT ![pv[n]] = nx[n], ![n] = n]
      /\ r.prev = [pv EXCEPT ![nx[n]] = pv[n], ![n] = n]
      /\ r \in QueueHeap(N)
  BY <1>1 DEF QueueUnlink, QueueRemove, QueueInit, QueueHeap
<1>3. \A m \in N : pv[nx[m]] = m /\ nx[pv[m]] = m
  BY DEF QueueLinked
<1>4. ASSUME NEW m \in N PROVE r.prev[r.next[m]] = m /\ r.next[r.prev[m]] = m
  BY <1>1, <1>2, <1>3
<1>5. r.next[n] = n
  BY <1>1, <1>2
<1>6. ASSUME NEW m \in N, nx[m] = m PROVE r.next[m] = m
  BY <1>1, <1>2, <1>3, <1>6
<1> QED
  BY <1>2, <1>4, <1>5, <1>6 DEF QueueLinked, QueueEmpty

\* Initialising a node that is alone changes nothing.
LEMMA InitAlone ==
    ASSUME NEW N, NEW q \in QueueHeap(N), NEW n \in N, QueueLinked(q, N), QueueEmpty(q, n)
    PROVE  QueueInit(q, n) = q
<1>1. q.next[n] = n /\ q.prev[n] = n
  BY DEF QueueLinked, QueueEmpty
<1> QED
  BY <1>1 DEF QueueInit, QueueHeap
-----------------------------------------------------------------------------
\* Every node that is not alone is in the ring of the head h: no set of other
\* nodes is closed under next, unless its nodes are alone.
OneRing(q, h, N) ==
    \A S \in SUBSET (N \ {h}) : (\A n \in S : q.next[n] \in S /\ q.next[n] # n) => S = {}

\* Linking a node that is alone into the ring of h leaves that one ring.
LEMMA InsertOneRing ==
    ASSUME NEW N, NEW q \in QueueHeap(N), NEW h \in N, NEW n \in N, h # n,
           QueueLinked(q, N), OneRing(q, h, N), QueueEmpty(q, n)
    PROVE  OneRing(QueueInsertTail(q, h, n), h, N)
<1> DEFINE r == QueueInsertTail(q, h, n)
<1>1. q.next \in [N -> N] /\ q.prev \in [N -> N]
  BY DEF QueueHeap
<1>2. r.next = [q.next EXCEPT ![n] = h, ![q.prev[h]] = n]
  BY <1>1 DEF QueueInsertTail
<1>3. q.prev[h] # n
  BY <1>1 DEF QueueLinked, QueueEmpty
<1> SUFFICES ASSUME NEW S \in SUBSET (N \ {h}), \A m \in S : r.next[m] \in S /\ r.next[m] # m
             PROVE  S = {}
  BY DEF OneRing
<1>4. n \notin S
  BY <1>1, <1>2, <1>3
<1>5. q.prev[h] \notin S
  BY <1>1, <1>2, <1>4
<1>6. \A m \in S : q.next[m] = r.next[m]
  BY <1>1, <1>2, <1>4, <1>5
<1> QED
  BY <1>6 DEF OneRing

\* Unlinking a node leaves one ring.
LEMMA UnlinkOneRing ==
    ASSUME NEW N, NEW q \in QueueHeap(N), NEW h \in N, NEW n \in N, h # n,
           QueueLinked(q, N), OneRing(q, h, N)
    PROVE  OneRing(QueueUnlink(q, n), h, N)
<1> DEFINE r == QueueUnlink(q, n)
<1>1. q.next \in [N -> N] /\ q.prev \in [N -> N]
  BY DEF QueueHeap
<1>2. r.next = [q.next EXCEPT ![q.prev[n]] = q.next[n], ![n] = n]
  BY <1>1 DEF QueueUnlink, QueueRemove, QueueInit
<1> SUFFICES ASSUME NEW S \in SUBSET (N \ {h}), \A m \in S : r.next[m] \in S /\ r.next[m] # m
             PROVE  S = {}
  BY DEF OneRing
<1>3. n \notin S
  BY <1>1, <1>2
<1>4. CASE q.prev[n] \notin S
  <2>1. \A m \in S : q.next[m] = r.next[m]
    BY <1>1, <1>2, <1>3, <1>4
  <2> QED
    BY <2>1 DEF OneRing
<1>5. CASE q.prev[n] \in S
  <2> DEFINE T == S \cup {n}
  <2>1. q.next[n] \in S
    BY <1>1, <1>2, <1>3, <1>5
  <2>2. q.next[q.prev[n]] = n
    BY DEF QueueLinked
  <2>3. \A m \in T : q.next[m] \in T /\ q.next[m] # m
    BY <1>1, <1>2, <1>3, <1>5, <2>1, <2>2
  <2>4. T \in SUBSET (N \ {h})
    OBVIOUS
  <2> QED
    BY <2>3, <2>4 DEF OneRing
<1> QED
  BY <1>4, <1>5

\* Unlinking a node makes no other node alone, but the head.
LEMMA UnlinkOthers ==
    ASSUME NEW N, NEW q \in QueueHeap(N), NEW h \in N, NEW n \in N, h # n,
           QueueLinked(q, N), OneRing(q, h, N),
           NEW m \in N, m # h, m # n, QueueEmpty(QueueUnlink(q, n), m)
    PROVE  QueueEmpty(q, m)
<1> DEFINE S == {m, n}
<1>1. q.next \in [N -> N] /\ q.prev \in [N -> N]
  BY DEF QueueHeap
<1>2. QueueUnlink(q, n).next = [q.next EXCEPT ![q.prev[n]] = q.next[n], ![n] = n]
  BY <1>1 DEF QueueUnlink, QueueRemove, QueueInit
<1> SUFFICES ASSUME q.next[m] # m PROVE FALSE
  BY DEF QueueEmpty
<1>3. q.prev[n] = m /\ q.next[n] = m /\ q.next[m] = n
  BY <1>1, <1>2 DEF QueueEmpty, QueueLinked
<1>4. S \in SUBSET (N \ {h}) /\ \A k \in S : q.next[k] \in S /\ q.next[k] # k
  BY <1>3
<1> QED
  BY <1>4 DEF OneRing

\* When the head is alone, so is every node.
LEMMA HeadAlone ==
    ASSUME NEW N, NEW q \in QueueHeap(N), NEW h \in N,
           QueueLinked(q, N), OneRing(q, h, N), QueueEmpty(q, h)
    PROVE  \A n \in N : QueueEmpty(q, n)
<1> DEFINE S == {n \in N \ {h} : q.next[n] # n}
<1>1. q.next \in [N -> N] /\ q.prev \in [N -> N]
  BY DEF QueueHeap
<1>2. \A n \in S : q.next[n] \in S /\ q.next[n] # n
  BY <1>1 DEF QueueLinked, QueueEmpty
<1>3. S = {}
  BY <1>2 DEF OneRing
<1> QED
  BY <1>3 DEF QueueEmpty

\* In a heap of nodes that are all alone there is one ring.
LEMMA NewOneRing ==
    ASSUME NEW N, NEW h \in N
    PROVE  /\ NewQueueHeap(N) \in QueueHeap(N)
           /\ QueueLinked(NewQueueHeap(N), N)
           /\ OneRing(NewQueueHeap(N), h, N)
           /\ \A n \in N : QueueEmpty(NewQueueHeap(N), n)
BY DEF NewQueueHeap, QueueHeap, QueueLinked, OneRing, QueueEmpty

-----------------------------------------------------------------------------
(* The loop.                                                               *)

\* A watcher that is not queued has its entry.
ArmedQueue(l) == ArmedIn(l, {w \in Watcher : QueueEmpty(l.queue, w)})

\* The invariant of a loop between any two operations.
SoundLoop(l) == /\ l \in LoopType
                /\ QueueLinked(l.queue, Watcher \cup {Loop})
                /\ OneRing(l.queue, Loop, Watcher \cup {Loop})
                /\ RegisteredIn(l)
                /\ QueuedActive(l)
                /\ NoDuplicateIn(l)
                /\ ArmedQueue(l)

\* The fields of a loop are functions and sequences of the right kind.
LEMMA LoopFields ==
    ASSUME NEW l \in LoopType
    PROVE  /\ l.watchers \in [Fd -> Watcher \cup {NULL}] /\ l.nfds \in Nat
           /\ l.poll_fds \in Seq(PollFd) /\ l.iterating \in BOOLEAN
           /\ l.queue \in QueueHeap(Watcher \cup {Loop})
           /\ l.fd \in [Watcher -> Fd \cup {NULL}]
           /\ l.pevents \in [Watcher -> SUBSET Events]
BY DEF LoopType

\* The queue of a loop after a watcher was queued unless it was.
LEMMA EnqueueQueue ==
    ASSUME NEW q \in QueueHeap(Watcher \cup {Loop}), NEW w \in Watcher,
           QueueLinked(q, Watcher \cup {Loop}), OneRing(q, Loop, Watcher \cup {Loop})
    PROVE  /\ Enqueue(q, w) \in QueueHeap(Watcher \cup {Loop})
           /\ QueueLinked(Enqueue(q, w), Watcher \cup {Loop})
           /\ OneRing(Enqueue(q, w), Loop, Watcher \cup {Loop})
           /\ ~QueueEmpty(Enqueue(q, w), w)
           /\ \A v \in Watcher : v # w => (QueueEmpty(Enqueue(q, w), v) <=> QueueEmpty(q, v))
<1>1. QueueEmpty(q, w) => OneRing(Enqueue(q, w), Loop, Watcher \cup {Loop})
  BY UvNames, InsertOneRing DEF Enqueue
<1>2. ~QueueEmpty(q, w) => Enqueue(q, w) = q
  BY DEF Enqueue
<1>3. /\ Enqueue(q, w) \in QueueHeap(Watcher \cup {Loop})
      /\ QueueLinked(Enqueue(q, w), Watcher \cup {Loop})
      /\ ~QueueEmpty(Enqueue(q, w), w)
      /\ \A v \in Watcher : v # w => (QueueEmpty(Enqueue(q, w), v) <=> QueueEmpty(q, v))
  BY UvNames, InsertTail DEF Enqueue
<1> QED
  BY <1>1, <1>2, <1>3
-----------------------------------------------------------------------------
\* uv__io_start of a watcher that holds a descriptor no other active watcher holds.
LEMMA StartSound ==
    ASSUME NEW l, SoundLoop(l), NEW w \in Watcher, NEW ev \in SUBSET Events, ev # {},
           l.fd[w] # NULL,
           \A v \in Watcher : ActiveIn(l, v) /\ l.fd[v] = l.fd[w] => v = w
    PROVE  SoundLoop(IoStart(l, w, ev))
<1> DEFINE r == IoStart(l, w, ev)
           f == l.fd[w]
           new == l.watchers[f] = NULL
<1>0. l \in LoopType
  BY DEF SoundLoop
<1>1. /\ l.watchers \in [Fd -> Watcher \cup {NULL}] /\ l.nfds \in Nat
      /\ l.poll_fds \in Seq(PollFd) /\ l.iterating \in BOOLEAN
      /\ l.queue \in QueueHeap(Watcher \cup {Loop})
      /\ l.fd \in [Watcher -> Fd \cup {NULL}]
      /\ l.pevents \in [Watcher -> SUBSET Events]
      /\ f \in Fd
  BY <1>0, LoopFields
<1>2. /\ r.pevents = [l.pevents EXCEPT ![w] = @ \cup ev]
      /\ r.queue = Enqueue(l.queue, w)
      /\ r.watchers = [l.watchers EXCEPT ![f] = IF new THEN w ELSE @]
      /\ r.nfds = IF new THEN l.nfds + 1 ELSE l.nfds
      /\ r.fd = l.fd /\ r.poll_fds = l.poll_fds /\ r.iterating = l.iterating
  BY <1>0 DEF IoStart, LoopType
<1>3. /\ r.queue \in QueueHeap(Watcher \cup {Loop})
      /\ QueueLinked(r.queue, Watcher \cup {Loop})
      /\ OneRing(r.queue, Loop, Watcher \cup {Loop})
      /\ ~QueueEmpty(r.queue, w)
      /\ \A v \in Watcher : v # w => (QueueEmpty(r.queue, v) <=> QueueEmpty(l.queue, v))
  <2>1. /\ QueueLinked(l.queue, Watcher \cup {Loop})
        /\ OneRing(l.queue, Loop, Watcher \cup {Loop})
    BY DEF SoundLoop
  <2>2. r.queue = Enqueue(l.queue, w) /\ l.queue \in QueueHeap(Watcher \cup {Loop})
    BY <1>1, <1>2
  <2> HIDE DEF r
  <2> QED
    <3> DEFINE p == l.queue
    <3>1. /\ p \in QueueHeap(Watcher \cup {Loop}) /\ QueueLinked(p, Watcher \cup {Loop})
          /\ OneRing(p, Loop, Watcher \cup {Loop})
      BY <2>1, <2>2
    <3> HIDE DEF p
    <3>2. /\ Enqueue(p, w) \in QueueHeap(Watcher \cup {Loop})
          /\ QueueLinked(Enqueue(p, w), Watcher \cup {Loop})
          /\ OneRing(Enqueue(p, w), Loop, Watcher \cup {Loop})
          /\ ~QueueEmpty(Enqueue(p, w), w)
          /\ \A v \in Watcher : v # w => (QueueEmpty(Enqueue(p, w), v) <=> QueueEmpty(p, v))
      BY <3>1, EnqueueQueue
    <3> QED
      BY <2>2, <3>2 DEF p
<1>4. r \in LoopType
  <2>1. /\ r.pevents \in [Watcher -> SUBSET Events]
        /\ r.watchers \in [Fd -> Watcher \cup {NULL}]
        /\ r.nfds \in Nat
    BY <1>1, <1>2
  <2>2. DOMAIN r = DOMAIN l /\ r = [x \in DOMAIN l |-> r[x]]
    BY <1>0 DEF IoStart, LoopType
  <2> QED
    BY <1>0, <1>1, <1>2, <1>3, <2>1, <2>2 DEF LoopType
<1>5. ~new => l.watchers[f] = w
  BY <1>1 DEF SoundLoop, RegisteredIn, Watched
<1>6. r.watchers[f] = w /\ \A g \in Fd : g # f => r.watchers[g] = l.watchers[g]
  BY <1>1, <1>2, <1>5
<1>7. /\ ActiveIn(r, w)
      /\ \A v \in Watcher : v # w => (ActiveIn(r, v) <=> ActiveIn(l, v))
      /\ \A v \in Watcher : v # w => r.pevents[v] = l.pevents[v]
  BY <1>1, <1>2 DEF ActiveIn
<1>8. RegisteredIn(r)
  <2>1. r.nfds = Cardinality(Watched(r))
    <3>1. Watched(r) = Watched(l) \cup {f}
      BY <1>1, <1>6, UvNames DEF Watched
    <3>2. IsFiniteSet(Watched(l))
      BY FdsFinite, FS_Subset DEF Watched
    <3>3. new <=> f \notin Watched(l)
      BY <1>1 DEF Watched
    <3>4. l.nfds = Cardinality(Watched(l))
      BY DEF SoundLoop, RegisteredIn
    <3>5. Cardinality(Watched(r)) = IF f \in Watched(l) THEN l.nfds ELSE l.nfds + 1
      BY <3>1, <3>2, <3>4, FS_AddElement
    <3> QED
      BY <1>2, <3>3, <3>5
  <2>2. \A g \in Watched(r) : r.fd[r.watchers[g]] = g /\ ActiveIn(r, r.watchers[g])
    <3> SUFFICES ASSUME NEW g \in Watched(r)
                 PROVE  r.fd[r.watchers[g]] = g /\ ActiveIn(r, r.watchers[g])
      OBVIOUS
    <3>1. CASE g = f
      BY <1>2, <1>6, <1>7, <3>1
    <3>2. CASE g # f
      <4>1. g \in Watched(l) /\ r.watchers[g] = l.watchers[g] /\ l.watchers[g] \in Watcher
        BY <1>1, <1>6, <3>2 DEF Watched
      <4>2. l.fd[l.watchers[g]] = g /\ ActiveIn(l, l.watchers[g])
        BY <4>1 DEF SoundLoop, RegisteredIn
      <4> QED
        BY <1>2, <1>7, <4>1, <4>2
    <3> QED
      BY <3>1, <3>2
  <2>3. \A v \in Watcher : ActiveIn(r, v) => r.fd[v] # NULL /\ r.watchers[r.fd[v]] = v
    BY <1>1, <1>2, <1>6, <1>7 DEF SoundLoop, RegisteredIn
  <2> QED
    BY <2>1, <2>2, <2>3 DEF RegisteredIn
<1>9. QueuedActive(r)
  BY <1>2, <1>3, <1>7 DEF SoundLoop, QueuedActive
<1>10. NoDuplicateIn(r) /\ ArmedQueue(r)
  BY <1>2, <1>3, <1>7 DEF SoundLoop, NoDuplicateIn, ArmedQueue, ArmedIn
<1> QED
  BY <1>3, <1>4, <1>8, <1>9, <1>10 DEF SoundLoop

\* A caller gives an idle watcher a descriptor.
LEMMA OpenSound ==
    ASSUME NEW l, SoundLoop(l), NEW w \in Watcher, NEW f \in Fd, ~ActiveIn(l, w)
    PROVE  /\ SoundLoop(IoOpen(l, w, f))
           /\ IoOpen(l, w, f).fd = [l.fd EXCEPT ![w] = f]
           /\ \A v \in Watcher : ActiveIn(IoOpen(l, w, f), v) <=> ActiveIn(l, v)
<1> DEFINE r == IoOpen(l, w, f)
<1>0. l \in LoopType
  BY DEF SoundLoop
<1>1. QueueEmpty(l.queue, w)
  BY DEF SoundLoop, QueuedActive
<1>2. QueueInit(l.queue, w) = l.queue
  BY <1>0, <1>1, InitAlone, LoopFields DEF SoundLoop
<1>3. r = [l EXCEPT !.fd = [@ EXCEPT ![w] = f]]
  BY <1>0, <1>2 DEF IoOpen, LoopType
<1>4. /\ r.fd = [l.fd EXCEPT ![w] = f] /\ r.pevents = l.pevents /\ r.queue = l.queue
      /\ r.watchers = l.watchers /\ r.nfds = l.nfds /\ r.poll_fds = l.poll_fds
      /\ r \in LoopType
  BY <1>0, <1>3 DEF LoopType
<1>5. \A v \in Watcher : (ActiveIn(r, v) <=> ActiveIn(l, v)) /\ (v # w => r.fd[v] = l.fd[v])
  BY <1>0, <1>4, LoopFields DEF ActiveIn
<1>6. Watched(r) = Watched(l)
  BY <1>4 DEF Watched
<1>7. ASSUME NEW g \in Watched(l) PROVE l.watchers[g] \in Watcher /\ l.watchers[g] # w
  BY <1>0, LoopFields, <1>7 DEF SoundLoop, RegisteredIn, Watched
<1>8. RegisteredIn(r)
  BY <1>4, <1>5, <1>6, <1>7 DEF SoundLoop, RegisteredIn
<1>9. QueuedActive(r) /\ NoDuplicateIn(r) /\ ArmedQueue(r)
  BY <1>4, <1>5 DEF SoundLoop, QueuedActive, NoDuplicateIn, ArmedQueue, ArmedIn
<1> QED
  BY <1>4, <1>5, <1>8, <1>9 DEF SoundLoop
\* uv__io_stop of any watcher.
LEMMA StopSound ==
    ASSUME NEW l, SoundLoop(l), NEW w \in Watcher, NEW ev \in SUBSET Events
    PROVE  SoundLoop(IoStop(l, w, ev))
<1> DEFINE r == IoStop(l, w, ev)
           f == l.fd[w]
           left == l.pevents[w] \ ev
           mine == l.watchers[f] = w
<1>0. l \in LoopType
  BY DEF SoundLoop
<1>1. /\ l.watchers \in [Fd -> Watcher \cup {NULL}] /\ l.nfds \in Nat
      /\ l.poll_fds \in Seq(PollFd) /\ l.iterating \in BOOLEAN
      /\ l.queue \in QueueHeap(Watcher \cup {Loop})
      /\ l.fd \in [Watcher -> Fd \cup {NULL}]
      /\ l.pevents \in [Watcher -> SUBSET Events]
  BY <1>0, LoopFields
<1>2. QueueLinked(l.queue, Watcher \cup {Loop}) /\ OneRing(l.queue, Loop, Watcher \cup {Loop})
  BY DEF SoundLoop
<1>3. CASE f = NULL
  BY <1>3 DEF IoStop
<1>4. CASE f # NULL /\ left # {}
  <2>1. /\ r.pevents = [l.pevents EXCEPT ![w] = left]
        /\ r.queue = Enqueue(l.queue, w)
        /\ r.watchers = l.watchers /\ r.nfds = l.nfds /\ r.fd = l.fd
        /\ r.poll_fds = l.poll_fds /\ r.iterating = l.iterating
        /\ DOMAIN r = DOMAIN l /\ r = [x \in DOMAIN l |-> r[x]]
    BY <1>0, <1>4 DEF IoStop, LoopType
  <2>2. r.queue = Enqueue(l.queue, w) /\ l.queue \in QueueHeap(Watcher \cup {Loop})
    BY <1>1, <2>1
  <2> HIDE DEF r
  <2>3. /\ r.queue \in QueueHeap(Watcher \cup {Loop})
        /\ QueueLinked(r.queue, Watcher \cup {Loop})
        /\ OneRing(r.queue, Loop, Watcher \cup {Loop})
        /\ ~QueueEmpty(r.queue, w)
        /\ \A v \in Watcher : v # w => (QueueEmpty(r.queue, v) <=> QueueEmpty(l.queue, v))
    <3> DEFINE p == l.queue
    <3>1. /\ p \in QueueHeap(Watcher \cup {Loop}) /\ QueueLinked(p, Watcher \cup {Loop})
          /\ OneRing(p, Loop, Watcher \cup {Loop})
      BY <1>2, <2>2
    <3> HIDE DEF p
    <3>2. /\ Enqueue(p, w) \in QueueHeap(Watcher \cup {Loop})
          /\ QueueLinked(Enqueue(p, w), Watcher \cup {Loop})
          /\ OneRing(Enqueue(p, w), Loop, Watcher \cup {Loop})
          /\ ~QueueEmpty(Enqueue(p, w), w)
          /\ \A v \in Watcher : v # w => (QueueEmpty(Enqueue(p, w), v) <=> QueueEmpty(p, v))
      BY <3>1, EnqueueQueue
    <3> QED
      BY <2>2, <3>2 DEF p
  <2>4. r \in LoopType
    BY <1>0, <1>1, <2>1, <2>3 DEF LoopType
  <2>5. /\ ActiveIn(r, w) /\ ActiveIn(l, w)
        /\ \A v \in Watcher : v # w => r.pevents[v] = l.pevents[v]
        /\ \A v \in Watcher : ActiveIn(r, v) <=> ActiveIn(l, v)
    BY <1>1, <1>4, <2>1 DEF ActiveIn
  <2>6. RegisteredIn(r)
    <3>1. Watched(r) = Watched(l)
      BY <2>1 DEF Watched
    <3>2. ASSUME NEW g \in Watched(l) PROVE l.watchers[g] \in Watcher
      BY <1>1, <3>2 DEF Watched
    <3> QED
      BY <2>1, <2>5, <3>1, <3>2 DEF SoundLoop, RegisteredIn
  <2>7. QueuedActive(r) /\ NoDuplicateIn(r) /\ ArmedQueue(r)
    BY <1>4, <2>1, <2>3, <2>5 DEF SoundLoop, QueuedActive, NoDuplicateIn, ArmedQueue, ArmedIn
  <2> QED
    BY <2>3, <2>4, <2>6, <2>7 DEF SoundLoop, r
<1>5. CASE f # NULL /\ left = {}
  <2>1. /\ r.pevents = [l.pevents EXCEPT ![w] = {}]
        /\ r.queue = QueueUnlink(l.queue, w)
        /\ r.watchers = [l.watchers EXCEPT ![f] = IF mine THEN NULL ELSE @]
        /\ r.nfds = IF mine THEN l.nfds - 1 ELSE l.nfds
        /\ r.fd = l.fd /\ r.poll_fds = l.poll_fds /\ r.iterating = l.iterating
        /\ DOMAIN r = DOMAIN l /\ r = [x \in DOMAIN l |-> r[x]]
    BY <1>0, <1>5 DEF IoStop, LoopType
  <2>2. /\ r.queue = QueueUnlink(l.queue, w) /\ w \in Watcher \cup {Loop}
        /\ l.queue \in QueueHeap(Watcher \cup {Loop})
    BY <1>1, <2>1
  <2> HIDE DEF r
  <2>3. /\ r.queue \in QueueHeap(Watcher \cup {Loop})
        /\ QueueLinked(r.queue, Watcher \cup {Loop})
        /\ QueueEmpty(r.queue, w)
        /\ \A v \in Watcher : QueueEmpty(l.queue, v) => QueueEmpty(r.queue, v)
    BY <1>2, <2>2, UnlinkNode
  <2>4. OneRing(r.queue, Loop, Watcher \cup {Loop})
    BY <1>2, <2>2, UvNames, UnlinkOneRing
  <2>5. \A v \in Watcher : v # w => (QueueEmpty(r.queue, v) => QueueEmpty(l.queue, v))
    <3> SUFFICES ASSUME NEW v \in Watcher, v # w, QueueEmpty(r.queue, v)
                 PROVE  QueueEmpty(l.queue, v)
      OBVIOUS
    <3>1. /\ Loop \in Watcher \cup {Loop} /\ v \in Watcher \cup {Loop}
          /\ v # Loop /\ Loop # w /\ QueueEmpty(QueueUnlink(l.queue, w), v)
      BY <2>2, UvNames
    <3> QED
      BY <1>2, <2>2, <3>1, UnlinkOthers
  <2>6. ~ActiveIn(r, w) /\ \A v \in Watcher : v # w => (ActiveIn(r, v) <=> ActiveIn(l, v))
    BY <1>1, <2>1 DEF ActiveIn
  <2>7. \A v \in Watcher : v # w => r.pevents[v] = l.pevents[v]
    BY <1>1, <2>1
  <2>8. /\ f \in Fd
        /\ r.watchers[f] = IF mine THEN NULL ELSE l.watchers[f]
        /\ \A g \in Fd : g # f => r.watchers[g] = l.watchers[g]
    BY <1>1, <1>5, <2>1
  <2>9. mine => Watched(r) = Watched(l) \ {f} /\ f \in Watched(l)
    BY <2>8, UvNames DEF Watched
  <2>10. ~mine => Watched(r) = Watched(l)
    BY <2>8 DEF Watched
  <2>11. r.nfds = Cardinality(Watched(r)) /\ r.nfds \in Nat
    <3>1. IsFiniteSet(Watched(l))
      BY FdsFinite, FS_Subset DEF Watched
    <3>2. l.nfds = Cardinality(Watched(l))
      BY DEF SoundLoop, RegisteredIn
    <3>3. CASE mine
      <4>1. Cardinality(Watched(r)) = l.nfds - 1 /\ IsFiniteSet(Watched(r))
        BY <2>9, <3>1, <3>2, <3>3, FS_RemoveElement
      <4> QED
        BY <2>1, <3>3, <4>1, FS_CardinalityType
    <3>4. CASE ~mine
      BY <1>1, <2>1, <2>10, <3>2, <3>4
    <3> QED
      BY <3>3, <3>4
  <2>12. r \in LoopType
    <3>1. /\ r.pevents \in [Watcher -> SUBSET Events]
          /\ r.watchers \in [Fd -> Watcher \cup {NULL}]
      BY <1>1, <2>1
    <3> QED
      BY <1>0, <1>1, <2>1, <2>3, <2>11, <3>1 DEF LoopType
  <2>13. RegisteredIn(r)
    <3>1. ASSUME NEW g \in Watched(r)
          PROVE  r.fd[r.watchers[g]] = g /\ ActiveIn(r, r.watchers[g])
      <4>1. g \in Watched(l) /\ r.watchers[g] = l.watchers[g] /\ l.watchers[g] \in Watcher
        BY <1>1, <2>8, <3>1 DEF Watched
      <4>2. l.fd[l.watchers[g]] = g /\ ActiveIn(l, l.watchers[g])
        BY <4>1 DEF SoundLoop, RegisteredIn
      <4>3. l.watchers[g] # w
        BY <2>8, <3>1, <4>1, <4>2 DEF Watched
      <4> QED
        BY <2>1, <2>6, <4>1, <4>2, <4>3
    <3>2. ASSUME NEW v \in Watcher, ActiveIn(r, v)
          PROVE  r.fd[v] # NULL /\ r.watchers[r.fd[v]] = v
      <4>1. v # w /\ ActiveIn(l, v)
        BY <2>6, <3>2
      <4>2. l.fd[v] # NULL /\ l.watchers[l.fd[v]] = v /\ l.fd[v] \in Fd
        BY <1>1, <4>1 DEF SoundLoop, RegisteredIn
      <4> QED
        BY <2>1, <2>8, <4>1, <4>2
    <3> QED
      BY <2>11, <3>1, <3>2 DEF RegisteredIn
  <2>14. QueuedActive(r)
    BY <2>1, <2>3, <2>5, <2>6 DEF SoundLoop, QueuedActive
  <2>15. NoDuplicateIn(r) /\ ArmedQueue(r)
    BY <2>1, <2>3, <2>5, <2>6, <2>7 DEF SoundLoop, NoDuplicateIn, ArmedQueue, ArmedIn
  <2> QED
    BY <2>3, <2>4, <2>12, <2>13, <2>14, <2>15 DEF SoundLoop, r
<1> QED
  BY <1>3, <1>4, <1>5
-----------------------------------------------------------------------------
\* The loop isere_httpd_init makes.
LEMMA InitSound == SoundLoop(LoopInit)
<1>1. /\ LoopInit.queue \in QueueHeap(Watcher \cup {Loop})
      /\ QueueLinked(LoopInit.queue, Watcher \cup {Loop})
      /\ OneRing(LoopInit.queue, Loop, Watcher \cup {Loop})
      /\ \A w \in Watcher : QueueEmpty(LoopInit.queue, w)
  BY NewOneRing DEF LoopInit
<1>2. LoopInit \in LoopType
  BY <1>1 DEF LoopInit, LoopType, PollFd
<1>3. Watched(LoopInit) = {} /\ \A w \in Watcher : ~ActiveIn(LoopInit, w)
  BY DEF Watched, LoopInit, ActiveIn
<1>4. RegisteredIn(LoopInit)
  BY <1>3, FS_EmptySet DEF RegisteredIn, LoopInit
<1>5. QueuedActive(LoopInit)
  BY <1>1 DEF QueuedActive
<1>6. NoDuplicateIn(LoopInit)
  BY DEF NoDuplicateIn, LoopInit
<1>7. ArmedQueue(LoopInit)
  BY <1>3 DEF ArmedQueue, ArmedIn
<1> QED
  BY <1>1, <1>2, <1>4, <1>5, <1>6, <1>7 DEF SoundLoop

\* A change of poll_fds and of the iterating flag that keeps the entries of the
\* watched descriptors.
LEMMA EntriesSound ==
    ASSUME NEW l, SoundLoop(l), NEW p \in Seq(PollFd), NEW it \in BOOLEAN,
           DOMAIN p = DOMAIN l.poll_fds,
           \A j \in DOMAIN p : \/ p[j].fd = NULL
                               \/ /\ p[j].fd = l.poll_fds[j].fd
                                  /\ p[j].events = l.poll_fds[j].events,
           \A j \in DOMAIN p : l.poll_fds[j].fd \in Watched(l) => p[j].fd # NULL
    PROVE  SoundLoop([l EXCEPT !.poll_fds = p, !.iterating = it])
<1> DEFINE r == [l EXCEPT !.poll_fds = p, !.iterating = it]
<1>1. l \in LoopType
  BY DEF SoundLoop
<1>2. /\ r \in LoopType
      /\ r.watchers = l.watchers /\ r.nfds = l.nfds /\ r.queue = l.queue
      /\ r.fd = l.fd /\ r.pevents = l.pevents /\ r.poll_fds = p
  BY <1>1 DEF LoopType
<1> HIDE DEF r
<1>3. RegisteredIn(r) /\ QueuedActive(r)
  BY <1>2 DEF SoundLoop, RegisteredIn, QueuedActive, Watched, ActiveIn
<1>4. NoDuplicateIn(r)
  BY <1>2 DEF SoundLoop, NoDuplicateIn
<1>5. ArmedQueue(r)
  <2> SUFFICES ASSUME NEW w \in Watcher, QueueEmpty(l.queue, w), ActiveIn(l, w)
               PROVE  \E j \in DOMAIN p : p[j].fd = l.fd[w] /\ p[j].events = l.pevents[w]
    BY <1>2 DEF ArmedQueue, ArmedIn, ActiveIn
  <2>1. PICK j \in DOMAIN l.poll_fds : /\ l.poll_fds[j].fd = l.fd[w]
                                       /\ l.poll_fds[j].events = l.pevents[w]
    BY DEF SoundLoop, ArmedQueue, ArmedIn
  <2>2. l.fd[w] \in Watched(l)
    BY <1>1, LoopFields, UvNames DEF SoundLoop, RegisteredIn, Watched
  <2> QED
    BY <2>1, <2>2
<1> QED
  BY <1>2, <1>3, <1>4, <1>5 DEF SoundLoop, r

\* poll() returned.
LEMMA PolledSound ==
    ASSUME NEW l, SoundLoop(l), NEW re \in [Fd -> SUBSET (Events \cup Faults)]
    PROVE  SoundLoop(Polled(l, re)) /\ Polled(l, re).iterating = TRUE
<1> DEFINE reported(e) == IF e.fd = NULL THEN {} ELSE re[e.fd] \cap (e.events \cup Faults)
           p == [j \in DOMAIN l.poll_fds |->
                   [l.poll_fds[j] EXCEPT !.revents = reported(l.poll_fds[j])]]
<1>1. l \in LoopType /\ l.poll_fds \in Seq(PollFd)
  BY LoopFields DEF SoundLoop
<1>2. ASSUME NEW e \in PollFd PROVE [e EXCEPT !.revents = reported(e)] \in PollFd
  BY DEF PollFd
<1>3. p \in Seq(PollFd) /\ DOMAIN p = DOMAIN l.poll_fds
  <2>1. PICK n \in Nat : DOMAIN l.poll_fds = 1 .. n
    BY <1>1
  <2>2. \A j \in 1 .. n : p[j] \in PollFd
    BY <1>1, <1>2, <2>1
  <2> QED
    BY <2>1, <2>2, SeqDef
<1>4. ASSUME NEW j \in DOMAIN p
      PROVE  p[j].fd = l.poll_fds[j].fd /\ p[j].events = l.poll_fds[j].events
  <2>1. l.poll_fds[j] \in PollFd
    BY <1>1, <1>4
  <2> QED
    BY <1>4, <2>1 DEF PollFd
<1>5. \A j \in DOMAIN p : l.poll_fds[j].fd \in Watched(l) => p[j].fd # NULL
  BY <1>4, UvNames DEF Watched
<1>6. Polled(l, re) = [l EXCEPT !.poll_fds = p, !.iterating = TRUE]
  BY <1>1 DEF Polled, LoopType
<1> HIDE DEF p
<1>7. SoundLoop([l EXCEPT !.poll_fds = p, !.iterating = TRUE])
  BY <1>3, <1>4, <1>5, EntriesSound
<1> QED
  BY <1>1, <1>6, <1>7 DEF LoopType

\* uv__io_poll invalidates a descriptor without a watcher.
LEMMA InvalidateSound ==
    ASSUME NEW l, SoundLoop(l), NEW f \in Fd, l.watchers[f] = NULL
    PROVE  SoundLoop(InvalidateFd(l, f)) /\ InvalidateFd(l, f).iterating = l.iterating
<1> DEFINE p == [j \in DOMAIN l.poll_fds |->
                   IF l.poll_fds[j].fd = f THEN Invalid ELSE l.poll_fds[j]]
<1>1. l \in LoopType /\ l.poll_fds \in Seq(PollFd) /\ l.iterating \in BOOLEAN
  BY LoopFields DEF SoundLoop
<1>2. p \in Seq(PollFd) /\ DOMAIN p = DOMAIN l.poll_fds
  <2>1. PICK n \in Nat : DOMAIN l.poll_fds = 1 .. n
    BY <1>1
  <2>2. Invalid \in PollFd
    BY DEF Invalid, PollFd
  <2>3. \A j \in 1 .. n : p[j] \in PollFd
    BY <1>1, <2>1, <2>2
  <2> QED
    BY <2>1, <2>3, SeqDef
<1>3. /\ \A j \in DOMAIN p : \/ p[j].fd = NULL
                             \/ /\ p[j].fd = l.poll_fds[j].fd
                                /\ p[j].events = l.poll_fds[j].events
      /\ \A j \in DOMAIN p : l.poll_fds[j].fd \in Watched(l) => p[j].fd # NULL
  BY UvNames DEF Invalid, Watched
<1>4. InvalidateFd(l, f) = [l EXCEPT !.poll_fds = p, !.iterating = l.iterating]
  BY <1>1 DEF InvalidateFd, LoopType
<1> HIDE DEF p
<1>5. SoundLoop([l EXCEPT !.poll_fds = p, !.iterating = l.iterating])
  BY <1>1, <1>2, <1>3, EntriesSound
<1> QED
  BY <1>1, <1>4, <1>5 DEF LoopType

\* uv__pollfds_add while no descriptor is iterated: its entries, and what they ask for.
LEMMA AddEntry ==
    ASSUME NEW l \in LoopType, NEW w \in Watcher, l.fd[w] \in Fd, ~l.iterating,
           NoDuplicateIn(l)
    PROVE  /\ PollfdsAdd(l, w) = [l EXCEPT !.poll_fds = PollfdsAdd(l, w).poll_fds]
           /\ PollfdsAdd(l, w).poll_fds \in Seq(PollFd)
           /\ NoDuplicateIn(PollfdsAdd(l, w))
           /\ \E j \in DOMAIN PollfdsAdd(l, w).poll_fds :
                 /\ PollfdsAdd(l, w).poll_fds[j].fd = l.fd[w]
                 /\ PollfdsAdd(l, w).poll_fds[j].events = l.pevents[w]
           /\ \A j \in DOMAIN l.poll_fds : l.poll_fds[j].fd # l.fd[w] =>
                 /\ j \in DOMAIN PollfdsAdd(l, w).poll_fds
                 /\ PollfdsAdd(l, w).poll_fds[j] = l.poll_fds[j]
<1> DEFINE f == l.fd[w]
           known == \E j \in DOMAIN l.poll_fds : l.poll_fds[j].fd = f
           changed == [j \in DOMAIN l.poll_fds |->
                         IF l.poll_fds[j].fd = f
                         THEN [l.poll_fds[j] EXCEPT !.events = l.pevents[w]]
                         ELSE l.poll_fds[j]]
           e == [fd |-> f, events |-> l.pevents[w], revents |-> {}]
           r == PollfdsAdd(l, w)
<1>1. l.poll_fds \in Seq(PollFd) /\ l.pevents[w] \in SUBSET Events
  BY LoopFields
<1>2. CASE known
  <2>1. r = [l EXCEPT !.poll_fds = changed]
    BY <1>2 DEF PollfdsAdd, LoopType
  <2>2. r.poll_fds = changed /\ DOMAIN changed = DOMAIN l.poll_fds
    BY <2>1 DEF LoopType
  <2>3. PICK n \in Nat : DOMAIN l.poll_fds = 1 .. n
    BY <1>1
  <2>4. ASSUME NEW j \in 1 .. n
        PROVE  /\ changed[j] \in PollFd
               /\ changed[j].fd = l.poll_fds[j].fd
               /\ l.poll_fds[j].fd = f => changed[j].events = l.pevents[w]
               /\ l.poll_fds[j].fd # f => changed[j] = l.poll_fds[j]
    <3>1. l.poll_fds[j] \in PollFd
      BY <1>1, <2>3
    <3> QED
      BY <1>1, <2>3, <3>1 DEF PollFd
  <2>5. changed \in Seq(PollFd)
    <3>1. \A j \in 1 .. n : changed[j] \in PollFd
      BY <2>4
    <3>2. changed \in [1 .. n -> PollFd]
      <4>1. changed = [j \in 1 .. n |-> changed[j]]
        BY <2>3
      <4> HIDE DEF changed
      <4> QED
        BY <3>1, <4>1
    <3> HIDE DEF changed
    <3> QED
      BY <3>2, SeqDef
  <2> HIDE DEF changed, r
  <2>6. NoDuplicateIn(r)
    BY <2>2, <2>3, <2>4 DEF NoDuplicateIn
  <2>7. \E j \in DOMAIN r.poll_fds : r.poll_fds[j].fd = f /\ r.poll_fds[j].events = l.pevents[w]
    BY <1>2, <2>2, <2>3, <2>4
  <2>8. r = [l EXCEPT !.poll_fds = r.poll_fds]
    BY <2>1, <2>2
  <2>9. \A j \in DOMAIN l.poll_fds : l.poll_fds[j].fd # f =>
           j \in DOMAIN r.poll_fds /\ r.poll_fds[j] = l.poll_fds[j]
    BY <2>2, <2>3, <2>4
  <2> QED
    BY <2>2, <2>5, <2>6, <2>7, <2>8, <2>9 DEF r
<1>3. CASE ~known
  <2>1. r = [l EXCEPT !.poll_fds = Append(l.poll_fds, e)]
    BY <1>3 DEF PollfdsAdd, LoopType
  <2>2. r.poll_fds = Append(l.poll_fds, e) /\ r = [l EXCEPT !.poll_fds = r.poll_fds]
    BY <2>1 DEF LoopType
  <2>3. e \in PollFd
    BY <1>1 DEF PollFd
  <2>4. /\ Append(l.poll_fds, e) \in Seq(PollFd)
        /\ DOMAIN Append(l.poll_fds, e) = 1 .. Len(l.poll_fds) + 1
        /\ DOMAIN l.poll_fds = 1 .. Len(l.poll_fds) /\ Len(l.poll_fds) \in Nat
        /\ \A j \in 1 .. Len(l.poll_fds) : Append(l.poll_fds, e)[j] = l.poll_fds[j]
        /\ Append(l.poll_fds, e)[Len(l.poll_fds) + 1] = e
    BY <1>1, <2>3
  <2>5. e.fd = f /\ e.events = l.pevents[w]
    OBVIOUS
  <2> HIDE DEF r, e
  <2>6. NoDuplicateIn(r)
    BY <1>3, <2>2, <2>4, <2>5 DEF NoDuplicateIn
  <2>7. \E j \in DOMAIN r.poll_fds : r.poll_fds[j].fd = f /\ r.poll_fds[j].events = l.pevents[w]
    BY <2>2, <2>4, <2>5
  <2>8. \A j \in DOMAIN l.poll_fds :
           j \in DOMAIN r.poll_fds /\ r.poll_fds[j] = l.poll_fds[j]
    BY <2>2, <2>4
  <2> QED
    BY <2>2, <2>4, <2>6, <2>7, <2>8 DEF r
<1> QED
  BY <1>2, <1>3

\* The first watcher of a queue that is not empty: a queued watcher.
LEMMA HeadQueued ==
    ASSUME NEW l, SoundLoop(l), ~QueueEmpty(l.queue, Loop)
    PROVE  /\ QueueHead(l.queue, Loop) \in Watcher
           /\ ~QueueEmpty(l.queue, QueueHead(l.queue, Loop))
BY LoopFields DEF SoundLoop, QueueHead, QueueEmpty, QueueLinked, QueueHeap

\* uv__io_poll takes one watcher from the queue.
LEMMA TakeSound ==
    ASSUME NEW l, SoundLoop(l), ~l.iterating, ~QueueEmpty(l.queue, Loop)
    PROVE  SoundLoop(TakeQueued(l)) /\ ~TakeQueued(l).iterating
<1> DEFINE w == QueueHead(l.queue, Loop)
           m == [l EXCEPT !.queue = QueueUnlink(l.queue, w)]
           r == PollfdsAdd(m, w)
<1>0. l \in LoopType /\ l.queue \in QueueHeap(Watcher \cup {Loop})
  BY LoopFields DEF SoundLoop
<1>1. w \in Watcher /\ ~QueueEmpty(l.queue, w)
  BY HeadQueued
<1> HIDE DEF w
<1>2. ActiveIn(l, w) /\ l.fd[w] # NULL /\ l.fd[w] \in Fd
  BY <1>0, <1>1, LoopFields DEF SoundLoop, QueuedActive
<1>3. /\ QueueUnlink(l.queue, w) \in QueueHeap(Watcher \cup {Loop})
      /\ QueueLinked(QueueUnlink(l.queue, w), Watcher \cup {Loop})
      /\ OneRing(QueueUnlink(l.queue, w), Loop, Watcher \cup {Loop})
  BY <1>0, <1>1, UvNames, UnlinkNode, UnlinkOneRing DEF SoundLoop
<1>4. \A v \in Watcher : v # w =>
         (QueueEmpty(QueueUnlink(l.queue, w), v) => QueueEmpty(l.queue, v))
  <2> SUFFICES ASSUME NEW v \in Watcher, v # w, QueueEmpty(QueueUnlink(l.queue, w), v)
               PROVE  QueueEmpty(l.queue, v)
    OBVIOUS
  <2>1. /\ Loop \in Watcher \cup {Loop} /\ v \in Watcher \cup {Loop}
        /\ w \in Watcher \cup {Loop} /\ v # Loop /\ Loop # w
    BY <1>1, UvNames
  <2>2. QueueLinked(l.queue, Watcher \cup {Loop}) /\ OneRing(l.queue, Loop, Watcher \cup {Loop})
    BY DEF SoundLoop
  <2> QED
    BY <1>0, <2>1, <2>2, UnlinkOthers
<1>5. \A v \in Watcher : QueueEmpty(l.queue, v) => QueueEmpty(QueueUnlink(l.queue, w), v)
  BY <1>0, <1>1, UnlinkNode DEF SoundLoop
<1>6. /\ m \in LoopType /\ m.queue = QueueUnlink(l.queue, w)
      /\ m.watchers = l.watchers /\ m.nfds = l.nfds /\ m.poll_fds = l.poll_fds
      /\ m.iterating = l.iterating /\ m.fd = l.fd /\ m.pevents = l.pevents
  BY <1>0, <1>3 DEF LoopType
<1> HIDE DEF m
<1>7. NoDuplicateIn(m)
  BY <1>6 DEF SoundLoop, NoDuplicateIn
<1>8. /\ r = [m EXCEPT !.poll_fds = r.poll_fds]
      /\ r.poll_fds \in Seq(PollFd)
      /\ NoDuplicateIn(r)
      /\ \E j \in DOMAIN r.poll_fds : /\ r.poll_fds[j].fd = l.fd[w]
                                      /\ r.poll_fds[j].events = l.pevents[w]
      /\ \A j \in DOMAIN l.poll_fds : l.poll_fds[j].fd # l.fd[w] =>
            j \in DOMAIN r.poll_fds /\ r.poll_fds[j] = l.poll_fds[j]
  <2>1. m \in LoopType /\ m.fd[w] \in Fd /\ ~m.iterating
    BY <1>2, <1>6
  <2> QED
    BY <1>1, <1>6, <1>7, <2>1, AddEntry
<1> HIDE DEF r
<1>9. /\ r \in LoopType /\ r.queue = QueueUnlink(l.queue, w)
      /\ r.watchers = l.watchers /\ r.nfds = l.nfds
      /\ r.iterating = l.iterating /\ r.fd = l.fd /\ r.pevents = l.pevents
  BY <1>6, <1>8 DEF LoopType
<1>10. RegisteredIn(r)
  BY <1>9 DEF SoundLoop, RegisteredIn, Watched, ActiveIn
<1>11. QueuedActive(r)
  BY <1>5, <1>9 DEF SoundLoop, QueuedActive, ActiveIn
<1>12. ArmedQueue(r)
  <2> SUFFICES ASSUME NEW v \in Watcher, QueueEmpty(r.queue, v), ActiveIn(l, v)
               PROVE  \E j \in DOMAIN r.poll_fds : /\ r.poll_fds[j].fd = l.fd[v]
                                                   /\ r.poll_fds[j].events = l.pevents[v]
    BY <1>9 DEF ArmedQueue, ArmedIn, ActiveIn
  <2>1. CASE v = w
    BY <1>8, <2>1
  <2>2. CASE v # w
    <3>1. QueueEmpty(l.queue, v)
      BY <1>4, <1>9, <2>2
    <3>2. PICK j \in DOMAIN l.poll_fds : /\ l.poll_fds[j].fd = l.fd[v]
                                         /\ l.poll_fds[j].events = l.pevents[v]
      BY <3>1 DEF SoundLoop, ArmedQueue, ArmedIn
    <3>3. l.fd[v] # l.fd[w]
      BY <1>1, <1>2, <2>2 DEF SoundLoop, RegisteredIn
    <3> QED
      BY <1>8, <3>2, <3>3
  <2> QED
    BY <2>1, <2>2
<1>13. SoundLoop(r) /\ ~r.iterating
  BY <1>3, <1>8, <1>9, <1>10, <1>11, <1>12 DEF SoundLoop
<1>14. TakeQueued(l) = r
  BY DEF TakeQueued, r, m, w
<1> QED
  BY <1>13, <1>14
=============================================================================
