------------------------------ MODULE HttpdProof ------------------------------
(***************************************************************************)
(* The web server for any number of clients, descriptors and connections,  *)
(* by the inductive invariant IInv, where a request for the handler is the *)
(* only message of its chunk. Its part about the loop is SoundLoop of      *)
(* UvIoProof. Its part about js_queue says that the list is one ring       *)
(* through the connections that are not freed: __httpd_cleanup_conn        *)
(* removes a node and frees it with its pointers as they were, so the heap *)
(* as a whole is not well formed, but what can be reached is. The rest     *)
(* ties the state of each connection to its socket, its watcher and its    *)
(* node, also where the parser is still in a connection that was freed,    *)
(* and the counter to the closes of the server and of the exporter.        *)
(***************************************************************************)
EXTENDS Httpd, UvIoProof

Idle == {"main", "boot", "exit"}
JsSteps == {"timers", "job", "decide"}

\* A request for the handler is the only message of its chunk. (What is malformed may be
\* behind it, and any number of requests that are not found behind one another.)
OneMessage(s) == \A j, k \in DOMAIN s : j # k /\ s[j] = "request" => s[k] = "bad"
OneRequestEach == \A s \in Chunks : OneMessage(s)

LoopOK ==
    /\ SoundLoop(loop) /\ (loop.iterating <=> pc \in {"iter", "parse"})
    /\ \A w \in Watcher : loop.pevents[w] \subseteq {"IN"}

\* The listening socket.
ServerOK ==
    /\ pc \in Idle => (\A f \in Fd : file[f] = NULL) /\ ~ActiveIn(loop, Server)
    /\ pc \notin Idle => /\ file[ServerFd] = Server /\ loop.fd[Server] = ServerFd
                         /\ ActiveIn(loop, Server)
    /\ \A f \in Fd : file[f] = Server => f = ServerFd

\* A connection, its client and its watcher.
ConnOK(c) ==
    /\ conn[c].mem = "none" => net[c].state \in {"new", "backlog", "closed"}
    /\ conn[c].mem = "freed" => net[c].state = "closed"
    /\ Live(c) => net[c].state = "open" /\ loop.fd[c] \in Fd /\ file[loop.fd[c]] = c
    /\ conn[c].initialized => Live(c)
    /\ ActiveIn(loop, c) <=> Live(c) /\ ~conn[c].initialized
    /\ conn[c].mem # "freed" => answers[c] = <<>>

FilesOK == \A f \in Fd : file[f] \in Conn => Live(file[f]) /\ loop.fd[file[f]] = f

Accepted == {f \in Fd : file[f] \in Conn}

\* The counter on Linux, modulo CountMod, unless a race has lost a count.
Balanced(n, u, a) == \E k \in Nat : n + u = a + k * CountMod
CountOK ==
    port = "linux" /\ ~raced =>
        /\ Balanced(numConns, uncounted, Cardinality(Accepted))
        /\ Cardinality(Accepted) <= MaxConns + uncounted
        /\ loaded # NULL => loaded = (numConns + CountMod - 1) % CountMod

\* js_queue goes through connections that are not freed.
Ring(q, h, N) == /\ \A n \in N : q.next[n] \in N /\ q.prev[n] \in N
                 /\ QueueLinked(q, N) /\ OneRing(q, h, N)

Kept == {c \in Conn : conn[c].mem # "freed"}
QueueOK ==
    /\ Ring(js_queue, JsQueue, Kept \cup {JsQueue})
    /\ \A c \in Kept : Linked(c) <=> conn[c].initialized /\ ~InHand(c)

\* What the task is at.
TurnOK ==
    /\ IF pc \in {"parse"} \cup JsSteps THEN cur \in Conn ELSE cur = NULL
    /\ pc \in JsSteps => Live(cur) /\ conn[cur].initialized
    /\ pc = "parse" => /\ OneMessage(rest)
                       /\ i \in DOMAIN loop.poll_fds /\ loop.poll_fds[i].fd = loop.fd[cur]
                       /\ rest # <<>> /\ ~Live(cur) =>
                              /\ conn[cur].mem = "freed" /\ file[loop.fd[cur]] = NULL
                              /\ loop.fd[cur] \in Fd /\ answers[cur] \in {<<"404">>, <<"cut">>}
                              /\ \A k \in DOMAIN rest : rest[k] # "request"
                       /\ rest # <<>> /\ conn[cur].initialized => \A k \in DOMAIN rest : rest[k] = "bad"

\* The entries uv__io_poll has still to look at: an event is that of a socket
\* that was open when poll() was called, and whose watcher is not a newer one.
FreshEntry(e) ==
    /\ "ERR" \notin e.revents
    /\ "IN" \in e.revents =>
          /\ file[e.fd] # NULL
          /\ loop.watchers[e.fd] # NULL => QueueEmpty(loop.queue, loop.watchers[e.fd])
FreshOK ==
    pc \in {"iter", "parse"} =>
        \A j \in DOMAIN loop.poll_fds :
            (j > i \/ (pc = "iter" /\ j = i)) /\ loop.poll_fds[j].fd # NULL => FreshEntry(loop.poll_fds[j])

IInv == /\ TypeOK /\ LoopOK /\ ServerOK /\ (\A c \in Conn : ConnOK(c)) /\ FilesOK
        /\ CountOK /\ QueueOK /\ TurnOK /\ FreshOK /\ OneRequestEach

-----------------------------------------------------------------------------
(* Lists on a part of a heap.                                              *)

Within(q, N) == [next |-> [n \in N |-> q.next[n]], prev |-> [n \in N |-> q.prev[n]]]

LEMMA WithinRing ==
    ASSUME NEW N, NEW q, NEW h \in N, \A n \in N : q.next[n] \in N /\ q.prev[n] \in N
    PROVE  /\ Within(q, N) \in QueueHeap(N)
           /\ QueueLinked(Within(q, N), N) <=> QueueLinked(q, N)
           /\ OneRing(Within(q, N), h, N) <=> OneRing(q, h, N)
           /\ \A n \in N : QueueEmpty(Within(q, N), n) <=> QueueEmpty(q, n)
BY DEF Within, QueueHeap, QueueLinked, OneRing, QueueEmpty

LEMMA RingWithin ==
    ASSUME NEW N, NEW q, NEW h \in N, Within(q, N) \in QueueHeap(N),
           QueueLinked(Within(q, N), N), OneRing(Within(q, N), h, N)
    PROVE  Ring(q, h, N)
<1>1. \A n \in N : q.next[n] \in N /\ q.prev[n] \in N
  BY DEF Within, QueueHeap
<1> QED
  BY <1>1, WithinRing DEF Ring

LEMMA RingInsert ==
    ASSUME NEW M, NEW q \in QueueHeap(M), NEW N \in SUBSET M, NEW h \in N, NEW n \in N, h # n,
           Ring(q, h, N), QueueEmpty(q, n)
    PROVE  /\ QueueInsertTail(q, h, n) \in QueueHeap(M)
           /\ Ring(QueueInsertTail(q, h, n), h, N)
           /\ ~QueueEmpty(QueueInsertTail(q, h, n), n)
           /\ \A m \in N \ {h, n} : QueueEmpty(QueueInsertTail(q, h, n), m) <=> QueueEmpty(q, m)
<1> DEFINE r == QueueInsertTail(q, h, n)
           w == Within(q, N)
<1>1. /\ w \in QueueHeap(N) /\ QueueLinked(w, N) /\ OneRing(w, h, N) /\ QueueEmpty(w, n)
      /\ \A m \in N : QueueEmpty(w, m) <=> QueueEmpty(q, m)
  BY WithinRing DEF Ring
<1>2. r \in QueueHeap(M)
  BY DEF QueueInsertTail, QueueHeap
<1>3. Within(r, N) = QueueInsertTail(w, h, n)
  <2>1. q.prev[h] \in N /\ q.prev \in [M -> M] /\ q.next \in [M -> M]
    BY DEF Ring, QueueHeap
  <2>2. [m \in N |-> r.next[m]] = QueueInsertTail(w, h, n).next
    BY <2>1 DEF QueueInsertTail, Within
  <2>3. [m \in N |-> r.prev[m]] = QueueInsertTail(w, h, n).prev
    BY <2>1 DEF QueueInsertTail, Within
  <2> QED
    BY <2>2, <2>3 DEF Within, QueueInsertTail
<1> HIDE DEF r, w
<1>4. /\ Within(r, N) \in QueueHeap(N) /\ QueueLinked(Within(r, N), N) /\ OneRing(Within(r, N), h, N)
      /\ ~QueueEmpty(Within(r, N), n)
      /\ \A m \in N \ {h, n} : QueueEmpty(Within(r, N), m) <=> QueueEmpty(w, m)
  BY <1>1, <1>3, InsertTail, InsertOneRing
<1>5. Ring(r, h, N)
  BY <1>4, RingWithin
<1>6. \A m \in N : QueueEmpty(Within(r, N), m) <=> QueueEmpty(r, m)
  BY <1>5, WithinRing DEF Ring
<1> QED
  BY <1>1, <1>2, <1>4, <1>5, <1>6 DEF r

LEMMA RingUnlink ==
    ASSUME NEW M, NEW q \in QueueHeap(M), NEW N \in SUBSET M, NEW h \in N, NEW n \in N, h # n,
           Ring(q, h, N)
    PROVE  /\ QueueUnlink(q, n) \in QueueHeap(M)
           /\ Ring(QueueUnlink(q, n), h, N)
           /\ QueueEmpty(QueueUnlink(q, n), n)
           /\ \A m \in N \ {h, n} : QueueEmpty(QueueUnlink(q, n), m) <=> QueueEmpty(q, m)
<1> DEFINE r == QueueUnlink(q, n)
           w == Within(q, N)
<1>1. /\ w \in QueueHeap(N) /\ QueueLinked(w, N) /\ OneRing(w, h, N)
      /\ \A m \in N : QueueEmpty(w, m) <=> QueueEmpty(q, m)
  BY WithinRing DEF Ring
<1>2. r \in QueueHeap(M)
  BY DEF QueueUnlink, QueueRemove, QueueInit, QueueHeap
<1>3. Within(r, N) = QueueUnlink(w, n)
  <2>1. q.prev[n] \in N /\ q.next[n] \in N /\ q.prev \in [M -> M] /\ q.next \in [M -> M]
    BY DEF Ring, QueueHeap
  <2>2. [m \in N |-> r.next[m]] = QueueUnlink(w, n).next
    BY <2>1 DEF QueueUnlink, QueueRemove, QueueInit, Within
  <2>3. [m \in N |-> r.prev[m]] = QueueUnlink(w, n).prev
    BY <2>1 DEF QueueUnlink, QueueRemove, QueueInit, Within
  <2> QED
    BY <2>2, <2>3 DEF Within, QueueUnlink, QueueRemove, QueueInit
<1> HIDE DEF r, w
<1>4. /\ Within(r, N) \in QueueHeap(N) /\ QueueLinked(Within(r, N), N) /\ OneRing(Within(r, N), h, N)
      /\ QueueEmpty(Within(r, N), n)
      /\ \A m \in N \ {h, n} : QueueEmpty(Within(r, N), m) <=> QueueEmpty(w, m)
  BY <1>1, <1>3, UnlinkNode, UnlinkOneRing, UnlinkOthers
<1>5. Ring(r, h, N)
  BY <1>4, RingWithin
<1>6. \A m \in N : QueueEmpty(Within(r, N), m) <=> QueueEmpty(r, m)
  BY <1>5, WithinRing DEF Ring
<1> QED
  BY <1>1, <1>2, <1>4, <1>5, <1>6 DEF r

\* A node that is alone can be left out.
LEMMA RingLeave ==
    ASSUME NEW q, NEW N, NEW h \in N, NEW n \in N, h # n, Ring(q, h, N), QueueEmpty(q, n)
    PROVE  Ring(q, h, N \ {n})
<1>1. q.next[n] = n /\ q.prev[n] = n
  BY DEF Ring, QueueLinked, QueueEmpty
<1>2. \A m \in N \ {n} : q.next[m] \in N \ {n} /\ q.prev[m] \in N \ {n}
  BY <1>1 DEF Ring, QueueLinked
<1>3. OneRing(q, h, N \ {n})
  BY DEF Ring, OneRing
<1> QED
  BY <1>2, <1>3 DEF Ring, QueueLinked

\* A node that is removed and freed leaves the ring, with its pointers as they were.
LEMMA RingDrop ==
    ASSUME NEW M, NEW q \in QueueHeap(M), NEW N \in SUBSET M, NEW h \in N, NEW n \in N, h # n,
           Ring(q, h, N)
    PROVE  /\ QueueRemove(q, n) \in QueueHeap(M)
           /\ Ring(QueueRemove(q, n), h, N \ {n})
           /\ \A m \in N \ {h, n} : QueueEmpty(QueueRemove(q, n), m) <=> QueueEmpty(q, m)
<1> DEFINE r == QueueRemove(q, n)
           u == QueueUnlink(q, n)
           K == N \ {n}
<1>1. r \in QueueHeap(M)
  BY DEF QueueRemove, QueueHeap
<1>2. \A m \in K : u.next[m] = r.next[m] /\ u.prev[m] = r.prev[m]
  BY <1>1 DEF QueueUnlink, QueueInit, QueueHeap
<1>3. /\ Ring(u, h, N) /\ QueueEmpty(u, n)
      /\ \A m \in N \ {h, n} : QueueEmpty(u, m) <=> QueueEmpty(q, m)
  BY RingUnlink
<1> HIDE DEF r, u
<1>4. Ring(u, h, K)
  BY <1>3, RingLeave
<1>5. Ring(r, h, K)
  <2>1. \A m \in K : r.next[m] \in K /\ r.prev[m] \in K
    BY <1>2, <1>4 DEF Ring
  <2>2. QueueLinked(r, K)
    BY <1>2, <1>4, <2>1 DEF Ring, QueueLinked
  <2>3. OneRing(r, h, K)
    BY <1>2, <1>4 DEF Ring, OneRing
  <2> QED
    BY <2>1, <2>2, <2>3 DEF Ring
<1>6. \A m \in N \ {h, n} : QueueEmpty(r, m) <=> QueueEmpty(q, m)
  BY <1>2, <1>3 DEF QueueEmpty
<1> QED
  BY <1>1, <1>5, <1>6 DEF r

\* A node that is alone may be initialised again.
LEMMA RingInit ==
    ASSUME NEW M, NEW q \in QueueHeap(M), NEW N \in SUBSET M, NEW h \in N, NEW n \in N,
           Ring(q, h, N), QueueEmpty(q, n)
    PROVE  QueueInit(q, n) = q
<1>1. q.next[n] = n /\ q.prev[n] = n
  BY DEF Ring, QueueLinked, QueueEmpty
<1>2. q = [next |-> q.next, prev |-> q.prev] /\ q.next \in [M -> M] /\ q.prev \in [M -> M]
  BY DEF QueueHeap
<1>3. [q.next EXCEPT ![n] = n] = q.next /\ [q.prev EXCEPT ![n] = n] = q.prev
  BY <1>1, <1>2
<1> QED
  BY <1>2, <1>3 DEF QueueInit

-----------------------------------------------------------------------------
(* What the operations do to the server's loop.                            *)

ReadsOnly(l) == \A v \in Watcher : l.pevents[v] \subseteq {"IN"}

\* From loop l, watcher w was stopped.
Stopped(l, r, w) ==
    /\ SoundLoop(r) /\ ReadsOnly(r)
    /\ r.iterating = l.iterating /\ r.fd = l.fd /\ r.poll_fds = l.poll_fds
    /\ \A v \in Watcher : ActiveIn(r, v) <=> ActiveIn(l, v) /\ v # w
    /\ \A f \in Fd : r.watchers[f] \in {l.watchers[f], NULL}
    /\ \A v \in Watcher : QueueEmpty(l.queue, v) => QueueEmpty(r.queue, v)

LEMMA StopLoop ==
    ASSUME NEW l, SoundLoop(l), ReadsOnly(l), NEW w \in Watcher
    PROVE  Stopped(l, IoStop(l, w, {"IN"}), w)
<1> DEFINE r == IoStop(l, w, {"IN"})
<1>1. {"IN"} \in SUBSET Events
  BY DEF Events
<1>2. SoundLoop(r)
  BY <1>1, StopSound
<1>3. /\ l \in LoopType /\ l.pevents \in [Watcher -> SUBSET Events] /\ l.fd \in [Watcher -> Fd \cup {NULL}]
      /\ l.watchers \in [Fd -> Watcher \cup {NULL}] /\ l.queue \in QueueHeap(Watcher \cup {Loop})
  BY LoopFields DEF SoundLoop
<1>4. CASE l.fd[w] = NULL
  <2>1. r = l
    BY <1>4 DEF IoStop
  <2>2. ~ActiveIn(l, w)
    BY <1>4 DEF SoundLoop, RegisteredIn
  <2> QED
    BY <1>2, <2>1, <2>2 DEF Stopped
<1>5. CASE l.fd[w] # NULL
  <2>1. l.pevents[w] \ {"IN"} = {}
    BY DEF ReadsOnly
  <2>2. /\ r.iterating = l.iterating /\ r.fd = l.fd /\ r.poll_fds = l.poll_fds
        /\ r.pevents = [l.pevents EXCEPT ![w] = {}]
        /\ r.queue = QueueUnlink(l.queue, w)
        /\ r.watchers = [l.watchers EXCEPT ![l.fd[w]] = IF l.watchers[l.fd[w]] = w THEN NULL ELSE @]
    BY <1>3, <1>5, <2>1 DEF IoStop, LoopType
  <2>3. \A v \in Watcher : r.pevents[v] = IF v = w THEN {} ELSE l.pevents[v]
    BY <1>3, <2>2
  <2>4. \A f \in Fd : r.watchers[f] \in {l.watchers[f], NULL}
    BY <1>3, <2>2
  <2>5. \A v \in Watcher : QueueEmpty(l.queue, v) => QueueEmpty(r.queue, v)
    BY <1>3, <2>2, UnlinkNode DEF SoundLoop
  <2> QED
    BY <1>2, <2>2, <2>3, <2>4, <2>5 DEF Stopped, ActiveIn, ReadsOnly
<1> QED
  BY <1>4, <1>5

\* Stopping a watcher twice is no different.
LEMMA StopTwice ==
    ASSUME NEW l, SoundLoop(l), ReadsOnly(l), NEW w \in Watcher
    PROVE  Stopped(l, IoStop(IoStop(l, w, {"IN"}), w, {"IN"}), w)
<1> DEFINE r == IoStop(l, w, {"IN"})
           s == IoStop(r, w, {"IN"})
<1>1. Stopped(l, r, w)
  BY StopLoop
<1> HIDE DEF r
<1>2. Stopped(r, s, w)
  BY <1>1, StopLoop DEF Stopped
<1> HIDE DEF s
<1>3. Stopped(l, s, w)
  BY <1>1, <1>2 DEF Stopped
<1> QED
  BY <1>3 DEF r, s

\* An idle watcher is given a descriptor nobody watches, and started.
LEMMA StartLoop ==
    ASSUME NEW l, SoundLoop(l), ReadsOnly(l), NEW w \in Watcher, ~ActiveIn(l, w), NEW f \in Fd,
           \A v \in Watcher : ActiveIn(l, v) => l.fd[v] # f,
           NEW r, r = IoStart(IoOpen(l, w, f), w, {"IN"})
    PROVE  /\ SoundLoop(r) /\ ReadsOnly(r)
           /\ r.iterating = l.iterating /\ r.poll_fds = l.poll_fds /\ r.fd = [l.fd EXCEPT ![w] = f]
           /\ \A v \in Watcher : ActiveIn(r, v) <=> ActiveIn(l, v) \/ v = w
           /\ \A g \in Fd : g # f => r.watchers[g] = l.watchers[g]
           /\ \A v \in Watcher : v # w => (QueueEmpty(r.queue, v) <=> QueueEmpty(l.queue, v))
<1> DEFINE m == IoOpen(l, w, f)
<1>1. {"IN"} \in SUBSET Events /\ {"IN"} # {}
  BY DEF Events
<1>2. /\ SoundLoop(m) /\ m.fd = [l.fd EXCEPT ![w] = f]
      /\ \A v \in Watcher : ActiveIn(m, v) <=> ActiveIn(l, v)
  BY OpenSound
<1>3. l \in LoopType /\ m \in LoopType
  BY <1>2 DEF SoundLoop
<1>4. /\ m.iterating = l.iterating /\ m.poll_fds = l.poll_fds /\ m.pevents = l.pevents
      /\ m.watchers = l.watchers /\ m.queue = QueueInit(l.queue, w)
  BY <1>3 DEF IoOpen, LoopType
<1>5. m.queue = l.queue
  <2>1. QueueEmpty(l.queue, w)
    BY DEF SoundLoop, QueuedActive
  <2>2. l.queue \in QueueHeap(Watcher \cup {Loop}) /\ QueueLinked(l.queue, Watcher \cup {Loop})
    BY <1>3, LoopFields DEF SoundLoop
  <2> QED
    BY <1>4, <2>1, <2>2, InitAlone
<1>6. l.fd \in [Watcher -> Fd \cup {NULL}]
  BY <1>3, LoopFields
<1>7. m.fd[w] = f /\ f # NULL /\ \A v \in Watcher : ActiveIn(m, v) /\ m.fd[v] = m.fd[w] => v = w
  BY <1>2, <1>6, UvNames
<1> HIDE DEF m
<1>8. SoundLoop(IoStart(m, w, {"IN"}))
  BY <1>1, <1>2, <1>7, StartSound
<1>9. r = IoStart(m, w, {"IN"})
  BY DEF m
<1>10. /\ r.iterating = m.iterating /\ r.fd = m.fd /\ r.poll_fds = m.poll_fds
       /\ r.pevents = [m.pevents EXCEPT ![w] = @ \cup {"IN"}]
       /\ r.queue = Enqueue(m.queue, w)
       /\ r.watchers = [m.watchers EXCEPT ![f] = IF m.watchers[f] = NULL THEN w ELSE @]
  BY <1>3, <1>7, <1>9 DEF IoStart, LoopType
<1>11. /\ m.pevents \in [Watcher -> SUBSET Events] /\ m.watchers \in [Fd -> Watcher \cup {NULL}]
       /\ m.queue \in QueueHeap(Watcher \cup {Loop})
  BY <1>3, LoopFields
<1>12. \A v \in Watcher : r.pevents[v] = IF v = w THEN l.pevents[v] \cup {"IN"} ELSE l.pevents[v]
  BY <1>4, <1>10, <1>11
<1>13. \A g \in Fd : g # f => r.watchers[g] = l.watchers[g]
  BY <1>4, <1>10, <1>11
<1>14. \A v \in Watcher : v # w => (QueueEmpty(r.queue, v) <=> QueueEmpty(l.queue, v))
  <2>1. /\ QueueLinked(m.queue, Watcher \cup {Loop})
        /\ OneRing(m.queue, Loop, Watcher \cup {Loop})
    BY <1>2 DEF SoundLoop
  <2>2. \A v \in Watcher : v # w => (QueueEmpty(Enqueue(m.queue, w), v) <=> QueueEmpty(m.queue, v))
    BY <1>11, <2>1, EnqueueQueue
  <2> QED
    BY <1>5, <1>10, <2>2
<1> QED
  BY <1>2, <1>4, <1>8, <1>9, <1>10, <1>12, <1>13, <1>14 DEF ActiveIn, ReadsOnly

-----------------------------------------------------------------------------
(* The counter, modulo CountMod.                                           *)

LEMMA CountRange ==
    ASSUME NEW x \in 0..(CountMod - 1)
    PROVE  (x + 1) % CountMod \in 0..(CountMod - 1) /\ (x + CountMod - 1) % CountMod \in 0..(CountMod - 1)
<1>1. CountMod \in Nat \ {0} /\ x + 1 \in Nat /\ x + CountMod - 1 \in Nat
  BY HttpdNumbers
<1>2. \A m, n \in Nat : n # 0 => m % n \in 0..(n - 1)
  OBVIOUS
<1> QED
  BY <1>1, <1>2

\* What is less than the modulus is its own remainder.
LEMMA ModSame ==
    ASSUME NEW n \in Nat \ {0}, NEW q \in Int, NEW r \in 0..(n - 1), NEW x \in Int, x = n * q + r
    PROVE  x % n = r
OBVIOUS

LEMMA CountSmall ==
    ASSUME NEW x \in Nat
    PROVE  /\ x + 1 < CountMod => (x + 1) % CountMod = x + 1
           /\ x # 0 /\ x < CountMod => (x + CountMod - 1) % CountMod = x - 1
<1>1. CountMod \in Nat \ {0}
  BY HttpdNumbers
<1>2. ASSUME x + 1 < CountMod PROVE (x + 1) % CountMod = x + 1
  <2>1. x + 1 = CountMod * 0 + (x + 1) /\ x + 1 \in 0..(CountMod - 1)
    BY <1>1, <1>2
  <2> QED
    BY <1>1, <2>1, ModSame
<1>3. ASSUME x # 0, x < CountMod PROVE (x + CountMod - 1) % CountMod = x - 1
  <2>1. x + CountMod - 1 = CountMod * 1 + (x - 1) /\ x - 1 \in 0..(CountMod - 1)
    BY <1>1, <1>3
  <2> QED
    BY <1>1, <2>1, ModSame
<1> QED
  BY <1>2, <1>3

\* One less, around the modulus.
LEMMA CountLess ==
    ASSUME NEW x \in 0..(CountMod - 1)
    PROVE  (x + CountMod - 1) % CountMod = IF x = 0 THEN CountMod - 1 ELSE x - 1
<1>1. CountMod \in Nat \ {0}
  BY HttpdNumbers
<1>2. CASE x = 0
  <2>1. x + CountMod - 1 = CountMod * 0 + (CountMod - 1) /\ CountMod - 1 \in 0..(CountMod - 1)
    BY <1>1, <1>2
  <2> QED
    BY <1>1, <1>2, <2>1, ModSame
<1>3. CASE x # 0
  BY <1>1, <1>3, CountSmall
<1> QED
  BY <1>2, <1>3

\* A connection that ends, or a close that ends none, keeps the balance.
LEMMA BalanceLess ==
    ASSUME NEW n \in 0..(CountMod - 1), NEW u \in Nat, NEW a \in Nat, Balanced(n, u, a),
           NEW v \in Nat, NEW b \in Nat, b + u + 1 = a + v,
           NEW m, m = (n + CountMod - 1) % CountMod
    PROVE  Balanced(m, v, b)
<1>1. PICK k \in Nat : n + u = a + k * CountMod
  BY DEF Balanced
<1>2. CountMod \in Nat /\ k * CountMod \in Int
  BY HttpdNumbers
<1>3. CASE n = 0
  <2>1. m = CountMod - 1
    BY <1>3, CountLess
  <2>2. (k + 1) * CountMod = k * CountMod + CountMod
    BY <1>2
  <2>3. m + v = b + (k + 1) * CountMod /\ k + 1 \in Nat
    BY <1>1, <1>2, <1>3, <2>1, <2>2
  <2> QED
    BY <2>3 DEF Balanced
<1>4. CASE n # 0
  <2>1. m = n - 1
    BY <1>4, CountLess
  <2>2. m + v = b + k * CountMod
    BY <1>1, <1>2, <2>1
  <2> QED
    BY <2>2 DEF Balanced
<1> QED
  BY <1>3, <1>4

CountType == /\ numConns \in 0..(CountMod - 1) /\ loaded \in 0..(CountMod - 1) \cup {NULL}
             /\ uncounted \in Nat /\ raced \in BOOLEAN

\* The types of the counter after the server has counted.
LEMMA CountedTypes ==
    ASSUME TypeOK, Counted
    PROVE  loaded' \in 0..(CountMod - 1) \cup {NULL} /\ raced' \in BOOLEAN
<1>1. loaded \in 0..(CountMod - 1) \cup {NULL} /\ raced \in BOOLEAN
  BY DEF TypeOK
<1>2. raced' = (raced \/ loaded # NULL) /\ loaded' = loaded
  BY DEF Counted
<1>3. (raced \/ loaded # NULL) \in BOOLEAN
  BY <1>1, Zenon
<1> QED
  BY <1>1, <1>2, <1>3, Zenon

LEMMA CountDownTypes ==
    ASSUME TypeOK, CountDown, uncounted' \in Nat
    PROVE  CountType'
<1>1. numConns' \in 0..(CountMod - 1)
  BY CountRange DEF TypeOK, CountDown
<1>2. loaded' \in 0..(CountMod - 1) \cup {NULL} /\ raced' \in BOOLEAN
  BY CountedTypes DEF CountDown
<1> QED
  BY <1>1, <1>2, Zenon DEF CountType

LEMMA AcceptedFinite == IsFiniteSet(Accepted) /\ Cardinality(Accepted) \in Nat
<1>1. Accepted \in SUBSET Fd
  BY DEF Accepted
<1> QED
  BY <1>1, FdsFinite, FS_Subset, FS_CardinalityType

\* isere_tcp_close, of a connection or of none, keeps the balance.
LEMMA CountDownKeeps ==
    ASSUME TypeOK, CountOK, CountDown, UNCHANGED port, uncounted' \in Nat, uncounted' >= uncounted,
           NEW b \in Nat, Cardinality(Accepted') = b,
           b + uncounted + 1 = Cardinality(Accepted) + uncounted'
    PROVE  CountOK'
<1> DEFINE a == Cardinality(Accepted)
<1>1. SUFFICES ASSUME port = "linux", ~raced'
               PROVE  /\ Balanced(numConns', uncounted', b)
                      /\ b <= MaxConns + uncounted'
                      /\ loaded' # NULL => loaded' = (numConns' + CountMod - 1) % CountMod
  BY DEF CountOK, Balanced
<1>2. ~raced /\ loaded = NULL /\ loaded' = NULL /\ numConns' = (numConns + CountMod - 1) % CountMod
  BY <1>1 DEF CountDown, Counted
<1>3. a \in Nat /\ uncounted \in Nat /\ numConns \in 0..(CountMod - 1)
  BY AcceptedFinite DEF TypeOK
<1>4. Balanced(numConns, uncounted, a) /\ a <= MaxConns + uncounted
  BY <1>1, <1>2 DEF CountOK
<1>5. b + uncounted + 1 = a + uncounted'
  OBVIOUS
<1> HIDE DEF a
<1>6. Balanced(numConns', uncounted', b)
  BY <1>2, <1>3, <1>4, <1>5, BalanceLess
<1>7. b <= MaxConns + uncounted'
  <2>1. \A x, y, u, v, m \in Nat : y + u + 1 = x + v /\ x <= m + u => y <= m + v
    OBVIOUS
  <2> QED
    BY <1>3, <1>4, <1>5, <2>1, HttpdNumbers
<1> QED
  BY <1>2, <1>6, <1>7

-----------------------------------------------------------------------------
(* __httpd_cleanup_conn.                                                   *)

LEMMA ConnNames == /\ Conn \in SUBSET Watcher /\ Server \in Watcher /\ Server \notin Conn
                   /\ JsQueue \notin Conn /\ NULL \notin Conn /\ NULL # Server /\ NULL \notin Fd
                   /\ ServerFd \in Fd
BY HttpdNames, UvNames DEF Conn

\* What it does to a live connection: the watcher is stopped, the descriptor and the
\* node released, the connection freed and its client's end closed.
LEMMA CleanupDoes ==
    ASSUME IInv, NEW c \in Conn, Live(c), NEW l, l \in {loop, IoStop(loop, c, {"IN"})},
           CleanupConn(l, c)
    PROVE  /\ Stopped(loop, loop', c)
           /\ loop.fd[c] \in Fd /\ file[loop.fd[c]] = c
           /\ file' = [file EXCEPT ![loop.fd[c]] = NULL]
           /\ conn' = [conn EXCEPT ![c] = Freed]
           /\ net' = [net EXCEPT ![c] = [state |-> "closed", bytes |-> FALSE, eof |-> FALSE]]
           /\ js' \in [Conn -> JsState] /\ CountType' /\ CountDown /\ UNCHANGED uncounted
           /\ js_queue' \in QueueHeap(Conn \cup {JsQueue})
           /\ Ring(js_queue', JsQueue, (Kept \ {c}) \cup {JsQueue})
           /\ \A d \in Kept \ {c} : QueueEmpty(js_queue', d) <=> QueueEmpty(js_queue, d)
<1>1. SoundLoop(loop) /\ ReadsOnly(loop) /\ c \in Watcher
  BY ConnNames DEF IInv, LoopOK, ReadsOnly
<1>2. Stopped(loop, loop', c)
  BY <1>1, StopLoop, StopTwice DEF CleanupConn
<1>3. loop.fd[c] \in Fd /\ file[loop.fd[c]] = c
  BY DEF IInv, ConnOK
<1>4. /\ conn' = [conn EXCEPT ![c] = Freed]
      /\ file' = [file EXCEPT ![loop.fd[c]] = NULL] /\ CountDown
      /\ js' = FreeContext(c)
      /\ js_queue' = IF conn[c].initialized THEN QueueRemove(js_queue, c) ELSE js_queue
  BY DEF CleanupConn, TcpClose
<1>5. net' = [net EXCEPT ![c] = [state |-> "closed", bytes |-> FALSE, eof |-> FALSE]]
  <2>1. net \in [Conn -> [state : {"new", "backlog", "open", "closed"}, bytes : BOOLEAN, eof : BOOLEAN]]
    BY DEF IInv, TypeOK
  <2>2. net' = [d \in Conn |-> IF file[loop.fd[c]] = d
                               THEN [state |-> "closed", bytes |-> FALSE, eof |-> FALSE] ELSE net[d]]
    BY DEF CleanupConn, TcpClose
  <2> QED
    BY <1>3, <2>1, <2>2
<1>6. js' \in [Conn -> JsState]
  BY <1>4, HttpdNumbers DEF IInv, TypeOK, FreeContext, NoJs, JsState
<1>7. UNCHANGED uncounted /\ CountType'
  <2>1. UNCHANGED uncounted
    BY <1>3 DEF CleanupConn, TcpClose
  <2>2. TypeOK /\ uncounted' \in Nat
    BY <2>1 DEF IInv, TypeOK
  <2> QED
    BY <1>4, <2>1, <2>2, CountDownTypes
<1> DEFINE N == Kept \cup {JsQueue}
<1>8. /\ Ring(js_queue, JsQueue, N) /\ js_queue \in QueueHeap(Conn \cup {JsQueue})
      /\ N \in SUBSET (Conn \cup {JsQueue}) /\ JsQueue \in N /\ c \in N /\ c # JsQueue
      /\ N \ {c} = (Kept \ {c}) \cup {JsQueue} /\ N \ {JsQueue, c} = Kept \ {c}
  BY ConnNames DEF IInv, QueueOK, TypeOK, Kept, Live
<1>9. CASE conn[c].initialized
  <2>1. js_queue' = QueueRemove(js_queue, c)
    BY <1>4, <1>9
  <2> HIDE DEF N
  <2>2. /\ js_queue' \in QueueHeap(Conn \cup {JsQueue}) /\ Ring(js_queue', JsQueue, N \ {c})
        /\ \A d \in N \ {JsQueue, c} : QueueEmpty(js_queue', d) <=> QueueEmpty(js_queue, d)
    BY <1>8, <2>1, RingDrop
  <2> QED
    BY <1>2, <1>3, <1>4, <1>5, <1>6, <1>7, <1>8, <2>2
<1>10. CASE ~conn[c].initialized
  <2>1. js_queue' = js_queue
    BY <1>4, <1>10
  <2>2. QueueEmpty(js_queue, c)
    BY <1>10 DEF IInv, QueueOK, Kept, Live, Linked
  <2> HIDE DEF N
  <2>3. Ring(js_queue, JsQueue, N \ {c})
    BY <1>8, <2>2, RingLeave
  <2> QED
    BY <1>2, <1>3, <1>4, <1>5, <1>6, <1>7, <1>8, <2>1, <2>3
<1> QED
  BY <1>9, <1>10

\* The parts of the invariant it keeps, when its caller goes on to the next entry, to
\* the rest of the chunk, or to the next round of the js loop.
LEMMA CleanupKeeps ==
    ASSUME IInv, NEW c \in Conn, Live(c), NEW l, l \in {loop, IoStop(loop, c, {"IN"})},
           CleanupConn(l, c), UNCHANGED <<port, OneRequestEach>>, pc \notin Idle, pc' \notin Idle,
           pc \in {"iter", "parse"} <=> pc' \in {"iter", "parse"},
           \A d \in Conn \ {c} : /\ (cur' = d /\ pc' \in JsSteps) <=> (cur = d /\ pc \in JsSteps)
                                 /\ answers'[d] = answers[d]
    PROVE  /\ LoopOK' /\ ServerOK' /\ (\A d \in Conn : ConnOK(d)') /\ FilesOK' /\ CountOK' /\ QueueOK'
<1> DEFINE f == loop.fd[c]
<1>1. /\ Stopped(loop, loop', c)
      /\ f = loop.fd[c] /\ f \in Fd /\ file[f] = c /\ file' = [file EXCEPT ![f] = NULL]
      /\ conn' = [conn EXCEPT ![c] = Freed]
      /\ net' = [net EXCEPT ![c] = [state |-> "closed", bytes |-> FALSE, eof |-> FALSE]]
      /\ CountDown /\ UNCHANGED uncounted
      /\ js_queue' \in QueueHeap(Conn \cup {JsQueue})
      /\ Ring(js_queue', JsQueue, (Kept \ {c}) \cup {JsQueue})
      /\ \A d \in Kept \ {c} : QueueEmpty(js_queue', d) <=> QueueEmpty(js_queue, d)
  BY CleanupDoes
<1> HIDE DEF f
<1>2. /\ file \in [Fd -> Watcher \cup {NULL}]
      /\ conn \in [Conn -> [mem : {"none", "live", "freed"}, initialized : BOOLEAN,
                            completed : BOOLEAN, recvd : Nat]]
      /\ net \in [Conn -> [state : {"new", "backlog", "open", "closed"}, bytes : BOOLEAN, eof : BOOLEAN]]
      /\ numConns \in 0..(CountMod - 1)
  BY DEF IInv, TypeOK
<1>3. /\ conn'[c].mem = "freed" /\ conn'[c].initialized = FALSE /\ net'[c].state = "closed"
      /\ \A d \in Conn : d # c => conn'[d] = conn[d] /\ net'[d] = net[d]
  BY <1>1, <1>2 DEF Freed
<1>4. file'[f] = NULL /\ \A g \in Fd : g # f => file'[g] = file[g]
  BY <1>1, <1>2
<1>5. /\ SoundLoop(loop') /\ ReadsOnly(loop') /\ loop'.iterating = loop.iterating
      /\ loop'.fd = loop.fd /\ \A v \in Watcher : ActiveIn(loop', v) <=> ActiveIn(loop, v) /\ v # c
  BY <1>1 DEF Stopped
<1>6. LoopOK'
  BY <1>5 DEF IInv, LoopOK, ReadsOnly
<1>7. ServerOK'
  BY <1>1, <1>4, <1>5, ConnNames DEF IInv, ServerOK
<1>8. ASSUME NEW d \in Conn PROVE ConnOK(d)'
  <2>1. CASE d = c
    BY <1>3, <1>5, <2>1, ConnNames DEF ConnOK, Live
  <2>2. CASE d # c
    <3>1. ConnOK(d)
      BY DEF IInv
    <3>2. /\ conn'[d] = conn[d] /\ net'[d] = net[d] /\ answers'[d] = answers[d]
          /\ loop'.fd[d] = loop.fd[d] /\ (ActiveIn(loop', d) <=> ActiveIn(loop, d))
      BY <1>3, <1>5, <2>2, ConnNames
    <3>3. Live(d) => file'[loop.fd[d]] = d
      BY <1>1, <1>4, <2>2, <3>1 DEF ConnOK
    <3> QED
      BY <3>1, <3>2, <3>3 DEF ConnOK, Live
  <2> QED
    BY <2>1, <2>2
<1>9. FilesOK'
  <2>1. ASSUME NEW g \in Fd, file'[g] \in Conn
        PROVE  conn'[file'[g]].mem = "live" /\ loop'.fd[file'[g]] = g
    <3>1. g # f /\ file'[g] = file[g]
      BY <1>4, <2>1, ConnNames
    <3>2. Live(file[g]) /\ loop.fd[file[g]] = g
      BY <2>1, <3>1 DEF IInv, FilesOK
    <3> QED
      BY <1>1, <1>3, <1>5, <2>1, <3>1, <3>2 DEF Live
  <2> QED
    BY <2>1 DEF FilesOK, Live
<1>10. CountOK'
  <2>1. Accepted' = Accepted \ {f} /\ f \in Accepted
    BY <1>1, <1>4, ConnNames DEF Accepted
  <2>2. Cardinality(Accepted \ {f}) = Cardinality(Accepted) - 1 /\ Cardinality(Accepted) # 0
    BY <2>1, AcceptedFinite, FS_RemoveElement, FS_EmptySet
  <2>3. Cardinality(Accepted) - 1 \in Nat /\ Cardinality(Accepted') = Cardinality(Accepted) - 1
    BY <2>1, <2>2, AcceptedFinite
  <2>4. TypeOK /\ CountOK /\ uncounted \in Nat
    BY DEF IInv, TypeOK
  <2> HIDE DEF CountOK
  <2> QED
    BY <1>1, <2>3, <2>4, AcceptedFinite, CountDownKeeps
<1>11. QueueOK'
  <2>1. Kept' = Kept \ {c}
    BY <1>3 DEF Kept
  <2>2. \A d \in Kept \ {c} : QueueEmpty(js_queue', d) <=> ~(conn[d].initialized /\ ~InHand(d))
    BY <1>1 DEF IInv, QueueOK, Linked
  <2>3. \A d \in Kept \ {c} : conn'[d] = conn[d] /\ (InHand(d)' <=> InHand(d))
    BY <1>3 DEF InHand, Kept, JsSteps
  <2>4. \A d \in Kept' : Linked(d)' <=> conn'[d].initialized /\ ~InHand(d)'
    BY <2>1, <2>2, <2>3 DEF Linked
  <2> QED
    BY <1>1, <2>1, <2>4 DEF QueueOK
<1> QED
  BY <1>6, <1>7, <1>8, <1>9, <1>10, <1>11

-----------------------------------------------------------------------------
(* The first state, the last one, and the environment.                     *)

\* A heap whose nodes are all alone.
LEMMA RingNew ==
    ASSUME NEW M, NEW N \in SUBSET M, NEW h \in N
    PROVE  /\ NewQueueHeap(M) \in QueueHeap(M) /\ Ring(NewQueueHeap(M), h, N)
           /\ \A n \in N : QueueEmpty(NewQueueHeap(M), n)
BY DEF NewQueueHeap, QueueHeap, Ring, QueueLinked, OneRing, QueueEmpty

LEMMA NewLoop == /\ SoundLoop(LoopInit) /\ LoopInit.iterating = FALSE
                 /\ \A w \in Watcher : LoopInit.pevents[w] = {} /\ ~ActiveIn(LoopInit, w)
BY InitSound DEF LoopInit, ActiveIn

LEMMA NoneAccepted ==
    ASSUME \A f \in Fd : file[f] = NULL
    PROVE  Cardinality(Accepted) = 0
<1>1. Accepted = {}
  BY ConnNames DEF Accepted
<1> QED
  BY <1>1, FS_EmptySet

LEMMA BalancedNone == Balanced(0, 0, 0)
<1>1. 0 + 0 = 0 + 0 * CountMod
  BY HttpdNumbers
<1> QED
  BY <1>1 DEF Balanced

LEMMA InitIInv ==
    ASSUME Init, OneRequestEach
    PROVE  IInv
<1> DEFINE M == Conn \cup {JsQueue}
<1>1. /\ js_queue = NewQueueHeap(M) /\ loop = LoopInit
      /\ conn = [c \in Conn |-> [mem |-> "none", initialized |-> FALSE, completed |-> FALSE, recvd |-> 0]]
      /\ file = [f \in Fd |-> NULL] /\ answers = [c \in Conn |-> <<>>]
      /\ numConns = 0 /\ loaded = NULL /\ uncounted = 0
      /\ net = [c \in Conn |-> [state |-> "new", bytes |-> FALSE, eof |-> FALSE]]
      /\ pc = "main" /\ cur = NULL /\ rest = <<>>
  BY DEF Init
<1>2. TypeOK
  <2>1. NewQueueHeap(M) \in QueueHeap(M)
    BY RingNew
  <2>2. LoopInit \in LoopType
    BY NewLoop DEF SoundLoop
  <2>3. js \in [Conn -> JsState]
    BY HttpdNumbers DEF Init, NoJs, JsState
  <2>4. <<runtime, port>> \in Builds
    <3>1. PICK build \in Builds : runtime = build[1] /\ port = build[2]
      BY DEF Init
    <3>2. build = <<build[1], build[2]>>
      BY HttpdNames
    <3> QED
      BY <3>1, <3>2
  <2>5. /\ numConns \in 0..(CountMod - 1) /\ loaded \in 0..(CountMod - 1) \cup {NULL}
        /\ uncounted \in Nat
    BY <1>1, HttpdNumbers
  <2>6. /\ conn \in [Conn -> [mem : {"none", "live", "freed"}, initialized : BOOLEAN,
                              completed : BOOLEAN, recvd : Nat]]
        /\ net \in [Conn -> [state : {"new", "backlog", "open", "closed"}, bytes : BOOLEAN, eof : BOOLEAN]]
        /\ answers \in [Conn -> Seq({"404", "413", "200", "response", "cut"})]
        /\ file \in [Fd -> Watcher \cup {NULL}]
    BY <1>1
  <2>7. /\ rest \in Seq({"request", "other", "bad"}) /\ i \in Nat \ {0} /\ cur \in Conn \cup {NULL}
        /\ pending \in {-1, 0, 1}
    BY DEF Init
  <2>8. callbacked \in BOOLEAN /\ armed \in BOOLEAN /\ should_exit \in BOOLEAN /\ raced \in BOOLEAN
    BY Zenon DEF Init
  <2> QED
    BY <1>1, <2>1, <2>2, <2>3, <2>4, <2>5, <2>6, <2>7, <2>8 DEF TypeOK
<1>3. LoopOK /\ ServerOK
  BY <1>1, NewLoop, ConnNames DEF LoopOK, ServerOK, Idle
<1>4. (\A c \in Conn : ConnOK(c)) /\ FilesOK
  BY <1>1, NewLoop, ConnNames DEF ConnOK, FilesOK, Live
<1>5. CountOK
  BY <1>1, NoneAccepted, BalancedNone, HttpdNumbers DEF CountOK
<1>6. QueueOK
  <2> DEFINE N == Kept \cup {JsQueue}
  <2>1. N \in SUBSET M /\ JsQueue \in N
    BY DEF Kept
  <2> HIDE DEF N, M
  <2>2. Ring(NewQueueHeap(M), JsQueue, N) /\ \A n \in N : QueueEmpty(NewQueueHeap(M), n)
    BY <2>1, RingNew
  <2> USE DEF N
  <2> QED
    BY <1>1, <2>2 DEF QueueOK, Linked, Kept
<1>7. TurnOK /\ FreshOK
  BY <1>1 DEF TurnOK, FreshOK, JsSteps
<1> QED
  BY <1>2, <1>3, <1>4, <1>5, <1>6, <1>7 DEF IInv

\* exit() ends the process, whatever it was doing.
LEMMA SigIntIInv ==
    ASSUME IInv, SigInt, OneRequestEach'
    PROVE  IInv'
<1> DEFINE M == Conn \cup {JsQueue}
           Rec == [mem : {"none", "live", "freed"}, initialized : BOOLEAN,
                   completed : BOOLEAN, recvd : Nat]
           Client == [state : {"new", "backlog", "open", "closed"}, bytes : BOOLEAN, eof : BOOLEAN]
<1>1. /\ js_queue' = NewQueueHeap(M) /\ loop' = LoopInit
      /\ file' = [f \in Fd |-> NULL] /\ answers' = answers
      /\ numConns' = 0 /\ loaded' = NULL /\ uncounted' = 0 /\ raced' = FALSE
      /\ pc' = "exit" /\ cur' = NULL /\ rest' = <<>> /\ i' = 1
      /\ callbacked' = FALSE /\ pending' = 0 /\ armed' = FALSE /\ should_exit' = TRUE
      /\ runtime' = runtime /\ port' = port
  BY Zenon DEF SigInt
<1>2. conn \in [Conn -> Rec] /\ net \in [Conn -> Client]
  BY DEF IInv, TypeOK
<1>3. /\ conn' = [c \in Conn |-> conn'[c]] /\ net' = [c \in Conn |-> net'[c]]
      /\ js' = [c \in Conn |-> NoJs]
  BY Zenon DEF SigInt
<1>4. ASSUME NEW c \in Conn
      PROVE  /\ conn'[c] \in Rec /\ conn'[c].mem \in {"none", "freed"} /\ ~conn'[c].initialized
             /\ conn'[c].mem = "none" <=> conn[c].mem = "none"
  <2>1. ConnOK(c) /\ conn[c] \in Rec
    BY <1>2 DEF IInv
  <2>2. conn'[c] = IF conn[c].mem = "none" THEN conn[c]
                   ELSE Freed
    BY Zenon DEF SigInt
  <2>3. CASE conn[c].mem = "none"
    <3>1. conn'[c] = conn[c]
      BY <2>2, <2>3, Zenon
    <3> QED
      BY <2>1, <2>3, <3>1 DEF ConnOK, Live
  <2>4. CASE conn[c].mem # "none"
    <3>1. conn'[c] = Freed
      BY <2>2, <2>4, Zenon
    <3> QED
      BY <2>1, <2>4, <3>1 DEF Freed
  <2> QED
    BY <2>3, <2>4
<1>5. ASSUME NEW c \in Conn
      PROVE  net'[c] \in Client /\ net'[c].state = IF net[c].state = "new" THEN "new" ELSE "closed"
  <2>1. net[c] \in Client
    BY <1>2
  <2>2. net'[c] = IF net[c].state = "new" THEN net[c]
                  ELSE [state |-> "closed", bytes |-> FALSE, eof |-> FALSE]
    BY Zenon DEF SigInt
  <2>3. CASE net[c].state = "new"
    <3>1. net'[c] = net[c]
      BY <2>2, <2>3, Zenon
    <3> QED
      BY <2>1, <2>3, <3>1
  <2>4. CASE net[c].state # "new"
    <3>1. net'[c] = [state |-> "closed", bytes |-> FALSE, eof |-> FALSE]
      BY <2>2, <2>4, Zenon
    <3> QED
      BY <2>4, <3>1
  <2> QED
    BY <2>3, <2>4
<1>10. conn' \in [Conn -> Rec] /\ net' \in [Conn -> Client]
  BY <1>3, <1>4, <1>5
<1>11. TypeOK'
  <2>1. js_queue' \in QueueHeap(M)
    BY <1>1, RingNew
  <2>2. loop' \in LoopType
    BY <1>1, NewLoop DEF SoundLoop
  <2>3. js' \in [Conn -> JsState]
    BY <1>3, HttpdNumbers DEF NoJs, JsState
  <2>4. /\ numConns' \in 0..(CountMod - 1) /\ loaded' \in 0..(CountMod - 1) \cup {NULL}
        /\ uncounted' \in Nat
    BY <1>1, HttpdNumbers
  <2>5. file' \in [Fd -> Watcher \cup {NULL}]
    BY <1>1
  <2>6. /\ rest' \in Seq({"request", "other", "bad"}) /\ i' \in Nat \ {0} /\ cur' \in Conn \cup {NULL}
        /\ pending' \in {-1, 0, 1}
    BY <1>1
  <2>8. callbacked' \in BOOLEAN /\ armed' \in BOOLEAN /\ should_exit' \in BOOLEAN /\ raced' \in BOOLEAN
    BY <1>1, Zenon
  <2>7. <<runtime', port'>> \in Builds /\ answers' \in [Conn -> Seq({"404", "413", "200", "response", "cut"})]
    BY <1>1 DEF IInv, TypeOK
  <2> QED
    BY <1>1, <1>10, <2>1, <2>2, <2>3, <2>4, <2>5, <2>6, <2>7, <2>8 DEF TypeOK
<1>12. LoopOK' /\ ServerOK'
  BY <1>1, NewLoop, ConnNames DEF LoopOK, ServerOK, Idle
<1>13. ASSUME NEW c \in Conn PROVE ConnOK(c)'
  <2>1. ConnOK(c) /\ conn[c].mem \in {"none", "live", "freed"}
    BY <1>2 DEF IInv
  <2>2. conn[c].mem # "none" => net'[c].state = "closed"
    BY <1>5, <2>1 DEF ConnOK, Live
  <2>3. ~ActiveIn(loop', c)
    BY <1>1, NewLoop, ConnNames
  <2>4. conn'[c].mem # "freed" => answers'[c] = <<>>
    BY <1>1, <1>4, <2>1 DEF ConnOK
  <2> QED
    BY <1>4, <1>5, <2>2, <2>3, <2>4 DEF ConnOK, Live
<1>14. FilesOK'
  BY <1>1, ConnNames DEF FilesOK
<1>15. CountOK'
  <2>1. Accepted' = {}
    BY <1>1, ConnNames DEF Accepted
  <2>2. Cardinality(Accepted') = 0 /\ 0 <= MaxConns + 0
    BY <2>1, FS_EmptySet, HttpdNumbers
  <2> QED
    BY <1>1, <2>2, BalancedNone DEF CountOK, Balanced
<1>16. QueueOK'
  <2> DEFINE N == Kept' \cup {JsQueue}
  <2>1. N \in SUBSET M /\ JsQueue \in N
    BY DEF Kept
  <2> HIDE DEF N, M
  <2>2. Ring(NewQueueHeap(M), JsQueue, N) /\ \A n \in N : QueueEmpty(NewQueueHeap(M), n)
    BY <2>1, RingNew
  <2> USE DEF N
  <2>3. \A c \in Kept' : ~Linked(c)' /\ ~conn'[c].initialized
    BY <1>1, <1>4, <2>2 DEF Linked, Kept
  <2> QED
    BY <1>1, <2>2, <2>3 DEF QueueOK
<1>17. TurnOK' /\ FreshOK'
  BY <1>1 DEF TurnOK, FreshOK, JsSteps
<1> QED
  BY <1>11, <1>12, <1>13, <1>14, <1>15, <1>16, <1>17 DEF IInv

-----------------------------------------------------------------------------
(* What most steps leave as it is.                                         *)

\* The task goes on, and no connection, descriptor or registration changes.
LEMMA Frame ==
    ASSUME IInv, UNCHANGED <<file, answers, port>>, UNCHANGED counter \/ CountOK',
           SoundLoop(loop'), ReadsOnly(loop'), loop'.fd = loop.fd,
           \A w \in Watcher : ActiveIn(loop', w) <=> ActiveIn(loop, w),
           loop'.iterating <=> pc' \in {"iter", "parse"},
           pc \in Idle <=> pc' \in Idle,
           \A c \in Conn : /\ conn'[c].mem = conn[c].mem /\ conn'[c].initialized = conn[c].initialized
                           /\ \/ net'[c].state = net[c].state
                              \/ conn[c].mem = "none" /\ net'[c].state \in {"new", "backlog", "closed"}
    PROVE  LoopOK' /\ ServerOK' /\ (\A c \in Conn : ConnOK(c)') /\ FilesOK' /\ CountOK'
<1>1. LoopOK'
  BY DEF LoopOK, ReadsOnly
<1>2. ServerOK'
  BY ConnNames DEF IInv, ServerOK
<1>3. ASSUME NEW c \in Conn PROVE ConnOK(c)'
  <2>1. ConnOK(c) /\ (ActiveIn(loop', c) <=> ActiveIn(loop, c))
    BY ConnNames DEF IInv
  <2> QED
    BY <2>1 DEF ConnOK, Live
<1>4. FilesOK'
  BY DEF IInv, FilesOK, Live
<1>5. ASSUME UNCHANGED counter PROVE CountOK'
  <2>1. Accepted' = Accepted
    BY DEF Accepted
  <2> QED
    BY <1>5, <2>1 DEF IInv, CountOK, Balanced, counter
<1> QED
  BY <1>1, <1>2, <1>3, <1>4, <1>5

\* Nor does js_queue, or what the js loop has in hand.
LEMMA FrameQueue ==
    ASSUME IInv, UNCHANGED js_queue,
           \A c \in Conn : /\ conn'[c].mem = conn[c].mem /\ conn'[c].initialized = conn[c].initialized
                           /\ InHand(c)' <=> InHand(c)
    PROVE  QueueOK'
<1>1. Kept' = Kept
  BY DEF Kept
<1>2. \A c \in Kept : Linked(c)' <=> conn'[c].initialized /\ ~InHand(c)'
  BY DEF IInv, QueueOK, Linked, Kept
<1> QED
  BY <1>1, <1>2 DEF IInv, QueueOK

\* The entries after the one uv__io_poll is at stay fresh when it goes on.
LEMMA FreshNext ==
    ASSUME IInv, pc \in {"iter", "parse"}, i \in DOMAIN loop.poll_fds, SoundLoop(loop'),
           i' = i + 1 \/ (i' = i /\ pc' # "iter"),
           \A j \in DOMAIN loop'.poll_fds : j > i /\ loop'.poll_fds[j].fd # NULL =>
               j \in DOMAIN loop.poll_fds /\ loop'.poll_fds[j] = loop.poll_fds[j],
           \A g \in Fd : g # loop.poll_fds[i].fd /\ file[g] # NULL =>
               /\ file'[g] # NULL /\ loop'.watchers[g] \in {loop.watchers[g], NULL}
               /\ loop.watchers[g] # NULL /\ QueueEmpty(loop.queue, loop.watchers[g])
                      => QueueEmpty(loop'.queue, loop.watchers[g])
    PROVE  FreshOK'
<1>1. SoundLoop(loop) /\ loop \in LoopType /\ i \in Nat
  BY DEF IInv, LoopOK, TypeOK
<1>2. loop.poll_fds \in Seq(PollFd) /\ NoDuplicateIn(loop)
  BY <1>1, LoopFields DEF SoundLoop
<1>3. ASSUME NEW j \in DOMAIN loop.poll_fds, j > i, NEW e, e = loop.poll_fds[j], e.fd # NULL
      PROVE  FreshEntry(e)'
  <2>1. e \in PollFd
    BY <1>2, <1>3
  <2>2. e.fd \in Fd
    BY <1>3, <2>1 DEF PollFd
  <2>3. e.fd # loop.poll_fds[i].fd
    BY <1>1, <1>2, <1>3 DEF NoDuplicateIn
  <2>4. FreshEntry(e)
    BY <1>3 DEF IInv, FreshOK
  <2>5. ASSUME "IN" \in e.revents
        PROVE  /\ file'[e.fd] # NULL
               /\ loop'.watchers[e.fd] # NULL => QueueEmpty(loop'.queue, loop'.watchers[e.fd])
    <3>1. file[e.fd] # NULL /\ (loop.watchers[e.fd] # NULL => QueueEmpty(loop.queue, loop.watchers[e.fd]))
      BY <2>4, <2>5 DEF FreshEntry
    <3> QED
      BY <2>2, <2>3, <3>1
  <2> QED
    BY <2>4, <2>5 DEF FreshEntry
<1>4. ASSUME NEW j \in DOMAIN loop'.poll_fds, pc' \in {"iter", "parse"},
             j > i' \/ (pc' = "iter" /\ j = i'), NEW e, e = loop'.poll_fds[j], e.fd # NULL
      PROVE  FreshEntry(e)'
  <2>1. j \in Nat
    BY LoopFields DEF SoundLoop
  <2>2. j > i
    BY <1>1, <1>4, <2>1
  <2> QED
    BY <1>3, <1>4, <2>2
<1> QED
  BY <1>4 DEF FreshOK

-----------------------------------------------------------------------------
(* Clients and timers.                                                     *)

\* The steps of the environment leave the task where it is.
LEMMA FrameTurn ==
    ASSUME IInv, UNCHANGED <<pc, i, cur, rest, loop, file, answers>>,
           \A c \in Conn : conn'[c].mem = conn[c].mem /\ conn'[c].initialized = conn[c].initialized
    PROVE  TurnOK' /\ FreshOK'
<1>1. FreshOK'
  BY DEF IInv, FreshOK, FreshEntry
<1>2. pc \in JsSteps \cup {"parse"} => cur \in Conn
  BY DEF IInv, TurnOK
<1>3. TurnOK'
  BY <1>2 DEF IInv, TurnOK, Live, JsSteps
<1> QED
  BY <1>1, <1>3

Unmoved == UNCHANGED <<pc, i, cur, rest, callbacked, pending, loop, js_queue, file, answers, counter, process>>

\* A client connects, sends or hangs up.
LEMMA ClientIInv ==
    ASSUME IInv, OneRequestEach', NEW c \in Conn, Connect(c) \/ Send(c) \/ HangUp(c)
    PROVE  IInv'
<1>1. Unmoved /\ UNCHANGED <<armed, js, conn>>
  BY DEF Connect, Send, HangUp, Unmoved, task, handlers, process
<1>2. /\ net \in [Conn -> [state : {"new", "backlog", "open", "closed"}, bytes : BOOLEAN, eof : BOOLEAN]]
      /\ ConnOK(c)
  BY DEF IInv, TypeOK
<1>3. /\ net' \in [Conn -> [state : {"new", "backlog", "open", "closed"}, bytes : BOOLEAN, eof : BOOLEAN]]
      /\ \A d \in Conn : \/ net'[d].state = net[d].state
                         \/ conn[d].mem = "none" /\ net'[d].state \in {"new", "backlog", "closed"}
  <2>1. CASE Connect(c)
    <3>1. net' = [net EXCEPT ![c].state = "backlog"] /\ net[c].state = "new"
      BY <2>1 DEF Connect
    <3>2. conn[c].mem = "none"
      BY <1>2, <3>1 DEF ConnOK, Live, IInv, TypeOK
    <3> QED
      BY <1>2, <3>1, <3>2
  <2>2. CASE Send(c)
    BY <1>2, <2>2 DEF Send
  <2>3. CASE HangUp(c)
    BY <1>2, <2>3 DEF HangUp
  <2> QED
    BY <2>1, <2>2, <2>3
<1>4. TypeOK'
  BY <1>1, <1>3 DEF IInv, TypeOK, Unmoved, counter, process
<1>5. SoundLoop(loop) /\ ReadsOnly(loop) /\ (loop.iterating <=> pc \in {"iter", "parse"})
  BY DEF IInv, LoopOK, ReadsOnly
<1>6. LoopOK' /\ ServerOK' /\ (\A d \in Conn : ConnOK(d)') /\ FilesOK' /\ CountOK'
  BY <1>1, <1>3, <1>5, Frame DEF Unmoved, process
<1>7. QueueOK' /\ TurnOK' /\ FreshOK'
  BY <1>1, FrameQueue, FrameTurn DEF Unmoved, InHand
<1> QED
  BY <1>4, <1>6, <1>7 DEF IInv

\* JavaScript code keeps a runtime one.
LEMMA CodeType == \A s : AfterCode(s) \subseteq JsState /\ AfterJerryCode(s) \subseteq JsState
BY DEF AfterCode, AfterJerryCode

\* cb completes a response, or nobody calls it.
LEMMA CallbackKeeps ==
    ASSUME IInv, NEW c \in Conn, UNCHANGED conn \/ HandlerCb(c)
    PROVE  /\ conn' \in [Conn -> [mem : {"none", "live", "freed"}, initialized : BOOLEAN,
                                  completed : BOOLEAN, recvd : Nat]]
           /\ \A d \in Conn : conn'[d].mem = conn[d].mem /\ conn'[d].initialized = conn[d].initialized
<1> DEFINE Rec == [mem : {"none", "live", "freed"}, initialized : BOOLEAN,
                   completed : BOOLEAN, recvd : Nat]
           r == [conn[c] EXCEPT !.completed = TRUE]
<1>1. conn \in [Conn -> Rec] /\ conn[c] \in Rec
  BY DEF IInv, TypeOK
<1>2. r \in Rec /\ r.mem = conn[c].mem /\ r.initialized = conn[c].initialized
  BY <1>1
<1>3. conn' = conn \/ conn' = [conn EXCEPT ![c] = r]
  BY DEF HandlerCb
<1> HIDE DEF Rec, r
<1>4. /\ conn' \in [Conn -> Rec]
      /\ \A d \in Conn : conn'[d].mem = conn[d].mem /\ conn'[d].initialized = conn[d].initialized
  BY <1>1, <1>2, <1>3
<1> QED
  BY <1>4 DEF Rec

\* The daemon runs the callback of a timer.
LEMMA TimerIInv ==
    ASSUME IInv, OneRequestEach', NEW c \in Conn, TimerFires(c)
    PROVE  IInv'
<1>1. Unmoved /\ UNCHANGED net /\ (UNCHANGED conn \/ HandlerCb(c))
  BY DEF TimerFires, Unmoved, sockets, client, process
<1>2. js' \in [Conn -> JsState]
  BY CodeType DEF TimerFires, IInv, TypeOK
<1>3. armed' \in BOOLEAN
  BY DEF TimerFires, IInv, TypeOK
<1>4. /\ conn' \in [Conn -> [mem : {"none", "live", "freed"}, initialized : BOOLEAN,
                             completed : BOOLEAN, recvd : Nat]]
      /\ \A d \in Conn : conn'[d].mem = conn[d].mem /\ conn'[d].initialized = conn[d].initialized
  BY <1>1, CallbackKeeps
<1>5. TypeOK'
  BY <1>1, <1>2, <1>3, <1>4 DEF IInv, TypeOK, Unmoved, counter, process
<1>6. SoundLoop(loop) /\ ReadsOnly(loop) /\ (loop.iterating <=> pc \in {"iter", "parse"})
  BY DEF IInv, LoopOK, ReadsOnly
<1>7. LoopOK' /\ ServerOK' /\ (\A d \in Conn : ConnOK(d)') /\ FilesOK' /\ CountOK'
  BY <1>1, <1>4, <1>6, Frame DEF Unmoved, process
<1>8. QueueOK' /\ TurnOK' /\ FreshOK'
  BY <1>1, <1>4, FrameQueue, FrameTurn DEF Unmoved, InHand
<1> QED
  BY <1>5, <1>7, <1>8 DEF IInv

\* The exporter closes a socket that is no connection, in two steps.
LEMMA ExporterIInv ==
    ASSUME IInv, OneRequestEach', ExporterLoads \/ ExporterStores
    PROVE  IInv'
<1>1. /\ UNCHANGED <<pc, i, cur, rest, callbacked, pending, armed, loop, js_queue, conn, js>>
      /\ UNCHANGED <<file, net, answers, runtime, port, should_exit, raced>>
  BY DEF ExporterLoads, ExporterStores, task, client, handlers, process
<1>2. CountType
  BY DEF IInv, TypeOK, CountType
<1>3. CountType'
  <2>1. CASE ExporterLoads
    BY <1>1, <1>2, <2>1, CountRange DEF ExporterLoads, CountType
  <2>2. CASE ExporterStores
    BY <1>1, <1>2, <2>2 DEF ExporterStores, CountType
  <2> QED
    BY <2>1, <2>2
<1>4. Accepted' = Accepted
  BY <1>1 DEF Accepted
<1>5. CountOK'
  <2>1. SUFFICES ASSUME port = "linux", ~raced
                 PROVE  /\ Balanced(numConns', uncounted', Cardinality(Accepted))
                        /\ Cardinality(Accepted) <= MaxConns + uncounted'
                        /\ loaded' # NULL => loaded' = (numConns' + CountMod - 1) % CountMod
    BY <1>1, <1>4 DEF CountOK, Balanced
  <2>2. /\ Balanced(numConns, uncounted, Cardinality(Accepted))
        /\ Cardinality(Accepted) <= MaxConns + uncounted
        /\ loaded # NULL => loaded = (numConns + CountMod - 1) % CountMod
    BY <2>1 DEF IInv, CountOK
  <2>3. CASE ExporterLoads
    <3>1. UNCHANGED <<numConns, uncounted>> /\ loaded' = (numConns + CountMod - 1) % CountMod
      BY <2>3 DEF ExporterLoads
    <3> QED
      BY <2>2, <3>1 DEF Balanced
  <2>4. CASE ExporterStores
    <3>1. numConns' = (numConns + CountMod - 1) % CountMod /\ loaded' = NULL /\ uncounted' = uncounted + 1
      BY <2>2, <2>4 DEF ExporterStores
    <3>2. Cardinality(Accepted) \in Nat /\ numConns \in 0..(CountMod - 1) /\ uncounted \in Nat
      BY <1>2, AcceptedFinite DEF CountType
    <3>3. Balanced(numConns', uncounted', Cardinality(Accepted))
      BY <2>2, <3>1, <3>2, BalanceLess
    <3> QED
      BY <2>2, <3>1, <3>2, <3>3, HttpdNumbers
  <2> QED
    BY <2>3, <2>4
<1>6. TypeOK'
  BY <1>1, <1>3 DEF IInv, TypeOK, CountType
<1>7. SoundLoop(loop) /\ ReadsOnly(loop) /\ (loop.iterating <=> pc \in {"iter", "parse"})
  BY DEF IInv, LoopOK, ReadsOnly
<1>8. LoopOK' /\ ServerOK' /\ (\A d \in Conn : ConnOK(d)') /\ FilesOK'
  BY <1>1, <1>5, <1>7, Frame
<1>9. QueueOK' /\ TurnOK' /\ FreshOK'
  BY <1>1, FrameQueue, FrameTurn DEF InHand
<1> QED
  BY <1>5, <1>6, <1>8, <1>9 DEF IInv

-----------------------------------------------------------------------------
(* The rounds of uv__io_poll before and after its callbacks.               *)

\* Who is watched, for which descriptor, is the same in r.
SameWatch(l, r) == /\ SoundLoop(r) /\ r.fd = l.fd /\ r.pevents = l.pevents
                   /\ \A w \in Watcher : ActiveIn(r, w) <=> ActiveIn(l, w)

LEMMA TakeSame ==
    ASSUME NEW l, SoundLoop(l), ~l.iterating, ~QueueEmpty(l.queue, Loop)
    PROVE  SameWatch(l, TakeQueued(l)) /\ ~TakeQueued(l).iterating
<1> DEFINE w == QueueHead(l.queue, Loop)
           m == [l EXCEPT !.queue = QueueUnlink(@, w)]
<1>1. l \in LoopType
  BY DEF SoundLoop
<1>2. m.fd = l.fd /\ m.pevents = l.pevents
  BY <1>1 DEF LoopType
<1>3. PollfdsAdd(m, w).fd = m.fd /\ PollfdsAdd(m, w).pevents = m.pevents
  BY <1>1 DEF PollfdsAdd, LoopType
<1>4. TakeQueued(l).fd = l.fd /\ TakeQueued(l).pevents = l.pevents
  BY <1>2, <1>3 DEF TakeQueued
<1>5. SoundLoop(TakeQueued(l)) /\ ~TakeQueued(l).iterating
  BY TakeSound
<1> QED
  BY <1>4, <1>5 DEF SameWatch, ActiveIn

\* An entry reports no event that did not happen on its descriptor.
OnlyReported(r, re) ==
    \A j \in DOMAIN r.poll_fds :
        r.poll_fds[j].fd # NULL => /\ r.poll_fds[j].fd \in Fd
                                   /\ r.poll_fds[j].revents \subseteq re[r.poll_fds[j].fd]

LEMMA PolledSame ==
    ASSUME NEW l, SoundLoop(l), NEW re \in [Fd -> SUBSET (Events \cup Faults)], NEW r, r = Polled(l, re)
    PROVE  /\ SameWatch(l, r) /\ r.iterating = TRUE
           /\ r.watchers = l.watchers /\ r.queue = l.queue
           /\ OnlyReported(r, re)
<1>1. SoundLoop(r) /\ r.iterating = TRUE
  BY PolledSound
<1>2. l \in LoopType /\ l.poll_fds \in Seq(PollFd)
  BY LoopFields DEF SoundLoop
<1>3. /\ r.fd = l.fd /\ r.pevents = l.pevents /\ r.watchers = l.watchers /\ r.queue = l.queue
  BY <1>2 DEF Polled, LoopType
<1>4. DOMAIN r.poll_fds = DOMAIN l.poll_fds
  BY <1>2 DEF Polled, LoopType
<1>5. ASSUME NEW j \in DOMAIN r.poll_fds, r.poll_fds[j].fd # NULL
      PROVE  r.poll_fds[j].fd \in Fd /\ r.poll_fds[j].revents \subseteq re[r.poll_fds[j].fd]
  <2> DEFINE e == l.poll_fds[j]
             q == r.poll_fds[j]
  <2>1. e \in PollFd
    BY <1>2, <1>4, <1>5
  <2>2. q = [e EXCEPT !.revents = IF e.fd = NULL THEN {} ELSE re[e.fd] \cap (e.events \cup Faults)]
    BY <1>2, <1>4, <1>5 DEF Polled, LoopType
  <2> HIDE DEF e, q
  <2>3. q.fd = e.fd /\ e.fd \in Fd \cup {NULL}
    BY <2>1, <2>2 DEF PollFd
  <2>4. q.fd \in Fd
    BY <1>5, <2>3 DEF q
  <2>5. q.revents = IF e.fd = NULL THEN {} ELSE re[e.fd] \cap (e.events \cup Faults)
    BY <2>1, <2>2 DEF PollFd
  <2>6. q.revents \subseteq re[q.fd]
    BY <2>3, <2>5
  <2> QED
    BY <2>4, <2>6 DEF q
<1> QED
  BY <1>1, <1>3, <1>5 DEF SameWatch, ActiveIn, OnlyReported

\* An entry whose watcher was stopped is invalidated.
LEMMA InvalidateSame ==
    ASSUME NEW l, SoundLoop(l), NEW f \in Fd, l.watchers[f] = NULL, NEW r, r = InvalidateFd(l, f)
    PROVE  /\ SameWatch(l, r) /\ r.iterating = l.iterating
           /\ r.watchers = l.watchers /\ r.queue = l.queue
           /\ \A j \in DOMAIN r.poll_fds : /\ j \in DOMAIN l.poll_fds
                                           /\ r.poll_fds[j].fd # NULL => r.poll_fds[j] = l.poll_fds[j]
<1>1. SoundLoop(r) /\ r.iterating = l.iterating
  BY InvalidateSound
<1>2. l \in LoopType /\ l.poll_fds \in Seq(PollFd)
  BY LoopFields DEF SoundLoop
<1>3. /\ r.fd = l.fd /\ r.pevents = l.pevents /\ r.watchers = l.watchers /\ r.queue = l.queue
      /\ r.poll_fds = [j \in DOMAIN l.poll_fds |-> IF l.poll_fds[j].fd = f THEN Invalid ELSE l.poll_fds[j]]
  BY <1>2 DEF InvalidateFd, LoopType
<1>4. \A j \in DOMAIN r.poll_fds : /\ j \in DOMAIN l.poll_fds
                                   /\ r.poll_fds[j].fd # NULL => r.poll_fds[j] = l.poll_fds[j]
  BY <1>3 DEF Invalid
<1> QED
  BY <1>1, <1>3, <1>4 DEF SameWatch, ActiveIn

\* uv__io_poll returns.
LEMMA EndSound ==
    ASSUME NEW l, SoundLoop(l)
    PROVE  SoundLoop([l EXCEPT !.iterating = FALSE])
<1>1. l \in LoopType /\ l.poll_fds \in Seq(PollFd)
  BY LoopFields DEF SoundLoop
<1>2. [l EXCEPT !.iterating = FALSE] = [l EXCEPT !.poll_fds = l.poll_fds, !.iterating = FALSE]
  BY <1>1 DEF LoopType
<1>3. \A j \in DOMAIN l.poll_fds : l.poll_fds[j].fd \in Watched(l) => l.poll_fds[j].fd # NULL
  BY UvNames DEF Watched
<1>4. SoundLoop([l EXCEPT !.poll_fds = l.poll_fds, !.iterating = FALSE])
  BY <1>1, <1>3, EntriesSound, ZenonT(30)
<1> QED
  BY <1>2, <1>4, Zenon

LEMMA EndSame ==
    ASSUME NEW l, SoundLoop(l), NEW r, r = [l EXCEPT !.iterating = FALSE]
    PROVE  SameWatch(l, r) /\ ~r.iterating
<1>1. l \in LoopType
  BY DEF SoundLoop
<1>2. r.fd = l.fd /\ r.pevents = l.pevents /\ r.iterating = FALSE
  BY <1>1 DEF LoopType
<1>3. SoundLoop(r)
  BY EndSound, Zenon
<1> QED
  BY <1>2, <1>3, Zenon DEF SameWatch, ActiveIn

-----------------------------------------------------------------------------
(* The task, from main() to the return of poll().                          *)

\* The types of what a step of the task alone changes.
LEMMA TaskTypes ==
    ASSUME IInv, UNCHANGED <<handlers, sockets, runtime, port>>, loop' \in LoopType, should_exit' \in BOOLEAN,
           pc' \in {"main", "boot", "poll", "drain", "iter", "parse", "js", "timers", "job", "decide", "exit"},
           i' \in Nat \ {0}, cur' \in Conn \cup {NULL}, rest' \in Seq({"request", "other", "bad"}),
           callbacked' \in BOOLEAN, armed' \in BOOLEAN, pending' \in {-1, 0, 1}
    PROVE  TypeOK'
BY DEF IInv, TypeOK, handlers, sockets, client, counter

\* A step that changes the place of the task and perhaps the loop, between two polls.
Between == {"poll", "drain", "js"}
LEMMA GotoIInv ==
    ASSUME IInv, OneRequestEach', UNCHANGED <<handlers, sockets, runtime, port>>, should_exit' \in BOOLEAN,
           \/ pc \in Idle /\ pc' \in Idle
           \/ pc \in Between /\ pc' \in Between,
           UNCHANGED <<i, cur, rest, callbacked, pending, armed>>,
           SoundLoop(loop'), ReadsOnly(loop'), loop'.fd = loop.fd, ~loop'.iterating,
           \A w \in Watcher : ActiveIn(loop', w) <=> ActiveIn(loop, w)
    PROVE  IInv'
<1>1. TypeOK'
  <2>1. loop' \in LoopType
    BY DEF SoundLoop
  <2>2. TypeOK
    BY DEF IInv
  <2> QED
    BY <2>1, <2>2, TaskTypes DEF TypeOK, Idle, Between
<1>2. LoopOK' /\ ServerOK' /\ (\A d \in Conn : ConnOK(d)') /\ FilesOK' /\ CountOK'
  BY Frame DEF handlers, sockets, client, Idle, Between
<1>3. QueueOK'
  BY FrameQueue DEF InHand, handlers, Idle, Between
<1>4. TurnOK' /\ FreshOK'
  BY DEF IInv, TurnOK, FreshOK, JsSteps, Idle, Between
<1> QED
  BY <1>1, <1>2, <1>3, <1>4 DEF IInv

LEMMA BootIInv ==
    ASSUME IInv, OneRequestEach', Start \/ StartFails \/ BootFails \/ PollBegin \/ Drain \/ PollError \/ JsEmpty
    PROVE  IInv'
<1>1. SoundLoop(loop) /\ ReadsOnly(loop) /\ (loop.iterating <=> pc \in {"iter", "parse"}) /\ should_exit \in BOOLEAN
  BY DEF IInv, LoopOK, ReadsOnly, TypeOK
<1>2. CASE Start \/ StartFails \/ PollBegin \/ PollError \/ JsEmpty
  <2>1. /\ \/ pc \in Idle /\ pc' \in Idle
           \/ pc \in Between /\ pc' \in Between
        /\ UNCHANGED <<i, cur, rest, callbacked, pending, armed, loop, handlers, sockets, process>>
    BY <1>2 DEF Start, StartFails, PollBegin, PollError, JsEmpty, Goto, Idle, Between
  <2>2. pc \notin {"iter", "parse"}
    BY <2>1 DEF Idle, Between
  <2> QED
    BY <1>1, <2>1, <2>2, GotoIInv DEF process
<1>3. CASE BootFails
  <2>1. /\ pc \in Idle /\ pc' \in Idle /\ loop' = IoStop(loop, Server, {"IN"}) /\ should_exit' = TRUE
        /\ UNCHANGED <<i, cur, rest, callbacked, pending, armed, handlers, sockets, runtime, port>>
    BY <1>3 DEF BootFails, Goto, Idle
  <2>2. ~ActiveIn(loop, Server) /\ pc \notin {"iter", "parse"}
    BY <2>1 DEF IInv, ServerOK, Idle
  <2>3. Stopped(loop, loop', Server)
    BY <1>1, <2>1, ConnNames, StopLoop
  <2>4. /\ SoundLoop(loop') /\ ReadsOnly(loop') /\ loop'.fd = loop.fd /\ ~loop'.iterating
        /\ \A w \in Watcher : ActiveIn(loop', w) <=> ActiveIn(loop, w)
    BY <1>1, <2>2, <2>3 DEF Stopped
  <2> QED
    BY <2>1, <2>4, GotoIInv
<1>4. CASE Drain
  <2>1. /\ pc = "drain" /\ pc' = pc /\ ~QueueEmpty(loop.queue, Loop) /\ loop' = TakeQueued(loop)
        /\ UNCHANGED <<i, cur, rest, callbacked, pending, armed, handlers, sockets, process>>
    BY <1>4 DEF Drain, task
  <2>2. SameWatch(loop, loop') /\ ~loop'.iterating
    BY <1>1, <2>1, TakeSame
  <2>3. /\ SoundLoop(loop') /\ ReadsOnly(loop') /\ loop'.fd = loop.fd
        /\ \A w \in Watcher : ActiveIn(loop', w) <=> ActiveIn(loop, w)
    BY <1>1, <2>2 DEF SameWatch, ReadsOnly
  <2> QED
    BY <1>1, <2>1, <2>2, <2>3, GotoIInv DEF process, Between
<1> QED
  BY <1>2, <1>3, <1>4

\* The listening socket.
LEMMA ListenIInv ==
    ASSUME IInv, OneRequestEach', BootListen
    PROVE  IInv'
<1>1. /\ pc = "boot" /\ pc' = "poll" /\ file' = [file EXCEPT ![ServerFd] = Server]
      /\ loop' = IoStart(IoOpen(loop, Server, ServerFd), Server, {"IN"})
      /\ UNCHANGED <<i, cur, rest, callbacked, pending, armed, js_queue, conn, js, net, answers, counter>>
      /\ UNCHANGED <<runtime, port, should_exit>>
  BY DEF BootListen, Goto, handlers, client, process
<1>2. /\ SoundLoop(loop) /\ ReadsOnly(loop) /\ ~loop.iterating
      /\ \A f \in Fd : file[f] = NULL
      /\ ~ActiveIn(loop, Server) /\ loop.fd \in [Watcher -> Fd \cup {NULL}]
      /\ file \in [Fd -> Watcher \cup {NULL}]
  BY <1>1, LoopFields DEF IInv, LoopOK, ReadsOnly, ServerOK, Idle, TypeOK
<1>3. ASSUME NEW v \in Watcher PROVE ~ActiveIn(loop, v)
  <2>1. CASE v = Server
    BY <1>2, <2>1
  <2>2. CASE v # Server
    <3>1. v \in Conn /\ ConnOK(v)
      BY <2>2 DEF Conn, IInv
    <3> QED
      BY <1>2, <3>1, ConnNames DEF ConnOK
  <2> QED
    BY <2>1, <2>2
<1>4. /\ SoundLoop(loop') /\ ReadsOnly(loop') /\ loop'.iterating = loop.iterating
      /\ loop'.fd = [loop.fd EXCEPT ![Server] = ServerFd]
      /\ \A v \in Watcher : ActiveIn(loop', v) <=> ActiveIn(loop, v) \/ v = Server
  BY <1>1, <1>2, <1>3, ConnNames, StartLoop
<1>5. /\ file'[ServerFd] = Server /\ \A f \in Fd : f # ServerFd => file'[f] = NULL
      /\ loop'.fd[Server] = ServerFd
      /\ file' \in [Fd -> Watcher \cup {NULL}]
  BY <1>1, <1>2, <1>4, ConnNames
<1>6. TypeOK'
  <2>1. loop' \in LoopType
    BY <1>4 DEF SoundLoop
  <2> QED
    BY <1>1, <1>5, <2>1 DEF IInv, TypeOK, counter
<1>7. LoopOK' /\ ServerOK'
  BY <1>1, <1>2, <1>4, <1>5, ConnNames DEF LoopOK, ReadsOnly, ServerOK, Idle
<1>8. ASSUME NEW c \in Conn PROVE ConnOK(c)'
  <2>1. ConnOK(c) /\ ~Live(c)
    BY <1>2, ConnNames DEF IInv, ConnOK
  <2>2. ~ActiveIn(loop', c)
    BY <1>3, <1>4, ConnNames
  <2> QED
    BY <1>1, <2>1, <2>2 DEF ConnOK, Live
<1>9. FilesOK'
  BY <1>5, ConnNames DEF FilesOK
<1>10. CountOK'
  <2>1. Accepted = {} /\ Accepted' = {}
    BY <1>2, <1>5, ConnNames DEF Accepted
  <2> QED
    BY <1>1, <2>1 DEF IInv, CountOK, Balanced, counter
<1>11. QueueOK'
  BY <1>1, FrameQueue DEF InHand, JsSteps
<1>12. TurnOK' /\ FreshOK'
  BY <1>1 DEF IInv, TurnOK, FreshOK, JsSteps
<1> QED
  BY <1>6, <1>7, <1>8, <1>9, <1>10, <1>11, <1>12 DEF IInv

\* poll() returns with events, or is interrupted: what an entry gets is what its
\* socket has, and every watcher was registered before.
LEMMA PollIInv ==
    ASSUME IInv, OneRequestEach', PollReady \/ PollInterrupted
    PROVE  IInv'
<1>1. PICK re \in {Seen, [f \in Fd |-> {}]} : StartIter(re)
  BY DEF PollReady, PollInterrupted
<1>2. /\ re \in [Fd -> SUBSET (Events \cup Faults)]
      /\ \A f \in Fd : "ERR" \notin re[f] /\ ("IN" \in re[f] => file[f] # NULL)
  <2>1. CASE re = Seen
    BY <2>1 DEF Seen, Events, Faults
  <2>2. CASE re = [f \in Fd |-> {}]
    BY <2>2 DEF Events, Faults
  <2> QED
    BY <1>1, <2>1, <2>2
<1>3. /\ pc = "drain" /\ QueueEmpty(loop.queue, Loop) /\ loop' = Polled(loop, re)
      /\ pc' = "iter" /\ i' = 1
      /\ UNCHANGED <<cur, rest, callbacked, pending, armed, handlers, sockets, process>>
  BY <1>1 DEF StartIter
<1>4. SoundLoop(loop) /\ ReadsOnly(loop) /\ cur = NULL
  BY <1>3 DEF IInv, LoopOK, ReadsOnly, TurnOK, JsSteps
<1> HIDE DEF IInv
<1>5. /\ SameWatch(loop, loop') /\ loop'.iterating = TRUE
      /\ loop'.watchers = loop.watchers /\ loop'.queue = loop.queue
      /\ \A j \in DOMAIN loop'.poll_fds :
             loop'.poll_fds[j].fd # NULL =>
                 /\ loop'.poll_fds[j].fd \in Fd
                 /\ loop'.poll_fds[j].revents \subseteq re[loop'.poll_fds[j].fd]
  <2>1. /\ SameWatch(loop, loop') /\ loop'.iterating = TRUE
        /\ loop'.watchers = loop.watchers /\ loop'.queue = loop.queue
        /\ OnlyReported(loop', re)
    BY <1>2, <1>3, <1>4, PolledSame
  <2> QED
    BY <2>1, Zenon DEF OnlyReported
<1>6. /\ SoundLoop(loop') /\ ReadsOnly(loop') /\ loop'.fd = loop.fd
      /\ \A w \in Watcher : ActiveIn(loop', w) <=> ActiveIn(loop, w)
  BY <1>4, <1>5 DEF SameWatch, ReadsOnly
<1>7. TypeOK'
  <2>1. loop' \in LoopType
    BY <1>6 DEF SoundLoop
  <2>2. TypeOK
    BY DEF IInv
  <2> QED
    BY <1>3, <2>1, <2>2, TaskTypes DEF TypeOK, process
<1>8. LoopOK' /\ ServerOK' /\ (\A d \in Conn : ConnOK(d)') /\ FilesOK' /\ CountOK'
  BY <1>3, <1>5, <1>6, Frame DEF handlers, sockets, client, process, Idle
<1>9. QueueOK'
  BY <1>3, FrameQueue DEF InHand, handlers
<1>10. TurnOK'
  BY <1>3, <1>4 DEF TurnOK, JsSteps
<1>11. \A w \in Watcher : QueueEmpty(loop.queue, w)
  <2>1. /\ loop.queue \in QueueHeap(Watcher \cup {Loop}) /\ QueueLinked(loop.queue, Watcher \cup {Loop})
        /\ OneRing(loop.queue, Loop, Watcher \cup {Loop})
    BY <1>4, LoopFields DEF SoundLoop
  <2> QED
    BY <1>3, <2>1, HeadAlone
<1>12. ASSUME NEW j \in DOMAIN loop'.poll_fds, NEW e, e = loop'.poll_fds[j], e.fd # NULL
       PROVE  FreshEntry(e)'
  <2>1. e.fd \in Fd /\ e.revents \subseteq re[e.fd]
    BY <1>5, <1>12
  <2>2. "ERR" \notin e.revents /\ ("IN" \in e.revents => file[e.fd] # NULL)
    BY <1>2, <2>1
  <2>3. loop.watchers[e.fd] \in Watcher \cup {NULL}
    BY <1>4, <2>1, LoopFields DEF SoundLoop
  <2>4. file' = file
    BY <1>3 DEF sockets
  <2> QED
    BY <1>5, <1>11, <2>2, <2>3, <2>4 DEF FreshEntry
<1>13. FreshOK'
  BY <1>12 DEF FreshOK
<1> QED
  BY <1>7, <1>8, <1>9, <1>10, <1>13 DEF IInv

-----------------------------------------------------------------------------
(* The entries.                                                            *)

\* What a callback of w can rely on.
LEMMA CallFacts ==
    ASSUME IInv, NEW w \in Watcher, Calls(w)
    PROVE  /\ pc = "iter" /\ i \in DOMAIN loop.poll_fds /\ loop.poll_fds[i].fd \in Fd
           /\ loop.fd[w] = loop.poll_fds[i].fd /\ ActiveIn(loop, w) /\ loop.watchers[loop.fd[w]] = w
           /\ w \in Conn => Live(w) /\ ~conn[w].initialized
<1>1. pc = "iter" /\ i \in DOMAIN loop.poll_fds /\ loop.poll_fds[i].fd # NULL
  BY DEF Calls, InRange, Entry
<1>2. loop.poll_fds \in Seq(PollFd) /\ loop.watchers \in [Fd -> Watcher \cup {NULL}] /\ SoundLoop(loop)
  BY LoopFields DEF IInv, LoopOK, SoundLoop
<1>3. loop.poll_fds[i] \in PollFd
  BY <1>1, <1>2
<1>4. loop.poll_fds[i].fd \in Fd
  BY <1>1, <1>3 DEF PollFd
<1>5. loop.watchers[loop.poll_fds[i].fd] = w
  BY DEF Calls, WatcherAt
<1>6. loop.fd[w] = loop.poll_fds[i].fd /\ ActiveIn(loop, w)
  BY <1>2, <1>4, <1>5, UvNames DEF SoundLoop, RegisteredIn, Watched
<1>7. w \in Conn => Live(w) /\ ~conn[w].initialized
  BY <1>6 DEF IInv, ConnOK
<1> QED
  BY <1>1, <1>4, <1>5, <1>6, <1>7

\* The next entry, when no connection changes.
LEMMA NextIInv ==
    ASSUME IInv, OneRequestEach', pc \in {"iter", "parse"}, i \in DOMAIN loop.poll_fds, NextEntry,
           UNCHANGED <<handlers, file, answers, process>>, UNCHANGED counter \/ CountOK', CountType',
           net' \in [Conn -> [state : {"new", "backlog", "open", "closed"}, bytes : BOOLEAN, eof : BOOLEAN]],
           \A c \in Conn : \/ net'[c].state = net[c].state
                           \/ conn[c].mem = "none" /\ net'[c].state \in {"new", "backlog", "closed"},
           SameWatch(loop, loop'), loop'.iterating = loop.iterating,
           loop'.watchers = loop.watchers, loop'.queue = loop.queue,
           \A j \in DOMAIN loop'.poll_fds : /\ j \in DOMAIN loop.poll_fds
                                            /\ loop'.poll_fds[j].fd # NULL => loop'.poll_fds[j] = loop.poll_fds[j]
    PROVE  IInv'
<1>1. /\ pc' = "iter" /\ i' = i + 1 /\ cur' = NULL /\ rest' = <<>>
      /\ UNCHANGED <<callbacked, pending, armed>>
  BY DEF NextEntry
<1>2. ReadsOnly(loop) /\ (loop.iterating <=> pc \in {"iter", "parse"})
  BY DEF IInv, LoopOK, ReadsOnly
<1>3. /\ SoundLoop(loop') /\ ReadsOnly(loop') /\ loop'.fd = loop.fd
      /\ \A w \in Watcher : ActiveIn(loop', w) <=> ActiveIn(loop, w)
  BY <1>2 DEF SameWatch, ReadsOnly
<1>4. TypeOK'
  <2>1. loop' \in LoopType
    BY <1>3 DEF SoundLoop
  <2>2. rest' \in Seq({"request", "other", "bad"}) /\ i' \in Nat \ {0}
    BY <1>1 DEF IInv, TypeOK
  <2> QED
    BY <1>1, <2>1, <2>2 DEF IInv, TypeOK, CountType, handlers, process
<1>5. LoopOK' /\ ServerOK' /\ (\A d \in Conn : ConnOK(d)') /\ FilesOK' /\ CountOK'
  BY <1>1, <1>2, <1>3, Frame DEF handlers, process, Idle
<1>6. QueueOK'
  BY <1>1, FrameQueue DEF InHand, handlers
<1>7. TurnOK'
  BY <1>1 DEF TurnOK, JsSteps
<1>8. FreshOK'
  BY <1>1, <1>3, FreshNext
<1> QED
  BY <1>4, <1>5, <1>6, <1>7, <1>8 DEF IInv

LEMMA LoopSame ==
    ASSUME NEW l, SoundLoop(l)
    PROVE  SameWatch(l, l)
BY DEF SameWatch

\* The types of the clients.
LEMMA NetType ==
    ASSUME IInv
    PROVE  /\ net \in [Conn -> [state : {"new", "backlog", "open", "closed"}, bytes : BOOLEAN, eof : BOOLEAN]]
           /\ CountType
BY DEF IInv, TypeOK, CountType

\* Nothing happens for the entry, or the parser has finished with it.
LEMMA SkipIInv ==
    ASSUME IInv, OneRequestEach',
           SkipEntry \/ AcceptRefused \/ ParseEnd \/ \E c \in Conn : RecvInterrupted(c)
    PROVE  IInv'
<1>1. SoundLoop(loop)
  BY DEF IInv, LoopOK
<1>2. CASE UNCHANGED loop
  <2>1. /\ pc \in {"iter", "parse"} /\ i \in DOMAIN loop.poll_fds /\ NextEntry
        /\ UNCHANGED <<handlers, sockets, process>>
    BY DEF SkipEntry, AcceptRefused, ParseEnd, RecvInterrupted, Calls, InRange, IInv, TurnOK
  <2> QED
    BY <1>1, <1>2, <2>1, LoopSame, NetType, NextIInv DEF sockets, client, counter, CountType
<1>3. CASE loop' # loop
  <2>1. /\ InRange /\ Entry.fd # NULL /\ WatcherAt(loop, i) = NULL
        /\ loop' = InvalidateFd(loop, Entry.fd) /\ NextEntry
        /\ UNCHANGED <<handlers, sockets, process>>
    BY <1>3 DEF SkipEntry, AcceptRefused, ParseEnd, RecvInterrupted
  <2>2. /\ pc = "iter" /\ i \in DOMAIN loop.poll_fds /\ loop.poll_fds \in Seq(PollFd)
    BY <1>1, <2>1, LoopFields DEF InRange, SoundLoop
  <2>3. Entry \in PollFd
    BY <2>2 DEF Entry
  <2>4. Entry.fd \in Fd /\ loop.watchers[Entry.fd] = NULL
    BY <2>1, <2>3 DEF PollFd, WatcherAt, Entry
  <2>5. /\ SameWatch(loop, loop') /\ loop'.iterating = loop.iterating
        /\ loop'.watchers = loop.watchers /\ loop'.queue = loop.queue
        /\ \A j \in DOMAIN loop'.poll_fds : /\ j \in DOMAIN loop.poll_fds
                                            /\ loop'.poll_fds[j].fd # NULL => loop'.poll_fds[j] = loop.poll_fds[j]
    BY <1>1, <2>1, <2>4, InvalidateSame
  <2> QED
    BY <2>1, <2>2, <2>5, NetType, NextIInv DEF sockets, client, counter, CountType
<1> QED
  BY <1>2, <1>3

\* pvPortMalloc fails: the client is turned away.
LEMMA NoMemoryIInv ==
    ASSUME IInv, OneRequestEach', NEW c \in Conn, AcceptNoMemory(c)
    PROVE  IInv'
<1>1. SoundLoop(loop) /\ ConnOK(c) /\ conn[c].mem \in {"none", "live", "freed"}
  BY DEF IInv, LoopOK, TypeOK
<1>2. /\ Calls(Server) /\ NextEntry /\ UNCHANGED <<loop, handlers, file, answers, process>>
      /\ net[c].state = "backlog"
      /\ net' = [net EXCEPT ![c] = [state |-> "closed", bytes |-> FALSE, eof |-> FALSE]]
      /\ IF port = "linux" THEN Counted /\ UNCHANGED <<numConns, uncounted>>
                           ELSE CountDown /\ UNCHANGED uncounted
  BY DEF AcceptNoMemory
<1>3. CountType' /\ CountOK'
  <2>1. TypeOK /\ CountOK /\ CountType /\ Accepted' = Accepted /\ UNCHANGED port
    BY <1>2, NetType DEF IInv, Accepted, process
  <2>2. CASE port = "linux"
    <3>1. Counted /\ UNCHANGED <<numConns, uncounted>>
      BY <1>2, <2>2
    <3>2. loaded' \in 0..(CountMod - 1) \cup {NULL} /\ raced' \in BOOLEAN
      BY <2>1, <3>1, CountedTypes
    <3>3. CountType'
      BY <2>1, <3>1, <3>2, Zenon DEF CountType
    <3>4. ~raced' => ~raced /\ loaded' = NULL
      BY <3>1 DEF Counted
    <3>5. CountOK'
      BY <2>1, <3>1, <3>4 DEF CountOK, Balanced
    <3> QED
      BY <3>3, <3>5
  <2>3. CASE port # "linux"
    <3>1. CountDown /\ UNCHANGED uncounted
      BY <1>2, <2>3
    <3>2. uncounted' \in Nat
      BY <2>1, <3>1 DEF CountType
    <3>3. CountType'
      BY <2>1, <3>1, <3>2, CountDownTypes
    <3> QED
      BY <2>1, <2>3, <3>3 DEF CountOK
  <2> QED
    BY <2>2, <2>3
<1>4. conn[c].mem = "none"
  BY <1>1, <1>2 DEF ConnOK, Live
<1>5. /\ net' \in [Conn -> [state : {"new", "backlog", "open", "closed"}, bytes : BOOLEAN, eof : BOOLEAN]]
      /\ \A d \in Conn : \/ net'[d].state = net[d].state
                         \/ conn[d].mem = "none" /\ net'[d].state \in {"new", "backlog", "closed"}
  BY <1>2, <1>4, NetType
<1>6. pc = "iter" /\ i \in DOMAIN loop.poll_fds
  BY <1>2 DEF Calls, InRange
<1> QED
  BY <1>1, <1>2, <1>3, <1>5, <1>6, LoopSame, NextIInv

\* uv__io_poll returns.
LEMMA PollEndIInv ==
    ASSUME IInv, OneRequestEach', PollEnd
    PROVE  IInv'
<1>1. /\ pc = "iter" /\ loop' = [loop EXCEPT !.iterating = FALSE] /\ pc' = "js" /\ i' = 1
      /\ UNCHANGED <<cur, rest, callbacked, pending, armed, handlers, sockets, process>>
  BY DEF PollEnd
<1>2. SoundLoop(loop) /\ ReadsOnly(loop) /\ cur = NULL
  BY <1>1 DEF IInv, LoopOK, ReadsOnly, TurnOK, JsSteps
<1>3. SameWatch(loop, loop') /\ ~loop'.iterating
  BY <1>1, <1>2, EndSame
<1>4. /\ SoundLoop(loop') /\ ReadsOnly(loop') /\ loop'.fd = loop.fd
      /\ \A w \in Watcher : ActiveIn(loop', w) <=> ActiveIn(loop, w)
  BY <1>2, <1>3 DEF SameWatch, ReadsOnly
<1>5. TypeOK'
  <2>1. loop' \in LoopType /\ TypeOK
    BY <1>4 DEF SoundLoop, IInv
  <2> QED
    BY <1>1, <2>1, TaskTypes DEF TypeOK, process
<1>6. LoopOK' /\ ServerOK' /\ (\A d \in Conn : ConnOK(d)') /\ FilesOK' /\ CountOK'
  BY <1>1, <1>3, <1>4, Frame DEF handlers, sockets, client, process, Idle
<1>7. QueueOK'
  BY <1>1, FrameQueue DEF InHand, handlers
<1>8. TurnOK' /\ FreshOK'
  BY <1>1, <1>2 DEF TurnOK, FreshOK, JsSteps
<1> QED
  BY <1>5, <1>6, <1>7, <1>8 DEF IInv

\* __on_connected takes a connection.
LEMMA AcceptIInv ==
    ASSUME IInv, OneRequestEach', NEW c \in Conn, NEW f \in Fd, Accept(c, f)
    PROVE  IInv'
<1>1. /\ Calls(Server) /\ NextEntry
      /\ conn' = [conn EXCEPT ![c] = [mem |-> "live", initialized |-> FALSE, completed |-> FALSE, recvd |-> 0]]
      /\ loop' = IoStart(IoOpen(loop, c, f), c, {"IN"})
      /\ UNCHANGED <<js_queue, js, answers, process>>
      /\ net[c].state = "backlog" /\ file[f] = NULL
      /\ file' = [file EXCEPT ![f] = c] /\ net' = [net EXCEPT ![c].state = "open"]
      /\ IF port = "linux" THEN LinuxAccept ELSE PicoAccept
  BY DEF Accept, TcpAccept
<1>2. /\ pc = "iter" /\ i \in DOMAIN loop.poll_fds
      /\ pc' = "iter" /\ i' = i + 1 /\ cur' = NULL /\ rest' = <<>>
      /\ UNCHANGED <<callbacked, pending, armed, runtime, port, should_exit>>
  BY <1>1 DEF Calls, InRange, NextEntry, process
<1>3. /\ SoundLoop(loop) /\ ReadsOnly(loop) /\ loop.iterating
      /\ loop.fd \in [Watcher -> Fd \cup {NULL}] /\ loop.watchers \in [Fd -> Watcher \cup {NULL}]
      /\ file \in [Fd -> Watcher \cup {NULL}]
      /\ conn \in [Conn -> [mem : {"none", "live", "freed"}, initialized : BOOLEAN,
                            completed : BOOLEAN, recvd : Nat]]
  BY <1>2, LoopFields DEF IInv, LoopOK, ReadsOnly, TypeOK, SoundLoop
<1>4. /\ file[ServerFd] = Server /\ loop.fd[Server] = ServerFd /\ ActiveIn(loop, Server)
      /\ \A g \in Fd : file[g] = Server => g = ServerFd
  BY <1>2 DEF IInv, ServerOK, Idle
<1>5. /\ conn[c].mem = "none" /\ ~conn[c].initialized /\ ~ActiveIn(loop, c) /\ answers[c] = <<>>
      /\ \A g \in Fd : file[g] # c
  <2>1. ConnOK(c) /\ conn[c].mem \in {"none", "live", "freed"}
    BY <1>3 DEF IInv
  <2>2. conn[c].mem = "none"
    BY <1>1, <2>1 DEF ConnOK, Live
  <2>3. \A g \in Fd : file[g] # c
    BY <2>2 DEF IInv, FilesOK, Live
  <2> QED
    BY <2>1, <2>2, <2>3 DEF ConnOK, Live
<1>6. ASSUME NEW v \in Watcher, ActiveIn(loop, v) PROVE loop.fd[v] # f
  <2>1. CASE v = Server
    BY <1>1, <1>4, <2>1, ConnNames
  <2>2. CASE v # Server
    <3>1. v \in Conn /\ ConnOK(v)
      BY <2>2 DEF Conn, IInv
    <3> QED
      BY <1>1, <1>6, <3>1, ConnNames DEF ConnOK
  <2> QED
    BY <2>1, <2>2
<1>7. /\ SoundLoop(loop') /\ ReadsOnly(loop')
      /\ loop'.iterating = loop.iterating /\ loop'.poll_fds = loop.poll_fds
      /\ loop'.fd = [loop.fd EXCEPT ![c] = f]
      /\ \A v \in Watcher : ActiveIn(loop', v) <=> ActiveIn(loop, v) \/ v = c
      /\ \A g \in Fd : g # f => loop'.watchers[g] = loop.watchers[g]
      /\ \A v \in Watcher : v # c => (QueueEmpty(loop'.queue, v) <=> QueueEmpty(loop.queue, v))
  <2>1. c \in Watcher /\ loop' = IoStart(IoOpen(loop, c, f), c, {"IN"})
    BY <1>1, ConnNames
  <2>2. SoundLoop(loop) /\ ReadsOnly(loop) /\ ~ActiveIn(loop, c)
    BY <1>3, <1>5
  <2>3. \A v \in Watcher : ActiveIn(loop, v) => loop.fd[v] # f
    BY <1>6
  <2> QED
    BY <2>1, <2>2, <2>3, StartLoop
<1>8. /\ loop'.fd[c] = f /\ \A v \in Watcher : v # c => loop'.fd[v] = loop.fd[v]
      /\ file'[f] = c /\ \A g \in Fd : g # f => file'[g] = file[g]
      /\ file' \in [Fd -> Watcher \cup {NULL}] /\ f # ServerFd
  BY <1>1, <1>3, <1>4, <1>7, ConnNames
<1>9. /\ conn'[c].mem = "live" /\ conn'[c].initialized = FALSE /\ net'[c].state = "open"
      /\ \A d \in Conn : d # c => conn'[d] = conn[d] /\ net'[d] = net[d]
      /\ conn' \in [Conn -> [mem : {"none", "live", "freed"}, initialized : BOOLEAN,
                             completed : BOOLEAN, recvd : Nat]]
      /\ net' \in [Conn -> [state : {"new", "backlog", "open", "closed"}, bytes : BOOLEAN, eof : BOOLEAN]]
  BY <1>1, <1>3, NetType
<1>10. CountType'
  <2>1. CASE port = "linux"
    <3>1. Counted /\ UNCHANGED uncounted /\ numConns' = (numConns + 1) % CountMod
      BY <1>1, <2>1 DEF LinuxAccept
    <3>2. loaded' \in 0..(CountMod - 1) \cup {NULL} /\ raced' \in BOOLEAN
      BY <3>1, CountedTypes DEF IInv
    <3>3. numConns' \in 0..(CountMod - 1) /\ uncounted' \in Nat
      BY <3>1, NetType, CountRange DEF CountType
    <3> QED
      BY <3>2, <3>3, Zenon DEF CountType
  <2>2. CASE port # "linux"
    BY <1>1, <2>2, NetType DEF PicoAccept, CountType, counter
  <2> QED
    BY <2>1, <2>2
<1>11. TypeOK'
  <2>1. loop' \in LoopType
    BY <1>7 DEF SoundLoop
  <2>2. rest' \in Seq({"request", "other", "bad"}) /\ i' \in Nat \ {0}
    BY <1>2 DEF IInv, TypeOK
  <2> QED
    BY <1>1, <1>2, <1>8, <1>9, <1>10, <2>1, <2>2 DEF IInv, TypeOK, CountType
<1>12. LoopOK'
  BY <1>2, <1>3, <1>7 DEF LoopOK, ReadsOnly
<1>13. ServerOK'
  BY <1>2, <1>4, <1>7, <1>8, ConnNames DEF ServerOK, Idle
<1>14. ASSUME NEW d \in Conn PROVE ConnOK(d)'
  <2>1. CASE d = c
    BY <1>1, <1>5, <1>7, <1>8, <1>9, <2>1, ConnNames DEF ConnOK, Live
  <2>2. CASE d # c
    <3>1. ConnOK(d)
      BY DEF IInv
    <3>2. /\ conn'[d] = conn[d] /\ net'[d] = net[d] /\ answers'[d] = answers[d]
          /\ loop'.fd[d] = loop.fd[d] /\ (ActiveIn(loop', d) <=> ActiveIn(loop, d))
      BY <1>1, <1>7, <1>8, <1>9, <2>2, ConnNames
    <3>3. Live(d) => file'[loop.fd[d]] = d
      BY <1>1, <1>8, <3>1, ConnNames DEF ConnOK
    <3> QED
      BY <3>1, <3>2, <3>3 DEF ConnOK, Live
  <2> QED
    BY <2>1, <2>2
<1>15. FilesOK'
  <2>1. ASSUME NEW g \in Fd, file'[g] \in Conn
        PROVE  conn'[file'[g]].mem = "live" /\ loop'.fd[file'[g]] = g
    <3>1. CASE g = f
      BY <1>8, <1>9, <3>1
    <3>2. CASE g # f
      <4>1. file'[g] = file[g] /\ file[g] # c
        BY <1>5, <1>8, <3>2
      <4>2. Live(file[g]) /\ loop.fd[file[g]] = g
        BY <2>1, <4>1 DEF IInv, FilesOK
      <4> QED
        BY <1>8, <1>9, <2>1, <4>1, <4>2, ConnNames DEF Live
    <3> QED
      BY <3>1, <3>2
  <2> QED
    BY <2>1 DEF FilesOK, Live
<1>16. CountOK'
  <2>1. Accepted' = Accepted \cup {f} /\ f \notin Accepted
    BY <1>1, <1>8, ConnNames DEF Accepted
  <2>2. Cardinality(Accepted \cup {f}) = Cardinality(Accepted) + 1
    BY <2>1, AcceptedFinite, FS_AddElement
  <2>3. SUFFICES ASSUME port = "linux", ~raced'
                 PROVE  /\ Balanced(numConns', uncounted, Cardinality(Accepted) + 1)
                        /\ Cardinality(Accepted) + 1 <= MaxConns + uncounted /\ loaded' = NULL
                        /\ UNCHANGED uncounted
    BY <1>2, <2>1, <2>2 DEF CountOK, Balanced
  <2>4. /\ numConns < MaxConns /\ numConns' = (numConns + 1) % CountMod
        /\ ~raced /\ loaded' = NULL /\ UNCHANGED uncounted
    BY <1>1, <2>3 DEF LinuxAccept, Counted
  <2>5. PICK k \in Nat : numConns + uncounted = Cardinality(Accepted) + k * CountMod
    BY <2>3, <2>4 DEF IInv, CountOK, Balanced
  <2>6. /\ numConns \in Nat /\ uncounted \in Nat /\ Cardinality(Accepted) \in Nat
        /\ numConns + 1 < CountMod /\ k * CountMod \in Nat
    BY <2>4, NetType, AcceptedFinite, HttpdNumbers DEF CountType
  <2>7. numConns' = numConns + 1
    BY <2>4, <2>6, CountSmall
  <2>8. numConns' + uncounted = (Cardinality(Accepted) + 1) + k * CountMod
    BY <2>5, <2>6, <2>7
  <2>9. Balanced(numConns', uncounted, Cardinality(Accepted) + 1)
    BY <2>8 DEF Balanced
  <2>10. Cardinality(Accepted) + 1 <= MaxConns + uncounted
    BY <2>4, <2>5, <2>6, HttpdNumbers
  <2> QED
    BY <2>4, <2>9, <2>10
<1>17. QueueOK'
  <2>1. Kept' = Kept
    BY <1>5, <1>9 DEF Kept
  <2>2. \A d \in Kept : (conn'[d].initialized <=> conn[d].initialized) /\ ~InHand(d) /\ ~InHand(d)'
    BY <1>2, <1>5, <1>9 DEF InHand, Kept
  <2>3. js_queue' = js_queue /\ QueueOK
    BY <1>1 DEF IInv
  <2> QED
    BY <2>1, <2>2, <2>3 DEF QueueOK, Linked
<1>18. TurnOK'
  BY <1>2 DEF TurnOK, JsSteps
<1>19. FreshOK'
  <2>1. ASSUME NEW g \in Fd, file[g] # NULL
        PROVE  /\ file'[g] # NULL /\ loop'.watchers[g] = loop.watchers[g]
               /\ loop.watchers[g] # NULL /\ QueueEmpty(loop.queue, loop.watchers[g])
                      => QueueEmpty(loop'.queue, loop.watchers[g])
    <3>1. g # f /\ file'[g] = file[g] /\ loop'.watchers[g] = loop.watchers[g]
      BY <1>1, <1>7, <1>8, <2>1
    <3>2. loop.watchers[g] # NULL => loop.watchers[g] \in Watcher /\ loop.watchers[g] # c
      BY <1>3, <1>5 DEF SoundLoop, RegisteredIn, Watched
    <3> QED
      BY <1>7, <2>1, <3>1, <3>2
  <2> QED
    BY <1>2, <1>7, <2>1, FreshNext
<1> QED
  BY <1>11, <1>12, <1>13, <1>14, <1>15, <1>16, <1>17, <1>18, <1>19 DEF IInv

-----------------------------------------------------------------------------
(* The callers of __httpd_cleanup_conn.                                    *)

TaskType == /\ pc \in {"main", "boot", "poll", "drain", "iter", "parse", "js", "timers", "job", "decide", "exit"}
            /\ i \in Nat \ {0} /\ cur \in Conn \cup {NULL} /\ rest \in Seq({"request", "other", "bad"})
            /\ callbacked \in BOOLEAN /\ armed \in BOOLEAN /\ pending \in {-1, 0, 1}
Answers == {"404", "413", "200", "response", "cut"}

LEMMA CleanupIInv ==
    ASSUME IInv, OneRequestEach', NEW c \in Conn, Live(c), NEW l, l \in {loop, IoStop(loop, c, {"IN"})},
           CleanupConn(l, c), UNCHANGED process, pc \notin Idle, pc' \notin Idle,
           pc \in {"iter", "parse"} <=> pc' \in {"iter", "parse"},
           \A d \in Conn \ {c} : /\ (cur' = d /\ pc' \in JsSteps) <=> (cur = d /\ pc \in JsSteps)
                                 /\ answers'[d] = answers[d],
           answers' \in [Conn -> Seq(Answers)], TaskType', TurnOK',
           pc \in {"iter", "parse"} => /\ i \in DOMAIN loop.poll_fds /\ loop.fd[c] = loop.poll_fds[i].fd
                                       /\ i' = i + 1 \/ (i' = i /\ pc' # "iter")
    PROVE  IInv'
<1>1. /\ Stopped(loop, loop', c)
      /\ loop.fd[c] \in Fd /\ file' = [file EXCEPT ![loop.fd[c]] = NULL]
      /\ conn' = [conn EXCEPT ![c] = Freed]
      /\ net' = [net EXCEPT ![c] = [state |-> "closed", bytes |-> FALSE, eof |-> FALSE]]
      /\ js' \in [Conn -> JsState] /\ CountType'
      /\ js_queue' \in QueueHeap(Conn \cup {JsQueue})
  BY CleanupDoes
<1>2. LoopOK' /\ ServerOK' /\ (\A d \in Conn : ConnOK(d)') /\ FilesOK' /\ CountOK' /\ QueueOK'
  <2>1. UNCHANGED <<port, OneRequestEach>>
    BY DEF process, IInv
  <2> QED
    BY <2>1, CleanupKeeps
<1>3. /\ file \in [Fd -> Watcher \cup {NULL}]
      /\ conn \in [Conn -> [mem : {"none", "live", "freed"}, initialized : BOOLEAN,
                            completed : BOOLEAN, recvd : Nat]]
      /\ <<runtime, port>> \in Builds /\ should_exit \in BOOLEAN
  BY DEF IInv, TypeOK
<1>4. /\ SoundLoop(loop') /\ loop'.poll_fds = loop.poll_fds
      /\ \A g \in Fd : loop'.watchers[g] \in {loop.watchers[g], NULL}
      /\ \A v \in Watcher : QueueEmpty(loop.queue, v) => QueueEmpty(loop'.queue, v)
  BY <1>1 DEF Stopped
<1>5. TypeOK'
  <2>1. loop' \in LoopType
    BY <1>4 DEF SoundLoop
  <2>2. file' \in [Fd -> Watcher \cup {NULL}]
    BY <1>1, <1>3
  <2>3. conn' \in [Conn -> [mem : {"none", "live", "freed"}, initialized : BOOLEAN,
                            completed : BOOLEAN, recvd : Nat]]
    BY <1>1, <1>3 DEF Freed
  <2>4. net' \in [Conn -> [state : {"new", "backlog", "open", "closed"}, bytes : BOOLEAN, eof : BOOLEAN]]
    BY <1>1, NetType
  <2>5. <<runtime', port'>> \in Builds /\ should_exit' \in BOOLEAN
    BY <1>3 DEF process
  <2> QED
    BY <1>1, <2>1, <2>2, <2>3, <2>4, <2>5 DEF TypeOK, TaskType, CountType, Answers
<1>6. CASE pc \in {"iter", "parse"}
  <2>1. \A g \in Fd : g # loop.fd[c] => file'[g] = file[g]
    BY <1>1, <1>3
  <2>2. loop.watchers \in [Fd -> Watcher \cup {NULL}]
    BY LoopFields DEF IInv, LoopOK, SoundLoop
  <2>3. \A g \in Fd : g # loop.poll_fds[i].fd /\ file[g] # NULL =>
               /\ file'[g] # NULL /\ loop'.watchers[g] \in {loop.watchers[g], NULL}
               /\ loop.watchers[g] # NULL /\ QueueEmpty(loop.queue, loop.watchers[g])
                      => QueueEmpty(loop'.queue, loop.watchers[g])
    BY <1>4, <1>6, <2>1, <2>2
  <2>4. FreshOK'
    BY <1>4, <1>6, <2>3, FreshNext
  <2> QED
    BY <1>2, <1>5, <2>4 DEF IInv
<1>7. CASE pc \notin {"iter", "parse"}
  <2>1. FreshOK'
    BY <1>7 DEF FreshOK
  <2> QED
    BY <1>2, <1>5, <2>1 DEF IInv
<1> QED
  BY <1>6, <1>7

\* A response goes to the client of the connection it is written for.
LEMMA WriteTo ==
    ASSUME IInv, NEW c \in Conn, Live(c), NEW text \in Answers, Write(loop.fd[c], text)
    PROVE  /\ \E sent \in {text, "cut"} : answers' = [answers EXCEPT ![c] = <<sent>>]
           /\ answers' \in [Conn -> Seq(Answers)]
           /\ \A d \in Conn \ {c} : answers'[d] = answers[d]
<1>1. PICK sent \in {text, "cut"} : answers' = Written(loop.fd[c], sent)
  BY DEF Write
<1>2. /\ file[loop.fd[c]] = c /\ answers[c] = <<>> /\ answers \in [Conn -> Seq(Answers)]
      /\ sent \in Answers
  BY DEF IInv, ConnOK, TypeOK, Answers, Live
<1>3. Append(answers[c], sent) = <<sent>> /\ <<sent>> \in Seq(Answers)
  BY <1>2
<1>4. answers' = [d \in Conn |-> IF d = c THEN <<sent>> ELSE answers[d]]
  BY <1>1, <1>2, <1>3 DEF Written
<1>5. answers' = [answers EXCEPT ![c] = <<sent>>]
  BY <1>2, <1>4
<1> QED
  BY <1>2, <1>3, <1>4, <1>5

\* One on a descriptor that is closed reaches nobody.
LEMMA WrittenNobody ==
    ASSUME IInv, NEW f \in Fd, file[f] = NULL, NEW text, Write(f, text)
    PROVE  UNCHANGED answers
<1>1. PICK sent \in {text, "cut"} : answers' = Written(f, sent)
  BY DEF Write
<1>2. answers' = [c \in Conn |-> answers[c]]
  BY <1>1, ConnNames DEF Written
<1> QED
  BY <1>2 DEF IInv, TypeOK

\* What the types of the task become at the next entry, and after the js loop's decision.
LEMMA TaskMoves ==
    ASSUME IInv
    PROVE  /\ TaskType
           /\ NextEntry \/ Decided => TaskType' /\ TurnOK'
<1>1. TaskType
  BY DEF IInv, TypeOK, TaskType
<1>2. CASE NextEntry
  <2>1. rest' \in Seq({"request", "other", "bad"}) /\ i' \in Nat \ {0}
    BY <1>1, <1>2 DEF NextEntry, TaskType
  <2> QED
    BY <1>1, <1>2, <2>1 DEF NextEntry, TaskType, TurnOK, JsSteps
<1>3. CASE Decided
  BY <1>1, <1>3 DEF Decided, TaskType, TurnOK, JsSteps
<1> QED
  BY <1>1, <1>2, <1>3

\* The end of the stream, or too long a request.
LEMMA RecvEndIInv ==
    ASSUME IInv, OneRequestEach', NEW c \in Conn, Calls(c), CleanupConn(loop, c), NextEntry, UNCHANGED process,
           UNCHANGED answers \/ Write(loop.fd[c], "413")
    PROVE  IInv'
<1>1. /\ pc = "iter" /\ i \in DOMAIN loop.poll_fds /\ loop.fd[c] = loop.poll_fds[i].fd /\ Live(c)
  BY CallFacts, ConnNames
<1>2. pc' = "iter" /\ i' = i + 1 /\ cur' = NULL
  BY DEF NextEntry
<1>3. answers' \in [Conn -> Seq(Answers)] /\ \A d \in Conn \ {c} : answers'[d] = answers[d]
  <2>1. answers \in [Conn -> Seq(Answers)] /\ "413" \in Answers
    BY DEF Answers, IInv, TypeOK
  <2> QED
    BY <1>1, <2>1, WriteTo, Zenon
<1> QED
  BY <1>1, <1>2, <1>3, TaskMoves, CleanupIInv DEF Idle, JsSteps

\* What it does to a connection that is freed already: but for the counter, nothing is
\* what it was not.
LEMMA FreedAgainDoes ==
    ASSUME IInv, pc = "parse", rest # <<>>, NEW c \in Conn, c = cur, ~Live(c),
           NEW l, l \in {loop, IoStop(loop, c, {"IN"})}, CleanupConn(l, c)
    PROVE  /\ conn[c].mem = "freed" /\ file[loop.fd[c]] = NULL /\ loop.fd[c] \in Fd
           /\ i \in DOMAIN loop.poll_fds /\ ~ActiveIn(loop, c)
           /\ Stopped(loop, loop', c) /\ CountDown /\ uncounted' = uncounted + 1
           /\ UNCHANGED <<js, js_queue, file, net>>
           /\ conn' \in [Conn -> [mem : {"none", "live", "freed"}, initialized : BOOLEAN,
                                  completed : BOOLEAN, recvd : Nat]]
           /\ \A d \in Conn : /\ conn[d].mem \in {"none", "live", "freed"} /\ conn'[d].mem = conn[d].mem
                              /\ conn'[d].initialized = conn[d].initialized
<1>1. /\ conn[c].mem = "freed" /\ ~conn[c].initialized /\ file[loop.fd[c]] = NULL /\ loop.fd[c] \in Fd
      /\ i \in DOMAIN loop.poll_fds /\ ~ActiveIn(loop, c)
  BY DEF IInv, TurnOK, ConnOK
<1>2. SoundLoop(loop) /\ ReadsOnly(loop) /\ c \in Watcher
  BY ConnNames DEF IInv, LoopOK, ReadsOnly
<1>3. Stopped(loop, loop', c)
  BY <1>2, StopLoop, StopTwice DEF CleanupConn
<1>4. CountDown /\ uncounted' = uncounted + 1 /\ UNCHANGED <<js, js_queue>>
  BY <1>1, ConnNames DEF CleanupConn, FreeContext, TcpClose
<1>5. UNCHANGED file
  BY <1>1 DEF CleanupConn, TcpClose, IInv, TypeOK
<1>6. UNCHANGED net
  <2>1. net' = [d \in Conn |-> IF file[loop.fd[c]] = d
                               THEN [state |-> "closed", bytes |-> FALSE, eof |-> FALSE] ELSE net[d]]
    BY DEF CleanupConn, TcpClose
  <2> QED
    BY <1>1, <2>1, NetType, ConnNames
<1>7. /\ conn' \in [Conn -> [mem : {"none", "live", "freed"}, initialized : BOOLEAN,
                             completed : BOOLEAN, recvd : Nat]]
      /\ \A d \in Conn : /\ conn[d].mem \in {"none", "live", "freed"} /\ conn'[d].mem = conn[d].mem
                         /\ conn'[d].initialized = conn[d].initialized
  <2>1. conn' = [conn EXCEPT ![c] = Freed]
    BY DEF CleanupConn
  <2>2. conn[c].initialized = FALSE
    BY <1>1 DEF IInv, TypeOK
  <2> QED
    BY <1>1, <2>1, <2>2 DEF IInv, TypeOK, Freed
<1> QED
  BY <1>1, <1>3, <1>4, <1>5, <1>6, <1>7

LEMMA FreedAgainIInv ==
    ASSUME IInv, OneRequestEach', pc = "parse", rest # <<>>, NEW c \in Conn, c = cur, ~Live(c),
           NEW l, l \in {loop, IoStop(loop, c, {"IN"})}, CleanupConn(l, c), UNCHANGED <<answers, process>>,
           TaskType', TurnOK', (pc' = "iter" /\ i' = i + 1) \/ (pc' = "parse" /\ i' = i)
    PROVE  IInv'
<1>1. /\ i \in DOMAIN loop.poll_fds /\ ~ActiveIn(loop, c)
      /\ Stopped(loop, loop', c) /\ CountDown /\ uncounted' = uncounted + 1
      /\ UNCHANGED <<js, js_queue, file, net>>
      /\ conn' \in [Conn -> [mem : {"none", "live", "freed"}, initialized : BOOLEAN,
                             completed : BOOLEAN, recvd : Nat]]
      /\ \A d \in Conn : conn'[d].mem = conn[d].mem /\ conn'[d].initialized = conn[d].initialized
  BY FreedAgainDoes
<1>2. loop.iterating /\ loop.watchers \in [Fd -> Watcher \cup {NULL}]
  BY LoopFields DEF IInv, LoopOK, SoundLoop
<1>3. /\ SoundLoop(loop') /\ ReadsOnly(loop') /\ loop'.iterating = loop.iterating
      /\ loop'.fd = loop.fd /\ loop'.poll_fds = loop.poll_fds
      /\ \A v \in Watcher : ActiveIn(loop', v) <=> ActiveIn(loop, v)
      /\ \A g \in Fd : loop'.watchers[g] \in {loop.watchers[g], NULL}
      /\ \A v \in Watcher : QueueEmpty(loop.queue, v) => QueueEmpty(loop'.queue, v)
  BY <1>1 DEF Stopped
<1>4. CountOK' /\ CountType'
  <2>1. Accepted' = Accepted /\ Cardinality(Accepted) \in Nat
    BY <1>1, AcceptedFinite DEF Accepted
  <2>2. TypeOK /\ CountOK /\ UNCHANGED port /\ uncounted \in Nat
    BY DEF IInv, TypeOK, process
  <2>3. uncounted' \in Nat /\ uncounted' >= uncounted
    BY <1>1, <2>2
  <2>4. Cardinality(Accepted) + uncounted + 1 = Cardinality(Accepted) + uncounted'
    BY <1>1, <2>1, <2>2
  <2>5. CountOK'
    BY <1>1, <2>1, <2>2, <2>3, <2>4, CountDownKeeps
  <2> QED
    BY <1>1, <2>2, <2>3, <2>5, CountDownTypes
<1>5. TypeOK'
  <2>1. loop' \in LoopType
    BY <1>3 DEF SoundLoop
  <2> QED
    BY <1>1, <1>4, <2>1 DEF IInv, TypeOK, TaskType, CountType, process
<1>6. LoopOK' /\ ServerOK' /\ (\A d \in Conn : ConnOK(d)') /\ FilesOK'
  BY <1>1, <1>2, <1>3, <1>4, Frame DEF Idle, process
<1>7. QueueOK'
  BY <1>1, FrameQueue DEF InHand
<1>8. FreshOK'
  <2>1. \A g \in Fd : g # loop.poll_fds[i].fd /\ file[g] # NULL =>
               /\ file'[g] # NULL /\ loop'.watchers[g] \in {loop.watchers[g], NULL}
               /\ loop.watchers[g] # NULL /\ QueueEmpty(loop.queue, loop.watchers[g])
                      => QueueEmpty(loop'.queue, loop.watchers[g])
    BY <1>1, <1>2, <1>3
  <2> QED
    BY <1>1, <1>3, <2>1, FreshNext
<1> QED
  BY <1>4, <1>5, <1>6, <1>7, <1>8 DEF IInv

\* What llhttp returns an error for is dropped.
LEMMA ParseErrorIInv ==
    ASSUME IInv, OneRequestEach', ParseError
    PROVE  IInv'
<1>1. /\ pc = "parse" /\ rest # <<>> /\ CleanupConn(loop, cur) /\ NextEntry /\ UNCHANGED <<answers, process>>
  BY DEF ParseError, Parses
<1>2. /\ cur \in Conn /\ i \in DOMAIN loop.poll_fds /\ loop.poll_fds[i].fd = loop.fd[cur]
  BY <1>1 DEF IInv, TurnOK
<1>3. pc' = "iter" /\ i' = i + 1 /\ cur' = NULL
  BY <1>1 DEF NextEntry
<1>4. answers' \in [Conn -> Seq(Answers)]
  BY <1>1 DEF Answers, IInv, TypeOK
<1>5. CASE Live(cur)
  BY <1>1, <1>2, <1>3, <1>4, <1>5, TaskMoves, CleanupIInv DEF Idle, JsSteps
<1>6. CASE ~Live(cur)
  BY <1>1, <1>2, <1>3, <1>6, TaskMoves, FreedAgainIInv
<1> QED
  BY <1>5, <1>6

\* The js loop is done with a connection.
LEMMA JsEndIInv ==
    ASSUME IInv, OneRequestEach', JsFail \/ JsAnswer
    PROVE  IInv'
<1>1. /\ pc = "decide" /\ CleanupConn(loop, cur) /\ Decided /\ UNCHANGED process
      /\ UNCHANGED answers \/ Writeback(cur)
  BY DEF JsFail, JsAnswer
<1>2. cur \in Conn /\ Live(cur)
  BY <1>1 DEF IInv, TurnOK, JsSteps
<1>3. pc' = "js" /\ cur' = NULL
  BY <1>1 DEF Decided
<1>4. answers' \in [Conn -> Seq(Answers)] /\ \A d \in Conn \ {cur} : answers'[d] = answers[d]
  <2>1. answers \in [Conn -> Seq(Answers)] /\ "200" \in Answers /\ "response" \in Answers
    BY DEF Answers, IInv, TypeOK
  <2>2. Writeback(cur) => Write(loop.fd[cur], "response") \/ Write(loop.fd[cur], "200")
    BY DEF Writeback
  <2> QED
    BY <1>1, <1>2, <2>1, <2>2, WriteTo, Zenon
<1> QED
  BY <1>1, <1>2, <1>3, <1>4, TaskMoves, CleanupIInv DEF Idle, JsSteps

-----------------------------------------------------------------------------
(* The parser.                                                             *)

\* What is left of a chunk after its first message.
LEMMA RestTail ==
    ASSUME NEW S, NEW s \in Seq(S), s # <<>>, OneMessage(s)
    PROVE  /\ Tail(s) \in Seq(S) /\ OneMessage(Tail(s))
           /\ Head(s) = "request" => \A k \in DOMAIN Tail(s) : Tail(s)[k] = "bad"
           /\ Head(s) = "other" => \A k \in DOMAIN Tail(s) : Tail(s)[k] # "request"
<1>1. /\ Len(s) \in Nat /\ Len(s) # 0 /\ DOMAIN s = 1..Len(s) /\ Head(s) = s[1]
      /\ Tail(s) \in Seq(S) /\ Len(Tail(s)) = Len(s) - 1 /\ DOMAIN Tail(s) = 1..(Len(s) - 1)
      /\ \A k \in 1..(Len(s) - 1) : Tail(s)[k] = s[k + 1]
  OBVIOUS
<1>2. ASSUME NEW j \in 1..(Len(s) - 1) PROVE Tail(s)[j] = s[j + 1] /\ j + 1 \in DOMAIN s /\ 1 < j + 1
  BY <1>1
<1>3. OneMessage(Tail(s))
  <2> SUFFICES ASSUME NEW j \in DOMAIN Tail(s), NEW k \in DOMAIN Tail(s), j # k, Tail(s)[j] = "request"
               PROVE  Tail(s)[k] = "bad"
    BY DEF OneMessage
  <2>1. s[j + 1] = "request" => s[k + 1] = "bad"
    BY <1>1, <1>2 DEF OneMessage
  <2> QED
    BY <1>1, <2>1
<1>4. 1 \in DOMAIN s
  BY <1>1
<1>5. ASSUME Head(s) = "request" PROVE \A k \in DOMAIN Tail(s) : Tail(s)[k] = "bad"
  BY <1>1, <1>2, <1>4, <1>5 DEF OneMessage
<1>6. ASSUME Head(s) = "other" PROVE \A k \in DOMAIN Tail(s) : Tail(s)[k] # "request"
  BY <1>1, <1>2, <1>4, <1>6 DEF OneMessage
<1> QED
  BY <1>1, <1>3, <1>5, <1>6

\* Bytes of a connection reach the parser.
LEMMA RecvIInv ==
    ASSUME IInv, OneRequestEach', NEW c \in Conn, NEW chunk \in Chunks, Recv(c, chunk)
    PROVE  IInv'
<1>1. Calls(c) /\ UNCHANGED process
  BY DEF Recv
<1>2. CASE conn[c].recvd + 1 > MaxRequest
  <2>1. CleanupConn(loop, c) /\ NextEntry /\ Write(loop.fd[c], "413")
    BY <1>2 DEF Recv
  <2> QED
    BY <1>1, <2>1, RecvEndIInv
<1>3. CASE ~(conn[c].recvd + 1 > MaxRequest)
  <2>1. PICK more \in BOOLEAN : net' = [net EXCEPT ![c].bytes = more]
    BY <1>3 DEF Recv
  <2>2. /\ pc' = "parse" /\ cur' = c /\ rest' = chunk
        /\ UNCHANGED <<i, callbacked, pending, armed, loop, handlers, file, answers, counter>>
    BY <1>3 DEF Recv
  <2>3. /\ pc = "iter" /\ i \in DOMAIN loop.poll_fds /\ loop.fd[c] = loop.poll_fds[i].fd
        /\ Live(c) /\ ~conn[c].initialized
    BY <1>1, CallFacts, ConnNames
  <2>4. /\ net' \in [Conn -> [state : {"new", "backlog", "open", "closed"}, bytes : BOOLEAN, eof : BOOLEAN]]
        /\ \A d \in Conn : net'[d].state = net[d].state
    BY <2>1, NetType
  <2>5. SoundLoop(loop) /\ ReadsOnly(loop) /\ loop.iterating
    BY <2>3 DEF IInv, LoopOK, ReadsOnly
  <2>6. chunk \in Seq({"request", "other", "bad"}) /\ OneMessage(chunk)
    BY HttpdNames DEF IInv, OneRequestEach
  <2>7. TypeOK'
    BY <1>1, <2>2, <2>4, <2>6 DEF IInv, TypeOK, handlers, counter, process
  <2>8. LoopOK' /\ ServerOK' /\ (\A d \in Conn : ConnOK(d)') /\ FilesOK' /\ CountOK'
    BY <1>1, <2>2, <2>3, <2>4, <2>5, Frame DEF handlers, process, Idle
  <2>9. QueueOK'
    BY <2>2, <2>3, FrameQueue DEF InHand, handlers
  <2>10. TurnOK'
    BY <2>2, <2>3, <2>6 DEF TurnOK, JsSteps, Live, handlers
  <2>11. FreshOK'
    BY <2>2, <2>3, <2>5, FreshNext
  <2> QED
    BY <2>7, <2>8, <2>9, <2>10, <2>11 DEF IInv
<1> QED
  BY <1>2, <1>3

\* Where the parser is: a message is that of a connection no handler runs for, and one
\* for the handler that of a live one.
LEMMA ParseFacts ==
    ASSUME IInv, NEW m, Parses(m), m # "bad"
    PROVE  /\ pc = "parse" /\ rest # <<>> /\ Head(rest) = m /\ cur \in Conn
           /\ m = "request" => Live(cur)
           /\ rest \in Seq({"request", "other", "bad"}) /\ OneMessage(rest)
           /\ i \in DOMAIN loop.poll_fds /\ loop.poll_fds[i].fd = loop.fd[cur]
           /\ ~conn[cur].initialized
<1>1. pc = "parse" /\ rest # <<>> /\ Head(rest) = m
  BY DEF Parses
<1>2. /\ cur \in Conn /\ OneMessage(rest)
      /\ i \in DOMAIN loop.poll_fds /\ loop.poll_fds[i].fd = loop.fd[cur]
      /\ conn[cur].initialized => \A k \in DOMAIN rest : rest[k] = "bad"
      /\ ~Live(cur) => \A k \in DOMAIN rest : rest[k] # "request"
      /\ rest \in Seq({"request", "other", "bad"})
  BY <1>1 DEF IInv, TurnOK, TypeOK
<1>3. 1 \in DOMAIN rest /\ rest[1] = m
  BY <1>1, <1>2
<1> QED
  BY <1>1, <1>2, <1>3

\* A request for no handler: the connection is closed and freed, unless it is already,
\* and no request for the handler is left to parse.
LEMMA NotFoundIInv ==
    ASSUME IInv, OneRequestEach', NotFound
    PROVE  IInv'
<1>1. /\ Parses("other") /\ Write(loop.fd[cur], "404")
      /\ CleanupConn(IoStop(loop, cur, {"IN"}), cur)
      /\ rest' = Tail(rest) /\ UNCHANGED <<pc, i, cur, callbacked, pending, armed, process>>
  BY DEF NotFound, MessageClosed, ParserGoesOn
<1>2. /\ pc = "parse" /\ rest # <<>> /\ Head(rest) = "other" /\ cur \in Conn
      /\ rest \in Seq({"request", "other", "bad"}) /\ OneMessage(rest)
      /\ i \in DOMAIN loop.poll_fds /\ loop.poll_fds[i].fd = loop.fd[cur] /\ ~conn[cur].initialized
  BY <1>1, ParseFacts
<1>3. /\ rest' \in Seq({"request", "other", "bad"}) /\ OneMessage(rest)'
      /\ \A k \in DOMAIN rest' : rest'[k] # "request"
  <2>1. /\ Tail(rest) \in Seq({"request", "other", "bad"}) /\ OneMessage(Tail(rest))
        /\ \A k \in DOMAIN Tail(rest) : Tail(rest)[k] # "request"
    BY <1>2, RestTail
  <2> QED
    BY <1>1, <2>1 DEF OneMessage
<1>4. TaskType'
  BY <1>1, <1>3, TaskMoves DEF TaskType
<1>5. CASE Live(cur)
  <2>1. /\ Stopped(loop, loop', cur) /\ loop.fd[cur] \in Fd
        /\ file' = [file EXCEPT ![loop.fd[cur]] = NULL] /\ conn' = [conn EXCEPT ![cur] = Freed]
    BY <1>1, <1>2, <1>5, CleanupDoes
  <2>2. loop'.fd = loop.fd /\ loop'.poll_fds = loop.poll_fds
    BY <2>1 DEF Stopped
  <2>3. /\ answers' \in [Conn -> Seq(Answers)] /\ \A d \in Conn \ {cur} : answers'[d] = answers[d]
        /\ answers'[cur] \in {<<"404">>, <<"cut">>}
    <3>1. "404" \in Answers
      BY DEF Answers
    <3>2. /\ \E sent \in {"404", "cut"} : answers' = [answers EXCEPT ![cur] = <<sent>>]
          /\ answers' \in [Conn -> Seq(Answers)]
          /\ \A d \in Conn \ {cur} : answers'[d] = answers[d]
      BY <1>1, <1>2, <1>5, <3>1, WriteTo, Zenon
    <3>3. answers \in [Conn -> Seq(Answers)]
      BY DEF IInv, TypeOK, Answers
    <3> QED
      BY <1>2, <3>2, <3>3
  <2>4. /\ conn'[cur].mem = "freed" /\ ~conn'[cur].initialized /\ file'[loop'.fd[cur]] = NULL
    BY <1>2, <2>1, <2>2 DEF IInv, TypeOK, Freed
  <2>5. TurnOK'
    BY <1>1, <1>2, <1>3, <2>1, <2>2, <2>3, <2>4 DEF TurnOK, JsSteps
  <2> QED
    BY <1>1, <1>2, <1>4, <1>5, <2>3, <2>5, CleanupIInv DEF Idle
<1>6. CASE ~Live(cur)
  <2>1. /\ Stopped(loop, loop', cur) /\ file[loop.fd[cur]] = NULL /\ UNCHANGED file
        /\ conn[cur].mem = "freed" /\ loop.fd[cur] \in Fd
        /\ conn'[cur].mem = conn[cur].mem /\ conn'[cur].initialized = conn[cur].initialized
    BY <1>1, <1>2, <1>6, FreedAgainDoes
  <2>2. loop'.fd = loop.fd /\ loop'.poll_fds = loop.poll_fds
    BY <2>1 DEF Stopped
  <2>3. UNCHANGED answers
    BY <1>1, <2>1, WrittenNobody
  <2>4. answers[cur] \in {<<"404">>, <<"cut">>}
    BY <1>2, <1>6 DEF IInv, TurnOK
  <2>5. TurnOK'
    BY <1>1, <1>2, <1>3, <2>1, <2>2, <2>3, <2>4 DEF TurnOK, JsSteps
  <2> QED
    BY <1>1, <1>2, <1>4, <1>6, <2>3, <2>5, FreedAgainIInv
<1> QED
  BY <1>5, <1>6

\* The js loop's list after a connection was put into it.
LEMMA QueuedOK ==
    ASSUME IInv, NEW c \in Conn, Live(c), ~Linked(c), js_queue' = QueueInsertTail(js_queue, JsQueue, c),
           conn'[c].initialized, ~InHand(c)',
           \A d \in Conn : conn'[d].mem = conn[d].mem,
           \A d \in Conn \ {c} : /\ conn'[d].initialized <=> conn[d].initialized
                                 /\ InHand(d)' <=> InHand(d)
    PROVE  js_queue' \in QueueHeap(Conn \cup {JsQueue}) /\ QueueOK'
<1> DEFINE N == Kept \cup {JsQueue}
           M == Conn \cup {JsQueue}
<1>1. /\ Ring(js_queue, JsQueue, N) /\ js_queue \in QueueHeap(M) /\ N \in SUBSET M
      /\ JsQueue \in N /\ c \in N /\ c # JsQueue /\ N \ {JsQueue, c} = Kept \ {c} /\ QueueEmpty(js_queue, c)
  BY ConnNames DEF IInv, QueueOK, TypeOK, Kept, Live, Linked
<1>2. Kept' = Kept
  BY DEF Kept
<1> HIDE DEF N, M
<1>3. /\ js_queue' \in QueueHeap(M) /\ Ring(js_queue', JsQueue, N) /\ ~QueueEmpty(js_queue', c)
      /\ \A d \in N \ {JsQueue, c} : QueueEmpty(js_queue', d) <=> QueueEmpty(js_queue, d)
  BY <1>1, RingInsert
<1>4. ASSUME NEW d \in Kept PROVE Linked(d)' <=> conn'[d].initialized /\ ~InHand(d)'
  <2>1. CASE d = c
    BY <1>3, <2>1 DEF Linked
  <2>2. CASE d # c
    <3>1. Linked(d)' <=> Linked(d)
      BY <1>1, <1>3, <2>2 DEF Linked
    <3>2. d \in Conn \ {c} /\ (Linked(d) <=> conn[d].initialized /\ ~InHand(d))
      BY <2>2 DEF IInv, QueueOK, Kept
    <3> QED
      BY <3>1, <3>2
  <2> QED
    BY <2>1, <2>2
<1> QED
  BY <1>2, <1>3, <1>4 DEF QueueOK, N, M

\* A request for the handler: it is evaluated, and the connection waits for it.
LEMMA RunHandlerIInv ==
    ASSUME IInv, OneRequestEach', RunHandler
    PROVE  IInv'
<1>1. /\ Parses("request") /\ loop' = IoStop(loop, cur, {"IN"})
      /\ js_queue' = QueueInsertTail(QueueInit(js_queue, cur), JsQueue, cur)
      /\ rest' = Tail(rest) /\ UNCHANGED <<pc, i, cur, callbacked, pending, armed>>
      /\ UNCHANGED <<file, net, answers, counter, runtime, port, should_exit>>
  BY DEF RunHandler, ParserGoesOn, client, process
<1>2. /\ pc = "parse" /\ rest # <<>> /\ Head(rest) = "request" /\ cur \in Conn /\ Live(cur)
      /\ rest \in Seq({"request", "other", "bad"}) /\ OneMessage(rest)
      /\ i \in DOMAIN loop.poll_fds /\ loop.poll_fds[i].fd = loop.fd[cur] /\ ~conn[cur].initialized
  BY <1>1, ParseFacts
<1>3. /\ rest' \in Seq({"request", "other", "bad"}) /\ OneMessage(rest)'
      /\ \A k \in DOMAIN rest' : rest'[k] = "bad"
  <2>1. /\ Tail(rest) \in Seq({"request", "other", "bad"}) /\ OneMessage(Tail(rest))
        /\ \A k \in DOMAIN Tail(rest) : Tail(rest)[k] = "bad"
    BY <1>2, RestTail
  <2> QED
    BY <1>1, <2>1 DEF OneMessage
<1>4. /\ SoundLoop(loop) /\ ReadsOnly(loop) /\ loop.iterating
      /\ conn \in [Conn -> [mem : {"none", "live", "freed"}, initialized : BOOLEAN,
                            completed : BOOLEAN, recvd : Nat]]
      /\ js_queue \in QueueHeap(Conn \cup {JsQueue})
      /\ loop.watchers \in [Fd -> Watcher \cup {NULL}]
  BY <1>2, LoopFields DEF IInv, LoopOK, ReadsOnly, TypeOK, SoundLoop
<1>5. Stopped(loop, loop', cur)
  BY <1>1, <1>2, <1>4, ConnNames, StopLoop
<1>6. /\ SoundLoop(loop') /\ ReadsOnly(loop') /\ loop'.iterating = loop.iterating
      /\ loop'.fd = loop.fd /\ loop'.poll_fds = loop.poll_fds
      /\ \A v \in Watcher : ActiveIn(loop', v) <=> ActiveIn(loop, v) /\ v # cur
      /\ \A g \in Fd : loop'.watchers[g] \in {loop.watchers[g], NULL}
      /\ \A v \in Watcher : QueueEmpty(loop.queue, v) => QueueEmpty(loop'.queue, v)
  BY <1>5 DEF Stopped
<1>7. /\ conn'[cur].initialized = TRUE /\ \A d \in Conn : conn'[d].mem = conn[d].mem
      /\ \A d \in Conn \ {cur} : conn'[d] = conn[d]
      /\ conn' \in [Conn -> [mem : {"none", "live", "freed"}, initialized : BOOLEAN,
                             completed : BOOLEAN, recvd : Nat]]
  <2>1. PICK done \in {conn[cur].completed, TRUE} :
            conn' = [conn EXCEPT ![cur].initialized = TRUE, ![cur].completed = done]
    BY DEF RunHandler
  <2> DEFINE Rec == [mem : {"none", "live", "freed"}, initialized : BOOLEAN,
                     completed : BOOLEAN, recvd : Nat]
             r == [conn[cur] EXCEPT !.initialized = TRUE, !.completed = done]
  <2>2. conn \in [Conn -> Rec] /\ conn[cur] \in Rec /\ done \in BOOLEAN
    BY <1>2, <1>4
  <2>3. r \in Rec /\ r.initialized = TRUE /\ r.mem = conn[cur].mem
    BY <2>2
  <2>4. conn' = [conn EXCEPT ![cur] = r]
    BY <1>2, <2>1, <2>2
  <2> HIDE DEF Rec, r
  <2>5. /\ conn'[cur].initialized = TRUE /\ \A d \in Conn : conn'[d].mem = conn[d].mem
        /\ \A d \in Conn \ {cur} : conn'[d] = conn[d]
        /\ conn' \in [Conn -> Rec]
    BY <1>2, <2>2, <2>3, <2>4
  <2> QED
    BY <2>5 DEF Rec
<1>8. js' \in [Conn -> JsState]
  <2>1. PICK s \in Evaluated(cur) : js' = [js EXCEPT ![cur] = s]
    BY DEF RunHandler
  <2>2. s \in JsState
    BY CodeType DEF Evaluated
  <2> QED
    BY <2>1, <2>2 DEF IInv, TypeOK
<1>9. js_queue' \in QueueHeap(Conn \cup {JsQueue}) /\ QueueOK'
  <2>1. ~Linked(cur)
    BY <1>2 DEF IInv, QueueOK, Kept, Live
  <2> DEFINE N == Kept \cup {JsQueue}
             M == Conn \cup {JsQueue}
  <2>2. /\ Ring(js_queue, JsQueue, N) /\ js_queue \in QueueHeap(M) /\ N \in SUBSET M
        /\ JsQueue \in N /\ cur \in N /\ QueueEmpty(js_queue, cur)
    BY <1>2, <1>4, <2>1, ConnNames DEF IInv, QueueOK, Kept, Live, Linked
  <2> HIDE DEF N, M
  <2>3. QueueInit(js_queue, cur) = js_queue
    BY <2>2, RingInit
  <2>4. js_queue' = QueueInsertTail(js_queue, JsQueue, cur)
    BY <1>1, <2>3
  <2>5. \A d \in Conn : ~InHand(d) /\ ~InHand(d)'
    BY <1>1, <1>2 DEF InHand
  <2> QED
    BY <1>2, <1>7, <2>1, <2>4, <2>5, QueuedOK
<1>10. TypeOK'
  <2>1. loop' \in LoopType
    BY <1>6 DEF SoundLoop
  <2> QED
    BY <1>1, <1>3, <1>7, <1>8, <1>9, <2>1 DEF IInv, TypeOK, counter
<1>11. LoopOK' /\ ServerOK'
  BY <1>1, <1>2, <1>4, <1>6, ConnNames DEF IInv, LoopOK, ServerOK, ReadsOnly, Idle
<1>12. ASSUME NEW d \in Conn PROVE ConnOK(d)'
  <2>1. ConnOK(d) /\ (ActiveIn(loop', d) <=> ActiveIn(loop, d) /\ d # cur)
    BY <1>6, ConnNames DEF IInv
  <2>2. CASE d = cur
    BY <1>1, <1>2, <1>6, <1>7, <2>1, <2>2 DEF ConnOK, Live
  <2>3. CASE d # cur
    <3>1. conn'[d] = conn[d]
      BY <1>7, <2>3
    <3> QED
      BY <1>1, <1>6, <2>1, <2>3, <3>1 DEF ConnOK, Live
  <2> QED
    BY <2>2, <2>3
<1>13. FilesOK'
  BY <1>1, <1>6, <1>7 DEF IInv, FilesOK, Live
<1>14. CountOK'
  <2>1. Accepted' = Accepted
    BY <1>1 DEF Accepted
  <2> QED
    BY <1>1, <2>1 DEF IInv, CountOK, Balanced, counter
<1>15. TurnOK'
  BY <1>1, <1>2, <1>3, <1>6, <1>7 DEF TurnOK, JsSteps, Live
<1>16. FreshOK'
  <2>1. \A g \in Fd : g # loop.poll_fds[i].fd /\ file[g] # NULL =>
               /\ file'[g] # NULL /\ loop'.watchers[g] \in {loop.watchers[g], NULL}
               /\ loop.watchers[g] # NULL /\ QueueEmpty(loop.queue, loop.watchers[g])
                      => QueueEmpty(loop'.queue, loop.watchers[g])
    BY <1>1, <1>4, <1>6
  <2> QED
    BY <1>1, <1>2, <1>6, <2>1, FreshNext
<1> QED
  BY <1>9, <1>10, <1>11, <1>12, <1>13, <1>14, <1>15, <1>16 DEF IInv

-----------------------------------------------------------------------------
(* The js loop.                                                            *)

\* The first connection of the list has a handler, and nobody has it in hand.
LEMMA HeadFacts ==
    ASSUME IInv, pc = "js", ~QueueEmpty(js_queue, JsQueue), NEW c, c = QueueHead(js_queue, JsQueue)
    PROVE  c \in Conn /\ Live(c) /\ conn[c].initialized
<1>1. Ring(js_queue, JsQueue, Kept \cup {JsQueue})
  BY DEF IInv, QueueOK
<1>2. c \in Kept /\ ~QueueEmpty(js_queue, c)
  BY <1>1 DEF Ring, QueueLinked, QueueEmpty, QueueHead
<1>3. c \in Conn /\ conn[c].initialized
  BY <1>2 DEF IInv, QueueOK, Linked, Kept
<1> QED
  BY <1>3 DEF IInv, ConnOK

LEMMA TakeIInv ==
    ASSUME IInv, OneRequestEach', JsTake
    PROVE  IInv'
<1>1. PICK c : c = QueueHead(js_queue, JsQueue)
  OBVIOUS
<1>2. /\ pc = "js" /\ ~QueueEmpty(js_queue, JsQueue) /\ js_queue' = QueueUnlink(js_queue, c)
      /\ cur' = c /\ callbacked' = conn[c].completed /\ pc' = "timers"
      /\ UNCHANGED <<i, rest, pending, armed, loop, conn, js, file, net, answers, counter>>
      /\ UNCHANGED <<runtime, port, should_exit>>
  BY <1>1 DEF JsTake, sockets, client, process
<1>3. c \in Conn /\ Live(c) /\ conn[c].initialized
  BY <1>1, <1>2, HeadFacts
<1>4. SoundLoop(loop) /\ ReadsOnly(loop) /\ ~loop.iterating
  BY <1>2 DEF IInv, LoopOK, ReadsOnly
<1> DEFINE N == Kept \cup {JsQueue}
           M == Conn \cup {JsQueue}
<1>5. /\ Ring(js_queue, JsQueue, N) /\ js_queue \in QueueHeap(M) /\ N \in SUBSET M
      /\ JsQueue \in N /\ c \in N /\ c # JsQueue /\ N \ {JsQueue, c} = Kept \ {c}
  BY <1>3, ConnNames DEF IInv, QueueOK, TypeOK, Kept, Live
<1> HIDE DEF N, M
<1>6. /\ js_queue' \in QueueHeap(M) /\ Ring(js_queue', JsQueue, N) /\ QueueEmpty(js_queue', c)
      /\ \A d \in N \ {JsQueue, c} : QueueEmpty(js_queue', d) <=> QueueEmpty(js_queue, d)
  BY <1>2, <1>5, RingUnlink
<1>7. QueueOK'
  <2>1. Kept' = Kept
    BY <1>2 DEF Kept
  <2>2. ASSUME NEW d \in Kept PROVE Linked(d)' <=> conn'[d].initialized /\ ~InHand(d)'
    <3>1. InHand(d)' <=> d = c
      BY <1>2 DEF InHand
    <3>2. CASE d = c
      BY <1>6, <3>1, <3>2 DEF Linked
    <3>3. CASE d # c
      <4>1. Linked(d)' <=> Linked(d)
        BY <1>5, <1>6, <3>3 DEF Linked
      <4>2. Linked(d) <=> conn[d].initialized /\ ~InHand(d)
        BY DEF IInv, QueueOK
      <4> QED
        BY <1>2, <3>1, <3>3, <4>1, <4>2 DEF InHand
    <3> QED
      BY <3>2, <3>3
  <2> QED
    BY <1>6, <2>1, <2>2 DEF QueueOK, N
<1>8. TypeOK'
  <2>1. conn[c].completed \in BOOLEAN
    BY <1>3 DEF IInv, TypeOK
  <2>2. callbacked' \in BOOLEAN
    BY <1>2, <2>1, Zenon
  <2> QED
    BY <1>2, <1>3, <1>6, <2>2 DEF IInv, TypeOK, counter, M
<1>9. LoopOK' /\ ServerOK' /\ (\A d \in Conn : ConnOK(d)') /\ FilesOK' /\ CountOK'
  BY <1>2, <1>4, Frame DEF Idle
<1>10. TurnOK' /\ FreshOK'
  BY <1>2, <1>3 DEF TurnOK, FreshOK, JsSteps, Live
<1> QED
  BY <1>7, <1>8, <1>9, <1>10 DEF IInv

\* The handler has work left.
LEMMA RequeueIInv ==
    ASSUME IInv, OneRequestEach', JsRequeue
    PROVE  IInv'
<1>1. /\ pc = "decide" /\ js_queue' = QueueInsertTail(js_queue, JsQueue, cur) /\ Decided
      /\ UNCHANGED <<loop, conn, js, file, net, answers, counter, runtime, port, should_exit>>
  BY DEF JsRequeue, sockets, client, process
<1>2. pc' = "js" /\ cur' = NULL
  BY <1>1 DEF Decided
<1>3. cur \in Conn /\ Live(cur) /\ conn[cur].initialized
  BY <1>1 DEF IInv, TurnOK, JsSteps
<1>4. SoundLoop(loop) /\ ReadsOnly(loop) /\ ~loop.iterating
  BY <1>1 DEF IInv, LoopOK, ReadsOnly
<1>5. js_queue' \in QueueHeap(Conn \cup {JsQueue}) /\ QueueOK'
  <2>1. PICK c : c = cur
    OBVIOUS
  <2>2. ~Linked(c)
    BY <1>1, <1>3, <2>1 DEF IInv, QueueOK, Kept, Live, InHand
  <2>3. ~InHand(c)' /\ \A d \in Conn \ {c} : InHand(d)' <=> InHand(d)
    BY <1>2, <2>1 DEF InHand
  <2>4. c \in Conn /\ Live(c) /\ conn[c].initialized
    BY <1>3, <2>1
  <2>5. js_queue' = QueueInsertTail(js_queue, JsQueue, c) /\ conn' = conn
    BY <1>1, <2>1
  <2> QED
    BY <2>2, <2>3, <2>4, <2>5, QueuedOK
<1>6. TypeOK'
  <2>1. TaskType'
    BY <1>1, TaskMoves
  <2> QED
    BY <1>1, <1>5, <2>1 DEF IInv, TypeOK, TaskType, counter
<1>7. LoopOK' /\ ServerOK' /\ (\A d \in Conn : ConnOK(d)') /\ FilesOK' /\ CountOK'
  BY <1>1, <1>2, <1>4, Frame DEF Idle
<1>8. TurnOK' /\ FreshOK'
  BY <1>1, <1>2, TaskMoves DEF FreshOK
<1> QED
  BY <1>5, <1>6, <1>7, <1>8 DEF IInv

\* The handler runs: its timers are looked at, or its jobs executed.
LEMMA WorkIInv ==
    ASSUME IInv, OneRequestEach', JsPollTimers \/ JsNoJob \/ JsRunJob \/ JerryRunJobs
    PROVE  IInv'
<1>1. /\ pc \in JsSteps /\ pc' \in JsSteps
      /\ UNCHANGED <<i, cur, rest, callbacked, loop, js_queue, file, net, answers, counter>>
      /\ UNCHANGED <<runtime, port, should_exit>>
      /\ UNCHANGED conn \/ HandlerCb(cur)
  BY DEF JsPollTimers, JsNoJob, JsRunJob, JerryRunJobs, JerryCb, JsSteps,
         handlers, sockets, client, process
<1>2. cur \in Conn /\ Live(cur) /\ conn[cur].initialized /\ js[cur] \in JsState
  BY <1>1 DEF IInv, TurnOK, TypeOK, JsSteps
<1>3. SoundLoop(loop) /\ ReadsOnly(loop) /\ ~loop.iterating
  BY <1>1 DEF IInv, LoopOK, ReadsOnly, JsSteps
<1>4. /\ conn' \in [Conn -> [mem : {"none", "live", "freed"}, initialized : BOOLEAN,
                             completed : BOOLEAN, recvd : Nat]]
      /\ \A c \in Conn : conn'[c].mem = conn[c].mem /\ conn'[c].initialized = conn[c].initialized
  BY <1>1, <1>2, CallbackKeeps
<1>5. pending' \in {-1, 0, 1}
  BY DEF JsPollTimers, JsNoJob, JsRunJob, JerryRunJobs, IInv, TypeOK
<1>6. armed' \in BOOLEAN
  <2>1. armed' = armed \/ armed' = (js[cur].timers > 0)
    BY DEF JsPollTimers, JsNoJob, JsRunJob, JerryRunJobs
  <2>2. armed \in BOOLEAN
    BY DEF IInv, TypeOK
  <2>3. (js[cur].timers > 0) \in BOOLEAN
    OBVIOUS
  <2> QED
    BY <2>1, <2>2, <2>3, Zenon
<1>7. js' \in [Conn -> JsState]
  <2>1. CASE UNCHANGED js
    BY <2>1 DEF IInv, TypeOK
  <2>2. CASE JsRunJob
    <3>1. PICK s \in JsState : js' = [js EXCEPT ![cur] = s]
      BY <2>2, CodeType DEF JsRunJob
    <3> QED
      BY <3>1 DEF IInv, TypeOK
  <2>3. CASE JerryRunJobs
    <3>1. PICK left \in 0..js[cur].work : js' = [js EXCEPT ![cur] = [NoJs EXCEPT !.work = left]]
      BY <2>3 DEF JerryRunJobs
    <3>2. js[cur].work \in 0..MaxWork
      BY <1>2 DEF JsState
    <3>3. [NoJs EXCEPT !.work = left] \in JsState
      BY <3>1, <3>2, HttpdNumbers DEF NoJs, JsState
    <3> QED
      BY <3>1, <3>3 DEF IInv, TypeOK
  <2> QED
    BY <2>1, <2>2, <2>3 DEF JsPollTimers, JsNoJob, handlers
<1>8. TypeOK'
  BY <1>1, <1>4, <1>5, <1>6, <1>7 DEF IInv, TypeOK, counter, JsSteps
<1>9. LoopOK' /\ ServerOK' /\ (\A d \in Conn : ConnOK(d)') /\ FilesOK' /\ CountOK'
  BY <1>1, <1>3, <1>4, Frame DEF Idle, JsSteps
<1>10. QueueOK'
  BY <1>1, <1>4, FrameQueue DEF InHand, JsSteps
<1>11. TurnOK' /\ FreshOK'
  BY <1>1, <1>2, <1>4 DEF TurnOK, FreshOK, JsSteps, Live
<1> QED
  BY <1>8, <1>9, <1>10, <1>11 DEF IInv

-----------------------------------------------------------------------------
(* The invariant of every step.                                            *)

LEMMA StepIInv ==
    ASSUME OneRequestEach, IInv, [Next]_vars
    PROVE  IInv'
<1>0. OneRequestEach'
  BY DEF OneRequestEach, OneMessage
<1>1. CASE UNCHANGED vars
  <2>1. /\ UNCHANGED <<pc, i, cur, rest, callbacked, pending, armed, loop, js_queue, conn, js>>
        /\ UNCHANGED <<file, net, answers, counter, runtime, port, should_exit>>
    BY <1>1 DEF vars, task, handlers, sockets, client, process
  <2>2. SoundLoop(loop) /\ ReadsOnly(loop) /\ (loop.iterating <=> pc \in {"iter", "parse"})
    BY DEF IInv, LoopOK, ReadsOnly
  <2>3. TypeOK'
    BY <2>1 DEF IInv, TypeOK, counter
  <2>4. LoopOK' /\ ServerOK' /\ (\A c \in Conn : ConnOK(c)') /\ FilesOK' /\ CountOK'
    BY <2>1, <2>2, Frame
  <2>5. QueueOK'
    BY <2>1, FrameQueue DEF InHand
  <2>6. TurnOK' /\ FreshOK'
    BY <2>1, FrameTurn
  <2> QED
    BY <1>0, <2>3, <2>4, <2>5, <2>6 DEF IInv
<1>2. CASE Environment
  <2>1. CASE SigInt
    BY <1>0, <2>1, SigIntIInv
  <2>2. ASSUME NEW c \in Conn, Connect(c) \/ Send(c) \/ HangUp(c) PROVE IInv'
    BY <1>0, <2>2, ClientIInv
  <2>3. ASSUME NEW c \in Conn, TimerFires(c) PROVE IInv'
    BY <1>0, <2>3, TimerIInv
  <2>4. CASE ExporterLoads \/ ExporterStores
    BY <1>0, <2>4, ExporterIInv
  <2> QED
    BY <1>2, <2>1, <2>2, <2>3, <2>4 DEF Environment
<1>3. CASE Task
  <2>1. CASE Start \/ StartFails \/ BootFails \/ PollBegin \/ Drain \/ PollError \/ JsEmpty
    BY <1>0, <2>1, BootIInv
  <2>2. CASE BootListen
    BY <1>0, <2>2, ListenIInv
  <2>3. CASE PollReady \/ PollInterrupted
    BY <1>0, <2>3, PollIInv
  <2>4. CASE SkipEntry \/ AcceptRefused \/ ParseEnd \/ \E c \in Conn : RecvInterrupted(c)
    BY <1>0, <2>4, SkipIInv
  <2>5. CASE PollEnd
    BY <1>0, <2>5, PollEndIInv
  <2>6. ASSUME NEW c \in Conn, NEW f \in Fd, Accept(c, f) PROVE IInv'
    BY <1>0, <2>6, AcceptIInv
  <2>7. ASSUME NEW c \in Conn, AcceptNoMemory(c) PROVE IInv'
    BY <1>0, <2>7, NoMemoryIInv
  <2>8. ASSUME NEW c \in Conn, RecvEnd(c) PROVE IInv'
    <3>1. Calls(c) /\ CleanupConn(loop, c) /\ NextEntry /\ UNCHANGED <<answers, process>>
      BY <2>8 DEF RecvEnd
    <3>2. UNCHANGED process /\ UNCHANGED answers
      BY <3>1
    <3> QED
      BY <1>0, <3>1, <3>2, RecvEndIInv
  <2>9. ASSUME NEW c \in Conn, NEW chunk \in Chunks, Recv(c, chunk) PROVE IInv'
    BY <1>0, <2>9, RecvIInv
  <2>10. CASE ParseError
    BY <1>0, <2>10, ParseErrorIInv
  <2>11. CASE NotFound
    BY <1>0, <2>11, NotFoundIInv
  <2>12. CASE RunHandler
    BY <1>0, <2>12, RunHandlerIInv
  <2>13. CASE JsTake
    BY <1>0, <2>13, TakeIInv
  <2>14. CASE JsPollTimers \/ JsNoJob \/ JsRunJob \/ JerryRunJobs
    BY <1>0, <2>14, WorkIInv
  <2>15. CASE JsRequeue
    BY <1>0, <2>15, RequeueIInv
  <2>16. CASE JsFail \/ JsAnswer
    BY <1>0, <2>16, JsEndIInv
  <2> QED
    BY <1>3, <2>1, <2>2, <2>3, <2>4, <2>5, <2>6, <2>7, <2>8, <2>9, <2>10, <2>11, <2>12, <2>13,
       <2>14, <2>15, <2>16 DEF Task
<1> QED
  BY <1>1, <1>2, <1>3 DEF Next

\* IInv in every state the server can reach, for any set of connections and descriptors
\* and any limit, as long as a request for the handler is the only message of its chunk, except
\* malformed ones. (Another one behind it has __on_message_complete link a connection that is
\* linked.)
THEOREM Invariance ==
    ASSUME OneRequestEach
    PROVE  Spec => []IInv
<1>1. Init => IInv
  BY InitIInv
<1>2. IInv /\ [Next]_vars => IInv'
  BY StepIInv
<1> QED
  BY <1>1, <1>2, PTL DEF Spec

-----------------------------------------------------------------------------
(* The theorems.                                                           *)

LEMMA QueueSafeHolds == IInv => QueueSafe
<1> SUFFICES ASSUME IInv PROVE QueueSafe
  OBVIOUS
<1> DEFINE sound == {c \in Conn : Live(c)} \cup {JsQueue}
           N == Kept \cup {JsQueue}
<1>1. /\ Ring(js_queue, JsQueue, N) /\ sound \subseteq N
      /\ \A c \in Kept : Linked(c) <=> conn[c].initialized /\ ~InHand(c)
  BY DEF IInv, QueueOK, Kept, Live
<1>2. /\ \A n \in N : js_queue.next[n] \in N /\ js_queue.prev[n] \in N
      /\ QueueLinked(js_queue, N)
  BY <1>1 DEF Ring
<1>3. ASSUME NEW m \in N, m \notin sound
      PROVE  js_queue.next[m] = m /\ js_queue.prev[m] = m
  <2>1. m \in Kept /\ ~Live(m)
    BY <1>3 DEF Kept
  <2>2. ~conn[m].initialized
    BY <2>1 DEF IInv, ConnOK, Kept
  <2>3. js_queue.next[m] = m
    BY <1>1, <2>1, <2>2 DEF Linked, QueueEmpty
  <2> QED
    BY <1>2, <2>3 DEF QueueLinked
<1> HIDE DEF N
<1>4. ASSUME NEW n \in sound PROVE js_queue.next[n] \in sound /\ js_queue.prev[n] \in sound
  <2>1. n \in N /\ js_queue.next[n] \in N /\ js_queue.prev[n] \in N
        /\ js_queue.prev[js_queue.next[n]] = n /\ js_queue.next[js_queue.prev[n]] = n
    BY <1>1, <1>2 DEF QueueLinked
  <2> QED
    BY <1>3, <2>1
<1>5. QueueLinked(js_queue, sound)
  BY <1>1, <1>2 DEF QueueLinked
<1>6. \A c \in Conn : Live(c) /\ Linked(c) => conn[c].initialized
  BY <1>1 DEF Kept, Live
<1> QED
  BY <1>4, <1>5, <1>6 DEF QueueSafe

LEMMA NoOrphanHolds == IInv => NoOrphan
<1> SUFFICES ASSUME IInv PROVE NoOrphan
  OBVIOUS
<1>1. ASSUME NEW c \in Conn PROVE c \in {loop.watchers[f] : f \in Fd} <=> ActiveIn(loop, c)
  <2>1. /\ RegisteredIn(loop) /\ c \in Watcher /\ c # NULL /\ loop.fd \in [Watcher -> Fd \cup {NULL}]
    BY ConnNames, LoopFields DEF IInv, LoopOK, SoundLoop
  <2>2. ActiveIn(loop, c) => loop.fd[c] \in Fd /\ loop.watchers[loop.fd[c]] = c
    BY <2>1 DEF RegisteredIn
  <2>3. ASSUME NEW f \in Fd, loop.watchers[f] = c PROVE ActiveIn(loop, c)
    BY <2>1, <2>3 DEF RegisteredIn, Watched
  <2> QED
    BY <2>2, <2>3
<1>2. ASSUME NEW c \in Conn
      PROVE  LET watched == c \in {loop.watchers[f] : f \in Fd}
             IN  /\ Live(c) => (watched <=> ~conn[c].initialized)
                 /\ Live(c) /\ conn[c].initialized => (Linked(c) <=> ~InHand(c))
                 /\ ~Live(c) => ~watched /\ ~InHand(c)
  <2>1. ActiveIn(loop, c) <=> Live(c) /\ ~conn[c].initialized
    BY DEF IInv, ConnOK
  <2>2. Live(c) => (Linked(c) <=> conn[c].initialized /\ ~InHand(c))
    BY DEF IInv, QueueOK, Kept, Live
  <2>3. InHand(c) => Live(c)
    BY DEF IInv, TurnOK, InHand, JsSteps
  <2> QED
    BY <1>1, <2>1, <2>2, <2>3
<1> QED
  BY <1>2 DEF NoOrphan

LEMMA SocketsHold == IInv => SocketsAccounted
<1> SUFFICES ASSUME IInv PROVE SocketsAccounted
  OBVIOUS
<1>1. ASSUME NEW c \in Conn PROVE Live(c) <=> \E f \in Fd : file[f] = c
  BY DEF IInv, ConnOK, FilesOK
<1>2. \A f \in Fd : file[f] \in Conn => loop.fd[file[f]] = f
  BY DEF IInv, FilesOK
<1>3. ASSUME port = "linux", ~raced
      PROVE  /\ uncounted <= Cardinality(Accepted) => numConns = Cardinality(Accepted) - uncounted
             /\ Cardinality(Accepted) <= MaxConns + uncounted
  <2>1. PICK k \in Nat : numConns + uncounted = Cardinality(Accepted) + k * CountMod
    BY <1>3 DEF IInv, CountOK, Balanced
  <2>2. /\ numConns \in 0..(CountMod - 1) /\ uncounted \in Nat /\ Cardinality(Accepted) \in Nat
        /\ CountMod \in Nat
    BY NetType, AcceptedFinite, HttpdNumbers DEF CountType
  <2>3. Cardinality(Accepted) <= MaxConns + uncounted
    BY <1>3 DEF IInv, CountOK
  <2>4. ASSUME uncounted <= Cardinality(Accepted) PROVE numConns = Cardinality(Accepted) - uncounted
    <3>1. k * CountMod < CountMod
      BY <2>1, <2>2, <2>4
    <3>2. k = 0
      BY <2>2, <3>1
    <3>3. k * CountMod = 0
      BY <2>2, <3>2
    <3> QED
      BY <2>1, <2>2, <3>3
  <2> QED
    BY <2>3, <2>4
<1> QED
  BY <1>1, <1>2, <1>3 DEF SocketsAccounted, Accepted

LEMMA FreedHolds == IInv => FreedConfined
<1> SUFFICES ASSUME IInv, pc = "parse", rest # <<>>, ~Live(cur)
             PROVE  /\ answers[cur] \in {<<"404">>, <<"cut">>} /\ net[cur].state = "closed"
                    /\ file[loop.fd[cur]] = NULL /\ cur \notin {loop.watchers[f] : f \in Fd}
                    /\ ~conn[cur].initialized
                    /\ \A n \in {c \in Conn : Live(c)} \cup {JsQueue} : js_queue.next[n] # cur
  BY DEF FreedConfined
<1>1. /\ cur \in Conn /\ conn[cur].mem = "freed" /\ file[loop.fd[cur]] = NULL
      /\ answers[cur] \in {<<"404">>, <<"cut">>}
  BY DEF IInv, TurnOK
<1>2. net[cur].state = "closed" /\ ~conn[cur].initialized /\ ~ActiveIn(loop, cur)
  BY <1>1 DEF IInv, ConnOK
<1>3. cur \notin {loop.watchers[f] : f \in Fd}
  BY <1>1, <1>2, ConnNames, LoopFields DEF IInv, LoopOK, SoundLoop, RegisteredIn, Watched
<1>4. ASSUME NEW n \in {c \in Conn : Live(c)} \cup {JsQueue} PROVE js_queue.next[n] # cur
  <2>1. n \in Kept \cup {JsQueue} /\ cur \notin Kept \cup {JsQueue}
    BY <1>1, ConnNames DEF Kept, Live
  <2> QED
    BY <2>1 DEF IInv, QueueOK, Ring
<1> QED
  BY <1>1, <1>2, <1>3, <1>4

LEMMA FreshHolds == IInv => FreshEvents
<1> SUFFICES ASSUME IInv, InRange, Entry.fd # NULL, WatcherAt(loop, i) # NULL, EventsAt(loop, i) # {}
             PROVE  QueueEmpty(loop.queue, WatcherAt(loop, i))
  BY DEF FreshEvents
<1>1. /\ pc = "iter" /\ i \in DOMAIN loop.poll_fds /\ Entry = loop.poll_fds[i]
      /\ loop.poll_fds \in Seq(PollFd) /\ loop.watchers \in [Fd -> Watcher \cup {NULL}]
  BY LoopFields DEF InRange, Entry, IInv, LoopOK, SoundLoop
<1>2. Entry \in PollFd
  BY <1>1
<1>3. Entry.fd \in Fd
  BY <1>2 DEF PollFd
<1>4. WatcherAt(loop, i) \in Watcher /\ WatcherAt(loop, i) = loop.watchers[Entry.fd]
  BY <1>1, <1>3 DEF WatcherAt
<1>5. loop.pevents[WatcherAt(loop, i)] \subseteq {"IN"}
  BY <1>4 DEF IInv, LoopOK
<1>6. FreshEntry(loop.poll_fds[i])
  BY <1>1 DEF IInv, FreshOK
<1>7. "IN" \in loop.poll_fds[i].revents
  BY <1>5, <1>6 DEF EventsAt, FreshEntry
<1> QED
  BY <1>1, <1>4, <1>6, <1>7 DEF FreshEntry

\* The state of the server keeps its types.
THEOREM ServerTypes ==
    ASSUME OneRequestEach
    PROVE  Spec => []TypeOK
<1>1. IInv => TypeOK
  BY DEF IInv
<1> QED
  BY <1>1, Invariance, PTL

\* js_queue never leads to a freed connection, or to one without a JavaScript context.
THEOREM QueueNeverDangles ==
    ASSUME OneRequestEach
    PROVE  Spec => []QueueSafe
BY QueueSafeHolds, Invariance, PTL

\* Every live connection is watched, queued or in hand, and in one of these places only.
THEOREM NobodyForgotten ==
    ASSUME OneRequestEach
    PROVE  Spec => []NoOrphan
BY NoOrphanHolds, Invariance, PTL

\* Every connection has a descriptor, its own, and gives it back once. On Linux, whatever
\* the exporter closes between its reports and however often a freed connection is cleaned
\* up again, the counter, modulo 2^32, is the number of connections less those closes, and
\* no more connections are served than the limit and those closes together, until a race
\* of the exporter's count with the server's loses one.
THEOREM DescriptorsBalance ==
    ASSUME OneRequestEach
    PROVE  Spec => []SocketsAccounted
BY SocketsHold, Invariance, PTL

\* What llhttp_execute does with the rest of a chunk, after its callback has answered 404
\* and freed the connection, touches no other connection: the freed one has no descriptor,
\* no watcher, no node of js_queue and no context that the second cleanup could release.
THEOREM FreedStaysConfined ==
    ASSUME OneRequestEach
    PROVE  Spec => []FreedConfined
BY FreedHolds, Invariance, PTL

\* No callback gets the events poll() reported for an earlier socket of its descriptor.
THEOREM EventsAreFresh ==
    ASSUME OneRequestEach
    PROVE  Spec => []FreshEvents
BY FreshHolds, Invariance, PTL

-----------------------------------------------------------------------------
(* The server implements HttpdService.                                     *)

\* A step that moves one connection as HttpdService lets it move.
LEMMA ServiceMoves ==
    ASSUME NEW c \in Conn, \A d \in Conn \ {c} : Phase(d)' = Phase(d),
           \/ /\ answers' = answers
              /\ \/ Phase(c) = "outside" /\ Phase(c)' = "open"
                 \/ Phase(c) = "outside" /\ Phase(c)' = "closed"
                 \/ Phase(c) = "open" /\ Phase(c)' = "handling"
                 \/ Phase(c) \in {"open", "handling"} /\ Phase(c)' = "closed"
           \/ /\ Phase(c) = "open" /\ Phase(c)' = "closed"
              /\ \E text \in {"404", "413", "200", "cut"} : answers' = [answers EXCEPT ![c] = <<text>>]
           \/ /\ Phase(c) = "handling" /\ Phase(c)' = "closed"
              /\ \E text \in {"200", "response", "cut"} : answers' = [answers EXCEPT ![c] = <<text>>]
    PROVE  Service!ServiceNext
<1> DEFINE P == [d \in Conn |-> Phase(d)]
<1>2. ASSUME NEW after, Phase(c)' = after PROVE P' = [P EXCEPT ![c] = after]
  BY <1>2
<1>3. P[c] = Phase(c)
  OBVIOUS
<1>4. CASE answers' = answers /\ Phase(c) = "outside" /\ Phase(c)' = "open"
  <2>1. Service!Enter(c)
    BY <1>2, <1>3, <1>4 DEF Service!Enter
  <2> QED
    BY <2>1 DEF Service!ServiceNext, Service!Serve
<1>5. CASE answers' = answers /\ Phase(c) = "outside" /\ Phase(c)' = "closed"
  <2>1. Service!TurnAway(c)
    BY <1>2, <1>3, <1>5 DEF Service!TurnAway
  <2> QED
    BY <2>1 DEF Service!ServiceNext, Service!Serve
<1>6. CASE answers' = answers /\ Phase(c) = "open" /\ Phase(c)' = "handling"
  <2>1. Service!StartHandler(c)
    BY <1>2, <1>3, <1>6 DEF Service!StartHandler
  <2> QED
    BY <2>1 DEF Service!ServiceNext, Service!Serve
<1>7. CASE answers' = answers /\ Phase(c) \in {"open", "handling"} /\ Phase(c)' = "closed"
  <2>1. Service!Drop(c)
    BY <1>2, <1>3, <1>7 DEF Service!Drop
  <2> QED
    BY <2>1 DEF Service!ServiceNext, Service!Serve
<1>8. ASSUME Phase(c) = "open", Phase(c)' = "closed",
             NEW text \in {"404", "413", "200", "cut"}, answers' = [answers EXCEPT ![c] = <<text>>]
      PROVE  Service!ServiceNext
  <2>1. Service!Reject(c, text)
    BY <1>2, <1>3, <1>8 DEF Service!Reject
  <2> QED
    BY <2>1 DEF Service!ServiceNext, Service!Serve
<1>9. ASSUME Phase(c) = "handling", Phase(c)' = "closed",
             NEW text \in {"200", "response", "cut"}, answers' = [answers EXCEPT ![c] = <<text>>]
      PROVE  Service!ServiceNext
  <2>1. Service!Respond(c, text)
    BY <1>2, <1>3, <1>9 DEF Service!Respond
  <2> QED
    BY <2>1 DEF Service!ServiceNext, Service!Serve
<1> QED
  BY <1>4, <1>5, <1>6, <1>7, <1>8, <1>9

\* A step that clients cannot see.
LEMMA ServiceRests ==
    ASSUME UNCHANGED answers,
           \A c \in Conn : /\ conn[c].mem \in {"none", "live", "freed"} /\ conn'[c].mem = conn[c].mem
                           /\ conn'[c].initialized <=> conn[c].initialized
                           /\ conn[c].mem = "none" => (net'[c].state = "closed" <=> net[c].state = "closed")
    PROVE  UNCHANGED Service!service
<1>1. ASSUME NEW c \in Conn PROVE Phase(c)' = Phase(c)
  BY DEF Phase
<1> QED
  BY <1>1 DEF Service!service

\* What __httpd_cleanup_conn is to the clients.
LEMMA CleanupSeen ==
    ASSUME IInv, NEW c \in Conn, Live(c), NEW l, l \in {loop, IoStop(loop, c, {"IN"})},
           CleanupConn(l, c)
    PROVE  /\ Phase(c) = IF conn[c].initialized THEN "handling" ELSE "open"
           /\ Phase(c)' = "closed" /\ \A d \in Conn \ {c} : Phase(d)' = Phase(d)
<1>1. /\ conn' = [conn EXCEPT ![c] = Freed]
      /\ net' = [net EXCEPT ![c] = [state |-> "closed", bytes |-> FALSE, eof |-> FALSE]]
  BY CleanupDoes
<1>2. conn \in [Conn -> [mem : {"none", "live", "freed"}, initialized : BOOLEAN,
                         completed : BOOLEAN, recvd : Nat]]
  BY DEF IInv, TypeOK
<1>3. conn'[c].mem = "freed" /\ \A d \in Conn \ {c} : conn'[d] = conn[d] /\ net'[d] = net[d]
  BY <1>1, <1>2, NetType DEF Freed
<1>4. Phase(c) = IF conn[c].initialized THEN "handling" ELSE "open"
  BY DEF Live, Phase
<1>5. Phase(c)' = "closed"
  BY <1>3 DEF Phase
<1>6. \A d \in Conn \ {c} : Phase(d)' = Phase(d)
  BY <1>3 DEF Phase
<1> QED
  BY <1>4, <1>5, <1>6

\* The steps of the task that leave every connection as it is for its client.
LEMMA TaskRests ==
    ASSUME IInv,
           \/ Start \/ StartFails \/ BootListen \/ BootFails \/ PollBegin \/ Drain
           \/ PollReady \/ PollInterrupted \/ PollError \/ SkipEntry \/ PollEnd \/ AcceptRefused
           \/ ParseEnd \/ JsEmpty \/ JsTake \/ JsPollTimers \/ JsNoJob \/ JsRunJob \/ JerryRunJobs \/ JsRequeue
           \/ \E c \in Conn : RecvInterrupted(c)
    PROVE  UNCHANGED Service!service
<1>1. \A c \in Conn : conn[c].mem \in {"none", "live", "freed"}
  BY DEF IInv, TypeOK
<1>2. /\ UNCHANGED <<net, answers>>
      /\ UNCHANGED conn \/ (pc \in JsSteps /\ HandlerCb(cur))
  BY DEF Start, StartFails, BootListen, BootFails, PollBegin, Drain, PollReady, PollInterrupted, StartIter,
         PollError, SkipEntry, PollEnd, AcceptRefused, ParseEnd, JsEmpty, JsTake, JsPollTimers, JsNoJob,
         JsRunJob, JerryRunJobs, JsRequeue, RecvInterrupted, JerryCb, JsSteps, handlers, sockets, client,
         process
<1>3. ASSUME NEW c \in Conn
      PROVE  /\ conn[c].mem \in {"none", "live", "freed"} /\ conn'[c].mem = conn[c].mem
             /\ conn'[c].initialized <=> conn[c].initialized
  <2>1. CASE UNCHANGED conn
    BY <1>1, <2>1
  <2>2. CASE pc \in JsSteps /\ HandlerCb(cur)
    <3>1. cur \in Conn
      BY <2>2 DEF IInv, TurnOK, JsSteps
    <3> QED
      BY <1>1, <2>2, <3>1, CallbackKeeps
  <2> QED
    BY <1>2, <2>1, <2>2
<1> QED
  BY <1>2, <1>3, ServiceRests

\* So do the clients, the timers and the exporter.
LEMMA ClientRests ==
    ASSUME IInv, NEW c \in Conn, Connect(c) \/ Send(c) \/ HangUp(c) \/ TimerFires(c)
    PROVE  UNCHANGED Service!service
<1>1. \A d \in Conn : conn[d].mem \in {"none", "live", "freed"}
  BY DEF IInv, TypeOK
<1>2. UNCHANGED answers /\ (UNCHANGED conn \/ HandlerCb(c))
  BY DEF Connect, Send, HangUp, TimerFires, handlers, sockets, client
<1>3. ASSUME NEW d \in Conn PROVE net'[d].state = "closed" <=> net[d].state = "closed"
  <2>1. CASE Connect(c)
    BY <2>1, NetType DEF Connect
  <2>2. CASE Send(c)
    BY <2>2, NetType DEF Send
  <2>3. CASE HangUp(c)
    BY <2>3, NetType DEF HangUp
  <2>4. CASE TimerFires(c)
    BY <2>4 DEF TimerFires, sockets, client
  <2> QED
    BY <2>1, <2>2, <2>3, <2>4
<1>4. \A d \in Conn : conn'[d].mem = conn[d].mem /\ conn'[d].initialized = conn[d].initialized
  BY <1>2, CallbackKeeps
<1> QED
  BY <1>1, <1>2, <1>3, <1>4, ServiceRests

LEMMA ExporterRests ==
    ASSUME IInv, ExporterLoads \/ ExporterStores
    PROVE  UNCHANGED Service!service
<1>1. \A d \in Conn : conn[d].mem \in {"none", "live", "freed"}
  BY DEF IInv, TypeOK
<1>2. UNCHANGED <<conn, net, answers>>
  BY DEF ExporterLoads, ExporterStores, handlers, client
<1> QED
  BY <1>1, <1>2, ServiceRests

\* The end of the process is the end of every connection.
LEMMA SigIntStops ==
    ASSUME IInv, SigInt
    PROVE  Service!ServiceNext
<1>1. ASSUME NEW c \in Conn
      PROVE  /\ Phase(c)' \in {"outside", "closed"}
             /\ Phase(c) \in {"open", "handling", "closed"} => Phase(c)' = "closed"
  <2>1. conn[c] \in [mem : {"none", "live", "freed"}, initialized : BOOLEAN, completed : BOOLEAN, recvd : Nat]
    BY DEF IInv, TypeOK
  <2>2. conn'[c] = IF conn[c].mem = "none" THEN conn[c]
                   ELSE Freed
    BY Zenon DEF SigInt
  <2>3. net'[c] = IF net[c].state = "new" THEN net[c]
                  ELSE [state |-> "closed", bytes |-> FALSE, eof |-> FALSE]
    BY Zenon DEF SigInt
  <2>4. CASE conn[c].mem = "none"
    <3>1. conn'[c] = conn[c]
      BY <2>2, <2>4, Zenon
    <3>2. net[c].state # "new" => net'[c].state = "closed"
      <4>1. net[c].state # "new" => net'[c] = [state |-> "closed", bytes |-> FALSE, eof |-> FALSE]
        BY <2>3, Zenon
      <4> QED
        BY <4>1
    <3>3. Phase(c) = "closed" => net[c].state = "closed"
      BY <2>4 DEF Phase
    <3>4. Phase(c) \in {"outside", "closed"}
      BY <2>4 DEF Phase
    <3>5. Phase(c)' = IF net'[c].state = "closed" THEN "closed" ELSE "outside"
      BY <2>4, <3>1 DEF Phase
    <3> QED
      BY <3>2, <3>3, <3>4, <3>5
  <2>5. CASE conn[c].mem # "none"
    <3>1. conn'[c] = Freed
      BY <2>2, <2>5, Zenon
    <3>2. conn'[c].mem = "freed"
      BY <3>1 DEF Freed
    <3>3. Phase(c)' = "closed"
      BY <3>2 DEF Phase
    <3> QED
      BY <3>3
  <2> QED
    BY <2>4, <2>5
<1>2. UNCHANGED answers
  BY Zenon DEF SigInt
<1>3. Service!Stop
  BY <1>1, <1>2 DEF Service!Stop
<1> QED
  BY <1>3 DEF Service!ServiceNext

\* A connection is taken.
LEMMA AcceptEnters ==
    ASSUME IInv, NEW c \in Conn, NEW f \in Fd, Accept(c, f)
    PROVE  Service!ServiceNext
<1>1. /\ net[c].state = "backlog"
      /\ conn' = [conn EXCEPT ![c] = [mem |-> "live", initialized |-> FALSE, completed |-> FALSE, recvd |-> 0]]
      /\ net' = [net EXCEPT ![c].state = "open"] /\ UNCHANGED answers
  BY DEF Accept, TcpAccept
<1>2. /\ conn \in [Conn -> [mem : {"none", "live", "freed"}, initialized : BOOLEAN,
                            completed : BOOLEAN, recvd : Nat]]
      /\ ConnOK(c)
  BY DEF IInv, TypeOK
<1>3. Phase(c) = "outside"
  BY <1>1, <1>2 DEF ConnOK, Live, Phase
<1>4. /\ conn'[c].mem = "live" /\ conn'[c].initialized = FALSE
      /\ \A d \in Conn \ {c} : conn'[d] = conn[d] /\ net'[d] = net[d]
  BY <1>1, <1>2, NetType
<1>5. Phase(c)' = "open" /\ \A d \in Conn \ {c} : Phase(d)' = Phase(d)
  BY <1>4 DEF Phase
<1> QED
  BY <1>1, <1>3, <1>5, ServiceMoves

\* A connection turned away.
LEMMA NoMemoryTurnsAway ==
    ASSUME IInv, NEW c \in Conn, AcceptNoMemory(c)
    PROVE  Service!ServiceNext
<1>1. /\ net[c].state = "backlog" /\ UNCHANGED <<conn, answers>>
      /\ net' = [net EXCEPT ![c] = [state |-> "closed", bytes |-> FALSE, eof |-> FALSE]]
  BY DEF AcceptNoMemory, handlers
<1>2. conn[c].mem \in {"none", "live", "freed"} /\ ConnOK(c)
  BY DEF IInv, TypeOK
<1>3. conn[c].mem = "none" /\ Phase(c) = "outside"
  BY <1>1, <1>2 DEF ConnOK, Live, Phase
<1>4. net'[c].state = "closed" /\ \A d \in Conn \ {c} : net'[d] = net[d]
  BY <1>1, NetType
<1>5. Phase(c)' = "closed" /\ \A d \in Conn \ {c} : Phase(d)' = Phase(d)
  BY <1>1, <1>3, <1>4 DEF Phase
<1> QED
  BY <1>1, <1>3, <1>5, ServiceMoves

\* A connection is closed: dropped, rejected, or answered by its handler.
LEMMA CleanupEnds ==
    ASSUME IInv, NEW c \in Conn, Live(c), NEW l, l \in {loop, IoStop(loop, c, {"IN"})},
           CleanupConn(l, c),
           \/ answers' = answers
           \/ conn[c].initialized /\ \E text \in {"200", "response"} : Write(loop.fd[c], text)
           \/ ~conn[c].initialized /\ \E text \in {"404", "413"} : Write(loop.fd[c], text)
    PROVE  Service!ServiceNext
<1>1. /\ Phase(c) = IF conn[c].initialized THEN "handling" ELSE "open"
      /\ Phase(c)' = "closed" /\ \A d \in Conn \ {c} : Phase(d)' = Phase(d)
  BY CleanupSeen
<1>2. ASSUME NEW text \in Answers, Write(loop.fd[c], text)
      PROVE  \E sent \in {text, "cut"} : answers' = [answers EXCEPT ![c] = <<sent>>]
  BY <1>2, WriteTo
<1>3. CASE answers' = answers
  BY <1>1, <1>3, ServiceMoves
<1>4. ASSUME conn[c].initialized, NEW text \in {"200", "response"}, Write(loop.fd[c], text)
      PROVE  Service!ServiceNext
  <2>1. \E sent \in {text, "cut"} : answers' = [answers EXCEPT ![c] = <<sent>>]
    BY <1>2, <1>4 DEF Answers
  <2>2. Phase(c) = "handling"
    BY <1>1, <1>4
  <2>3. PICK sent \in {"200", "response", "cut"} : answers' = [answers EXCEPT ![c] = <<sent>>]
    BY <2>1
  <2> QED
    BY <1>1, <2>2, <2>3, ServiceMoves
<1>5. ASSUME ~conn[c].initialized, NEW text \in {"404", "413"}, Write(loop.fd[c], text)
      PROVE  Service!ServiceNext
  <2>1. \E sent \in {text, "cut"} : answers' = [answers EXCEPT ![c] = <<sent>>]
    BY <1>2, <1>5 DEF Answers
  <2>2. Phase(c) = "open"
    BY <1>1, <1>5
  <2>3. PICK sent \in {"404", "413", "200", "cut"} : answers' = [answers EXCEPT ![c] = <<sent>>]
    BY <2>1
  <2> QED
    BY <1>1, <2>2, <2>3, ServiceMoves
<1> QED
  BY <1>3, <1>4, <1>5

LEMMA ServiceStep ==
    ASSUME IInv, [Next]_vars
    PROVE  [Service!ServiceNext]_(Service!service)
<1>1. CASE UNCHANGED vars
  <2>1. UNCHANGED <<conn, net, answers>>
    BY <1>1 DEF vars, handlers, sockets, client
  <2>2. \A c \in Conn : conn[c].mem \in {"none", "live", "freed"}
    BY DEF IInv, TypeOK
  <2> QED
    BY <2>1, <2>2, ServiceRests
<1>2. CASE Environment
  <2>1. CASE SigInt
    BY <2>1, SigIntStops
  <2>2. ASSUME NEW c \in Conn, Connect(c) \/ Send(c) \/ HangUp(c) \/ TimerFires(c)
        PROVE  UNCHANGED Service!service
    BY <2>2, ClientRests
  <2>3. ASSUME ExporterLoads \/ ExporterStores PROVE UNCHANGED Service!service
    BY <2>3, ExporterRests
  <2> QED
    BY <1>2, <2>1, <2>2, <2>3 DEF Environment
<1>3. CASE Task
  <2>1. CASE \/ Start \/ StartFails \/ BootListen \/ BootFails \/ PollBegin \/ Drain
             \/ PollReady \/ PollInterrupted \/ PollError \/ SkipEntry \/ PollEnd \/ AcceptRefused
             \/ ParseEnd \/ JsEmpty \/ JsTake \/ JsPollTimers \/ JsNoJob \/ JsRunJob \/ JerryRunJobs \/ JsRequeue
             \/ \E c \in Conn : RecvInterrupted(c)
    BY <2>1, TaskRests
  <2>2. ASSUME NEW c \in Conn, NEW f \in Fd, Accept(c, f) PROVE Service!ServiceNext
    BY <2>2, AcceptEnters
  <2>3. ASSUME NEW c \in Conn, AcceptNoMemory(c) PROVE Service!ServiceNext
    BY <2>3, NoMemoryTurnsAway
  <2>4. ASSUME NEW c \in Conn, RecvEnd(c) PROVE Service!ServiceNext
    <3>1. Calls(c) /\ CleanupConn(loop, c) /\ UNCHANGED answers
      BY <2>4 DEF RecvEnd
    <3>2. Live(c)
      BY <3>1, CallFacts, ConnNames
    <3> QED
      BY <3>1, <3>2, CleanupEnds
  <2>5. ASSUME NEW c \in Conn, NEW chunk \in Chunks, Recv(c, chunk)
        PROVE  [Service!ServiceNext]_(Service!service)
    <3>1. Calls(c) /\ Live(c) /\ ~conn[c].initialized
      BY <2>5, CallFacts, ConnNames DEF Recv
    <3>2. CASE conn[c].recvd + 1 > MaxRequest
      <4>1. CleanupConn(loop, c) /\ Write(loop.fd[c], "413")
        BY <2>5, <3>2 DEF Recv
      <4> QED
        BY <3>1, <4>1, CleanupEnds
    <3>3. CASE ~(conn[c].recvd + 1 > MaxRequest)
      <4>1. PICK more \in BOOLEAN : net' = [net EXCEPT ![c].bytes = more]
        BY <2>5, <3>3 DEF Recv
      <4>2. UNCHANGED <<conn, answers>>
        BY <2>5, <3>3 DEF Recv, handlers
      <4>3. \A d \in Conn : net'[d].state = net[d].state /\ conn[d].mem \in {"none", "live", "freed"}
        BY <4>1, NetType DEF IInv, TypeOK
      <4> QED
        BY <3>1, <4>2, <4>3, ServiceRests
    <3> QED
      BY <3>2, <3>3
  <2>6. CASE ParseError
    <3>1. /\ Parses("bad") /\ CleanupConn(loop, cur) /\ UNCHANGED answers
      BY <2>6 DEF ParseError
    <3>2. pc = "parse" /\ rest # <<>> /\ cur \in Conn
      BY <3>1 DEF Parses, IInv, TurnOK
    <3>3. CASE Live(cur)
      BY <3>1, <3>2, <3>3, CleanupEnds
    <3>4. CASE ~Live(cur)
      <4>1. /\ UNCHANGED net
            /\ \A d \in Conn : /\ conn[d].mem \in {"none", "live", "freed"} /\ conn'[d].mem = conn[d].mem
                               /\ conn'[d].initialized = conn[d].initialized
        BY <3>1, <3>2, <3>4, FreedAgainDoes
      <4> QED
        BY <3>1, <4>1, ServiceRests
    <3> QED
      BY <3>3, <3>4
  <2>7. CASE NotFound
    <3>1. /\ Parses("other") /\ Write(loop.fd[cur], "404")
          /\ CleanupConn(IoStop(loop, cur, {"IN"}), cur)
      BY <2>7 DEF NotFound, MessageClosed
    <3>2. pc = "parse" /\ rest # <<>> /\ cur \in Conn /\ ~conn[cur].initialized
      BY <3>1, ParseFacts
    <3>3. CASE Live(cur)
      BY <3>1, <3>2, <3>3, CleanupEnds
    <3>4. CASE ~Live(cur)
      <4>1. /\ UNCHANGED net /\ file[loop.fd[cur]] = NULL /\ loop.fd[cur] \in Fd
            /\ \A d \in Conn : /\ conn[d].mem \in {"none", "live", "freed"} /\ conn'[d].mem = conn[d].mem
                               /\ conn'[d].initialized = conn[d].initialized
        BY <3>1, <3>2, <3>4, FreedAgainDoes
      <4>2. UNCHANGED answers
        BY <3>1, <4>1, WrittenNobody
      <4> QED
        BY <4>1, <4>2, ServiceRests
    <3> QED
      BY <3>3, <3>4
  <2>8. CASE RunHandler
    <3>1. /\ Parses("request") /\ UNCHANGED <<net, answers>>
          /\ \E done \in {conn[cur].completed, TRUE} :
                 conn' = [conn EXCEPT ![cur].initialized = TRUE, ![cur].completed = done]
      BY <2>8 DEF RunHandler, client
    <3>2. PICK c \in Conn : c = cur /\ Live(c) /\ ~conn[c].initialized
      BY <3>1, ParseFacts
    <3>3. conn \in [Conn -> [mem : {"none", "live", "freed"}, initialized : BOOLEAN,
                             completed : BOOLEAN, recvd : Nat]]
      BY DEF IInv, TypeOK
    <3>4. /\ conn'[c].mem = "live" /\ conn'[c].initialized = TRUE
          /\ \A d \in Conn \ {c} : conn'[d] = conn[d]
      BY <3>1, <3>2, <3>3 DEF Live
    <3>5. /\ Phase(c) = "open" /\ Phase(c)' = "handling"
          /\ \A d \in Conn \ {c} : Phase(d)' = Phase(d)
      BY <3>1, <3>2, <3>4 DEF Phase, Live
    <3> QED
      BY <3>1, <3>5, ServiceMoves
  <2>9. CASE JsFail \/ JsAnswer
    <3>1. /\ pc = "decide" /\ CleanupConn(loop, cur)
          /\ \/ answers' = answers
             \/ \E text \in {"200", "response"} : Write(loop.fd[cur], text)
      BY <2>9 DEF JsFail, JsAnswer, Writeback
    <3>2. cur \in Conn /\ Live(cur) /\ conn[cur].initialized
      BY <3>1 DEF IInv, TurnOK, JsSteps
    <3> QED
      BY <3>1, <3>2, CleanupEnds
  <2> QED
    BY <1>3, <2>1, <2>2, <2>3, <2>4, <2>5, <2>6, <2>7, <2>8, <2>9 DEF Task
<1> QED
  BY <1>1, <1>2, <1>3 DEF Next

\* The task, its two queues and its watchers implement HttpdService: whatever the
\* clients, the signals and the timers do, each connection carries one request and gets
\* at most one response, from its handler or as a rejection, and is not touched after it
\* was closed.
THEOREM ServerImplementsService ==
    ASSUME OneRequestEach
    PROVE  Spec => RefinesService
<1>1. Init => Service!ServiceInit
  <2> SUFFICES ASSUME Init PROVE Service!ServiceInit
    OBVIOUS
  <2>1. \A c \in Conn : Phase(c) = "outside"
    BY DEF Init, Phase
  <2>2. answers = [c \in Conn |-> <<>>]
    BY DEF Init
  <2> QED
    BY <2>1, <2>2 DEF Service!ServiceInit
<1>2. IInv /\ [Next]_vars => [Service!ServiceNext]_(Service!service)
  BY ServiceStep
<1>3. Spec => []IInv
  BY Invariance
<1>4. Spec => Service!ServiceSpec
  BY <1>1, <1>2, <1>3, PTL DEF Spec, Service!ServiceSpec
<1> QED
  BY <1>4 DEF RefinesService
=============================================================================
