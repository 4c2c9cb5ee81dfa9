----------------------------- MODULE UvLoopProof ------------------------------
(***************************************************************************)
(* The invariants of UvLoop for any number of watchers and descriptors, by *)
(* the inductive invariant IInv: the loop is sound (SoundLoop of           *)
(* UvIoProof), and poll_fds_iterating is set exactly while uv__io_poll     *)
(* dispatches events. Then those of UvMemory by MInv, which adds that      *)
(* every descriptor in use has room and that watchers grows by powers of   *)
(* two.                                                                    *)
(***************************************************************************)
EXTENDS UvMemory, UvIoProof, WellFoundedInduction

IInv == /\ SoundLoop(loop)
        /\ loop.iterating <=> pc \in {"iter", "cb"}
        /\ pc \in {"idle", "drain", "iter", "cb"}
        /\ i \in Nat \ {0}
        /\ running \in Watcher \cup {NULL}

\* The operations of a watcher do not touch poll_fds_iterating.
LEMMA SameIterating ==
    ASSUME NEW l \in LoopType, NEW w \in Watcher, NEW f \in Fd, NEW ev \in SUBSET Events
    PROVE  /\ IoOpen(l, w, f).iterating = l.iterating
           /\ IoStart(l, w, ev).iterating = l.iterating
           /\ IoStop(l, w, ev).iterating = l.iterating
<1>1. IoOpen(l, w, f).iterating = l.iterating /\ IoStart(l, w, ev).iterating = l.iterating
  BY DEF IoOpen, IoStart, LoopType
<1>2. IoStop(l, w, ev).iterating = l.iterating
  BY DEF IoStop, LoopType
<1> QED
  BY <1>1, <1>2

LEMMA InitIInv == Init => IInv
BY InitSound DEF Init, IInv, LoopInit
-----------------------------------------------------------------------------
\* Clients: between two polls and inside callbacks.
LEMMA OpenIInv ==
    ASSUME IInv, NEW w \in Watcher, NEW f \in Fd, NEW e \in Events, Open(w, f, {e})
    PROVE  IInv'
<1> DEFINE m == IoOpen(loop, w, f)
<1>1. loop \in LoopType /\ SoundLoop(loop) /\ ~ActiveIn(loop, w)
  BY DEF IInv, SoundLoop, Open, Active
<1>2. /\ SoundLoop(m) /\ m.fd = [loop.fd EXCEPT ![w] = f]
      /\ \A v \in Watcher : ActiveIn(m, v) <=> ActiveIn(loop, v)
  BY <1>1, OpenSound
<1>3. m \in LoopType /\ loop.fd \in [Watcher -> Fd \cup {NULL}]
  BY <1>1, <1>2, LoopFields DEF SoundLoop
<1> HIDE DEF m
<1>4. /\ m.fd[w] = f /\ m.fd[w] # NULL
      /\ \A v \in Watcher : ActiveIn(m, v) /\ m.fd[v] = m.fd[w] => v = w
  BY <1>2, <1>3, UvNames DEF Open, Active
<1>5. {e} \in SUBSET Events /\ {e} # {}
  OBVIOUS
<1>6. SoundLoop(IoStart(m, w, {e}))
  BY <1>2, <1>4, <1>5, StartSound
<1>7. IoStart(m, w, {e}).iterating = loop.iterating
  BY <1>1, <1>3, <1>5, SameIterating DEF m
<1>8. loop' = IoStart(m, w, {e})
  BY DEF Open, m
<1> QED
  BY <1>6, <1>7, <1>8 DEF IInv, Open

LEMMA StartIInv ==
    ASSUME IInv, NEW w \in Watcher, NEW e \in Events, Start(w, {e})
    PROVE  IInv'
<1>1. loop \in LoopType /\ SoundLoop(loop) /\ ActiveIn(loop, w) /\ {e} \in SUBSET Events /\ {e} # {}
  BY DEF IInv, SoundLoop, Start, Active
<1>2. /\ loop.fd[w] # NULL
      /\ \A v \in Watcher : ActiveIn(loop, v) /\ loop.fd[v] = loop.fd[w] => v = w
  BY <1>1 DEF SoundLoop, RegisteredIn
<1>3. loop.fd[w] \in Fd
  BY <1>1, <1>2, LoopFields
<1>4. SoundLoop(IoStart(loop, w, {e})) /\ IoStart(loop, w, {e}).iterating = loop.iterating
  BY <1>1, <1>2, <1>3, StartSound, SameIterating
<1> QED
  BY <1>4 DEF IInv, Start

LEMMA StopIInv ==
    ASSUME IInv, NEW w \in Watcher, NEW e \in Events, Stop(w, {e})
    PROVE  IInv'
<1>1. loop \in LoopType /\ SoundLoop(loop) /\ {e} \in SUBSET Events
  BY DEF IInv, SoundLoop
<1>2. SoundLoop(IoStop(loop, w, {e}))
  BY <1>1, StopSound
<1>3. IoStop(loop, w, {e}).iterating = loop.iterating
  BY <1>1 DEF IoStop, LoopType
<1> QED
  BY <1>2, <1>3 DEF IInv, Stop
-----------------------------------------------------------------------------
\* uv__io_poll.
LEMMA PollIInv ==
    ASSUME IInv, Next,
           ~(\E w \in Watcher, f \in Fd, e \in Events : Open(w, f, {e})),
           ~(\E w \in Watcher, e \in Events : Start(w, {e})),
           ~(\E w \in Watcher, e \in Events : Stop(w, {e}))
    PROVE  IInv'
<1>0. SoundLoop(loop) /\ loop \in LoopType
  BY DEF IInv, SoundLoop
<1>1. CASE PollBegin
  BY <1>1 DEF IInv, PollBegin
<1>2. CASE Drain
  <2>1. ~loop.iterating
    BY <1>2 DEF IInv, Drain
  <2>2. SoundLoop(TakeQueued(loop)) /\ ~TakeQueued(loop).iterating
    BY <1>0, <1>2, <2>1, TakeSound DEF Drain
  <2> QED
    BY <1>2, <2>2 DEF IInv, Drain
<1>3. CASE PollError
  BY <1>3 DEF IInv, PollError
<1>4. CASE Skip
  <2>1. CASE UNCHANGED loop
    BY <1>4, <2>1 DEF IInv, Skip, InRange
  <2>2. CASE /\ loop.poll_fds[i].fd # NULL /\ WatcherAt(loop, i) = NULL
             /\ loop' = InvalidateFd(loop, loop.poll_fds[i].fd)
    <3>1. i \in DOMAIN loop.poll_fds /\ loop.poll_fds \in Seq(PollFd)
      BY <1>0, <1>4, LoopFields DEF Skip, InRange
    <3>2. loop.poll_fds[i].fd \in Fd
      <4>1. loop.poll_fds[i] \in PollFd
        BY <3>1
      <4> QED
        BY <2>2, <4>1 DEF PollFd
    <3>3. SoundLoop(loop') /\ loop'.iterating = loop.iterating
      BY <1>0, <2>2, <3>2, InvalidateSound DEF WatcherAt
    <3> QED
      BY <1>4, <3>3 DEF IInv, Skip, InRange
  <2> QED
    BY <1>4, <2>1, <2>2 DEF Skip
<1>5. CASE Quiet
  BY <1>5 DEF IInv, Quiet, Watch, InRange
<1>6. CASE Call
  <2>1. i \in DOMAIN loop.poll_fds /\ loop.poll_fds \in Seq(PollFd)
    BY <1>0, <1>6, LoopFields DEF Call, Watch, InRange
  <2>2. loop.poll_fds[i].fd \in Fd
    <3>1. loop.poll_fds[i] \in PollFd
      BY <2>1
    <3> QED
      BY <1>6, <3>1 DEF PollFd, Call, Watch
  <2>3. WatcherAt(loop, i) \in Watcher \cup {NULL}
    BY <1>0, <2>2, LoopFields DEF WatcherAt
  <2> QED
    BY <1>6, <2>3 DEF IInv, Call, Watch, InRange
<1>7. CASE Return
  BY <1>7 DEF IInv, Return
<1>8. CASE PollEnd
  <2>1. loop' = [loop EXCEPT !.poll_fds = loop.poll_fds, !.iterating = FALSE]
    BY <1>0, <1>8 DEF PollEnd, LoopType
  <2>2. SoundLoop([loop EXCEPT !.poll_fds = loop.poll_fds, !.iterating = FALSE])
    <3>1. loop.poll_fds \in Seq(PollFd)
      BY <1>0, LoopFields
    <3>2. \A j \in DOMAIN loop.poll_fds :
             loop.poll_fds[j].fd \in Watched(loop) => loop.poll_fds[j].fd # NULL
      BY UvNames DEF Watched
    <3> QED
      BY <1>0, <3>1, <3>2, EntriesSound
  <2>3. SoundLoop(loop)' /\ loop'.iterating = FALSE
    BY <1>0, <2>1, <2>2 DEF LoopType
  <2>4. pc' = "idle" /\ i' = 1 /\ running' = running
    BY <1>8 DEF PollEnd
  <2> QED
    BY <2>3, <2>4 DEF IInv
<1>9. CASE \E re \in [Fd -> Revents] : Ready(re)
  <2>1. PICK re \in [Fd -> Revents] : Ready(re)
    BY <1>9
  <2>2. re \in [Fd -> SUBSET (Events \cup Faults)]
    BY DEF Revents, Events, Faults
  <2>3. SoundLoop(Polled(loop, re)) /\ Polled(loop, re).iterating = TRUE
    BY <1>0, <2>2, PolledSound
  <2> QED
    BY <2>1, <2>3 DEF IInv, Ready
<1> QED
  BY <1>1, <1>2, <1>3, <1>4, <1>5, <1>6, <1>7, <1>8, <1>9 DEF Next

LEMMA NextIInv == IInv /\ [Next]_vars => IInv'
<1> SUFFICES ASSUME IInv, [Next]_vars
             PROVE  IInv'
  OBVIOUS
<1>1. CASE UNCHANGED vars
  BY <1>1 DEF IInv, vars
<1>2. CASE Next
  BY <1>2, OpenIInv, StartIInv, StopIInv, PollIInv
<1> QED
  BY <1>1, <1>2
-----------------------------------------------------------------------------
\* What IInv says of the loop, in the terms of UvLoop.
LEMMA IInvImplies == IInv => TypeOK /\ Registered /\ QueueAsserts /\ NoDuplicateFd /\ Armed
<1> SUFFICES ASSUME IInv
             PROVE  TypeOK /\ Registered /\ QueueAsserts /\ NoDuplicateFd /\ Armed
  OBVIOUS
<1>1. /\ loop \in LoopType /\ loop.queue \in QueueHeap(Watcher \cup {Loop})
      /\ QueueLinked(loop.queue, Watcher \cup {Loop})
      /\ OneRing(loop.queue, Loop, Watcher \cup {Loop})
      /\ RegisteredIn(loop) /\ QueuedActive(loop) /\ NoDuplicateIn(loop) /\ ArmedQueue(loop)
  BY LoopFields DEF IInv, SoundLoop
<1>2. TypeOK
  BY <1>1 DEF IInv, TypeOK
<1>3. loop.nfds = 0 => QueueEmpty(loop.queue, Loop)
  <2> SUFFICES ASSUME loop.nfds = 0, ~QueueEmpty(loop.queue, Loop)
               PROVE  FALSE
    OBVIOUS
  <2>1. PICK w \in Watcher : ~QueueEmpty(loop.queue, w)
    BY HeadQueued DEF IInv
  <2>2. ActiveIn(loop, w) /\ loop.fd[w] # NULL /\ loop.fd[w] \in Fd
    BY <1>1, <2>1, LoopFields DEF QueuedActive
  <2>3. loop.fd[w] \in Watched(loop)
    BY <1>1, <2>2, UvNames DEF RegisteredIn, Watched
  <2>4. IsFiniteSet(Watched(loop))
    BY FdsFinite, FS_Subset DEF Watched
  <2>5. Watched(loop) = {}
    BY <1>1, <2>4, FS_EmptySet DEF RegisteredIn
  <2> QED
    BY <2>3, <2>5
<1>4. Armed
  <2> SUFFICES ASSUME QueueEmpty(loop.queue, Loop)
               PROVE  ArmedIn(loop, Watcher)
    BY DEF Armed
  <2>1. \A w \in Watcher : QueueEmpty(loop.queue, w)
    BY <1>1, HeadAlone
  <2> QED
    BY <1>1, <2>1 DEF ArmedQueue, ArmedIn
<1> QED
  BY <1>1, <1>2, <1>3, <1>4 DEF Registered, QueueAsserts, NoDuplicateFd

\* uv_poll.c for every number of watchers and descriptors: nfds and the
\* registrations agree with the active watchers, uv__io_poll's assertions hold,
\* no descriptor is polled twice, and poll() is asked for exactly the events of
\* every active watcher, whatever callbacks start, stop, open and reuse.
THEOREM PollIsSound == Spec => [](TypeOK /\ Registered /\ QueueAsserts /\ NoDuplicateFd /\ Armed)
<1>1. Init => IInv
  BY InitIInv
<1>2. IInv /\ [Next]_vars => IInv'
  BY NextIInv
<1>3. IInv => TypeOK /\ Registered /\ QueueAsserts /\ NoDuplicateFd /\ Armed
  BY IInvImplies
<1> QED
  BY <1>1, <1>2, <1>3, PTL DEF Spec

\* nfds, for which uv__io_poll returns early, counts the registered descriptors, and each
\* is registered to the active watcher that holds it.
COROLLARY RegistrationsAgree == Spec => []Registered
BY PollIsSound, PTL

\* No sequence of starts, stops, closes and reuses makes an assertion of uv__io_poll fail.
COROLLARY AssertionsHold == Spec => []QueueAsserts
BY PollIsSound, PTL

-----------------------------------------------------------------------------
(* The sizes of the two arrays.                                            *)

\* A set of numbers that has every number whose predecessors it has, has them all.
LEMMA AllNumbers ==
    ASSUME NEW S, \A n \in Nat : (n = 0 \/ n - 1 \in S) => n \in S
    PROVE  Nat \subseteq S
<1> SUFFICES ASSUME NEW n \in Nat, n \notin S PROVE FALSE
  OBVIOUS
<1> DEFINE T == Nat \ S
<1>1. T \subseteq Nat /\ T # {}
  OBVIOUS
<1>2. PICK m \in T : \A k \in T : ~(<<k, m>> \in OpToRel(<, Nat))
  BY <1>1, NatLessThanWellFounded, WFMin
<1>3. m # 0 /\ m - 1 \notin S /\ m - 1 \in Nat
  OBVIOUS
<1>4. m - 1 \in Nat /\ m \in Nat /\ m - 1 < m
  BY <1>3
<1>5. <<m - 1, m>> \in OpToRel(<, Nat)
  BY <1>4, Zenon DEF OpToRel
<1> QED
  BY <1>2, <1>3, <1>5

LEMMA PowerIs ==
    /\ DOMAIN Power = 0..30 /\ \A n \in 0..30 : Power[n] \in Nat \ {0}
    /\ Power[0] = 1 /\ \A n \in 1..30 : Power[n] = 2 * Power[n - 1]
<1> DEFINE Good(n, g) == g[0] = 1 /\ \A k \in 1..n : g[k] = 2 * g[k - 1]
           S == {n \in Nat : \E g \in [0..n -> Nat] : Good(n, g)}
<1>1. 0 \in S
  <2> DEFINE g == [k \in 0..0 |-> 1]
  <2>1. g \in [0..0 -> Nat] /\ Good(0, g)
    OBVIOUS
  <2> QED
    BY <2>1
<1>2. ASSUME NEW n \in Nat, n \in S PROVE n + 1 \in S
  <2>1. PICK g \in [0..n -> Nat] : Good(n, g)
    BY <1>2
  <2> DEFINE m == n + 1
             h == [k \in 0..m |-> IF k = m THEN 2 * g[n] ELSE g[k]]
  <2>2. h \in [0..m -> Nat] /\ h[0] = 1 /\ h[m] = 2 * g[n] /\ h[n] = g[n]
    BY <2>1
  <2>3. ASSUME NEW k \in 1..m PROVE h[k] = 2 * h[k - 1]
    <3>1. CASE k = m
      BY <2>2, <3>1
    <3>2. CASE k # m
      <4>1. k \in 1..n /\ k - 1 \in 0..n /\ k - 1 # m /\ k \in 0..m /\ k - 1 \in 0..m
        BY <3>2
      <4>2. h[k] = g[k] /\ h[k - 1] = g[k - 1]
        BY <3>2, <4>1
      <4> QED
        BY <2>1, <4>1, <4>2
    <3> QED
      BY <3>1, <3>2
  <2> HIDE DEF h
  <2>4. Good(m, h) /\ m \in Nat
    BY <2>2, <2>3
  <2>5. m \in S
    BY <2>2, <2>4
  <2> QED
    BY <2>5
<1>3. 30 \in S
  <2> HIDE DEF S
  <2>1. ASSUME NEW n \in Nat, n = 0 \/ n - 1 \in S PROVE n \in S
    <3>1. CASE n = 0
      BY <1>1, <3>1
    <3>2. CASE n # 0
      <4>1. n - 1 \in Nat /\ (n - 1) + 1 = n /\ n - 1 \in S
        BY <2>1, <3>2
      <4> QED
        BY <1>2, <4>1
    <3> QED
      BY <3>1, <3>2
  <2> QED
    BY <2>1, AllNumbers
<1>4. PICK g \in [0..30 -> Nat] : Good(30, g)
  BY <1>3
<1>5. g = [n \in 0..30 |-> IF n = 0 THEN 1 ELSE 2 * g[n - 1]]
  BY <1>4
<1>6. Power = [n \in 0..30 |-> IF n = 0 THEN 1 ELSE 2 * Power[n - 1]]
  BY <1>5, Zenon DEF Power
<1>7. DOMAIN Power = 0..30 /\ Power[0] = 1 /\ \A n \in 1..30 : Power[n] = 2 * Power[n - 1]
  BY <1>6
<1> DEFINE P == {n \in Nat : n <= 30 => Power[n] \in Nat \ {0}}
<1>8. ASSUME NEW n \in Nat, n = 0 \/ n - 1 \in P PROVE n \in P
  <2>1. CASE n = 0
    BY <1>7, <2>1
  <2>2. CASE n # 0
    BY <1>7, <1>8, <2>2
  <2> QED
    BY <2>1, <2>2
<1> HIDE DEF P
<1>9. Nat \subseteq P
  BY <1>8, AllNumbers
<1> QED
  BY <1>7, <1>9 DEF P

\* next_power_of_two gives a power of two that is not smaller and less than twice as large.
LEMMA NextPower ==
    ASSUME NEW val \in Nat, val >= 3, val <= Power[30]
    PROVE  /\ next_power_of_two(val) \in Nat
           /\ val <= next_power_of_two(val) /\ next_power_of_two(val) < 2 * val
           /\ \E n \in 2..30 : next_power_of_two(val) = Power[n]
<1> DEFINE S == {Power[n] : n \in {k \in 0..30 : val <= Power[k]}}
<1>1. S \subseteq Nat /\ S # {} /\ \A p \in S : val <= p
  <2>1. 30 \in {k \in 0..30 : val <= Power[k]}
    OBVIOUS
  <2>2. Power[30] \in S
    BY <2>1
  <2>3. ASSUME NEW p \in S PROVE p \in Nat /\ val <= p
    <3>1. PICK n \in 0..30 : val <= Power[n] /\ p = Power[n]
      OBVIOUS
    <3> QED
      BY <3>1, PowerIs
  <2> QED
    BY <2>2, <2>3
<1>2. PICK m \in S : \A k \in S : ~(<<k, m>> \in OpToRel(<, Nat))
  <2> HIDE DEF S
  <2> QED
    BY <1>1, NatLessThanWellFounded, WFMin
<1>3. ASSUME NEW k \in S PROVE m <= k
  <2>1. m \in Nat /\ k \in Nat
    BY <1>1
  <2> HIDE DEF S
  <2>2. k < m => <<k, m>> \in OpToRel(<, Nat)
    BY <2>1, Zenon DEF OpToRel
  <2>3. ~(<<k, m>> \in OpToRel(<, Nat))
    BY <1>2, Zenon
  <2>4. ~(k < m)
    BY <2>2, <2>3, Zenon
  <2> QED
    BY <2>1, <2>4
<1>4. Min(S) = m
  <2>1. m \in S /\ \A y \in S : m <= y
    BY <1>2, <1>3
  <2> HIDE DEF S
  <2>2. Min(S) \in S /\ \A y \in S : Min(S) <= y
    BY <2>1, Zenon DEF Min
  <2> DEFINE z == Min(S)
  <2> HIDE DEF z
  <2>3. z \in S /\ \A y \in S : z <= y
    BY <2>2 DEF z
  <2>4. z = m
    BY <1>1, <2>1, <2>3
  <2> QED
    BY <2>4 DEF z
<1>5. PICK n \in 0..30 : val <= Power[n] /\ m = Power[n]
  BY <1>2
<1>6. n # 0 /\ n # 1
  BY <1>5, PowerIs
<1>7. /\ n - 1 \in 0..30 /\ n \in 1..30 /\ n \in 2..30
      /\ Power[n] = 2 * Power[n - 1] /\ Power[n - 1] \in Nat \ {0}
  BY <1>5, <1>6, PowerIs
<1>8. ~(val <= Power[n - 1])
  <2> SUFFICES ASSUME val <= Power[n - 1] PROVE FALSE
    OBVIOUS
  <2>1. n - 1 \in {k \in 0..30 : val <= Power[k]}
    BY <1>7
  <2>2. Power[n - 1] \in S
    BY <2>1
  <2> HIDE DEF S
  <2>3. m <= Power[n - 1]
    BY <1>3, <2>2, Zenon
  <2> QED
    BY <1>5, <1>7, <2>3
<1>9. next_power_of_two(val) = m
  BY <1>4, Zenon DEF next_power_of_two
<1> QED
  BY <1>5, <1>7, <1>8, <1>9

-----------------------------------------------------------------------------
\* The first half of InBounds: the descriptors of l are below n.
FdsBelow(l, n) ==
    /\ \A w \in Watcher : l.fd[w] # NULL => l.fd[w] < n
    /\ \A j \in DOMAIN l.poll_fds : l.poll_fds[j].fd # NULL => l.poll_fds[j].fd < n

\* The second half.
InProportion(n) ==
    n # 0 => (\E k \in 2..30 : n + 2 = Power[k]) /\ (\E f \in Fd : n + 2 < 2 * (f + 3))

MInv == /\ IInv
        /\ nwatchers \in Nat /\ poll_fds_size \in Nat
        /\ FdsBelow(loop, nwatchers) /\ InProportion(nwatchers)
        /\ Len(loop.poll_fds) <= poll_fds_size

\* maybe_resize never shrinks watchers and makes room for the descriptor.
LEMMA ResizeFits ==
    ASSUME NEW n \in Nat, InProportion(n), NEW f \in Fd
    PROVE  /\ MaybeResize(n, f + 1) \in Nat /\ n <= MaybeResize(n, f + 1)
           /\ f < MaybeResize(n, f + 1) /\ InProportion(MaybeResize(n, f + 1))
<1>1. f \in Nat /\ f + 3 \in Nat /\ f + 3 >= 3 /\ f + 3 <= Power[30] /\ (f + 1) + 2 = f + 3
  BY FdsAreNumbers
<1>2. CASE f + 1 <= n
  BY <1>1, <1>2 DEF MaybeResize
<1>3. CASE ~(f + 1 <= n)
  <2> DEFINE p == next_power_of_two(f + 3)
  <2>1. /\ p \in Nat /\ f + 3 <= p /\ p < 2 * (f + 3)
        /\ \E k \in 2..30 : p = Power[k]
    BY <1>1, NextPower
  <2>2. MaybeResize(n, f + 1) = p - 2
    BY <1>1, <1>3 DEF MaybeResize
  <2> HIDE DEF p
  <2>3. p - 2 \in Nat /\ n <= p - 2 /\ f < p - 2 /\ (p - 2) + 2 = p
    BY <1>1, <1>3, <2>1
  <2>4. InProportion(p - 2)
    BY <2>1, <2>3 DEF InProportion
  <2> QED
    BY <2>2, <2>3, <2>4
<1> QED
  BY <1>2, <1>3

LEMMA StillBelow ==
    ASSUME NEW l \in LoopType, NEW n \in Nat, NEW m \in Nat, n <= m, FdsBelow(l, n)
    PROVE  FdsBelow(l, m)
<1>1. ASSUME NEW w \in Watcher, l.fd[w] # NULL PROVE l.fd[w] < m
  <2>1. l.fd[w] \in Nat /\ l.fd[w] < n
    BY <1>1, LoopFields, FdsAreNumbers DEF FdsBelow
  <2> QED
    BY <2>1
<1>2. ASSUME NEW j \in DOMAIN l.poll_fds, l.poll_fds[j].fd # NULL PROVE l.poll_fds[j].fd < m
  <2>1. l.poll_fds[j] \in PollFd
    BY LoopFields
  <2>2. l.poll_fds[j].fd \in Nat /\ l.poll_fds[j].fd < n
    BY <1>2, <2>1, FdsAreNumbers DEF FdsBelow, PollFd
  <2> QED
    BY <2>2
<1> QED
  BY <1>1, <1>2 DEF FdsBelow

LEMMA SameFds ==
    ASSUME NEW l \in LoopType, NEW w \in Watcher, NEW ev \in SUBSET Events, NEW f \in Fd
    PROVE  /\ IoStart(l, w, ev).fd = l.fd /\ IoStart(l, w, ev).poll_fds = l.poll_fds
           /\ IoStop(l, w, ev).fd = l.fd /\ IoStop(l, w, ev).poll_fds = l.poll_fds
           /\ IoOpen(l, w, f).fd = [l.fd EXCEPT ![w] = f]
           /\ IoOpen(l, w, f).poll_fds = l.poll_fds
<1>1. IoStart(l, w, ev).fd = l.fd /\ IoStart(l, w, ev).poll_fds = l.poll_fds
  BY DEF IoStart, LoopType
<1>2. IoStop(l, w, ev).fd = l.fd /\ IoStop(l, w, ev).poll_fds = l.poll_fds
  BY DEF IoStop, LoopType
<1>3. /\ IoOpen(l, w, f).fd = [l.fd EXCEPT ![w] = f]
      /\ IoOpen(l, w, f).poll_fds = l.poll_fds
  BY DEF IoOpen, LoopType
<1> QED
  BY <1>1, <1>2, <1>3

LEMMA MemInitMInv == MemInit => MInv
<1> SUFFICES ASSUME MemInit
             PROVE  MInv
  OBVIOUS
<1>1. IInv /\ loop = LoopInit /\ nwatchers = 0 /\ poll_fds_size = 0
  BY InitIInv DEF MemInit, Init
<1>2. loop.fd = [w \in Watcher |-> NULL] /\ loop.poll_fds = <<>>
  BY <1>1 DEF LoopInit
<1>3. FdsBelow(loop, 0) /\ InProportion(0) /\ Len(loop.poll_fds) <= 0
  BY <1>2 DEF FdsBelow, InProportion
<1> QED
  BY <1>1, <1>3 DEF MInv

\* Opening and starting a watcher: maybe_resize runs before its descriptor is used.
LEMMA OpenMInv ==
    ASSUME MInv, NEW w \in Watcher, NEW f \in Fd, NEW e \in Events, Open(w, f, {e}), Starts(f)
    PROVE  MInv'
<1> DEFINE n == MaybeResize(nwatchers, f + 1)
           m == IoOpen(loop, w, f)
<1>1. IInv' /\ loop \in LoopType /\ loop' \in LoopType
  BY OpenIInv DEF MInv, IInv, SoundLoop
<1>2. nwatchers' = n /\ poll_fds_size' = poll_fds_size
  BY DEF Starts, sizes
<1>3. n \in Nat /\ nwatchers <= n /\ f < n /\ InProportion(n)
  BY ResizeFits DEF MInv
<1>4. {e} \in SUBSET Events /\ loop' = IoStart(m, w, {e}) /\ SoundLoop(m)
  BY OpenSound DEF Open, Active, MInv, IInv
<1>5. m \in LoopType /\ m.fd = [loop.fd EXCEPT ![w] = f] /\ m.poll_fds = loop.poll_fds
  <2>1. m.fd = [loop.fd EXCEPT ![w] = f] /\ m.poll_fds = loop.poll_fds
    BY <1>1, <1>4, SameFds
  <2> HIDE DEF m
  <2> QED
    BY <1>4, <2>1, Zenon DEF SoundLoop
<1> HIDE DEF m, n
<1>6. loop'.fd = [loop.fd EXCEPT ![w] = f] /\ loop'.poll_fds = loop.poll_fds
  BY <1>4, <1>5, SameFds
<1>7. FdsBelow(loop, n)
  BY <1>1, <1>3, StillBelow DEF MInv
<1>8. loop.fd \in [Watcher -> Fd \cup {NULL}]
  BY <1>1, LoopFields
<1>9. FdsBelow(loop', n)
  BY <1>3, <1>6, <1>7, <1>8 DEF FdsBelow
<1>10. FdsBelow(loop, nwatchers)'
  BY <1>2, <1>9
<1>11. InProportion(nwatchers)'
  BY <1>2, <1>3
<1> QED
  BY <1>1, <1>2, <1>3, <1>6, <1>10, <1>11 DEF MInv

LEMMA StartMInv ==
    ASSUME MInv, NEW w \in Watcher, NEW e \in Events, Start(w, {e}), Starts(loop.fd[w])
    PROVE  MInv'
<1> DEFINE f == loop.fd[w]
           n == MaybeResize(nwatchers, f + 1)
<1>1. IInv' /\ loop \in LoopType
  BY StartIInv DEF MInv, IInv, SoundLoop
<1>2. nwatchers' = n /\ poll_fds_size' = poll_fds_size
  BY DEF Starts, sizes
<1>3. f \in Fd
  <2>1. f # NULL
    BY DEF Start, Active, MInv, IInv, SoundLoop, RegisteredIn
  <2> QED
    BY <1>1, <2>1, LoopFields
<1>4. n \in Nat /\ nwatchers <= n /\ InProportion(n)
  BY <1>3, ResizeFits DEF MInv
<1>5. loop'.fd = loop.fd /\ loop'.poll_fds = loop.poll_fds
  <2>1. {e} \in SUBSET Events /\ loop' = IoStart(loop, w, {e})
    BY DEF Start
  <2> HIDE DEF f
  <2> QED
    BY <1>1, <1>3, <2>1, SameFds
<1> HIDE DEF n
<1>6. FdsBelow(loop, n)
  BY <1>1, <1>4, StillBelow DEF MInv
<1>7. FdsBelow(loop', n)
  BY <1>5, <1>6 DEF FdsBelow
<1>8. FdsBelow(loop, nwatchers)'
  BY <1>2, <1>7
<1>9. InProportion(nwatchers)'
  BY <1>2, <1>4
<1> QED
  BY <1>1, <1>2, <1>4, <1>5, <1>8, <1>9 DEF MInv

\* uv__io_poll takes a queued watcher, whose descriptor fits, and poll_fds grows first.
LEMMA DrainMInv ==
    ASSUME MInv, Drain, Adds
    PROVE  MInv'
<1> DEFINE w == QueueHead(loop.queue, Loop)
           m == [loop EXCEPT !.queue = QueueUnlink(loop.queue, w)]
           r == PollfdsAdd(m, w)
<1>1. IInv' /\ SoundLoop(loop) /\ loop \in LoopType /\ ~QueueEmpty(loop.queue, Loop)
  BY PollIInv, NextIInv DEF MInv, IInv, SoundLoop, Drain, Next
<1>2. w \in Watcher /\ ~QueueEmpty(loop.queue, w)
  BY <1>1, HeadQueued
<1>3. loop' = r
  BY DEF Drain, TakeQueued
<1>4. m.fd = loop.fd /\ m.poll_fds = loop.poll_fds /\ m.iterating = loop.iterating
  BY <1>1 DEF LoopType
<1> HIDE DEF w
<1>5. loop.fd[w] # NULL /\ loop.fd[w] < nwatchers
  BY <1>1, <1>2 DEF MInv, FdsBelow, SoundLoop, QueuedActive
<1>6. loop.poll_fds \in Seq(PollFd)
  BY <1>1, LoopFields
<1>7. /\ r.fd = loop.fd
      /\ Len(r.poll_fds) \in Nat /\ Len(r.poll_fds) <= Len(loop.poll_fds) + 1
      /\ \A j \in DOMAIN r.poll_fds :
            \/ r.poll_fds[j].fd = loop.fd[w]
            \/ j \in DOMAIN loop.poll_fds /\ r.poll_fds[j].fd = loop.poll_fds[j].fd
  <2> HIDE DEF m
  <2>0. m = [loop EXCEPT !.queue = QueueUnlink(loop.queue, w)]
    BY DEF m
  <2>1. CASE r = m
    BY <1>4, <1>6, <2>1
  <2> DEFINE changed == [j \in DOMAIN m.poll_fds |->
                            IF m.poll_fds[j].fd = m.fd[w]
                            THEN [m.poll_fds[j] EXCEPT !.events = m.pevents[w]] ELSE m.poll_fds[j]]
             e == [fd |-> m.fd[w], events |-> m.pevents[w], revents |-> {}]
  <2>2. CASE r = [m EXCEPT !.poll_fds = changed]
    <3>1. r.fd = loop.fd /\ r.poll_fds = changed
      BY <1>1, <1>4, <2>0, <2>2 DEF LoopType
    <3>2. DOMAIN changed = DOMAIN loop.poll_fds /\ Len(changed) = Len(loop.poll_fds)
      BY <1>4, <1>6
    <3>3. ASSUME NEW j \in DOMAIN changed
          PROVE  changed[j].fd = loop.fd[w] \/ changed[j].fd = loop.poll_fds[j].fd
      <4>1. loop.poll_fds[j] \in PollFd
        BY <1>6, <3>2, <3>3
      <4> QED
        BY <1>4, <3>3, <4>1 DEF PollFd
    <3> HIDE DEF changed
    <3> QED
      BY <1>6, <3>1, <3>2, <3>3
  <2>3. CASE r = [m EXCEPT !.poll_fds = Append(m.poll_fds, e)]
    <3>1. r.fd = loop.fd /\ r.poll_fds = Append(loop.poll_fds, e)
      BY <1>1, <1>4, <2>0, <2>3 DEF LoopType
    <3>2. e.fd = loop.fd[w]
      BY <1>4
    <3> HIDE DEF e
    <3> QED
      BY <1>6, <3>1, <3>2
  <2> QED
    BY <2>1, <2>2, <2>3 DEF PollfdsAdd
<1> HIDE DEF r, m
<1>8. FdsBelow(r, nwatchers)
  BY <1>5, <1>7 DEF FdsBelow, MInv
<1>9. /\ nwatchers' = nwatchers
      /\ poll_fds_size' \in Nat /\ Len(r.poll_fds) <= poll_fds_size'
  <2>1. /\ nwatchers' = nwatchers
        /\ poll_fds_size' = IF Len(r.poll_fds) > Len(loop.poll_fds)
                               /\ Len(loop.poll_fds) >= poll_fds_size
                            THEN PollfdsMaybeResize(poll_fds_size)
                            ELSE poll_fds_size
    BY <1>3 DEF Adds
  <2>2. /\ PollfdsMaybeResize(poll_fds_size) \in Nat
        /\ PollfdsMaybeResize(poll_fds_size) >= poll_fds_size + 1
    BY SizesPositive DEF PollfdsMaybeResize, MInv
  <2>3. Len(loop.poll_fds) \in Nat /\ Len(loop.poll_fds) <= poll_fds_size /\ poll_fds_size \in Nat
    BY <1>6 DEF MInv
  <2> DEFINE a == Len(r.poll_fds)
             b == Len(loop.poll_fds)
             c == PollfdsMaybeResize(poll_fds_size)
  <2> HIDE DEF a, b, c
  <2>4. /\ a \in Nat /\ b \in Nat /\ c \in Nat /\ poll_fds_size \in Nat
        /\ a <= b + 1 /\ b <= poll_fds_size /\ c >= poll_fds_size + 1
        /\ poll_fds_size' = IF a > b /\ b >= poll_fds_size THEN c ELSE poll_fds_size
    BY <1>7, <2>1, <2>2, <2>3 DEF a, b, c
  <2>5. poll_fds_size' \in Nat /\ a <= poll_fds_size'
    BY <2>4
  <2> QED
    BY <2>1, <2>5 DEF a
<1>10. FdsBelow(loop, nwatchers)' /\ InProportion(nwatchers)' /\ (nwatchers \in Nat)'
  BY <1>3, <1>8, <1>9 DEF MInv
<1> QED
  BY <1>1, <1>3, <1>9, <1>10 DEF MInv

\* The other steps leave the sizes, the descriptors of the watchers and the length of
\* poll_fds, and at most invalidate entries.
LEMMA OtherMInv ==
    ASSUME MInv, UNCHANGED sizes,
           \/ \E w \in Watcher, e \in Events : Stop(w, {e})
           \/ PollBegin \/ PollError \/ Skip \/ Quiet \/ Call \/ Return \/ PollEnd
           \/ \E re \in [Fd -> Revents] : Ready(re)
    PROVE  MInv'
<1>1. IInv' /\ loop \in LoopType /\ loop.poll_fds \in Seq(PollFd)
  BY NextIInv, LoopFields DEF MInv, IInv, SoundLoop, Next
<1> DEFINE p == loop.poll_fds
           Kept == /\ loop'.fd = loop.fd
                   /\ Len(loop'.poll_fds) = Len(p) /\ DOMAIN loop'.poll_fds = DOMAIN p
                   /\ \A j \in DOMAIN p :
                         loop'.poll_fds[j].fd = p[j].fd \/ loop'.poll_fds[j].fd = NULL
<1>2. ASSUME UNCHANGED loop
      PROVE  Kept
  BY <1>2
<1>3. ASSUME \E w \in Watcher, e \in Events : Stop(w, {e})
      PROVE  Kept
  <2>1. PICK w \in Watcher, e \in Events : loop' = IoStop(loop, w, {e})
    BY <1>3 DEF Stop
  <2>2. loop'.fd = loop.fd /\ loop'.poll_fds = loop.poll_fds
    BY <1>1, <2>1 DEF IoStop, LoopType
  <2> QED
    BY <2>2
<1>4. ASSUME PollEnd
      PROVE  Kept
  BY <1>1, <1>4 DEF PollEnd, LoopType
<1>5. ASSUME Skip /\ ~(UNCHANGED loop)
      PROVE  Kept
  <2> DEFINE q == [j \in DOMAIN p |-> IF p[j].fd = p[i].fd THEN Invalid ELSE p[j]]
  <2>1. loop' = [loop EXCEPT !.poll_fds = q]
    BY <1>1, <1>5 DEF Skip, InvalidateFd, LoopType
  <2>2. DOMAIN q = DOMAIN p /\ Len(q) = Len(p)
    BY <1>1
  <2>3. \A j \in DOMAIN p : q[j].fd = p[j].fd \/ q[j].fd = NULL
    BY DEF Invalid
  <2> HIDE DEF q
  <2>4. loop'.fd = loop.fd /\ loop'.poll_fds = q
    BY <1>1, <2>1 DEF LoopType
  <2> QED
    BY <2>2, <2>3, <2>4
<1>6. ASSUME \E re \in [Fd -> Revents] : Ready(re)
      PROVE  Kept
  <2>1. PICK re \in [Fd -> Revents] : loop' = Polled(loop, re)
    BY <1>6 DEF Ready
  <2> DEFINE reported(e) == IF e.fd = NULL THEN {} ELSE re[e.fd] \cap (e.events \cup Faults)
             q == [j \in DOMAIN p |-> [p[j] EXCEPT !.revents = reported(p[j])]]
  <2>2. loop' = [loop EXCEPT !.iterating = TRUE, !.poll_fds = q]
    BY <1>1, <2>1 DEF Polled, LoopType
  <2>3. DOMAIN q = DOMAIN p /\ Len(q) = Len(p)
    BY <1>1
  <2>4. ASSUME NEW j \in DOMAIN p PROVE q[j].fd = p[j].fd
    <3>1. p[j] \in PollFd
      BY <1>1
    <3> QED
      BY <3>1 DEF PollFd
  <2> HIDE DEF q
  <2>5. loop'.fd = loop.fd /\ loop'.poll_fds = q
    BY <1>1, <2>2 DEF LoopType
  <2> QED
    BY <2>3, <2>4, <2>5
<1>7. UNCHANGED loop \/ ~(PollBegin \/ PollError \/ Quiet \/ Call \/ Return)
  BY DEF PollBegin, PollError, Quiet, Call, Return
<1>8. Kept
  BY <1>2, <1>3, <1>4, <1>5, <1>6, <1>7, Zenon
<1>9. FdsBelow(loop', nwatchers)
  BY <1>8 DEF FdsBelow, MInv
<1>10. nwatchers' = nwatchers /\ poll_fds_size' = poll_fds_size
  BY DEF sizes
<1>11. FdsBelow(loop, nwatchers)' /\ InProportion(nwatchers)'
  BY <1>9, <1>10 DEF MInv
<1>12. (Len(loop.poll_fds) <= poll_fds_size)'
  BY <1>8, <1>10 DEF MInv
<1>13. nwatchers' \in Nat /\ poll_fds_size' \in Nat
  BY <1>10 DEF MInv
<1> QED
  BY <1>1, <1>11, <1>12, <1>13 DEF MInv

\* A step with its sizes is a step of UvLoop.
LEMMA MemStep == MemNext => Next
BY DEF MemNext, Next

LEMMA MemNextMInv == MInv /\ [MemNext]_<<vars, sizes>> => MInv'
<1> SUFFICES ASSUME MInv, [MemNext]_<<vars, sizes>>
             PROVE  MInv'
  OBVIOUS
<1>1. CASE UNCHANGED <<vars, sizes>>
  BY <1>1 DEF MInv, IInv, vars, sizes, FdsBelow, InProportion
<1>2. CASE \E w \in Watcher, f \in Fd, e \in Events : Open(w, f, {e}) /\ Starts(f)
  BY <1>2, OpenMInv
<1>3. CASE \E w \in Watcher, e \in Events : Start(w, {e}) /\ Starts(loop.fd[w])
  BY <1>3, StartMInv
<1>4. CASE Drain /\ Adds
  BY <1>4, DrainMInv
<1>5. CASE /\ UNCHANGED sizes
           /\ \/ \E w \in Watcher, e \in Events : Stop(w, {e})
              \/ PollBegin \/ PollError \/ Skip \/ Quiet \/ Call \/ Return \/ PollEnd
              \/ \E re \in [Fd -> Revents] : Ready(re)
  BY <1>5, OtherMInv
<1> QED
  BY <1>1, <1>2, <1>3, <1>4, <1>5 DEF MemNext

\* The loop with its arrays does nothing that UvLoop does not: growing an array is part
\* of a step, and all that is proved of UvLoop holds here.
THEOREM SizesOnlyAdd == MemSpec => Spec
<1>1. MemInit => Init
  BY DEF MemInit
<1>2. [MemNext]_<<vars, sizes>> => [Next]_vars
  BY MemStep
<1> QED
  BY <1>1, <1>2, PTL DEF MemSpec, Spec

\* For every number of watchers and any descriptors below 2^30 - 2: the loop never reads or
\* writes outside loop->watchers or loop->poll_fds, not even for the entry of a
\* descriptor that was closed inside a callback, and watchers is never larger than
\* twice the largest descriptor asks for.
THEOREM ArraysSuffice == MemSpec => []InBounds
<1>1. MemInit => MInv
  BY MemInitMInv
<1>2. MInv /\ [MemNext]_<<vars, sizes>> => MInv'
  BY MemNextMInv
<1>3. MInv => InBounds
  BY DEF MInv, FdsBelow, InProportion, InBounds
<1> QED
  BY <1>1, <1>2, <1>3, PTL DEF MemSpec

\* The invariants of UvLoop, as the run checks them on the loop with its arrays.
COROLLARY PollIsSoundWithSizes == MemSpec => [](Registered /\ QueueAsserts /\ Armed)
BY SizesOnlyAdd, PollIsSound, PTL
=============================================================================
