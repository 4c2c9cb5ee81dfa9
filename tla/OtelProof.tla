------------------------------ MODULE OtelProof ------------------------------
(***************************************************************************)
(* The exporter's socket, watcher and requests for any number of           *)
(* descriptors, any clock and any interval, by the inductive invariant     *)
(* IInv. Its part about the loop is SoundLoop of UvIoProof, kept by the    *)
(* lemmas about the operations of uv_poll.c; what the exporter adds is     *)
(* that its watcher asks for nothing but POLLOUT, so that one call of      *)
(* uv__io_stop makes it idle before the descriptor is closed, and that it  *)
(* is idle whenever the next attempt begins. Then the counter it shares    *)
(* with httpd (CounterOK), and the exporter of Metrics, whose walks go     *)
(* over lists that other tasks make longer (Encoding).                     *)
(***************************************************************************)
EXTENDS Metrics, UvIoProof

\* Between the close of a socket and the making of the next one.
Between == {"count", "store", "connect"}

\* The watcher belongs to the socket, and is idle between two of them.
Watching ==
    /\ SoundLoop(loop) /\ ~loop.iterating
    /\ loop.pevents[Exporter] \subseteq {"OUT"}
    /\ ActiveIn(loop, Exporter) => pc \notin Between /\ fd # NULL /\ loop.fd[Exporter] = fd

\* The task's place in the request agrees with what the socket was given, as long
\* as it took all of it.
Counting ==
    /\ pc = "write" => stream \in {part, NULL}
    /\ pc \in {"sleep", "poll", "late", "due", "encode"} => part = 0 /\ stream \in {0, NULL}
    /\ pc \in Between => stream = 0

IInv == TypeOK /\ OneSocket /\ Watching /\ Counting

LEMMA InitIInv == Init => IInv
<1> SUFFICES ASSUME Init PROVE IInv
  OBVIOUS
<1>1. Exporter \in Watcher
  BY OneWatcher
<1>2. SoundLoop(loop) /\ loop \in LoopType
  BY InitSound DEF Init, SoundLoop
<1>3. ~loop.iterating /\ loop.pevents[Exporter] = {}
  BY <1>1 DEF Init, LoopInit
<1>4. Watching
  BY <1>2, <1>3 DEF Watching, ActiveIn
<1>5. TypeOK
  <2>1. 0 \in 0..(CountMod - 1) /\ 0 \in 0..(TickMod - 1) /\ 0 \in 0..MaxLag
    BY OtelNumbers
  <2>2. loaded \in [{"otel", "httpd"} -> 0..(CountMod - 1)]
    BY <2>1 DEF Init
  <2>3. raced \in BOOLEAN
    BY Zenon DEF Init
  <2> QED
    BY <1>2, <2>1, <2>2, <2>3 DEF Init, TypeOK, Parts
<1>6. OneSocket /\ Counting
  BY DEF Init, OneSocket, Counting, Between
<1> QED
  BY <1>4, <1>5, <1>6 DEF IInv

-----------------------------------------------------------------------------
(* What the operations do to the exporter's loop.                          *)

\* uv__io_stop leaves the exporter's watcher idle.
LEMMA StopIdle ==
    ASSUME NEW l, SoundLoop(l), l.pevents[Exporter] \subseteq {"OUT"}
    PROVE  /\ SoundLoop(IoStop(l, Exporter, {"OUT"}))
           /\ IoStop(l, Exporter, {"OUT"}).iterating = l.iterating
           /\ IoStop(l, Exporter, {"OUT"}).pevents[Exporter] = {}
           /\ ~ActiveIn(IoStop(l, Exporter, {"OUT"}), Exporter)
<1> DEFINE r == IoStop(l, Exporter, {"OUT"})
<1>1. Exporter \in Watcher /\ {"OUT"} \in SUBSET Events
  BY OneWatcher DEF Events
<1>2. SoundLoop(r)
  BY <1>1, StopSound
<1>3. l \in LoopType /\ l.pevents \in [Watcher -> SUBSET Events]
  BY LoopFields DEF SoundLoop
<1>4. CASE l.fd[Exporter] = NULL
  <2>1. r = l
    BY <1>4 DEF IoStop
  <2>2. ~ActiveIn(l, Exporter)
    BY <1>1, <1>4 DEF SoundLoop, RegisteredIn
  <2> QED
    BY <1>2, <2>1, <2>2 DEF ActiveIn
<1>5. CASE l.fd[Exporter] # NULL
  <2>1. l.pevents[Exporter] \ {"OUT"} = {}
    OBVIOUS
  <2>2. r.iterating = l.iterating /\ r.pevents = [l.pevents EXCEPT ![Exporter] = {}]
    BY <1>3, <1>5, <2>1 DEF IoStop, LoopType
  <2>3. r.pevents[Exporter] = {}
    BY <1>1, <1>3, <2>2
  <2> QED
    BY <1>2, <2>2, <2>3 DEF ActiveIn
<1> QED
  BY <1>4, <1>5

\* Emptying the watcher queue changes no watcher.
LEMMA DrainedSame ==
    ASSUME NEW l, SoundLoop(l), ~l.iterating
    PROVE  /\ SoundLoop(Drained(l)) /\ ~Drained(l).iterating
           /\ Drained(l).fd = l.fd /\ Drained(l).pevents = l.pevents
<1>1. CASE QueueEmpty(l.queue, Loop)
  BY <1>1 DEF Drained
<1>2. CASE ~QueueEmpty(l.queue, Loop)
  <2> DEFINE w == QueueHead(l.queue, Loop)
             m == [l EXCEPT !.queue = QueueUnlink(@, w)]
  <2>1. l \in LoopType
    BY DEF SoundLoop
  <2>2. m.fd = l.fd /\ m.pevents = l.pevents
    BY <2>1 DEF LoopType
  <2>3. PollfdsAdd(m, w).fd = m.fd /\ PollfdsAdd(m, w).pevents = m.pevents
    BY <2>1 DEF PollfdsAdd, LoopType
  <2>4. TakeQueued(l).fd = l.fd /\ TakeQueued(l).pevents = l.pevents
    BY <2>2, <2>3 DEF TakeQueued
  <2>5. SoundLoop(TakeQueued(l)) /\ ~TakeQueued(l).iterating
    BY <1>2, TakeSound
  <2> QED
    BY <1>2, <2>4, <2>5 DEF Drained
<1> QED
  BY <1>1, <1>2

\* Neither does poll(), nor the walk over the entries.
LEMMA WalkedSame ==
    ASSUME NEW l, SoundLoop(l), NEW re \in [Fd -> SUBSET (Events \cup Faults)]
    PROVE  /\ SoundLoop(Walked(Polled(l, re))) /\ ~Walked(Polled(l, re)).iterating
           /\ Walked(Polled(l, re)).fd = l.fd /\ Walked(Polled(l, re)).pevents = l.pevents
<1> DEFINE m == Polled(l, re)
<1>1. SoundLoop(m)
  BY PolledSound
<1>2. l \in LoopType /\ m \in LoopType
  BY <1>1 DEF SoundLoop
<1>3. m.fd = l.fd /\ m.pevents = l.pevents
  BY <1>2 DEF Polled, LoopType
<1> HIDE DEF m
<1> DEFINE stopped(e) == e.fd # NULL /\ m.watchers[e.fd] = NULL
           p == [j \in DOMAIN m.poll_fds |->
                   IF stopped(m.poll_fds[j]) THEN Invalid ELSE m.poll_fds[j]]
<1>4. m.poll_fds \in Seq(PollFd) /\ m.watchers \in [Fd -> Watcher \cup {NULL}]
  BY <1>2, LoopFields
<1>5. p \in Seq(PollFd) /\ DOMAIN p = DOMAIN m.poll_fds
  <2>1. PICK n \in Nat : DOMAIN m.poll_fds = 1 .. n
    BY <1>4
  <2>2. Invalid \in PollFd
    BY DEF Invalid, PollFd
  <2>3. \A j \in 1 .. n : p[j] \in PollFd
    BY <1>4, <2>1, <2>2
  <2> QED
    BY <2>1, <2>3
<1>6. \A j \in DOMAIN p : \/ p[j].fd = NULL
                          \/ /\ p[j].fd = m.poll_fds[j].fd
                             /\ p[j].events = m.poll_fds[j].events
  BY <1>5 DEF Invalid
<1>7. \A j \in DOMAIN p : m.poll_fds[j].fd \in Watched(m) => p[j].fd # NULL
  BY <1>5, UvNames DEF Watched
<1>8. Walked(m) = [m EXCEPT !.poll_fds = p, !.iterating = FALSE]
  BY <1>2 DEF Walked, LoopType
<1> HIDE DEF p, stopped
<1>9. SoundLoop(Walked(m))
  <2>1. SoundLoop([m EXCEPT !.poll_fds = p, !.iterating = FALSE])
    BY <1>1, <1>5, <1>6, <1>7, EntriesSound
  <2> QED
    BY <1>8, <2>1
<1>10. /\ ~Walked(m).iterating
       /\ Walked(m).fd = m.fd /\ Walked(m).pevents = m.pevents
  BY <1>2, <1>8 DEF LoopType
<1> QED
  BY <1>3, <1>9, <1>10 DEF m

\* A new socket, and the watcher with it.
LEMMA ConnectsLoop ==
    ASSUME NEW l, SoundLoop(l), ~l.iterating, ~ActiveIn(l, Exporter), NEW f \in Fd,
           NEW r, r = IoStart(IoOpen(l, Exporter, f), Exporter, {"OUT"})
    PROVE  /\ SoundLoop(r) /\ ~r.iterating
           /\ r.pevents[Exporter] \subseteq {"OUT"} /\ r.fd[Exporter] = f
<1> DEFINE m == IoOpen(l, Exporter, f)
<1>1. Exporter \in Watcher /\ {"OUT"} \in SUBSET Events /\ {"OUT"} # {}
  BY OneWatcher DEF Events
<1>2. /\ SoundLoop(m) /\ m.fd = [l.fd EXCEPT ![Exporter] = f]
      /\ \A v \in Watcher : ActiveIn(m, v) <=> ActiveIn(l, v)
  BY <1>1, OpenSound
<1>3. l \in LoopType /\ m \in LoopType /\ l.fd \in [Watcher -> Fd \cup {NULL}]
  BY <1>2, LoopFields DEF SoundLoop
<1>4. m.pevents = l.pevents /\ m.iterating = l.iterating
  BY <1>3 DEF IoOpen, LoopType
<1>5. l.pevents[Exporter] = {} /\ m.fd[Exporter] = f
  BY <1>1, <1>2, <1>3 DEF ActiveIn
<1> HIDE DEF m
<1>6. SoundLoop(IoStart(m, Exporter, {"OUT"}))
  <2>1. m.fd[Exporter] # NULL
    BY <1>5, UvNames
  <2>2. \A v \in Watcher : ActiveIn(m, v) /\ m.fd[v] = m.fd[Exporter] => v = Exporter
    BY OneWatcher
  <2> QED
    BY <1>1, <1>2, <2>1, <2>2, StartSound
<1>7. /\ IoStart(m, Exporter, {"OUT"}).iterating = m.iterating
      /\ IoStart(m, Exporter, {"OUT"}).fd = m.fd
      /\ IoStart(m, Exporter, {"OUT"}).pevents
            = [m.pevents EXCEPT ![Exporter] = @ \cup {"OUT"}]
  BY <1>3 DEF IoStart, LoopType
<1>8. m.pevents \in [Watcher -> SUBSET Events]
  BY <1>3, LoopFields
<1>9. IoStart(m, Exporter, {"OUT"}).pevents[Exporter] = {"OUT"}
  BY <1>1, <1>4, <1>5, <1>7, <1>8
<1>10. r = IoStart(m, Exporter, {"OUT"})
  BY DEF m
<1> QED
  BY <1>4, <1>5, <1>6, <1>7, <1>9, <1>10

-----------------------------------------------------------------------------
\* Ticks and counts stay in range.
LEMMA ModRange ==
    ASSUME NEW m \in Nat, NEW n \in Nat \ {0}
    PROVE  m % n \in 0..(n - 1)
OBVIOUS

LEMMA Ranges ==
    ASSUME TypeOK
    PROVE  /\ (now + 1) % TickMod \in 0..(TickMod - 1)
           /\ (now + TickMod - Interval) % TickMod \in 0..(TickMod - 1)
           /\ Up \in 0..(CountMod - 1) /\ Down \in 0..(CountMod - 1)
           /\ (uncounted + 1) % CountMod \in 0..(CountMod - 1)
<1>1. TickMod \in Nat \ {0} /\ CountMod \in Nat \ {0} /\ Interval \in Nat /\ Interval < TickMod
  BY OtelNumbers
<1>2. now \in Nat /\ numConns \in Nat /\ uncounted \in Nat
  BY <1>1 DEF TypeOK
<1>3. /\ now + 1 \in Nat /\ now + TickMod - Interval \in Nat
      /\ numConns + 1 \in Nat /\ numConns + CountMod - 1 \in Nat /\ uncounted + 1 \in Nat
  BY <1>1, <1>2
<1> QED
  BY <1>1, <1>3, ModRange DEF Up, Down

\* The counter can be anything: nothing but the limit of accept depends on it.
LEMMA CounterIInv ==
    ASSUME IInv, HttpdLoads \/ HttpdStores \/ CountDown \/ CountStored
    PROVE  IInv'
<1> USE DEF IInv
<1>1. UNCHANGED <<part, fields, clock, sock, stream, file>>
  BY DEF HttpdLoads, HttpdStores, CountDown, CountStored
<1>2. /\ numConns' \in 0..(CountMod - 1) /\ uncounted' \in 0..(CountMod - 1)
      /\ httpd' \in {"idle", "opened", "closed", "store"} /\ raced' \in BOOLEAN
      /\ loaded' \in [{"otel", "httpd"} -> 0..(CountMod - 1)]
  <2>1. CASE HttpdLoads
    BY <2>1, Ranges DEF HttpdLoads, TypeOK
  <2>2. CASE HttpdStores
    BY <2>2, OtelNumbers DEF HttpdStores, TypeOK
  <2>3. CASE CountDown
    BY <2>3, Ranges DEF CountDown, TypeOK
  <2>4. CASE CountStored
    BY <2>4, Ranges, OtelNumbers DEF CountStored, TypeOK
  <2> QED
    BY <2>1, <2>2, <2>3, <2>4
<1>3. \/ pc' = pc
      \/ pc \in Between /\ pc' \in Between
  BY DEF HttpdLoads, HttpdStores, CountDown, CountStored, At, Between
<1>4. TypeOK'
  BY <1>1, <1>2, <1>3 DEF TypeOK, Between, fields, clock
<1>5. OneSocket' /\ Watching' /\ Counting'
  BY <1>1, <1>3 DEF OneSocket, Watching, Counting, Between, fields
<1> QED
  BY <1>4, <1>5

\* The clock, the collector and httpd: they take no descriptor of the exporter.
LEMMA EnvironmentIInv ==
    ASSUME IInv, Environment
    PROVE  IInv'
<1> USE DEF IInv
<1>1. CASE Tick
  <2>1. TypeOK'
    BY <1>1, Ranges, OtelNumbers DEF Tick, TypeOK, fields, system, counter
  <2> QED
    BY <1>1, <2>1 DEF Tick, fields, system, counter, OneSocket, Watching, Counting
<1>2. CASE CollectorAccepts \/ CollectorRefuses \/ CollectorCloses
  <2> USE DEF CollectorAccepts, CollectorRefuses, CollectorCloses, Becomes, fields, clock, counter
  <2>1. TypeOK'
    BY <1>2 DEF TypeOK
  <2> QED
    BY <1>2, <2>1 DEF OneSocket, Watching, Counting
<1>3. ASSUME NEW f \in Fd, HttpdAccepts(f) \/ HttpdCloses(f)
      PROVE  IInv'
  <2> USE DEF HttpdAccepts, HttpdCloses, fields, clock
  <2>1. TypeOK'
    BY <1>3 DEF TypeOK
  <2>2. OneSocket'
    BY <1>3, <2>1 DEF OneSocket, TypeOK
  <2> QED
    BY <1>3, <2>1, <2>2 DEF Watching, Counting
<1> QED
  BY <1>1, <1>2, <1>3, CounterIInv DEF Environment

\* The steps of a turn that neither poll nor change the socket.
LEMMA TurnIInv ==
    ASSUME IInv,
           \/ Wake \/ TimedOut \/ InTime \/ NotDue \/ IsDue \/ EncodeFails
           \/ Encodes \/ Writes \/ WriteFails
    PROVE  IInv'
<1> USE DEF IInv
<1>1. TypeOK /\ UNCHANGED <<loop, fd, sock, file, counter, now, attempt>>
  BY DEF Wake, TimedOut, InTime, NotDue, IsDue, EncodeFails, Encodes, Writes, WriteFails,
         fields, clock, system, Sleep, At
<1>2. pc \notin Between /\ pc' \notin Between
  BY DEF Wake, TimedOut, InTime, NotDue, IsDue, EncodeFails, Encodes, Writes, WriteFails, Sleep, At,
         Between
<1>3. OneSocket' /\ Watching'
  BY <1>1, <1>2 DEF OneSocket, Watching, Between
<1>4. TypeOK' /\ Counting'
  <2>1. CASE Wake \/ TimedOut \/ IsDue \/ Encodes \/ WriteFails
    BY <1>1, <2>1 DEF Wake, TimedOut, IsDue, Encodes, WriteFails, At, fields, clock, system,
                      counter, TypeOK, Counting, Between
  <2>2. CASE InTime \/ NotDue \/ EncodeFails
    BY <1>1, <2>2, OtelNumbers DEF InTime, NotDue, EncodeFails, Sleep, fields, system,
                      counter, TypeOK, Counting, Parts, Between
  <2>3. CASE Writes
    BY <1>1, <2>3, OtelNumbers DEF Writes, Sleep, TypeOK, Counting, Parts, counter, Between
  <2> QED
    BY <2>1, <2>2, <2>3
<1> QED
  BY <1>3, <1>4

\* __connect_to_otel, whichever of its calls fails.
LEMMA ConnectIInv ==
    ASSUME IInv,
           SocketFails \/ \E f \in Fd : NonblockFails(f) \/ ConnectFails(f) \/ Connects(f)
    PROVE  IInv'
<1> USE DEF IInv
<1>1. /\ pc = "connect" /\ pc \in Between /\ SoundLoop(loop) /\ ~loop.iterating /\ ~ActiveIn(loop, Exporter)
      /\ loop \in LoopType
  BY DEF SocketFails, NonblockFails, ConnectFails, Connects, NewSocket, Watching, TypeOK, Between
<1>2. CASE SocketFails
  <2>1. TypeOK'
    BY <1>2, OtelNumbers DEF SocketFails, Sleep, TypeOK, system, counter, Parts
  <2>2. OneSocket'
    BY <1>1, <1>2, UvNames DEF SocketFails, Sleep, OneSocket, system
  <2> QED
    BY <1>1, <1>2, <2>1, <2>2 DEF SocketFails, Sleep, Watching, Counting, system, Between
<1>3. ASSUME NEW f \in Fd, NEW state \in {"idle", "pending", "up"}, NewSocket(f, state)
      PROVE  OneSocket' /\ Counting' /\ fd' = f /\ pc' = "sleep"
  BY <1>1, <1>3, UvNames DEF NewSocket, Sleep, OneSocket, Counting, TypeOK, Between
<1>4. ASSUME NEW f \in Fd, NEW state \in {"idle", "pending", "up"}, NewSocket(f, state),
             attempt' \in 0..(TickMod - 1), loop' \in LoopType
      PROVE  TypeOK'
  BY <1>4, OtelNumbers DEF NewSocket, Sleep, TypeOK, Parts, counter
<1>5. ASSUME NEW f \in Fd, NonblockFails(f) \/ ConnectFails(f)
      PROVE  IInv'
  <2>1. NewSocket(f, "idle") /\ attempt' \in 0..(TickMod - 1) /\ loop' = loop
    BY <1>5 DEF NonblockFails, ConnectFails, TypeOK
  <2>2. Watching'
    BY <1>1, <2>1 DEF Watching, Between
  <2> QED
    BY <1>1, <1>3, <1>4, <2>1, <2>2
<1>6. ASSUME NEW f \in Fd, Connects(f)
      PROVE  IInv'
  <2>1. PICK state \in {"pending", "up"} : NewSocket(f, state)
    BY <1>6 DEF Connects
  <2>2. /\ SoundLoop(loop') /\ ~loop'.iterating
        /\ loop'.pevents[Exporter] \subseteq {"OUT"} /\ loop'.fd[Exporter] = f
    BY <1>1, <1>6, ConnectsLoop DEF Connects
  <2>3. loop' \in LoopType /\ attempt' \in 0..(TickMod - 1)
    BY <1>6, <2>2 DEF SoundLoop, Connects, TypeOK
  <2>4. OneSocket' /\ Counting' /\ fd' = f /\ pc' = "sleep"
    BY <1>3, <2>1
  <2>5. TypeOK'
    BY <1>4, <2>1, <2>3
  <2>6. Watching'
    BY <2>2, <2>4, UvNames DEF Watching, Between
  <2> QED
    BY <2>4, <2>5, <2>6
<1> QED
  BY <1>2, <1>5, <1>6

LEMMA SeenType == TypeOK => Seen \in [Fd -> SUBSET (Events \cup Faults)]
<1> SUFFICES ASSUME TypeOK, NEW f \in Fd
             PROVE  Seen[f] \in SUBSET (Events \cup Faults)
  BY DEF Seen
<1>1. file[f] \in {"free", "otel", "httpd"}
  BY DEF TypeOK
<1>2. CASE file[f] = "free"
  BY <1>2 DEF Seen, Events, Faults
<1>3. CASE file[f] = "httpd"
  BY <1>3 DEF Seen, Events, Faults
<1>4. CASE file[f] = "otel"
  BY <1>4 DEF Seen, Events, Faults
<1> QED
  BY <1>1, <1>2, <1>3, <1>4

\* uv__io_poll, and the callback it may call.
LEMMA PollIInv ==
    ASSUME IInv, PollQuiet \/ PollError \/ OnConnected
    PROVE  IInv'
<1> USE DEF IInv
<1> DEFINE l == Drained(loop)
<1>1. /\ pc = "poll" /\ pc' = "late" /\ TypeOK /\ Watching
      /\ UNCHANGED <<part, fd, clock, system>>
  BY DEF PollQuiet, PollError, OnConnected, At
<1>2. /\ SoundLoop(l) /\ ~l.iterating
      /\ l.fd = loop.fd /\ l.pevents = loop.pevents
  BY <1>1, DrainedSame DEF Watching
<1> HIDE DEF l
<1>3. attempt' \in 0..(TickMod - 1) /\ last_sent' \in 0..(TickMod - 1)
  BY <1>1, Ranges, OtelNumbers DEF PollQuiet, PollError, OnConnected, TypeOK
<1>4. /\ SoundLoop(loop') /\ ~loop'.iterating
      /\ loop'.pevents[Exporter] \subseteq {"OUT"}
      /\ ActiveIn(loop', Exporter) => ActiveIn(loop, Exporter) /\ loop'.fd = loop.fd
  <2>1. CASE PollError
    BY <1>1, <1>2, <2>1 DEF PollError, l, Watching, ActiveIn
  <2>2. CASE PollQuiet
    <3>1. PICK re \in {Seen, [f \in Fd |-> {}]} :
             loop' = IF loop.nfds = 0 THEN loop ELSE Walked(Polled(l, re))
      BY <2>2 DEF PollQuiet, l
    <3>2. re \in [Fd -> SUBSET (Events \cup Faults)]
      BY <1>1, SeenType
    <3>3. /\ SoundLoop(Walked(Polled(l, re))) /\ ~Walked(Polled(l, re)).iterating
          /\ Walked(Polled(l, re)).fd = l.fd /\ Walked(Polled(l, re)).pevents = l.pevents
      BY <1>2, <3>2, WalkedSame
    <3> QED
      BY <1>1, <1>2, <3>1, <3>3 DEF Watching, ActiveIn
  <2>3. CASE OnConnected
    <3> DEFINE m == Walked(Polled(l, Seen))
    <3>1. /\ SoundLoop(m) /\ ~m.iterating
          /\ m.fd = l.fd /\ m.pevents = l.pevents
      BY <1>1, <1>2, SeenType, WalkedSame
    <3>2. loop' = IoStop(m, Exporter, {"OUT"})
      BY <2>3 DEF OnConnected, l
    <3> HIDE DEF m
    <3>3. /\ SoundLoop(loop') /\ loop'.iterating = m.iterating
          /\ loop'.pevents[Exporter] = {} /\ ~ActiveIn(loop', Exporter)
      BY <1>1, <1>2, <3>1, <3>2, StopIdle DEF Watching
    <3> QED
      BY <3>1, <3>3
  <2> QED
    BY <2>1, <2>2, <2>3
<1>5. TypeOK'
  BY <1>1, <1>3, <1>4 DEF TypeOK, SoundLoop, clock, system, counter
<1>6. OneSocket' /\ Counting'
  BY <1>1 DEF OneSocket, Counting, system, Between
<1>7. Watching'
  BY <1>1, <1>4 DEF Watching, Between
<1> QED
  BY <1>5, <1>6, <1>7

\* __disconnect_from_otel.
LEMMA DisconnectIInv ==
    ASSUME IInv, Disconnect
    PROVE  IInv'
<1> USE DEF IInv
<1>1. /\ pc = "drop" /\ pc' = "count" /\ TypeOK /\ Watching
      /\ UNCHANGED <<part, fd, last_sent, clock, counter>>
  BY DEF Disconnect, At
<1>2. /\ SoundLoop(loop') /\ ~loop'.iterating
      /\ loop'.pevents[Exporter] = {} /\ ~ActiveIn(loop', Exporter)
  BY <1>1, StopIdle DEF Watching, Disconnect
<1>3. Watching' /\ Counting'
  BY <1>1, <1>2 DEF Watching, Counting, Disconnect, Between
<1>4. TypeOK'
  BY <1>1, <1>2, OtelNumbers DEF TypeOK, Disconnect, SoundLoop, clock, counter, Parts
<1>5. OneSocket'
  BY <1>1 DEF OneSocket, Disconnect, TypeOK
<1> QED
  BY <1>3, <1>4, <1>5

LEMMA NextIInv == IInv /\ [Next]_vars => IInv'
<1> SUFFICES ASSUME IInv, [Next]_vars PROVE IInv'
  OBVIOUS
<1>1. CASE Task
  BY <1>1, ConnectIInv, TurnIInv, PollIInv, DisconnectIInv, CounterIInv DEF Task
<1>2. CASE Environment
  BY <1>2, EnvironmentIInv
<1>3. CASE UNCHANGED vars
  BY <1>3 DEF vars, fields, clock, system, counter, IInv, TypeOK, OneSocket, Watching, Counting
<1> QED
  BY <1>1, <1>2, <1>3 DEF Next

LEMMA IInvImplies == IInv => TypeOK /\ OneSocket /\ WatchesOwn /\ WholeRequests
<1> SUFFICES ASSUME IInv PROVE WatchesOwn
  BY DEF IInv, Counting, WholeRequests
<1>1. SoundLoop(loop) /\ OneSocket
  BY DEF IInv, Watching
<1>2. ActiveIn(loop, Exporter) => loop.fd[Exporter] = fd /\ file[fd] = "otel"
  BY DEF IInv, Watching, OneSocket, Between
<1> QED
  BY <1>1, <1>2 DEF WatchesOwn, SoundLoop

\* The exporter for every number of descriptors, every clock, timeout and
\* interval, and any behaviour of the collector and of httpd: it owns at most
\* one socket and closes no other, its watcher stands for that socket, and where
\* every write took all it was given no request follows half of another one.
THEOREM ExporterIsSound == Spec => [](TypeOK /\ OneSocket /\ WatchesOwn /\ WholeRequests)
<1>1. Init => IInv
  BY InitIInv
<1>2. IInv /\ [Next]_vars => IInv'
  BY NextIInv
<1>3. IInv => TypeOK /\ OneSocket /\ WatchesOwn /\ WholeRequests
  BY IInvImplies
<1> QED
  BY <1>1, <1>2, <1>3, PTL DEF Spec

\* uv__io_poll calls the exporter for its present socket only.
COROLLARY WatcherIsItsOwn == Spec => []WatchesOwn
BY ExporterIsSound, PTL

\* Whatever fails, and whenever, __otel_task starts no request behind a part of
\* one, on a connection that no short write has broken already.
COROLLARY RequestsAreWhole == Spec => []WholeRequests
BY ExporterIsSound, PTL

-----------------------------------------------------------------------------
(* The counter of connections, in spite of its drift.                      *)

\* Division with remainder, and the remainder of a sum.
LEMMA ModDef ==
    ASSUME NEW x \in Int, NEW n \in Nat \ {0}
    PROVE  x = n * (x \div n) + (x % n) /\ x \div n \in Int /\ x % n \in 0..(n - 1)
OBVIOUS

LEMMA ModUnique ==
    ASSUME NEW n \in Nat \ {0}, NEW q \in Int, NEW r \in 0..(n - 1), NEW x \in Int, x = n * q + r
    PROVE  x % n = r
OBVIOUS

LEMMA ModAdd ==
    ASSUME NEW n \in Nat \ {0}, NEW x \in Int, NEW k \in Int
    PROVE  ((x % n) + k) % n = (x + k) % n
<1> DEFINE q == x \div n
           r == x % n
           y == r + k
           p == y \div n
           s == y % n
<1>1. x = n * q + r /\ q \in Int /\ r \in 0..(n - 1)
  BY ModDef
<1> HIDE DEF q, r
<1>2. y \in Int
  BY <1>1
<1>3. y = n * p + s /\ p \in Int /\ s \in 0..(n - 1)
  BY <1>2, ModDef
<1> HIDE DEF p, s, y
<1>4. x + k = n * (q + p) + s /\ q + p \in Int /\ x + k \in Int
  BY <1>1, <1>3 DEF y
<1>5. (x + k) % n = s
  <2> DEFINE z == x + k
             a == q + p
  <2>1. z = n * a + s /\ a \in Int /\ z \in Int
    BY <1>4
  <2> HIDE DEF z, a
  <2>2. z % n = s
    BY <1>3, <2>1, ModUnique
  <2> QED
    BY <2>2 DEF z
<1> QED
  BY <1>5 DEF s, y, r

LEMMA ModWrap ==
    ASSUME NEW n \in Nat \ {0}, NEW x \in Int
    PROVE  (x + n) % n = x % n
<1> DEFINE q == x \div n
           r == x % n
<1>1. x = n * q + r /\ q \in Int /\ r \in 0..(n - 1)
  BY ModDef
<1> HIDE DEF q, r
<1>2. x + n = n * (q + 1) + r /\ q + 1 \in Int /\ x + n \in Int
  BY <1>1
<1>3. (x + n) % n = r
  BY <1>1, <1>2, ModUnique
<1> QED
  BY <1>3 DEF r

\* httpd's sockets, and what the counter is for d more of them.
Served == {f \in Fd : file[f] = "httpd"}
Counted(d) == (Cardinality(Served) + d + CountMod - uncounted) % CountMod

\* Between the steps of an update the counter, or the value that was loaded for
\* it, is what CountDrifts says, unless two updates have overlapped.
CounterOK ==
    /\ IsFiniteSet(Served)
    /\ ~raced =>
          /\ httpd = "idle" => numConns = Counted(0)
          /\ httpd = "opened" => numConns = Counted(-1)
          /\ httpd = "closed" => numConns = Counted(1)
          /\ httpd = "store" => loaded["httpd"] = Counted(0) /\ pc # "store"
          /\ pc = "store" => loaded["otel"] = Down

LEMMA CountedType ==
    ASSUME TypeOK, CounterOK
    PROVE  /\ Cardinality(Served) \in Nat /\ uncounted \in Nat /\ uncounted <= CountMod - 1
           /\ CountMod \in Nat \ {0} /\ numConns \in Int
           /\ \A d \in Int : Cardinality(Served) + d + CountMod - uncounted \in Int
<1>1. Cardinality(Served) \in Nat
  BY FS_CardinalityType DEF CounterOK
<1>2. CountMod \in Nat \ {0}
  BY OtelNumbers
<1> QED
  BY <1>1, <1>2 DEF TypeOK

LEMMA InitCounter == Init => CounterOK
<1> SUFFICES ASSUME Init PROVE CounterOK
  OBVIOUS
<1>1. Served = {}
  BY DEF Init, Served
<1>2. Counted(0) = 0
  <2>1. CountMod \in Nat \ {0} /\ 0 \in Int /\ 0 \in 0..(CountMod - 1)
    BY OtelNumbers
  <2>2. Counted(0) = (0 + CountMod) % CountMod
    BY <1>1, <2>1, FS_EmptySet DEF Counted, Init
  <2>3. (0 + CountMod) % CountMod = 0 % CountMod
    BY <2>1, ModWrap
  <2>4. 0 = CountMod * 0 + 0
    BY <2>1
  <2>5. 0 % CountMod = 0
    BY <2>1, <2>4, ModUnique
  <2> QED
    BY <2>2, <2>3, <2>5
<1> QED
  BY <1>1, <1>2, FS_EmptySet DEF Init, CounterOK

\* The steps of an update of the counter.
LEMMA UpdateCounter ==
    ASSUME TypeOK, CounterOK, HttpdLoads \/ HttpdStores \/ CountDown \/ CountStored
    PROVE  CounterOK'
<1>1. Served' = Served
  BY DEF HttpdLoads, HttpdStores, CountDown, CountStored, Served
<1> DEFINE card == Cardinality(Served)
<1>2. /\ card \in Nat /\ uncounted \in Nat /\ uncounted <= CountMod - 1
      /\ CountMod \in Nat \ {0} /\ numConns \in Int
      /\ \A d \in Int : card + d + CountMod - uncounted \in Int
  BY CountedType
<1>3. card' = card
  BY <1>1
<1>4. \A d, k \in Int : (Counted(d) + k) % CountMod = Counted(d + k)
  <2> TAKE d, k \in Int
  <2> DEFINE x == card + d + CountMod - uncounted
  <2>1. x \in Int
    BY <1>2
  <2>2. ((x % CountMod) + k) % CountMod = (x + k) % CountMod
    BY <1>2, <2>1, ModAdd
  <2>3. x + k = card + (d + k) + CountMod - uncounted
    BY <1>2
  <2> QED
    BY <2>2, <2>3 DEF Counted
<1>5. \A d, k \in Int : (Counted(d) + CountMod + k) % CountMod = Counted(d + k)
  <2> TAKE d, k \in Int
  <2>1. Counted(d) + k \in Int /\ Counted(d) + CountMod + k = (Counted(d) + k) + CountMod
    <3>1. card + d + CountMod - uncounted \in Int
      BY <1>2
    <3>2. Counted(d) \in Int
      BY <1>2, <3>1, ModDef DEF Counted
    <3> QED
      BY <1>2, <3>2
  <2> QED
    BY <1>2, <1>4, <2>1, ModWrap
<1> HIDE DEF card
<1>6. CASE HttpdLoads
  <2>1. /\ httpd \in {"opened", "closed"} /\ httpd' = "store" /\ pc' = pc /\ uncounted' = uncounted
        /\ raced' = (raced \/ pc = "store")
        /\ loaded'["httpd"] = IF httpd = "opened" THEN Up ELSE Down
    BY <1>6 DEF HttpdLoads, TypeOK
  <2>2. Counted(0)' = Counted(0)
    BY <1>1, <2>1 DEF Counted
  <2>3. ASSUME ~raced, httpd = "opened" PROVE Up = Counted(0)
    <3>1. numConns = Counted(-1) /\ -1 + 1 = 0
      BY <2>3 DEF CounterOK
    <3> QED
      BY <1>4, <3>1 DEF Up
  <2>4. ASSUME ~raced, httpd = "closed" PROVE Down = Counted(0)
    <3>1. numConns = Counted(1) /\ 1 + -1 = 0 /\ numConns + CountMod - 1 = numConns + CountMod + -1
      BY <1>2, <2>4 DEF CounterOK
    <3> QED
      BY <1>5, <3>1 DEF Down
  <2> QED
    BY <1>1, <2>1, <2>2, <2>3, <2>4 DEF CounterOK
<1>7. CASE HttpdStores
  <2>1. /\ httpd = "store" /\ httpd' = "idle" /\ numConns' = loaded["httpd"]
        /\ UNCHANGED <<pc, uncounted, raced>>
    BY <1>7 DEF HttpdStores
  <2>2. Counted(0)' = Counted(0)
    BY <1>1, <2>1 DEF Counted
  <2> QED
    BY <1>1, <2>1, <2>2 DEF CounterOK
<1>8. CASE CountDown
  <2>1. /\ loaded' = [loaded EXCEPT !["otel"] = Down]
        /\ raced' = (raced \/ httpd = "store")
        /\ UNCHANGED <<numConns, httpd, uncounted>>
    BY <1>8 DEF CountDown
  <2>2. loaded'["otel"] = Down /\ loaded'["httpd"] = loaded["httpd"] /\ Down' = Down
    BY <2>1 DEF TypeOK, Down
  <2>3. Counted(0)' = Counted(0) /\ Counted(1)' = Counted(1) /\ Counted(-1)' = Counted(-1)
    BY <1>1, <2>1 DEF Counted
  <2> QED
    BY <1>1, <2>1, <2>2, <2>3 DEF CounterOK
<1>9. CASE CountStored
  <2>1. /\ pc = "store" /\ pc' = "connect" /\ numConns' = loaded["otel"]
        /\ uncounted' = (uncounted + 1) % CountMod
        /\ UNCHANGED <<httpd, raced>>
    BY <1>9 DEF CountStored, At
  <2>2. ASSUME NEW d \in Int PROVE Counted(d)' = Counted(d - 1)
    <3>1. CASE uncounted + 1 <= CountMod - 1
      <4>1. uncounted + 1 \in 0..(CountMod - 1) /\ uncounted + 1 = CountMod * 0 + (uncounted + 1)
        BY <1>2, <3>1
      <4>2. uncounted' = uncounted + 1
        BY <1>2, <2>1, <4>1, ModUnique
      <4>3. card + d + CountMod - uncounted' = card + (d - 1) + CountMod - uncounted
        BY <1>2, <4>2
      <4> QED
        BY <1>1, <4>3 DEF Counted, card
    <3>2. CASE uncounted + 1 = CountMod
      <4>1. 0 \in 0..(CountMod - 1) /\ uncounted + 1 = CountMod * 1 + 0
        BY <1>2, <3>2
      <4>2. uncounted' = 0
        BY <1>2, <2>1, <4>1, ModUnique
      <4>3. /\ card + d + CountMod - uncounted' = (card + (d - 1) + CountMod - uncounted) + CountMod
            /\ card + (d - 1) + CountMod - uncounted \in Int
        BY <1>2, <3>2, <4>2
      <4>4. (card + d + CountMod - uncounted') % CountMod = (card + (d - 1) + CountMod - uncounted) % CountMod
        BY <1>2, <4>3, ModWrap
      <4> QED
        BY <1>1, <4>4 DEF Counted, card
    <3> QED
      BY <1>2, <3>1, <3>2
  <2>3. ASSUME ~raced, NEW d \in Int, numConns = Counted(d) PROVE numConns' = Counted(d)'
    <3>1. numConns' = (Counted(d) + CountMod + -1) % CountMod
      BY <1>2, <2>1, <2>3 DEF CounterOK, Down
    <3>2. numConns' = Counted(d + -1) /\ d + -1 = d - 1
      BY <1>5, <3>1
    <3> QED
      BY <2>2, <3>2
  <2>4. ~raced => httpd # "store"
    BY <2>1 DEF CounterOK
  <2> QED
    BY <1>1, <2>1, <2>3, <2>4 DEF CounterOK
<1> QED
  BY <1>6, <1>7, <1>8, <1>9

\* httpd accepts or closes; the update of the counter follows.
LEMMA ServedCounter ==
    ASSUME TypeOK, CounterOK, NEW f \in Fd, HttpdAccepts(f) \/ HttpdCloses(f)
    PROVE  CounterOK'
<1>1. /\ httpd = "idle" /\ UNCHANGED <<pc, numConns, uncounted, raced, loaded>>
      /\ Cardinality(Served) \in Nat /\ uncounted \in Nat /\ CountMod \in Nat /\ IsFiniteSet(Served)
  BY CountedType DEF HttpdAccepts, HttpdCloses, CounterOK
<1>2. Down' = Down
  BY <1>1 DEF Down
<1>3. CASE HttpdAccepts(f)
  <2>1. f \notin Served /\ Served' = Served \cup {f} /\ httpd' = "opened"
    BY <1>3 DEF HttpdAccepts, Served, TypeOK
  <2>2. IsFiniteSet(Served') /\ Cardinality(Served') = Cardinality(Served) + 1
    BY <1>1, <2>1, FS_AddElement
  <2>3. Counted(-1)' = Counted(0)
    BY <1>1, <2>2 DEF Counted
  <2> QED
    BY <1>1, <1>2, <2>1, <2>2, <2>3 DEF CounterOK
<1>4. CASE HttpdCloses(f)
  <2>1. f \in Served /\ Served' = Served \ {f} /\ httpd' = "closed"
    BY <1>4 DEF HttpdCloses, Served, TypeOK
  <2>2. IsFiniteSet(Served') /\ Cardinality(Served') = Cardinality(Served) - 1
    BY <1>1, <2>1, FS_RemoveElement
  <2>3. Counted(1)' = Counted(0)
    BY <1>1, <2>2 DEF Counted
  <2> QED
    BY <1>1, <1>2, <2>1, <2>2, <2>3 DEF CounterOK
<1> QED
  BY <1>3, <1>4

LEMMA NextCounter == IInv /\ CounterOK /\ [Next]_vars => CounterOK'
<1> SUFFICES ASSUME IInv, CounterOK, [Next]_vars PROVE CounterOK'
  OBVIOUS
<1> USE DEF IInv
<1>1. CASE \/ CountDown \/ CountStored \/ HttpdLoads \/ HttpdStores
           \/ \E f \in Fd : HttpdAccepts(f) \/ HttpdCloses(f)
  BY <1>1, UpdateCounter, ServedCounter
<1>2. ASSUME Served' = Served, counter' = counter, pc' # "store", pc # "store" PROVE CounterOK'
  BY <1>2 DEF CounterOK, counter, Counted, Down
<1>3. ASSUME file' = file, counter' = counter, pc' = pc PROVE CounterOK'
  BY <1>3 DEF CounterOK, counter, Counted, Down, Served
<1>4. CASE Disconnect
  <2>1. fd # NULL => file[fd] = "otel"
    BY <1>4 DEF Disconnect, At, OneSocket
  <2>2. Served' = Served
    BY <1>4, <2>1 DEF Disconnect, Served, TypeOK
  <2> QED
    BY <1>2, <1>4, <2>2 DEF Disconnect, At
<1>5. CASE SocketFails \/ \E f \in Fd : NonblockFails(f) \/ ConnectFails(f) \/ Connects(f)
  <2>1. CASE SocketFails
    BY <1>2, <2>1 DEF SocketFails, Sleep, system, Served
  <2>2. ASSUME NEW f \in Fd, NEW s, NewSocket(f, s) PROVE CounterOK'
    <3>1. Served' = Served
      BY <2>2 DEF NewSocket, Served, TypeOK
    <3> QED
      BY <1>2, <2>2, <3>1 DEF NewSocket, Sleep
  <2> QED
    BY <1>5, <2>1, <2>2 DEF NonblockFails, ConnectFails, Connects
<1>6. CASE \/ Wake \/ TimedOut \/ InTime \/ NotDue \/ IsDue \/ EncodeFails
           \/ Encodes \/ Writes \/ WriteFails \/ PollQuiet \/ PollError \/ OnConnected
  <2>1. UNCHANGED <<file, counter>> /\ pc # "store" /\ pc' # "store"
    BY <1>6 DEF Wake, TimedOut, InTime, NotDue, IsDue, EncodeFails, Encodes, Writes, WriteFails,
                PollQuiet, PollError, OnConnected, system, Sleep, At
  <2> QED
    BY <1>2, <2>1 DEF Served
<1>7. CASE Tick \/ CollectorAccepts \/ CollectorRefuses \/ CollectorCloses \/ UNCHANGED vars
  BY <1>3, <1>7 DEF Tick, CollectorAccepts, CollectorRefuses, CollectorCloses, Becomes, vars, system
<1> QED
  BY <1>1, <1>4, <1>5, <1>6, <1>7 DEF Next, Task, Environment

\* For every number of descriptors and every modulus: until an update of one task
\* overlaps one of the other, __num_of_tcp_conns is httpd's sockets less the
\* closes by the exporter, whichever of the two updates it last.
THEOREM CounterDrift == Spec => []CountDrifts
<1>1. Init => IInv /\ CounterOK
  BY InitIInv, InitCounter
<1>2. IInv /\ CounterOK /\ [Next]_vars => IInv' /\ CounterOK'
  BY NextIInv, NextCounter
<1>3. IInv /\ CounterOK => CountDrifts
  <2> SUFFICES ASSUME IInv, CounterOK, httpd = "idle", ~raced
               PROVE  numConns = (Cardinality(Served) + CountMod - uncounted) % CountMod
    BY DEF CountDrifts, Served
  <2>1. Cardinality(Served) \in Nat
    BY FS_CardinalityType DEF CounterOK
  <2>2. Cardinality(Served) + 0 = Cardinality(Served)
    BY <2>1
  <2> QED
    BY <2>2 DEF CounterOK, Counted
<1> QED
  BY <1>1, <1>2, <1>3, PTL DEF Spec

-----------------------------------------------------------------------------
(* The metrics: what pb_encode writes while other tasks add to the lists.  *)

\* What follows the first metrics of a list: the list as it was when they were missing.
EndOf(s, t) == \E k \in 1..Len(t) + 1 : s = SubSeq(t, k, Len(t))

LEMMA WholeEnd ==
    ASSUME NEW S, NEW t \in Seq(S)
    PROVE  EndOf(t, t)
<1>1. t = SubSeq(t, 1, Len(t)) /\ 1 \in 1..Len(t) + 1
  OBVIOUS
<1> QED
  BY <1>1 DEF EndOf

\* A metric in front of a list changes nothing of its ends.
LEMMA LinkedEnd ==
    ASSUME NEW S, NEW t \in Seq(S), NEW m \in S, NEW s
    PROVE  /\ Linked(t, m) \in Seq(S) /\ Range(t) \subseteq Range(Linked(t, m))
           /\ EndOf(s, t) => EndOf(s, Linked(t, m))
<1> DEFINE u == Linked(t, m)
<1>1. u = <<m>> \o t /\ u \in Seq(S) /\ Len(u) = Len(t) + 1 /\ \A j \in 1..Len(t) : u[j + 1] = t[j]
  BY DEF Linked
<1> HIDE DEF u
<1>2. Range(t) \subseteq Range(u)
  <2>1. \A j \in DOMAIN t : j + 1 \in DOMAIN u /\ u[j + 1] = t[j]
    BY <1>1
  <2> QED
    BY <2>1 DEF Range
<1>3. ASSUME NEW k \in 1..Len(t) + 1
      PROVE  k + 1 \in 1..Len(u) + 1 /\ SubSeq(u, k + 1, Len(u)) = SubSeq(t, k, Len(t))
  <2> DEFINE a == SubSeq(u, k + 1, Len(u))
             b == SubSeq(t, k, Len(t))
  <2>1. a \in Seq(S) /\ b \in Seq(S) /\ Len(a) = Len(t) - k + 1 /\ Len(b) = Len(t) - k + 1
    BY <1>1
  <2>2. ASSUME NEW j \in 1..(Len(t) - k + 1) PROVE a[j] = b[j]
    BY <1>1
  <2> HIDE DEF a, b
  <2>3. a = b
    BY <2>1, <2>2
  <2> QED
    BY <1>1, <2>3 DEF a, b
<1>4. EndOf(s, t) => EndOf(s, u)
  BY <1>3 DEF EndOf
<1> QED
  BY <1>1, <1>2, <1>4 DEF u

\* Where pb_encode is with the two lists.
Encoding ==
    /\ counters \in Seq(Counter) /\ gauges \in Seq(Gauge)
    /\ walk \in Seq(Counter \cup Gauge) /\ sized \in Seq(Nat)
    /\ pc # "encode" => at = "counters"
    /\ pc = "encode" => begun \subseteq Range(counters) \cup Range(gauges)
    /\ pc = "encode" /\ at = "gauges" => EndOf(walk, counters) /\ begun \subseteq Range(walk) \cup Range(gauges)
    /\ pc = "write" => /\ begun \subseteq Range(walk)
                       /\ \E a, b : walk = a \o b /\ EndOf(a, counters) /\ EndOf(b, gauges)
                       /\ \A n \in DOMAIN sized : sized[n] = Size(walk)

\* What a walk over both lists has found.
LEMMA FoundWhole ==
    ASSUME Encoding, EndOfWalk
    PROVE  /\ Found \in Seq(Counter \cup Gauge) /\ Size(Found) \in Nat
           /\ begun \subseteq Range(Found)
           /\ \E a, b : Found = a \o b /\ EndOf(a, counters) /\ EndOf(b, gauges)
<1>1. /\ walk \in Seq(Counter \cup Gauge) /\ gauges \in Seq(Gauge) /\ EndOf(walk, counters)
      /\ begun \subseteq Range(walk) \cup Range(gauges)
  BY DEF Encoding, EndOfWalk
<1>2. gauges \in Seq(Counter \cup Gauge)
  BY <1>1
<1>3. /\ Found \in Seq(Counter \cup Gauge) /\ Len(Found) = Len(walk) + Len(gauges)
      /\ \A j \in 1..Len(walk) : Found[j] = walk[j]
      /\ \A j \in 1..Len(gauges) : Found[Len(walk) + j] = gauges[j]
  BY <1>1, <1>2 DEF Found
<1>4. Range(walk) \cup Range(gauges) \subseteq Range(Found)
  <2>1. /\ Len(walk) \in Nat /\ DOMAIN walk = 1..Len(walk)
        /\ Len(gauges) \in Nat /\ DOMAIN gauges = 1..Len(gauges)
        /\ DOMAIN Found = 1..Len(Found)
    BY <1>1, <1>3
  <2>2. \A j \in DOMAIN walk : j \in DOMAIN Found /\ Found[j] = walk[j]
    BY <1>3, <2>1
  <2>3. \A j \in DOMAIN gauges : Len(walk) + j \in DOMAIN Found /\ Found[Len(walk) + j] = gauges[j]
    BY <1>3, <2>1
  <2> QED
    BY <2>2, <2>3 DEF Range
<1>5. EndOf(gauges, gauges)
  BY <1>1, WholeEnd
<1> QED
  BY <1>1, <1>3, <1>4, <1>5 DEF Found, Size

\* A metric is put in front of a list.
LEMMA CreateEncoding ==
    ASSUME Encoding, \/ \E m \in Counter : CreateCounter(m)
                     \/ \E m \in Gauge : CreateGauge(m)
    PROVE  Encoding'
<1>1. /\ counters \in Seq(Counter) /\ gauges \in Seq(Gauge)
      /\ pc' = pc /\ UNCHANGED encoding
  BY DEF Encoding, CreateCounter, CreateGauge, vars
<1>2. /\ counters' \in Seq(Counter) /\ gauges' \in Seq(Gauge)
      /\ Range(counters) \subseteq Range(counters') /\ Range(gauges) \subseteq Range(gauges')
      /\ \A s : EndOf(s, counters) => EndOf(s, counters')
      /\ \A s : EndOf(s, gauges) => EndOf(s, gauges')
  <2>1. ASSUME NEW m \in Counter, CreateCounter(m)
        PROVE  counters' = Linked(counters, m) /\ gauges' = gauges
    BY <2>1 DEF CreateCounter
  <2>2. ASSUME NEW m \in Gauge, CreateGauge(m)
        PROVE  gauges' = Linked(gauges, m) /\ counters' = counters
    BY <2>2 DEF CreateGauge
  <2>3. CASE \E m \in Counter : CreateCounter(m)
    BY <1>1, <2>1, <2>3, LinkedEnd
  <2>4. CASE \E m \in Gauge : CreateGauge(m)
    BY <1>1, <2>2, <2>4, LinkedEnd
  <2> QED
    BY <2>3, <2>4
<1>3. UNCHANGED <<sized, walk, at, begun>>
  BY <1>1 DEF encoding
<1>4. pc' = "write" => \E a, b : walk' = a \o b /\ EndOf(a, counters') /\ EndOf(b, gauges')
  BY <1>1, <1>2, <1>3 DEF Encoding
<1>5. /\ walk' \in Seq(Counter \cup Gauge) /\ sized' \in Seq(Nat)
      /\ pc' # "encode" => at' = "counters"
      /\ pc' = "encode" => begun' \subseteq Range(counters') \cup Range(gauges')
      /\ pc' = "encode" /\ at' = "gauges"
             => EndOf(walk', counters') /\ begun' \subseteq Range(walk') \cup Range(gauges')
      /\ pc' = "write" => begun' \subseteq Range(walk') /\ \A n \in DOMAIN sized' : sized'[n] = Size(walk')
  BY <1>1, <1>2, <1>3 DEF Encoding, Size
<1> QED
  BY <1>2, <1>4, <1>5 DEF Encoding

LEMMA NextEncoding ==
    ASSUME Encoding, [MetricsNext]_allVars
    PROVE  Encoding'
<1>1. CASE UNCHANGED <<lists, encoding>> /\ pc # "encode" /\ pc' # "encode" /\ (pc' = "write" => pc = "write")
  <2>1. UNCHANGED <<counters, gauges, sized, walk, at, begun>>
    BY <1>1 DEF lists, encoding
  <2> QED
    BY <1>1, <2>1 DEF Encoding, EndOf, Size
<1>2. CASE UNCHANGED <<lists, encoding, pc>>
  <2>1. UNCHANGED <<counters, gauges, sized, walk, at, begun, pc>>
    BY <1>2 DEF lists, encoding
  <2> QED
    BY <2>1 DEF Encoding, EndOf, Size
<1>3. CASE UNCHANGED lists /\ StreamEnds /\ pc' # "encode" /\ pc' # "write"
  <2>1. /\ UNCHANGED <<counters, gauges>> /\ at' = "counters"
        /\ walk' \in Seq(Counter \cup Gauge) /\ sized' \in Seq(Nat)
    BY <1>3 DEF lists, StreamEnds
  <2> QED
    BY <1>3, <2>1 DEF Encoding
<1>4. CASE \/ \E m \in Counter : CreateCounter(m)
           \/ \E m \in Gauge : CreateGauge(m)
  BY <1>4, CreateEncoding
<1>5. CASE Elsewhere
  <2>1. pc # "encode" /\ pc' # "encode" /\ Task /\ UNCHANGED lists
    BY <1>5 DEF Elsewhere
  <2>2. pc' = "write" => pc = "write"
    BY <2>1 DEF Task, SocketFails, NonblockFails, ConnectFails, Connects, NewSocket, Sleep, Wake, PollQuiet,
                PollError, OnConnected, TimedOut, InTime, NotDue, IsDue, EncodeFails, Encodes, Writes,
                WriteFails, Disconnect, CountDown, CountStored, At
  <2>3. CASE pc = "write" /\ pc' # "write"
    BY <1>3, <1>5, <2>1, <2>3 DEF Elsewhere
  <2>4. CASE ~(pc = "write" /\ pc' # "write")
    BY <1>1, <1>5, <2>1, <2>2, <2>4 DEF Elsewhere
  <2> QED
    BY <2>3, <2>4
<1>6. CASE EncodeBegins
  <2>1. /\ pc = "due" /\ pc' = "encode" /\ begun' = Range(counters) \cup Range(gauges)
        /\ UNCHANGED <<counters, gauges, sized, walk, at>>
    BY <1>6 DEF EncodeBegins, IsDue, At, lists
  <2> QED
    BY <2>1 DEF Encoding
<1>7. CASE WalkCounters
  <2>1. /\ pc = "encode" /\ pc' = "encode" /\ walk' = counters /\ at' = "gauges"
        /\ UNCHANGED <<counters, gauges, sized, begun>>
    BY <1>7 DEF WalkCounters, vars, lists
  <2>2. EndOf(counters, counters) /\ counters \in Seq(Counter)
    BY WholeEnd DEF Encoding
  <2>3. walk' \in Seq(Counter \cup Gauge)
    BY <2>1, <2>2
  <2> QED
    BY <2>1, <2>2, <2>3 DEF Encoding
<1>8. CASE WalkAgain
  <2>1. /\ EndOfWalk /\ pc = "encode" /\ pc' = "encode" /\ walk' = Found /\ at' = "counters"
        /\ sized' = Append(sized, Size(Found)) /\ UNCHANGED <<counters, gauges, begun>>
    BY <1>8 DEF WalkAgain, EndOfWalk, Keeps, vars, lists
  <2>2. Found \in Seq(Counter \cup Gauge) /\ Size(Found) \in Nat
    BY <2>1, FoundWhole
  <2>3. sized' \in Seq(Nat)
    BY <2>1, <2>2 DEF Encoding
  <2> QED
    BY <2>1, <2>2, <2>3 DEF Encoding
<1>9. CASE PbEncodeEnds
  <2>1. /\ EndOfWalk /\ Fits /\ pc' = "write" /\ walk' = Found /\ at' = "counters"
        /\ sized' = Append(sized, Size(Found)) /\ UNCHANGED <<counters, gauges, begun>>
    BY <1>9 DEF PbEncodeEnds, EndOfWalk, Keeps, Encodes, At, lists
  <2>2. /\ Found \in Seq(Counter \cup Gauge) /\ Size(Found) \in Nat
        /\ begun \subseteq Range(Found)
        /\ \E a, b : Found = a \o b /\ EndOf(a, counters) /\ EndOf(b, gauges)
    BY <2>1, FoundWhole
  <2>3. /\ sized' \in Seq(Nat)
        /\ \A n \in DOMAIN sized' : sized'[n] = Size(Found)
    <3>1. PICK z \in Nat : z = Size(Found)
      BY <2>2
    <3>2. sized \in Seq(Nat)
      BY DEF Encoding
    <3>3. \A n \in DOMAIN sized : sized[n] = z
      BY <2>1, <3>1 DEF Fits
    <3>4. sized' = Append(sized, z)
      BY <2>1, <3>1
    <3>5. /\ sized' \in Seq(Nat)
          /\ \A n \in DOMAIN sized' : sized'[n] = z
      BY <3>2, <3>3, <3>4
    <3> QED
      BY <3>1, <3>5
  <2>4. \A n \in DOMAIN sized' : sized'[n] = Size(walk')
    BY <2>1, <2>3
  <2>5. \E a, b : walk' = a \o b /\ EndOf(a, counters') /\ EndOf(b, gauges')
    BY <2>1, <2>2
  <2> QED
    BY <2>1, <2>2, <2>3, <2>4, <2>5 DEF Encoding
<1>10. CASE PbEncodeFails
  <2>1. pc' = "sleep" /\ StreamEnds /\ UNCHANGED lists
    BY <1>10 DEF PbEncodeFails, EndOfWalk, EncodeFails, Sleep
  <2> QED
    BY <1>3, <2>1
<1>11. CASE Environment /\ UNCHANGED <<lists, encoding>>
  <2>1. UNCHANGED pc
    BY <1>11 DEF Environment, Tick, CollectorAccepts, CollectorRefuses, CollectorCloses, Becomes,
                 HttpdLoads, HttpdStores, HttpdAccepts, HttpdCloses
  <2> QED
    BY <1>2, <1>11, <2>1
<1>12. CASE UNCHANGED allVars
  BY <1>2, <1>12 DEF allVars, vars
<1> QED
  BY <1>4, <1>5, <1>6, <1>7, <1>8, <1>9, <1>10, <1>11, <1>12 DEF MetricsNext, Exports

\* For any metrics, created at any time by other tasks, between any two steps of the
\* three walks of pb_encode: what is written is whole, and its lengths are right.
THEOREM MetricsAreWhole == MetricsSpec => []ReportsWhole
<1>1. MetricsInit => Encoding
  <2> SUFFICES ASSUME MetricsInit PROVE Encoding
    OBVIOUS
  <2>1. /\ counters = <<>> /\ gauges = <<>> /\ sized = <<>> /\ walk = <<>> /\ at = "counters"
        /\ pc = "connect"
    BY DEF MetricsInit, Init
  <2> QED
    BY <2>1 DEF Encoding
<1>2. Encoding /\ [MetricsNext]_allVars => Encoding'
  BY NextEncoding
<1>3. Encoding => ReportsWhole
  <2> SUFFICES ASSUME Encoding, pc = "write" PROVE ReportsWhole
    BY DEF ReportsWhole
  <2>1. PICK a, b : walk = a \o b /\ EndOf(a, counters) /\ EndOf(b, gauges)
    BY DEF Encoding
  <2>2. PICK k \in 1..Len(counters) + 1 : a = SubSeq(counters, k, Len(counters))
    BY <2>1 DEF EndOf
  <2>3. PICK n \in 1..Len(gauges) + 1 : b = SubSeq(gauges, n, Len(gauges))
    BY <2>1 DEF EndOf
  <2>4. walk = SubSeq(counters, k, Len(counters)) \o SubSeq(gauges, n, Len(gauges))
    BY <2>1, <2>2, <2>3
  <2> QED
    BY <2>4 DEF Encoding, ReportsWhole
<1> QED
  BY <1>1, <1>2, <1>3, PTL DEF MetricsSpec

\* The exporter with its encoding in steps takes no step that Otel does not allow:
\* what is proved of Otel holds for it. (That it is as fair is left to TLC.)
THEOREM MetricsStepsAreOtels == MetricsSpec => Spec
<1>1. MetricsInit => Init
  BY DEF MetricsInit
<1>2. [MetricsNext]_allVars => [Next]_vars
  BY DEF MetricsNext, Exports, Elsewhere, EncodeBegins, WalkCounters, WalkAgain, PbEncodeEnds, PbEncodeFails,
         CreateCounter, CreateGauge, Next, Task, allVars
<1> QED
  BY <1>1, <1>2, PTL DEF MetricsSpec, Spec
=============================================================================
