-------------------------------- MODULE Otel ---------------------------------
(***************************************************************************)
(* The exporter task of src/otel.c: it connects to the collector without   *)
(* blocking, sends the metrics on an interval, and drops the connection    *)
(* and connects again when connecting takes too long or a write fails. It  *)
(* owns a loop (UvIo) with one watcher, and shares the system's            *)
(* descriptors and the counter of portable/linux/src/tcp.c with httpd,     *)
(* which accepts and closes connections of its own at any time.            *)
(*                                                                         *)
(* Time is counted in delays of the task (otel.c:340). Ticks count modulo  *)
(* TickMod, as TickType_t does; the fields of isere_otel_t and what is     *)
(* computed with them modulo FieldMod, as uint64_t does.                   *)
(*                                                                         *)
(* The two tasks have one priority and no lock, and "x++" is compiled to a *)
(* load, an addition and a store: either task can be preempted in between. *)
(***************************************************************************)
EXTENDS UvIo, Integers
CONSTANTS Exporter,   \* otel->w
          TickMod,    \* 2^32 in the code
          FieldMod,   \* 2^64 in the code
          Timeout,    \* ISERE_OTEL_CONNECT_TIMEOUT_MS, in delays
          Interval,   \* ISERE_OTEL_SEND_INTERVAL_MS, in delays
          MaxConns,   \* ISERE_TCP_MAX_CONNECTIONS
          CountMod,   \* __num_of_tcp_conns counts modulo this; 2^32 in the code
          MaxLag,     \* bound: the task is run again at most so many delays later
          MaxPollFds  \* bound: the exporter makes no socket that needs more entries

ASSUME OneWatcher == Watcher = {Exporter}
ASSUME OtelNumbers ==
    /\ TickMod \in Nat /\ FieldMod \in Nat /\ TickMod <= FieldMod
    /\ Timeout \in Nat \ {0} /\ Interval \in Nat \ {0}
    /\ Timeout < TickMod /\ Interval < TickMod
    /\ CountMod \in Nat /\ MaxConns \in Nat /\ MaxConns < CountMod
    /\ MaxLag \in Nat \ {0} /\ MaxPollFds \in Nat

Parts == 5            \* the writes that make up one request

VARIABLES
    pc,           \* where the task is
    loop,         \* otel->loop and otel->w
    fd,           \* otel->fd, NULL for -1
    attempt,      \* otel->last_connect_attempt
    last_sent,    \* otel->last_sent
    part,         \* the write the task has reached in the request
    now,          \* xTaskGetTickCount()
    lag,          \* delays since the task went to sleep
    sock,         \* the exporter's socket, as the system sees it
    stream,       \* the parts of the last request that were written to the socket,
                  \* NULL once a write on this connection took less than it was given
    file,         \* the system's descriptors: whose socket each one is
    numConns,     \* __num_of_tcp_conns
    httpd,        \* what httpd is doing to the counter
    loaded,       \* the value each task has read and changed, but not stored
    uncounted,    \* the updates of the counter by the exporter, modulo CountMod
    raced         \* an update began while the other task was in one
fields == <<loop, fd, attempt, last_sent>>
clock == <<now, lag>>
counter == <<numConns, httpd, loaded, uncounted, raced>>
system == <<sock, stream, file, counter>>
vars == <<pc, part, fields, clock, system>>

TypeOK ==
    /\ pc \in {"connect", "sleep", "poll", "late", "due", "encode", "write",
              "drop", "count", "store"}
    /\ loop \in LoopType
    /\ fd \in Fd \cup {NULL}
    /\ attempt \in 0..(TickMod - 1) /\ last_sent \in 0..(TickMod - 1)
    /\ part \in 0..(Parts - 1) /\ stream \in 0..(Parts - 1) \cup {NULL}
    /\ now \in 0..(TickMod - 1) /\ lag \in 0..MaxLag
    /\ sock \in {"none", "idle", "pending", "up", "down"}
    /\ file \in [Fd -> {"free", "otel", "httpd"}]
    /\ numConns \in 0..(CountMod - 1) /\ uncounted \in 0..(CountMod - 1)
    /\ httpd \in {"idle", "opened", "closed", "store"} /\ raced \in BOOLEAN
    /\ loaded \in [{"otel", "httpd"} -> 0..(CountMod - 1)]

\* The first step is __connect_to_otel, when the scheduler starts or later.
Init ==
    /\ pc = "connect" /\ part = 0
    /\ loop = LoopInit /\ fd = NULL /\ attempt = 0 /\ last_sent = 0
    /\ now = 0 /\ lag = 0
    /\ sock = "none" /\ stream = 0
    /\ file = [f \in Fd |-> "free"]
    /\ numConns = 0 /\ uncounted = 0 /\ httpd = "idle" /\ raced = FALSE
    /\ loaded = [task \in {"otel", "httpd"} |-> 0]

-----------------------------------------------------------------------------
(* The clock, the collector and httpd.                                     *)

Tick == /\ lag < MaxLag
        /\ now' = (now + 1) % TickMod /\ lag' = lag + 1
        /\ UNCHANGED <<pc, part, fields, system>>

Becomes(from, to) == /\ sock = from /\ sock' = to
                     /\ UNCHANGED <<pc, part, fields, clock, stream, file, counter>>

CollectorAccepts == Becomes("pending", "up")
CollectorRefuses == Becomes("pending", "down")
CollectorCloses  == Becomes("up", "down")

HttpdAccepts(f) == /\ httpd = "idle" /\ file[f] = "free" /\ numConns < MaxConns
                   /\ file' = [file EXCEPT ![f] = "httpd"]
                   /\ httpd' = "opened"
                   /\ UNCHANGED <<pc, part, fields, clock, sock, stream,
                                  numConns, loaded, uncounted, raced>>

HttpdCloses(f) == /\ httpd = "idle" /\ file[f] = "httpd"
                  /\ file' = [file EXCEPT ![f] = "free"]
                  /\ httpd' = "closed"
                  /\ UNCHANGED <<pc, part, fields, clock, sock, stream,
                                 numConns, loaded, uncounted, raced>>

Up == (numConns + 1) % CountMod
Down == (numConns + CountMod - 1) % CountMod

HttpdLoads == /\ httpd \in {"opened", "closed"} /\ httpd' = "store"
              /\ loaded' = [loaded EXCEPT !["httpd"] = IF httpd = "opened" THEN Up ELSE Down]
              /\ raced' = (raced \/ pc = "store")
              /\ UNCHANGED <<pc, part, fields, clock, sock, stream, file, numConns, uncounted>>

HttpdStores == /\ httpd = "store" /\ httpd' = "idle"
               /\ numConns' = loaded["httpd"]
               /\ loaded' = [loaded EXCEPT !["httpd"] = 0]
               /\ UNCHANGED <<pc, part, fields, clock, sock, stream, file, uncounted, raced>>

-----------------------------------------------------------------------------
(* __connect_to_otel, from the start of the task, a timeout or a failure.  *)

\* The task is back at the top of its loop.
Sleep == pc' = "sleep" /\ part' = 0 /\ lag' = 0

\* Mutant of SocketFails: fd keeps the descriptor that was closed.
SocketFails_KeepsFd ==
    /\ pc = "connect"
    /\ Sleep
    /\ UNCHANGED <<loop, fd, attempt, last_sent, now, system>>

\* isere_tcp_socket_new fails.
SocketFails ==
    /\ pc = "connect"
    /\ fd' = NULL
    /\ Sleep
    /\ UNCHANGED <<loop, attempt, last_sent, now, system>>

NewSocket(f, state) ==
    /\ pc = "connect" /\ file[f] = "free"
    /\ fd' = f
    /\ file' = [file EXCEPT ![f] = "otel"]
    /\ sock' = state /\ stream' = 0
    /\ Sleep
    /\ UNCHANGED <<last_sent, now, counter>>

NonblockFails(f) == NewSocket(f, "idle") /\ UNCHANGED <<loop, attempt>>

\* connect() fails at once: the socket is kept until the attempt has timed out.
ConnectFails(f) == NewSocket(f, "idle") /\ attempt' = now /\ UNCHANGED loop

\* connect() succeeded or is in progress; either way the watcher tells.
Connects(f) ==
    /\ \/ Len(loop.poll_fds) < MaxPollFds
       \/ \E j \in DOMAIN loop.poll_fds : loop.poll_fds[j].fd = f
    /\ \E state \in {"pending", "up"} : NewSocket(f, state)
    /\ attempt' = now
    /\ loop' = IoStart(IoOpen(loop, Exporter, f), Exporter, {"OUT"})

-----------------------------------------------------------------------------
(* One turn of the task.                                                   *)

At(here, there) == pc = here /\ pc' = there

Wake == /\ lag > 0
        /\ At("sleep", IF attempt # 0 THEN "poll" ELSE "due")
        /\ UNCHANGED <<part, fields, clock, system>>

Drained(l) == IF QueueEmpty(l.queue, Loop) THEN l ELSE TakeQueued(l)

\* uv__io_poll walked its entries: those of a stopped watcher are invalidated.
Walked(l) ==
    LET stopped(e) == e.fd # NULL /\ l.watchers[e.fd] = NULL
    IN  [l EXCEPT !.poll_fds = [j \in DOMAIN @ |-> IF stopped(@[j]) THEN Invalid ELSE @[j]],
                  !.iterating = FALSE]

\* What poll() sees; a socket of httpd may be ready for anything.
Seen == [f \in Fd |-> CASE file[f] = "free"  -> {"NVAL"}
                        [] file[f] = "httpd" -> {"IN", "OUT"}
                        [] file[f] = "otel"  -> CASE sock = "pending" -> {}
                                                  [] sock = "up"      -> {"OUT"}
                                                  [] OTHER            -> {"OUT", "ERR"}]

Called(l) == \E j \in DOMAIN l.poll_fds :
                l.poll_fds[j].fd # NULL /\ WatcherAt(l, j) = Exporter /\ EventsAt(l, j) # {}

\* uv__io_poll, while nothing happens on the socket; re is empty after EINTR.
PollQuiet ==
    /\ At("poll", "late")
    /\ \E re \in {Seen, [f \in Fd |-> {}]} :
          LET polled == Polled(Drained(loop), re)
          IN  ~Called(polled) /\ loop' = IF loop.nfds = 0 THEN loop ELSE Walked(polled)
    /\ UNCHANGED <<part, fd, attempt, last_sent, clock, system>>

PollError ==
    /\ At("poll", "late") /\ loop.nfds # 0
    /\ loop' = Drained(loop)
    /\ UNCHANGED <<part, fd, attempt, last_sent, clock, system>>

\* uv__io_poll calls __on_connected, for a connection or for its failure.
OnConnected ==
    /\ At("poll", "late")
    /\ LET polled == Polled(Drained(loop), Seen)
       IN  /\ loop.nfds # 0 /\ Called(polled)
           /\ loop' = IoStop(Walked(polled), Exporter, {"OUT"})
    /\ attempt' = 0
    /\ last_sent' = (now + TickMod - Interval) % TickMod
    /\ UNCHANGED <<part, fd, clock, system>>

\* From tick t to tick u, as the unsigned difference of two fields.
Elapsed(t, u) == (u + FieldMod - t) % FieldMod

Since(t) == Elapsed(t, now)

\* Mutant of Late: only a watched socket is given up.
Late_OnlyWatched == Since(attempt) > Timeout /\ loop.nfds > 0

Late == Since(attempt) > Timeout

TimedOut == /\ At("late", "drop") /\ Late
            /\ UNCHANGED <<part, fields, clock, system>>

InTime == /\ pc = "late" /\ ~Late
          /\ Sleep
          /\ UNCHANGED <<fields, now, system>>

\* Mutant of Due: the deadline does not wrap as the ticks do.
Due_NoWrap == now > last_sent + Interval

Due == Since(last_sent) > Interval

NotDue == /\ pc = "due" /\ ~Due
          /\ Sleep
          /\ UNCHANGED <<fields, now, system>>

IsDue == /\ At("due", "encode") /\ Due
         /\ UNCHANGED <<part, fields, clock, system>>

\* pb_encode; how it comes to fail is in Metrics.
EncodeFails == /\ pc = "encode"
               /\ Sleep
               /\ UNCHANGED <<fields, now, system>>

Encodes == /\ At("encode", "write")
           /\ UNCHANGED <<part, fields, clock, system>>

\* isere_tcp_write takes the next part or, as the socket does not block, a piece
\* of it: only a negative result is looked at, so the request goes on behind it.
Writes ==
    /\ pc = "write" /\ sock = "up"
    /\ \/ stream # NULL /\ stream' = (stream + 1) % Parts
       \/ stream' = NULL
    /\ IF part + 1 < Parts
       THEN part' = part + 1 /\ UNCHANGED <<pc, last_sent, lag>>
       ELSE last_sent' = now /\ Sleep
    /\ UNCHANGED <<loop, fd, attempt, now, sock, file, counter>>

\* Mutant of WriteFails: the connection is kept.
WriteFails_Kept == /\ pc = "write"
                   /\ Sleep
                   /\ UNCHANGED <<fields, now, system>>

\* It fails: the socket is not connected, or its buffer is full.
WriteFails == /\ At("write", "drop")
              /\ UNCHANGED <<part, fields, clock, system>>

\* Mutant of Disconnect: the watcher is not stopped.
Disconnect_StaysWatched ==
    /\ At("drop", "count")
    /\ attempt' = 0 /\ sock' = "none" /\ stream' = 0
    /\ file' = IF fd = NULL THEN file ELSE [file EXCEPT ![fd] = "free"]
    /\ UNCHANGED <<loop, part, fd, last_sent, clock, counter>>

\* __disconnect_from_otel, before __connect_to_otel.
Disconnect ==
    /\ At("drop", "count")
    /\ attempt' = 0
    /\ loop' = IoStop(loop, Exporter, {"OUT"})
    /\ file' = IF fd = NULL THEN file ELSE [file EXCEPT ![fd] = "free"]
    /\ sock' = "none" /\ stream' = 0
    /\ UNCHANGED <<part, fd, last_sent, clock, counter>>

\* Mutant of CountDown: the counter goes down for an open socket only.
CountDown_OpenOnly ==
    /\ At("count", "store")
    /\ loaded' = [loaded EXCEPT !["otel"] = IF fd = NULL THEN numConns ELSE Down]
    /\ raced' = (raced \/ httpd = "store")
    /\ UNCHANGED <<part, fields, clock, sock, stream, file, numConns, httpd, uncounted>>

\* The rest of isere_tcp_close: the counter goes down, also for fd -1.
CountDown ==
    /\ At("count", "store")
    /\ loaded' = [loaded EXCEPT !["otel"] = Down]
    /\ raced' = (raced \/ httpd = "store")
    /\ UNCHANGED <<part, fields, clock, sock, stream, file, numConns, httpd, uncounted>>

CountStored ==
    /\ At("store", "connect")
    /\ numConns' = loaded["otel"]
    /\ loaded' = [loaded EXCEPT !["otel"] = 0]
    /\ uncounted' = (uncounted + 1) % CountMod
    /\ UNCHANGED <<part, fields, clock, sock, stream, file, httpd, raced>>

Task == \/ SocketFails \/ \E f \in Fd : NonblockFails(f) \/ ConnectFails(f) \/ Connects(f)
        \/ Wake \/ PollQuiet \/ PollError \/ OnConnected \/ TimedOut \/ InTime
        \/ NotDue \/ IsDue \/ EncodeFails \/ Encodes \/ Writes \/ WriteFails
        \/ Disconnect \/ CountDown \/ CountStored

Environment == \/ Tick \/ CollectorAccepts \/ CollectorRefuses \/ CollectorCloses
               \/ HttpdLoads \/ HttpdStores
               \/ \E f \in Fd : HttpdAccepts(f) \/ HttpdCloses(f)

Next == Task \/ Environment

Spec == Init /\ [][Next]_vars

\* The task is scheduled and time passes; encoding does not fail for ever, which
\* Metrics shows. Nothing is assumed of the collector.
Fairness == WF_vars(Task) /\ WF_vars(Tick) /\ SF_vars(Encodes)

FairSpec == Spec /\ Fairness

-----------------------------------------------------------------------------
\* The exporter has one socket at most, the one behind fd, also after
\* socket() or connect() failed between a close and the next attempt: none is
\* leaked, and __disconnect_from_otel never closes a descriptor that the
\* system has given to httpd meanwhile.
OneSocket ==
    LET mine == {f \in Fd : file[f] = "otel"}
    IN  IF pc \in {"count", "store", "connect"} THEN mine = {} ELSE mine = {fd} \ {NULL}

\* The watcher stands for the socket the exporter has now, never for one it
\* closed, and uv_poll.c's own invariants hold for the exporter's loop.
WatchesOwn ==
    /\ ActiveIn(loop, Exporter) => loop.fd[Exporter] = fd /\ file[fd] = "otel"
    /\ RegisteredIn(loop) /\ QueuedActive(loop) /\ NoDuplicateIn(loop)

\* On a connection whose writes each took all they were given, a request
\* starts only where the one before is complete: none follows a part that
\* failed, whichever it was and on whichever connection (otel.c:400-444). After
\* a short write, which the code does not notice, nothing is promised.
WholeRequests == pc = "write" => stream \in {part, NULL}

\* What closes of uncounted sockets do to __num_of_tcp_conns: every call of
\* isere_tcp_close by the exporter, one on no socket at all (fd -1) included,
\* takes away a connection httpd accepted and may still have open. That is all
\* that goes wrong until an update of one task overlaps one of the other.
CountDrifts ==
    httpd = "idle" /\ ~raced
        => numConns = (Cardinality({f \in Fd : file[f] = "httpd"})
                        + CountMod - uncounted) % CountMod

\* The exporter never gives up: without a socket, or with one that failed,
\* it comes to connect again, whichever call failed and whether the failure
\* was seen by connect(), by poll() or by write().
KeepsTrying == sock \in {"none", "idle", "down"} ~> pc = "connect"

\* Metrics are sent again and again for as long as a connection stands, also
\* when the ticks have wrapped.
KeepsReporting == []<>(pc = "write" \/ sock # "up")

\* otel.c:348 says "retry when connecting takes too long": what is dropped in
\* a turn that polled is an attempt that is still under way.
RetriesOnlyAttempts == [][TimedOut => attempt # 0]_vars
=============================================================================
