------------------------------- MODULE UvLoop --------------------------------
(***************************************************************************)
(* uv__io_poll of src/internals/uv_poll.c and the calls its callbacks and  *)
(* its caller make: any client that keeps a descriptor to one watcher at   *)
(* a time may open, start and stop watchers between two polls and inside   *)
(* every callback.                                                         *)
(***************************************************************************)
EXTENDS UvIo
CONSTANT MaxPollFds    \* bound: clients open no watcher that could make poll_fds longer

VARIABLES loop,
          pc,          \* where uv__io_poll is; "idle" between two calls
          i,           \* its index into poll_fds
          running      \* the watcher whose callback runs
vars == <<loop, pc, i, running>>

TypeOK == /\ loop \in LoopType
          /\ pc \in {"idle", "drain", "iter", "cb"}
          /\ i \in Nat \ {0}
          /\ running \in Watcher \cup {NULL}

Init == loop = LoopInit /\ pc = "idle" /\ i = 1 /\ running = NULL

-----------------------------------------------------------------------------
Active(w) == ActiveIn(loop, w)
Client == pc \in {"idle", "cb"}    \* client code runs

\* An idle watcher gets a descriptor no active watcher holds, and is started.
Open(w, f, events) ==
    /\ Client /\ ~Active(w)
    /\ \A v \in Watcher : Active(v) => loop.fd[v] # f
    /\ Len(loop.poll_fds) + Cardinality({v \in Watcher : Active(v)}) < MaxPollFds
    /\ loop' = IoStart(IoOpen(loop, w, f), w, events)
    /\ UNCHANGED <<pc, i, running>>

\* An active watcher asks for more events.
Start(w, events) ==
    /\ Client /\ Active(w)
    /\ Len(loop.poll_fds) + Cardinality({v \in Watcher : Active(v)}) < MaxPollFds
    /\ loop' = IoStart(loop, w, events)
    /\ UNCHANGED <<pc, i, running>>

\* A watcher, active or not, asks for fewer.
Stop(w, events) ==
    /\ Client
    /\ loop' = IoStop(loop, w, events)
    /\ UNCHANGED <<pc, i, running>>

\* uv__io_poll is called; with nothing to watch it returns at once.
PollBegin == /\ pc = "idle" /\ loop.nfds # 0
             /\ pc' = "drain"
             /\ UNCHANGED <<loop, i, running>>

Drain == /\ pc = "drain" /\ ~QueueEmpty(loop.queue, Loop)
         /\ loop' = TakeQueued(loop)
         /\ UNCHANGED <<pc, i, running>>

\* poll() returns, also when a signal interrupted it and nothing is ready.
Ready(re) == /\ pc = "drain" /\ QueueEmpty(loop.queue, Loop)
             /\ loop' = Polled(loop, re)
             /\ pc' = "iter" /\ i' = 1
             /\ UNCHANGED running

PollError == /\ pc = "drain" /\ QueueEmpty(loop.queue, Loop)
             /\ pc' = "idle"
             /\ UNCHANGED <<loop, i, running>>

InRange == pc = "iter" /\ i \in DOMAIN loop.poll_fds

\* An entry that is invalidated, or whose watcher was stopped.
Skip == /\ InRange
        /\ \/ loop.poll_fds[i].fd = NULL /\ UNCHANGED loop
           \/ /\ loop.poll_fds[i].fd # NULL /\ WatcherAt(loop, i) = NULL
              /\ loop' = InvalidateFd(loop, loop.poll_fds[i].fd)
        /\ i' = i + 1
        /\ UNCHANGED <<pc, running>>

Watch == InRange /\ loop.poll_fds[i].fd # NULL /\ WatcherAt(loop, i) # NULL

Quiet == /\ Watch /\ EventsAt(loop, i) = {}
         /\ i' = i + 1
         /\ UNCHANGED <<loop, pc, running>>

Call == /\ Watch /\ EventsAt(loop, i) # {}
        /\ pc' = "cb" /\ running' = WatcherAt(loop, i)
        /\ UNCHANGED <<loop, i>>

Return == /\ pc = "cb"
          /\ pc' = "iter" /\ i' = i + 1 /\ running' = NULL
          /\ UNCHANGED loop

PollEnd == /\ pc = "iter" /\ i \notin DOMAIN loop.poll_fds
           /\ loop' = [loop EXCEPT !.iterating = FALSE]
           /\ pc' = "idle" /\ i' = 1
           /\ UNCHANGED running

Revents == {{}, {"IN"}, {"IN", "OUT"}, {"ERR"}, {"NVAL"}}

Next == \/ \E w \in Watcher, f \in Fd, e \in Events : Open(w, f, {e})
        \/ \E w \in Watcher, e \in Events : Start(w, {e})
        \/ \E w \in Watcher, e \in Events : Stop(w, {e})
        \/ PollBegin \/ Drain \/ PollError \/ Skip \/ Quiet \/ Call \/ Return \/ PollEnd
        \/ \E re \in [Fd -> Revents] : Ready(re)

Spec == Init /\ [][Next]_vars

-----------------------------------------------------------------------------
\* loop->nfds, the only reason uv__io_poll has to return early, is the number
\* of registered descriptors; the watcher registered for one is the active
\* watcher that holds it, and every active watcher is registered.
Registered == RegisteredIn(loop)

\* The assertions of uv__io_poll: with no descriptor to watch the queue is
\* empty (line 225), and a queued watcher is active and holds a descriptor
\* (lines 236-238).
QueueAsserts == /\ loop.nfds = 0 => QueueEmpty(loop.queue, Loop)
                /\ QueuedActive(loop)

\* poll_fds never holds a descriptor twice: one event is dispatched once.
NoDuplicateFd == NoDuplicateIn(loop)

\* When poll() is called it is asked for exactly the events every active
\* watcher wants, also after its descriptor was closed, invalidated and reused
\* inside a callback, where uv__pollfds_add does nothing.
Armed == pc = "drain" /\ QueueEmpty(loop.queue, Loop) => ArmedIn(loop, Watcher)

\* The comment at uv_poll.c:109 says uv__pollfds_del "is called with an fd of
\* -1 to purge the invalidated fds": none would be left when uv__io_poll returns.
Purged == pc = "idle" => \A j \in DOMAIN loop.poll_fds : loop.poll_fds[j].fd # NULL
=============================================================================
