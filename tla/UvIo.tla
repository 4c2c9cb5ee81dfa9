-------------------------------- MODULE UvIo ---------------------------------
(***************************************************************************)
(* The I/O watchers of src/internals/uv_poll.c as operators on a loop      *)
(* record l, for the modules whose task owns a loop.                       *)
(*                                                                         *)
(* l holds the uv_loop_t and, indexed by watcher, the fields of uv__io_t   *)
(* that uv_poll.c reads:                                                   *)
(*   watchers   the watcher registered for each descriptor (NULL if none); *)
(*              the array's growth (maybe_resize) is not represented       *)
(*   nfds       loop->nfds                                                 *)
(*   poll_fds   the used part of loop->poll_fds: [fd, events, revents],    *)
(*              with fd = NULL for the -1 of an invalidated entry          *)
(*   iterating  loop->poll_fds_iterating                                   *)
(*   queue      loop->watcher_queue (its head is Loop) and the             *)
(*              watcher_queue node of every watcher                        *)
(*   fd, pevents  w->fd and w->pevents; w->events is written, never read   *)
(***************************************************************************)
EXTENDS Naturals, Sequences, FiniteSets, UvQueue
CONSTANTS Watcher,  \* the uv__io_t objects
          Fd,       \* the file descriptors
          Loop,     \* the head of loop->watcher_queue
          NULL      \* no watcher, no descriptor

ASSUME UvNames == /\ Loop \notin Watcher
                  /\ NULL \notin Watcher
                  /\ NULL \notin Fd
ASSUME FdsFinite == IsFiniteSet(Fd)

Events == {"IN", "OUT"}            \* UV_POLLIN, UV_POLLOUT
Faults == {"ERR", "NVAL"}          \* POLLERR or POLLHUP; POLLNVAL

PollFd == [fd : Fd \cup {NULL}, events : SUBSET Events, revents : SUBSET (Events \cup Faults)]
Invalid == [fd |-> NULL, events |-> {}, revents |-> {}]

LoopType == [watchers  : [Fd -> Watcher \cup {NULL}],
             nfds      : Nat,
             poll_fds  : Seq(PollFd),
             iterating : BOOLEAN,
             queue     : QueueHeap(Watcher \cup {Loop}),
             fd        : [Watcher -> Fd \cup {NULL}],
             pevents   : [Watcher -> SUBSET Events]]

\* uv__platform_loop_init and the assignments of isere_httpd_init and isere_otel_init.
LoopInit == [watchers  |-> [f \in Fd |-> NULL],
             nfds      |-> 0,
             poll_fds  |-> <<>>,
             iterating |-> FALSE,
             queue     |-> NewQueueHeap(Watcher \cup {Loop}),
             fd        |-> [w \in Watcher |-> NULL],
             pevents   |-> [w \in Watcher |-> {}]]

\* uv__queue_insert_tail(&loop->watcher_queue, &w->watcher_queue) unless w is in it.
Enqueue(q, w) == IF QueueEmpty(q, w) THEN QueueInsertTail(q, Loop, w) ELSE q

\* A caller gives a watcher its descriptor and initialises its queue node.
IoOpen(l, w, f) == [l EXCEPT !.fd[w] = f, !.queue = QueueInit(@, w)]

\* Mutant of IoStart: nfds counts calls.
IoStart_CountsCalls(l, w, events) ==
    [l EXCEPT !.pevents[w] = @ \cup events, !.queue = Enqueue(@, w),
              !.watchers[l.fd[w]] = IF @ = NULL THEN w ELSE @, !.nfds = @ + 1]

\* uv__io_start
IoStart(l, w, events) ==
    LET new == l.watchers[l.fd[w]] = NULL
    IN  [l EXCEPT !.pevents[w] = @ \cup events,
                  !.queue = Enqueue(@, w),
                  !.watchers[l.fd[w]] = IF new THEN w ELSE @,
                  !.nfds = IF new THEN @ + 1 ELSE @]

\* Mutants of IoStop: nfds goes down at every call; the watcher stays queued.
IoStop_CountsCalls(l, w, events) ==
    IF l.fd[w] = NULL THEN l
    ELSE [l EXCEPT !.pevents[w] = @ \ events, !.queue = QueueUnlink(@, w),
                   !.watchers[l.fd[w]] = IF @ = w THEN NULL ELSE @, !.nfds = @ - 1]
IoStop_StaysQueued(l, w, events) ==
    LET mine == l.watchers[l.fd[w]] = w /\ l.pevents[w] \subseteq events
    IN  IF l.fd[w] = NULL THEN l
        ELSE [l EXCEPT !.pevents[w] = @ \ events,
                       !.watchers[l.fd[w]] = IF mine THEN NULL ELSE @,
                       !.nfds = IF mine THEN @ - 1 ELSE @]

\* uv__io_stop; poll_fds keeps the entry of the descriptor.
IoStop(l, w, events) ==
    LET left == l.pevents[w] \ events
        mine == l.watchers[l.fd[w]] = w
    IN  IF l.fd[w] = NULL THEN l
        ELSE IF left # {}
             THEN [l EXCEPT !.pevents[w] = left, !.queue = Enqueue(@, w)]
             ELSE [l EXCEPT !.pevents[w] = {},
                            !.queue = QueueUnlink(@, w),
                            !.watchers[l.fd[w]] = IF mine THEN NULL ELSE @,
                            !.nfds = IF mine THEN @ - 1 ELSE @]

\* Mutant of PollfdsAdd: a known descriptor is left as it is.
PollfdsAdd_KeepsEvents(l, w) ==
    IF \E j \in DOMAIN l.poll_fds : l.poll_fds[j].fd = l.fd[w] THEN l
    ELSE [l EXCEPT !.poll_fds = Append(@, [fd |-> l.fd[w], events |-> l.pevents[w], revents |-> {}])]

\* uv__pollfds_add; at most one entry is for the descriptor (NoDuplicateFd).
PollfdsAdd(l, w) ==
    LET f     == l.fd[w]
        known == \E j \in DOMAIN l.poll_fds : l.poll_fds[j].fd = f
    IN  IF l.iterating THEN l
        ELSE IF known
             THEN [l EXCEPT !.poll_fds = [j \in DOMAIN @ |->
                     IF @[j].fd = f THEN [@[j] EXCEPT !.events = l.pevents[w]] ELSE @[j]]]
             ELSE [l EXCEPT !.poll_fds =
                     Append(@, [fd |-> f, events |-> l.pevents[w], revents |-> {}])]

\* One round of the loop of uv__io_poll that empties the watcher queue.
TakeQueued(l) ==
    LET w == QueueHead(l.queue, Loop)
    IN  PollfdsAdd([l EXCEPT !.queue = QueueUnlink(@, w)], w)

\* isere_tcp_poll returned: re gives what happened on each descriptor. poll()
\* reports the events asked for and the faults, and skips a negative descriptor.
Polled(l, re) ==
    LET reported(e) == IF e.fd = NULL THEN {} ELSE re[e.fd] \cap (e.events \cup Faults)
    IN  [l EXCEPT !.iterating = TRUE,
                  !.poll_fds = [j \in DOMAIN @ |-> [@[j] EXCEPT !.revents = reported(l.poll_fds[j])]]]

\* uv__platform_invalidate_fd while uv__io_poll iterates, its only caller.
InvalidateFd(l, f) ==
    [l EXCEPT !.poll_fds = [j \in DOMAIN @ |-> IF @[j].fd = f THEN Invalid ELSE @[j]]]

\* Mutant of EventsAt: nothing filters the events nobody asked for.
EventsAt_Unfiltered(l, j) == l.poll_fds[j].revents

\* The watcher of entry j, and the events uv__io_poll hands to its callback.
WatcherAt(l, j) == l.watchers[l.poll_fds[j].fd]
EventsAt(l, j)  == l.poll_fds[j].revents \cap (l.pevents[WatcherAt(l, j)] \cup {"ERR"})

-----------------------------------------------------------------------------
(* What a loop must satisfy, for the modules that use one.                 *)

\* The descriptors some watcher is registered for.
Watched(l) == {f \in Fd : l.watchers[f] # NULL}

ActiveIn(l, w) == l.pevents[w] # {}

\* nfds counts the registered descriptors; the watcher registered for one is the
\* active watcher that holds it, and every active watcher is registered.
RegisteredIn(l) ==
    /\ l.nfds = Cardinality(Watched(l))
    /\ \A f \in Watched(l) : l.fd[l.watchers[f]] = f /\ ActiveIn(l, l.watchers[f])
    /\ \A w \in Watcher : ActiveIn(l, w) => l.fd[w] # NULL /\ l.watchers[l.fd[w]] = w

\* A queued watcher is active and holds a descriptor.
QueuedActive(l) ==
    \A w \in Watcher : ~QueueEmpty(l.queue, w) => ActiveIn(l, w) /\ l.fd[w] # NULL

\* No descriptor has two entries.
NoDuplicateIn(l) ==
    \A j, k \in DOMAIN l.poll_fds :
        l.poll_fds[j].fd = l.poll_fds[k].fd => j = k \/ l.poll_fds[j].fd = NULL

\* An entry asks for exactly the events of every active watcher of a set.
ArmedIn(l, S) ==
    \A w \in S : ActiveIn(l, w) =>
        \E j \in DOMAIN l.poll_fds : /\ l.poll_fds[j].fd = l.fd[w]
                                     /\ l.poll_fds[j].events = l.pevents[w]
=============================================================================
