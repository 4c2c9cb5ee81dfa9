------------------------------ MODULE UvMemory -------------------------------
(***************************************************************************)
(* The two arrays behind UvLoop: loop->watchers, indexed by descriptor,    *)
(* with room for nwatchers, and loop->poll_fds. Both only grow, by         *)
(* pvPortRealloc, which aborts the program when there is no memory. Every  *)
(* step is one of UvLoop's with what it does to the sizes.                 *)
(***************************************************************************)
EXTENDS UvLoop, FiniteSetsExt
CONSTANT FirstPollFds      \* the first size of poll_fds, 64 in the code

Power[n \in 0..30] == IF n = 0 THEN 1 ELSE 2 * Power[n - 1]

\* No system has as many descriptors; 2^30 is the last power of two below 2^31.
ASSUME FdsAreNumbers == Fd \subseteq Nat /\ \A f \in Fd : f + 3 <= Power[30]
ASSUME SizesPositive == FirstPollFds \in Nat \ {0}

VARIABLES nwatchers,       \* loop->nwatchers
          poll_fds_size    \* loop->poll_fds_size
sizes == <<nwatchers, poll_fds_size>>

MemInit == Init /\ nwatchers = 0 /\ poll_fds_size = 0

-----------------------------------------------------------------------------
\* By what it does; MCUvLoop compares the code's shifts with it.
next_power_of_two(val) == Min({Power[n] : n \in {k \in 0..30 : val <= Power[k]}})

\* Mutant of MaybeResize: the two entries kept behind the watchers are taken for room.
MaybeResize_UsesSpare(n, len) ==
    IF len <= n + 2 /\ n # 0 THEN n ELSE next_power_of_two(len + 2) - 2

\* The size of watchers that maybe_resize(loop, len) leaves.
MaybeResize(n, len) == IF len <= n THEN n ELSE next_power_of_two(len + 2) - 2

\* The size of poll_fds that uv__pollfds_maybe_resize leaves.
PollfdsMaybeResize(n) == IF n = 0 THEN FirstPollFds ELSE 2 * n

Starts(f) == nwatchers' = MaybeResize(nwatchers, f + 1) /\ UNCHANGED poll_fds_size

\* uv__pollfds_add takes a new entry; all that are in use may be taken.
Adds == /\ UNCHANGED nwatchers
        /\ poll_fds_size' = IF Len(loop'.poll_fds) > Len(loop.poll_fds)
                               /\ Len(loop.poll_fds) >= poll_fds_size
                            THEN PollfdsMaybeResize(poll_fds_size)
                            ELSE poll_fds_size

MemNext ==
    \/ \E w \in Watcher, f \in Fd, e \in Events : Open(w, f, {e}) /\ Starts(f)
    \/ \E w \in Watcher, e \in Events : Start(w, {e}) /\ Starts(loop.fd[w])
    \/ Drain /\ Adds
    \/ /\ UNCHANGED sizes
       /\ \/ \E w \in Watcher, e \in Events : Stop(w, {e})
          \/ PollBegin \/ PollError \/ Skip \/ Quiet \/ Call \/ Return \/ PollEnd
          \/ \E re \in [Fd -> Revents] : Ready(re)

MemSpec == MemInit /\ [][MemNext]_<<vars, sizes>>

-----------------------------------------------------------------------------
\* Nothing is read or written outside an array: the descriptor of a watcher, which
\* uv__io_stop looks up (line 206) and uv__io_poll asserts to fit (238), and that of
\* an entry, which may outlive its watcher (265), have room in watchers, of which
\* two entries more are in use; an entry has room in poll_fds. And the arrays stay
\* in proportion: watchers is a power of two below twice what was asked for.
InBounds ==
    /\ \A w \in Watcher : loop.fd[w] # NULL => loop.fd[w] < nwatchers
    /\ \A j \in DOMAIN loop.poll_fds :
          loop.poll_fds[j].fd # NULL => loop.poll_fds[j].fd < nwatchers
    /\ Len(loop.poll_fds) <= poll_fds_size
    /\ nwatchers # 0 => /\ \E n \in 2..30 : nwatchers + 2 = Power[n]
                        /\ \E f \in Fd : nwatchers + 2 < 2 * (f + 3)
=============================================================================
