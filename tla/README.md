# isere, verified

TLA+ models of [isere](https://github.com/jeeyo/isere), a FreeRTOS web server that
runs a JavaScript handler for every request, with TLC runs that check them on
small instances and TLAPS proofs that hold for every instance.

## 1. The system

One process (Linux) or one firmware image (Pico 2) runs FreeRTOS tasks over a
handful of modules that share memory.

| part | state | operations | talks to |
|---|---|---|---|
| intrusive queue, `include/libuv/queue.h` | `next`/`prev` in every node | init, empty, head, insert_tail, remove | the loop's `watcher_queue`, the server's `js_queue` |
| event loop, `src/internals/uv_poll.c` | `watchers[]`, `nfds`, `poll_fds[]`, `poll_fds_iterating`, `watcher_queue`; per watcher `fd`, `pevents` | `uv__io_start`, `uv__io_stop`, `uv__io_poll`, `uv__platform_invalidate_fd` | calls `poll()`, calls back into its client, which calls it again |
| HTTP server, `src/httpd.c` | the loop, `js_queue`, one `httpd_conn_t` per connection, `should_exit` | accept, read, parse, start the handler, drive pending handlers, write back, clean up | loop, TCP port, llhttp, JavaScript contexts |
| TCP port, `portable/*/src/tcp.c` | `__num_of_tcp_conns`, the system's sockets; on the Pico 2 `initialized` | socket, listen, accept (on Linux with a limit), connect, recv, write, close, poll; the usb task | kernel or lwIP |
| USB network of the Pico 2, `tusb_lwip_glue.c` | the interface, the pool of pbufs, TinyUSB's state | start-up, linkoutput_fn, tud_network_recv_cb, tud_network_xmit_cb | lwIP above, TinyUSB below, each of which calls it |
| JavaScript context, `src/js.c`, `runtimes/quickjs` | a QuickJS runtime and context, the handler's promise, 5 timer slots | new, eval, poll, free; `cb` completes the response | http_handler.c, timers |
| setTimeout, `polyfills/quickjs/timer.c` | `timers[5]`, FreeRTOS timers | set, clear, fire (on the timer daemon task), poll, deinit | FreeRTOS timer daemon |
| handler glue, `src/http_handler.c` | none | copies headers, evaluates | js.c, loader |
| exporter, `src/otel.c` | socket, loop, lists of counters and gauges, `last_connect_attempt`, `last_sent` | connect, time out, retry, encode, send; create, add, set | TCP port, loop, nanopb, httpd (a counter) |
| start-up, `src/main.c` | pointers for `sigint` | init of every module, `sigint` | everything |
| JerryScript runtime and timers | a context per connection, one lock on the engine | as QuickJS, without timers; one poll runs every job | (alternative build) |
| loader, logger, rtc, fs, platform, hooks, USB descriptors | trivial | input and output | |

**What is hard.** Three kinds of concurrency: callbacks that re-enter the event loop
while it iterates (a connection is closed, its descriptor reused, inside one
`uv__io_poll`); the timer daemon, a task of the highest priority that runs
JavaScript between any two steps of the httpd task; and on the Pico 2 tasks on two cores
that send and receive through the same driver, one inside the other. Connections are freed from
five places, one of them under the running parser. Descriptors are reused at once
by the kernel. Failures are handled by early returns: accept at the limit, no
memory, EINTR, errors of poll(), of the parser, of a JavaScript job. `PROJECT.json`
lists the hazards one by one, each at its line.

**What makes each part correct.**

- queue: never corrupted by its callers' protocol; first in, first out.
- loop: every active watcher is registered and polled with its current events; no
  watcher gets another one's events; its assertions hold.
- server: every accepted connection is in exactly one place (watched, queued for
  its handler, in the js loop's hands, gone), gets at most one response, is closed
  once (a second cleanup behind a 404 harms no other connection); the connection
  counter is off by the closes that ended no connection, and by nothing else until an update
  is lost; a pending handler is never answered for; what is started ends.
- requests: however the network cuts a request, its parts end up whole, in order, in
  their own buffers, and the handler sees each header with its value, as far as the
  hand-over in http_handler.c and quickjs.c lets it (below).
- timers and contexts: a callback works on its own slot; functions are freed once; no
  timer outlives its runtime; a poll that reports nothing pending is right.
- exporter: one socket, its own, closed once; connects again after any failure, reports
  for as long as it is connected, never sends a request behind one that *failed* half-way, and reports
  every metric there was, whole, whatever is created meanwhile.
- USB network: a frame is received at a time and reception never stops; no pbuf is lost;
  what waits for the driver ends, with the lock of lwIP held; nobody is early.

## 2. Modules

| module | what it is |
|---|---|
| `UvQueue` | the functions of queue.h on a heap of `next`/`prev` pointers |
| `UvQueueUse` | a state machine of their callers' protocol on several lists, and the lists read as sequences |
| `FifoQueues` | abstract specification: FIFO queues a node is in at most one of |
| `UvIo` | the operations of uv_poll.c on a loop record, for modules that own a loop |
| `UvLoop` | `uv__io_poll` step by step with the most general client |
| `UvMemory`, `MCUvLoop` | `UvLoop` with the sizes of the arrays behind it |
| `HttpdService` | abstract specification: what the server promises a client |
| `Httpd`, `MCHttpd` | the httpd task, its clients, sockets, signals, the timer daemon, and the exporter as the other user of the counter |
| `Request`, `MCRequest` | the parser's callbacks of httpd.c, http_handler.c and the header walk of quickjs.c |
| `Timers`, `MCTimers` | polyfills/quickjs/timer.c, the FreeRTOS timer daemon, the poll and the deinit of the slots |
| `Otel`, `MCOtel` | the exporter's task, the collector, httpd as the other user of descriptors and of the counter |
| `Metrics`, `MCMetrics` | the exporter with its lists of metrics and nanopb's walks over them; it implements `Otel` |
| `UsbNet`, `MCUsbNet` | the USB network of the Pico 2: tusb_lwip_glue.c and the usb task of its tcp.c |
| `UvQueueProof` | theorems about the queue: its lists stay apart and implement `FifoQueues` |
| `UvIoProof`, `UvLoopProof` | lemmas about the queue and about the operations of a loop; theorems about `UvLoop` and `UvMemory` |
| `RequestProof` | theorems about `Request` |
| `HttpdProof` | theorems about the server: its invariants, and that it implements `HttpdService` |
| `TimersProof` | theorems about setTimeout |
| `OtelProof` | theorems about the exporter, `Otel` and `Metrics` |
| `UsbNetProof` | theorem about the USB network |

`UvQueue` is used by `UvIo` (the `watcher_queue`) and by `Httpd` (the `js_queue`);
`UvIo` by `UvLoop`, `Httpd` and `Otel`; `UvLoop` is extended by `UvMemory`, `Otel` by
`Metrics`. The composition is therefore at the level of the
code: the server's actions call `IoStart` and `IoStop` where httpd.c calls
`uv__io_start` and `uv__io_stop`.

### How `UvMemory` corresponds to uv_poll.c

Every step is one of `UvLoop`'s with what it does to `nwatchers` (`maybe_resize`, called by
uv__io_start) and to `poll_fds_size` (`uv__pollfds_maybe_resize`, called when an entry is
added). Descriptors are numbers here, because they index `watchers`. `next_power_of_two` is
stated by what it computes, the least power of two that is not smaller; `MCUvLoop` has the
shifts of the code (`Smeared`) and makes TLC compare the two, for small numbers and around
every power (`ShiftsFindPower`). 2^31 and above, where the shifts would overflow, needs
more descriptors than there are (`FdsAreNumbers`).

### How `Httpd` corresponds to httpd.c

`pc` is where the task is: `main` (main() has not started the scheduler yet), `boot`, `poll` (about to call `uv__io_poll`), `drain`
(its queue loop), `iter` (its dispatch loop), `parse` (inside `llhttp_execute`),
`js` (the test of the inner while), `timers`, `job`, `decide` (the three parts of one
turn: timer poll, job, verdict) and `exit`. The handler is always there: main.c:110 passes
`__http_handler`, so the answer without one (httpd.c:200) is left out. A step of the task ends where another
actor can make a difference: the daemon (between the reads at httpd.c:450, timer.c:153
and quickjs.c:389) and the clients and signals (at every system call).

- A connection `c` is the client's socket and the `httpd_conn_t` made for it;
  `conn[c].mem` is `freed` after `vPortFree`. What the parser or a second cleanup reads of
  it then is what the first cleanup left: its `fd`, no context.
- Descriptors are a finite set: `file[f]` is the socket behind `f`, and accept takes
  any free one, as a kernel may.
- What `llhttp_execute` makes of one recv() is a *chunk*, the sequence of messages it
  completes: `request`, `other` (answered 404), `bad` (a parse error). The parser and
  the URL parser are external code.
- `js[c]` counts the runtime's queued jobs, its active timers and the work it may
  still create. Running code (the handler, a job, a timer callback) may queue jobs,
  set and clear timers. `MaxWork` bounds the total, which makes handlers terminate.
- The timer poll (timer.c:150) reads one slot after the other. `Httpd` reads them at once
  into `armed`, and a timer of the same runtime that fires before the job step makes
  `armed` unknown; `Timers` has the exact race.
- `Write` is a response on its way out, in full or cut: the result of isere_tcp_write is
  looked at nowhere, and a write may fail or take less than it is given.
- `__num_of_tcp_conns` counts modulo `CountMod`, as the `uint32_t` does modulo 2^32. On Linux,
  in a build with the exporter, `ExporterLoads` and `ExporterStores` are the two halves of the
  `--` of its calls of isere_tcp_close (otel.c:80, on `fd` -1 too), which end no connection of the
  server. `uncounted` is the number of such closes and of second cleanups, `raced` says that
  the server counted between the two halves: an update is lost. `Otel` has the
  exporter itself. The two `__num_of_tcp_conns` updates of an accept without memory are one step.
  (README.md:130 of the repository describes WITH_OTEL as on by default, CMakeLists.txt has it
  off; `MaxUncounted` = 0 is the build without.)
- `cb` is a global function (quickjs.c:186), so the handler's own code, a job or a timer callback
  may complete the response (`HandlerCb`).
- `runtime` and `port` are the build (`JS_RUNTIME` and the platform), chosen once. With QuickJS one turn is a timer poll
  and one job. With JerryScript a context is made for every request, there are no timers (its
  polyfill is commented out), and one poll runs every job until one fails (`JerryRunJobs`); its
  engine lock is never contended, because only the httpd task takes it. The Pico 2 accepts
  without a limit and without counting, and still counts down when it closes
  (`PicoAccept`): what `SocketsAccounted` says of the counter is about Linux.
- `SigInt` (Linux only) ends the process (`exit()`): its memory is gone, its sockets are closed, and no
  step follows.

### How `Request` corresponds to the code

One request on one connection. `stage`, `header` and `sent` are the parser's place in it;
`OnMethod` ... `OnBody` are the data callbacks with a piece of any length, the `...Complete`
actions the callbacks at the end of a text. `yuarel_parse` and llhttp are external: modelled
from what httpd.c makes of them (a target that starts with `/` loses that character, which
is why httpd.c:188 sees an empty path). `Flat`, `NextString`, `EventName` and `EventValue` are
the arrays http_handler.c builds and the walk of quickjs.c:141 over them, as functions of the
buffers.

Two things go wrong between the buffers and the handler. http_handler.c:24 copies values with
the length of a *name* (`CopyOf`): of a value of more than 64 bytes, for which httpd.h:34 and the
rows of line 21 have room, the rest is lost; `ValuesArrive` says that it is not, and the
run `request_values` refutes it. And the walk cannot see an empty value: every later value
moves to the header before, and the last one is read behind the array. No text of the
repository says what becomes of an empty header, so no finding is made of it.
`HandlerGetsHeaders` claims the names of all headers, and the values up to the first empty one
behind the first (`Reached`) that are no longer than a name may be, whatever comes after and
however long the others are.

### How `Timers` corresponds to the code

One runtime. The httpd task is at `pc`: running JavaScript (`code`), before `js_runtime_poll`
(`wait`), between two slots of its scan (`scan`), before its job, done with the poll
(`polled`), in the four steps of deinit for slot `i` (`read`, `stop`, `delete`, `release`), or
past it (`freed`). The daemon is `blocked`, inside a `callback`, or working through its
`commands`; on Linux it has the highest priority and there is one core, so it runs until it
blocks before the task takes its next step. A call of setTimeout is its own name for the
timer and for the function. QuickJS calls are atomic. `cleared`, `lost`, `late` and
`overtaken` are history variables for the properties; `lost` are the timers whose slots
stay taken for nothing, because clearTimeout frees none or xTimerStart failed. Nothing runs in a callback once the runtime is freed.
A callback that runs during the deinit may clear a timer that was deleted already, which reads
freed memory in FreeRTOS; `ClearTimeout` leaves that out.

`PollMissesOnlyOvertaken` allows what does happen: the scan of timer.c:150 reads the slots one by
one, and where a callback empties its slot behind it after setting a timer in a slot already
passed, js_runtime_poll returns 0 with a timer active, and the handler is given the bare 200
(httpd.c:453 has "add back to queue if there are pending jobs left").

### How `Otel` corresponds to otel.c

`pc` is the place in the task's loop: `connect`, `sleep` (vTaskDelay), `poll` (line 346), `late`
(349), `due` (360), `encode` (pb_encode, 371), `write` (the `part`-th of five writes), `drop` (disconnecting), `count` and
`store` (the load and store of `__num_of_tcp_conns--`). `sock` is the connection as poll() and send() show
it, `stream` what the collector got on it: the parts of the request under way, as long as each
write took all it was given. The socket does not block (otel.c:51), and a write that takes less
is not noticed, because only a negative result is looked at (399-444): the rest of the request
and the next ones follow behind a truncated part. `Writes` may be short at any time, `stream` is
NULL from then on until the next connection, and `WholeRequests` claims nothing of it. Time is `now`, modulo `TickMod`, stored in fields
modulo `FieldMod`: TickType_t is 32 bits wide on the Pico 2 and 64 on Linux, the fields are
64. `Tick` may happen `MaxLag` times before the task runs again.

httpd is here as the other user of the descriptors and of the counter: it accepts and
closes, and its update of the counter may be interrupted between load and store by the
exporter, and the other way round, since both tasks have the same priority and share the
core by time slices. `CountDrifts` is about runs in which no update got lost (`raced`).
`Httpd` has the same drift from the server's side (`SocketsAccounted`).

### How `Metrics` corresponds to otel.c

`Otel` encodes in one step, `Encodes`, and may fail in one, `EncodeFails`. Here the same
call is one step per list: nanopb writes a submessage behind its size, so the callback
`encode_metrics`, two submessages deep, goes through counters and gauges three times, and
any task may create a metric in between (isere_otel_create_counter and _gauge link it in
front, without a lock; reading the head and storing it is one step, which is true of one creating
task at a time, as in the program: httpd.c:418 is the only call. Two could lose a metric). `Fits` is nanopb's check that a size has not changed; nanopb is
external. A value is a fixed64 or sfixed64 whatever it is, so adding to a counter or setting
a gauge changes no size and is left out. The program creates one counter; the model allows
any number of metrics, all of which fit in the buffer of 512 bytes. `ImplementsOtel` shows
that each of these executions is one of `Otel`'s, *with its fairness*: the assumption of
`Otel` that encoding does not fail for ever follows here from there being finitely many
metrics, so `KeepsTrying` and `KeepsReporting` are checked here without it. The strings
duplicated for each walk (otel.c:199) and never freed are listed as a hazard without a
property: no memory is modelled for them.

### How `UsbNet` corresponds to tusb_lwip_glue.c and tcp.c

A task is its `stack` of calls, innermost first, because the hazard is the nesting: a socket
call runs lwIP in its own task under the core lock; lwIP calls `linkoutput_fn`, which runs
`tud_task()` until the driver is free; that calls `tud_network_recv_cb`, which enters lwIP
again (the lock is recursive) and may send. The actions are the lines of the two files at
which another task or the host makes a difference. The lock is not a variable:
`InCore(t)` says that `t` is in lwIP, `LockFree` that nobody else is.

TinyUSB, lwIP and the host are external, modelled from how the glue uses them:

- the driver renews the reception itself when recv_cb returns false, a renewal on an
  endpoint that is closed or busy does nothing, and a plug starts both directions afresh;
- tud_task() returns when there is no event, as with the Pico SDK's `OPT_OS_PICO`. Under
  FreeRTOS, tusb_config.h's default for a build that sets no CFG_TUSB_OS, it would block in
  its first call, under the lock when it is nested;
- two tasks may run tud_task() at once. Its queue is safe; an event is handled by the task
  that took it. What TinyUSB's own data makes of that on two cores is outside the model;
- lwIP frees a pbuf or keeps it for a socket, at its choice; one frame is sent per call.

`mute` and `torn` are history variables: reception does stop after a frame without data,
which recv_cb accepts without a renewal (tusb_lwip_glue.c:159), and a host that connects
anew while a frame of the old connection is in hand is beside the claim. Both are written
into `OneReception` as its exceptions.

### Where the code is undefined

After a 404 `__on_message_complete` frees the connection (httpd.c:196) and llhttp goes on with
it: what follows in the same 64 bytes is parsed in freed memory, another message is
answered 404 again, and a parse error cleans the connection up a second time (255). The model lets the parser
resume on the freed record, with its content as the cleanup left it; that the allocator
(heap_3, malloc and free) leaves it so is an assumption, and an allocator that aborts at the
second free ends the process as `SigInt` does. `FreedConfined` says that under it nothing else
is harmed: the freed connection has no descriptor that anybody else of the server has, no
watcher, no place in js_queue and no context. Two things are beside it: a descriptor that the
exporter opened between the two closes, since its descriptors are in `Otel` only; and every
second cleanup counts the connections down once more, which `SocketsAccounted` counts.
A second message behind a request *for the handler* is not modelled: README.md:67 ("No
Keep-Alive support") does not expect it, and it has the handler started twice on one connection
and a linked node linked again.

A callback in the middle of a QuickJS call, on one core or on two (Pico 2), and a callback
of a timer that has outlived its runtime (`OnlyLateSurvive` says which ones can) are outside
the models. The counter race of `Otel` is undefined in C; the build (-O0, or one
load and one store) makes it a lost update, which is what the model does.

## 3. Runs

| run | instance | what it shows |
|---|---|---|
| `queue_fifo` | 2 lists, 4 nodes | the lists are well formed (`WellFormed`), apart (`HeadsApart`) and implement FIFO queues, what is popped being the oldest (`RefinesFifo`) |
| `uv_loop` | 2 watchers, descriptors 3 and 6, 4 entries, `poll_fds` of 2 at first | `Registered`, `QueueAsserts`, `Armed` under every client; `InBounds`, nothing is read or written outside the two arrays |
| `uv_purge` | the same | **violated**: `Purged`, the comment at uv_poll.c:109 |
| `httpd` | 2 clients, 3 descriptors, limit 1, 1 close of the exporter, 2 units of work, QuickJS on Linux and JerryScript on the Pico 2 | `QueueSafe`, `NoOrphan`, `SocketsAccounted`, `FreedConfined`, `FreshEvents`; the server implements `HttpdService` |
| `httpd_live` | 2 clients, 3 descriptors, QuickJS on Linux, fair | `HandlerEnds`, `InputRead`, `HangUpSeen` |
| `usbnet` | 2 application tasks, a pool of 2, 3 frames, 1 unplugging, fair | `OneReception`, `PbufsAccounted`, `SendsToFreeDriver`, `UsedWhenUp`, `LinkEnds` |
| `otel` | ticks mod 3, fields mod 6, 2 descriptors | `OneSocket`, `WatchesOwn`, `WholeRequests`, `CountDrifts` |
| `metrics` | ticks mod 6, fields mod 18, 1 descriptor, a counter and a gauge, fair | `ReportsWhole`; the exporter implements `Otel` with its fairness (`ImplementsOtel`); `KeepsTrying`, `KeepsReporting` |
| `otel_retry` | uptime beyond the timeout | **violated**: only attempts are dropped as late (otel.c:348) |
| `timers` | 4 calls, 2 slots, a command queue of 2, 1 job | `SlotsMatch`, `FuncsFreedOnce`, `OnlyLateSurvive`, `ClearedQuiet`, `PollMissesOnlyOvertaken` |
| `request` | buffers of 3 to 5 characters, 3 headers, requests of up to 4 | `BuffersHoldPrefixes`, `HandlerGetsHeaders` |
| `request_values` | the same | **violated**: a value arrives as httpd.c received it (httpd.h:34, http_handler.c:21) |

The runs `httpd`, `usbnet`, `timers` and `request` also check their module's type invariant;
those of `UvLoop` and `Otel` are only proved (section 4).

**Bounds and why they are enough.** Two lists and four nodes give every relative
position of a node (first, middle, last, alone, other list). Two watchers and two
descriptors give a descriptor that is closed and taken by the other watcher in one
iteration, with an invalidated entry left behind and a new one appended; four entries
let that happen twice. Descriptor 3 makes room for six, and 6 is the first that needs
more; `poll_fds` grows from two to four. Two clients and a limit of one make a refused accept and an
accept after a close; with one close of the exporter, or a second cleanup, the limit is exceeded and both
are served at once; three descriptors, one of them the server's, force reuse. Two
units of work are two jobs or timers of each handler, or one that makes another: a callback that answers, one
that does not, and one that fires between the poll and the verdict. The chunks (`OneRequest`) are a part
of a request, each kind of message, and, behind one another, every two that are modelled.
`httpd_live` takes QuickJS,
the build whose turns are several steps and whose timers can keep a handler waiting; with clients
all alike, it states progress for one of them (`Observed`), beside another that does what it likes. In `Timers` two slots
and four calls give a slot that is reused while a timer of its first use is still queued,
a full slot table, a full command queue, and a callback that sets a timer behind the scan.
In `Request` every text comes shorter than, as long as and longer than its buffer, and one
header more than there is room for. In `Otel` ticks wrap two times (three in `metrics`)
before the fields do, and the task may be run more than a timeout late. In `metrics` httpd has
no sockets, so the exporter's one descriptor is reused by itself only (`otel` has the other
case); a counter and a gauge make two encodings that fail, in any walk and either list. In
`UsbNet` three frames exhaust a pool of two, two application tasks, the usb task and the
tcpip thread make three that wait while a fourth sends, and a cable pulled once and put
back gives every step a stale view of the driver.

**Deadlock** is not checked where the system may stop: in the runs of `Httpd` (the task ends
after `BootFails` and `SigInt`, and clients may stay silent), of `Timers` (the runtime is
freed) and of `Request` (the request is complete). It is checked for the queue, the loop,
the exporter, with its metrics and without, and the USB network.

**Fairness.** `WF(Task)`: FreeRTOS keeps scheduling a ready task, and what it calls returns.
poll() has a 5 ms timeout. The writes of a response (httpd.c:464-516) are on blocking sockets: on
Linux the signal of the 1 ms tick interrupts one that waits for a client that does not read, its
result is ignored, and the response is cut; that is an assumption about the FreeRTOS port, whose
source is not in the repository. On the Pico 2 such a client can stop the task, and
`httpd_live` claims nothing of that build. `WF(TimerFires)`: the daemon runs expired timers.
`SF(PollReady)`, `SF(RecvEnd)` and `SF(Recv ...)`: signals do not interrupt poll() and
recv() for ever, and a client's bytes have an end. Nothing is assumed of clients
and nothing of accept. That handlers terminate is not fairness but the bound
`MaxWork`: a handler that re-arms its timer for ever keeps the inner loop going.

For the exporter: `WF` of the task and of `Tick`, the scheduler and its clock. `Otel` adds
`SF(Encodes)`, an encoding does not fail for ever, which `Metrics` discharges. Nothing is
assumed of the collector.

For the USB network: every task that is not waiting runs on (`WF`; the usb task spins on one
of two cores, and leaves the other to the tasks of lower priority), the lock of lwIP is got in the end by who waits for it
(`SF(Takeover)`), and a host that is connected takes what it is sent (`WF(HostReceives)`).
Nothing is assumed of the host otherwise: it may send nothing, or unplug.

## 4. Proofs

- `UvQueueProof!ListsStayApart`: `Spec => [](WellFormed /\ HeadsApart)`, for any sets of
  heads and nodes (assumed disjoint). `HeadsApart` is not inductive: two rings could be
  entangled further away. The invariant is the one of the next theorem.
- `UvQueueProof!ListsAreQueues`: `Spec => RefinesFifo`, for any heads and any finite set of
  nodes (`ItemsFinite`): the sequence read off the pointers of each list (`Contents`)
  starts empty, an insertion puts the node behind the others, `Pop` takes the first, and an
  unlinking takes the node out and keeps the order of the rest. The invariant names what
  the pointers stand for: there are sequences `c`, one for each head, such that every ring
  goes through its head and then `c[h]` in order, both ways, no node is in two places, and every
  other node is alone (`Lists`). That `Contents` is this `c` (the walk along `next` comes back
  to the head after exactly `Len(c[h])` nodes) is what makes it a refinement mapping.
- `UvLoopProof!PollIsSound`: the five invariants of `UvLoop` (`TypeOK` and `NoDuplicateFd`
  besides the three of the run), for any watchers and any finite set of descriptors. The invariant `SoundLoop` adds to the checked ones that a
  watcher *that is not queued* has its entry (`ArmedQueue`; `Armed` alone says nothing
  between two polls) and that every queued watcher is in the ring of the loop's head
  (`OneRing`: no set of other nodes is closed under `next`), which is why an empty queue
  means that every watcher has been polled. The lemmas of `UvIoProof` show, one
  operation of uv_poll.c at a time, that it is kept; they are stated for a loop record,
  so that a proof about any other owner of a loop can use them.

- `UvLoopProof!ArraysSuffice`: `InBounds` of `UvMemory`, for any watchers and any descriptors whose
  `f + 3` is at most 2^30. The invariant `MInv` adds to `IInv` that every descriptor of a
  watcher or of an entry of `poll_fds` is below `nwatchers` (`FdsBelow`): `uv__io_start` makes
  room for it before it can be queued (`ResizeFits`), `uv__io_poll` gives entries only to
  queued watchers, and the entry of a descriptor that was closed stays in bounds because the
  array never shrinks. `NextPower` bounds `next_power_of_two` from both sides.
  `SizesOnlyAdd`: `MemSpec => Spec`, so all that is proved of `UvLoop` holds with the arrays
  (`PollIsSoundWithSizes`, the invariants of the run `uv_loop` under its own specification).

- `RequestProof`: `TypeOK`, `BuffersHoldPrefixes` and `HandlerGetsHeaders` of `Request`, for any set of
  requests and any limits (`Sizes`, `RequestsTyped`). The invariant says that
  what the parser has handed over so far (`stage`, `header`, `sent`) determines every buffer
  and both counters of header parts. `HeadersArrive` shows that the walk of quickjs.c:148 over the flat array, which skips runs of
  zeros, comes to the k-th name after k steps, and to the k-th value if none behind the first before it is empty: each string is `Stretch`ed from
  its start to its zero, and the next one starts behind the zeros. The assumption `Sizes` says
  how the limits of httpd.h must be ordered, which the proof found: each of path, name and
  value has room for a character besides its zero, and a value as much room as a
  name (there are 256, 64 and 512). With room for the zero alone `TypeOK` fails for the path and
  `HandlerGetsHeaders` for the names.

- `OtelProof!ExporterIsSound`: `TypeOK`, `OneSocket`, `WatchesOwn` and `WholeRequests` of `Otel`,
  for every size of the clock, of the fields and of the counter. The exporter owns
  exactly the socket its `fd` names. The invariant adds what the loop knows of it
  (`Watching`: the loop is `SoundLoop`, and its watcher, when active, is the current
  socket's and never that of a socket already closed) and how far the request has come
  at each place of the task, on a connection without a short write (`Counting`). The lemmas of `UvIoProof` carry `SoundLoop`
  through the exporter's calls of the loop.

- `UsbNetProof!NetworkIsSound`: the invariants of `UsbNet`, for any number of tasks and pbufs
  and a host that sends and resets as often as it likes. None of them is inductive. `Stacks`
  says which call may be made from which one (`Nested`: a frame is in hand only directly
  above tud_task(), `send` is above `out`), `OneOwner` that one task at most is in lwIP,
  which with `Stacks` makes `SendsToFreeDriver` inductive: who takes the driver is in lwIP,
  and so is everyone who saw it free. `Starting` follows start-up through two tasks.
  `EventOrder` is about TinyUSB's queue: behind an unplugging there is no frame, and
  between two pluggings there is an unplugging, so a frame never reaches a connection it was
  not sent on. `Receiving` is `OneReception` without counting (exactly one of: armed, queued,
  in the hands of one task, once in its stack). A step is described once, by the calls it
  takes off a stack and those it puts there (`Moves`), and each invariant is kept by what
  that says.

- `HttpdProof!ServerImplementsService`: every step of the server is one of `HttpdService` or a
  stutter, for any set of clients and descriptors, on both runtimes and both
  platforms, with the exporter or without; and the six invariants of `Httpd`. `IInv` is a conjunction of what the checked
  invariants leave unsaid:
  - `LoopOK`: the loop is `SoundLoop`, and iterates exactly while the task is in its dispatch
    loop; `ServerOK`, `ConnOK`, `FilesOK`: descriptors, watchers and connections are tied to
    each other both ways, and a live connection is watched exactly when no handler was
    started for it.
  - `QueueOK`: `__httpd_cleanup_conn` removes the node and frees it with its pointers as they
    were, so the `js_queue` heap as a whole is *not* well formed. What can be reached from
    the head is: the nodes that are not freed and the head are closed under `next` and
    `prev` and one ring goes through all that are linked (`Ring`). `QueueSafe` alone says
    nothing of `prev`, which the next removal writes through.
  - `TurnOK`: which connection is in hand at each place of the task; that nothing but
    malformed input is left behind the message for which a handler was started; and, where the
    parser is in a connection that was freed, what the second cleanup will find: a descriptor
    nobody has taken since, because nothing is accepted before the parser returns.
  - `FreshOK`: of the entries uv__io_poll has still to visit, those with an event are of a
    socket that was open when poll() returned, and if their descriptor has a watcher, it is
    not a queued (that is, newly started) one. `FreshEvents` alone is about the entry at hand.
  - `CountOK`: on Linux, until an update is lost, the counter and the closes that ended no
    connection add up to the number of accepted connections, modulo `CountMod` (`Balanced`), these
    are no more than the limit and those closes together, and what the exporter has loaded is one
    less than the counter is.

  The refinement is proved one action at a time: each moves one client's `Phase` as one
  action of the service does (`ServiceMoves`), all of them to `closed` (`SigIntStops`), or
  none (`TaskRests`, `ClientRests`, `ExporterRests`).
  `RefinesService` has no fairness, so this is all of it.

  The theorems have one hypothesis, `OneRequestEach`: a request for the handler is the only
  message of its chunk, except malformed bytes; requests that are answered 404 may follow one another in
  any number, with anything malformed behind. It is about the clients, not about the code; the run's
  `OneRequest` satisfies it, and it cannot be dropped (section 2, "Where the code is
  undefined"). Chunks may come in any number and order.

- `TimersProof`: the invariants of `Timers`, for any number of timers, slots, jobs and commands. The
  invariant is about *busy* timers (a start command is queued, the timer is active, or its
  callback runs): a busy timer has its slot (`Matched`); start commands come first and once
  (`CommandsOK`); the references of a function, while its slot has it and after
  (`RefsOK`), which is what makes `FuncsFreedOnce` inductive across the read, stop,
  delete and release of the deinit; where a busy timer may still be in the way of the
  deinit (`DeinitStops`), of clearTimeout (`ClearStops`: only with its stop command next and
  the daemon about to take it) and of the scan (`ScanMisses`: behind the index, unless a
  callback overtook it).

- `OtelProof!CounterDrift`: `CountDrifts`, for every modulus. `CounterOK` follows the shared counter
  through the load and the store of both tasks: what was loaded is right as long as no other
  update came between.

- `OtelProof!MetricsAreWhole`: `ReportsWhole`, for any sets of counters and gauges and any number created
  between two steps. The invariant (`Encoding`) says that a walk found an *end* of each
  list (`EndOf`), since metrics are linked in front, and that every metric there was
  when the encoding began is in it. `MetricsStepsAreOtels`: every step of `Metrics` is one of
  `Otel` or a stutter (`MetricsSpec => Spec`), the safety part of `ImplementsOtel`; what is proved of
  `Otel` therefore holds for `Metrics` too.

Corollaries and further theorems state the checked invariants one by one
(`ListsStayWellFormed`, `RegistrationsAgree`, `AssertionsHold`, `WatcherIsItsOwn`,
`RequestsAreWhole`, `ReceptionGoesOn`, `DriverStaysFree`, `StartUpComesFirst`, `NetworkTypes`; `ServerTypes`,
`QueueNeverDangles`, `NobodyForgotten`, `DescriptorsBalance`, `FreedStaysConfined`,
`EventsAreFresh`; `TimersType`, `TimersMatchSlots`, `TimersFreeOnce`, `DeinitLeavesLate`,
`ClearedStaysQuiet`, `PollComplete`).

Induction over data (the powers of two, the walk along a list, the headers of a request) is
done by sets: a set of numbers that has every number whose predecessors it has is `Nat`, which
follows from the library's facts that `Nat` is well-founded and that a set has a minimal
element (`AllNumbers` in `UvLoopProof`, `Induction` in `RequestProof`).

The assumptions on constants are those of the modules: `HeadsNotItems`, `UvNames`,
`HttpdNames`, `TimersNames` (names are distinct), `FdsFinite` and `ItemsFinite`, `FdsAreNumbers` and
`SizesPositive` (descriptors and sizes of arrays), `Sizes` and `RequestsTyped`, `HttpdNumbers` (the
limit is below the modulus of the counter), the ranges in `TimersNumbers`, `OneWatcher` and
`OtelNumbers`, and `UsbNetAssumption` (finitely many tasks).

Every invariant a passing run checks is a theorem. **Only model-checked**, and why:

- liveness (`HandlerEnds`, `InputRead`, `HangUpSeen`, `KeepsTrying`, `KeepsReporting`, `LinkEnds`) and the
  fairness part of `ImplementsOtel`: temporal proof under fairness needs ENABLED, which the
  provers do not have;
- that the shifts of `next_power_of_two` find the power: the module Bitwise is recursive, and a
  module with a theorem may not reach it. TLC evaluates `ShiftsFindPower` instead.

## 5. Not modelled

The abort when an array of the loop cannot grow, `w->events` (written, never read),
`uv__pollfds_del` and the `*_deinit` functions (no caller), the contents of responses, JSON,
the values of metrics and the bytes of their encoding, delays of timers, the heap, the
addresses and the DHCP server's table, the constant tables of the USB descriptors, loader,
logger, clock, the stubs of the Pico 2 port, the inside of the JavaScript engines. The branch
of httpd.c that answers 413 is in `Httpd`, and no execution reaches it: `recvd`, documented as
the "total length received" (httpd.h:68), is set to zero and never advanced.

## 6. Plan

1. The contents of responses (`cb`, `__httpd_writeback`): status code, headers, body.
2. `Boot`: main.c, and which pointers `sigint` may see; `UsbNet` as what it waits for.
3. An abstract timer service, implemented by `Timers`, whose operations are the ones `Httpd`
   assumes of `js[c].timers`; `Timers` with two cores.
4. A second request behind one for the handler in `Httpd`; the writes of a response one by one,
   with a client that does not read.
5. Proofs: that a callback of `Httpd`'s timers is one of `Timers`; the safety part of the
   composition of 3.
