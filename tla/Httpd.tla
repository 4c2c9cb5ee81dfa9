-------------------------------- MODULE Httpd --------------------------------
(***************************************************************************)
(* The web server of src/httpd.c: the httpd task, its loop of watchers     *)
(* (UvIo), the queue of connections whose JavaScript handler runs, and the *)
(* connection counter of portable/linux/src/tcp.c and portable/pico2's,    *)
(* against clients that connect, send and hang up when they like, signals  *)
(* that interrupt poll() and recv(), the FreeRTOS timer daemon that runs   *)
(* setTimeout callbacks between any two steps of the task, and, in a build *)
(* WITH_OTEL, the exporter, whose isere_tcp_close counts down the counter  *)
(* the server accepts by (Otel has the rest of it).                        *)
(*                                                                         *)
(* A connection is one client's only connection and the httpd_conn_t       *)
(* allocated for it. What llhttp_execute makes of the bytes one recv()     *)
(* returns is a chunk: the sequence of messages they complete, "request"   *)
(* for a request for the handler (the URL parser leaves conn->path empty), *)
(* "other" for one __on_message_complete answers with 404 (it does not),   *)
(* "bad" where llhttp reports an error. The empty chunk completes nothing. *)
(***************************************************************************)
EXTENDS UvIo, Integers
CONSTANTS Server,      \* the watcher of the listening socket; the others are connections
          ServerFd,    \* httpd->serverfd
          JsQueue,     \* the head of httpd->js_queue
          Builds,      \* JS_RUNTIME and the platform, as the build pairs them
          Chunks,      \* the chunks clients send
          MaxConns,    \* ISERE_TCP_MAX_CONNECTIONS
          CountMod,    \* __num_of_tcp_conns counts modulo this; 2^32 in the code
          MaxRequest,  \* ISERE_HTTPD_MAX_HTTP_REQUEST_LEN, in chunks
          MaxWork,     \* bound: the jobs and timers one handler creates in all
          MaxUncounted,\* bound: the exporter closes no more sockets when as many closes have
                       \* ended no connection; 0 is a build without the exporter
          Observed     \* the connections whose progress is stated: all are alike

Conn == Watcher \ {Server}

ASSUME HttpdNames == /\ Server \in Watcher /\ ServerFd \in Fd
                     /\ JsQueue \notin Watcher
                     /\ Builds \subseteq {"quickjs", "jerryscript"} \X {"linux", "pico2"}
                     /\ Chunks \subseteq Seq({"request", "other", "bad"})
                     /\ Observed \subseteq Conn
ASSUME HttpdNumbers == /\ MaxConns \in Nat /\ CountMod \in Nat /\ MaxConns < CountMod
                       /\ MaxRequest \in Nat \ {0} /\ MaxWork \in Nat /\ MaxUncounted \in Nat

VARIABLES
    pc,           \* where the httpd task is
    loop,         \* httpd->loop, with the watchers
    i,            \* the index uv__io_poll has reached in poll_fds
    cur,          \* the connection __on_poll or the js loop works on
    rest,         \* the messages llhttp_execute has still to report
    callbacked,   \* locals of the js loop, and the result of the timer poll
    pending,
    armed,
    js_queue,     \* httpd->js_queue and the js_queue node of every connection
    conn,         \* the httpd_conn_t of every connection
    runtime,      \* the JavaScript runtime the server is built with
    port,         \* the platform it is built for, its sockets Linux's or lwIP's
    js,           \* the runtime of every connection: queued jobs, active timers, work left
    file,         \* the kernel's descriptors: the socket each one stands for
    net,          \* the client's end: state, bytes to be read, hung up
    answers,      \* the responses the client was sent, "cut" for one not written in full
    numConns,     \* __num_of_tcp_conns
    loaded,       \* what the exporter, on its way through isere_tcp_close, will store there
    uncounted,    \* history: the calls of isere_tcp_close that ended no connection
    raced,        \* history: the server counted between a load and a store of the exporter
    should_exit
task == <<pc, i, cur, rest, callbacked, pending, armed>>
client == <<net, answers>>
handlers == <<js_queue, conn, js>>
counter == <<numConns, loaded, uncounted, raced>>
sockets == <<file, client, counter>>
process == <<runtime, port, should_exit>>
vars == <<task, loop, handlers, sockets, process>>

NoJs == [jobs |-> 0, timers |-> 0, work |-> 0]
JsState == [jobs : 0..MaxWork, timers : 0..MaxWork, work : 0..MaxWork]

TypeOK ==
    /\ pc \in {"main", "boot", "poll", "drain", "iter", "parse", "js", "timers", "job", "decide", "exit"}
    /\ loop \in LoopType
    /\ i \in Nat \ {0}
    /\ cur \in Conn \cup {NULL}
    /\ rest \in Seq({"request", "other", "bad"})
    /\ callbacked \in BOOLEAN /\ armed \in BOOLEAN /\ pending \in {-1, 0, 1}
    /\ js_queue \in QueueHeap(Conn \cup {JsQueue})
    /\ conn \in [Conn -> [mem : {"none", "live", "freed"}, initialized : BOOLEAN,
                          completed : BOOLEAN, recvd : Nat]]
    /\ js \in [Conn -> JsState]
    /\ file \in [Fd -> Watcher \cup {NULL}]
    /\ net \in [Conn -> [state : {"new", "backlog", "open", "closed"},
                         bytes : BOOLEAN, eof : BOOLEAN]]
    /\ answers \in [Conn -> Seq({"404", "413", "200", "response", "cut"})]
    /\ numConns \in 0..(CountMod - 1) /\ loaded \in 0..(CountMod - 1) \cup {NULL}
    /\ uncounted \in Nat /\ raced \in BOOLEAN
    /\ <<runtime, port>> \in Builds /\ should_exit \in BOOLEAN

Init ==
    /\ pc = "main" /\ i = 1 /\ cur = NULL /\ rest = <<>>
    /\ callbacked = FALSE /\ pending = 0 /\ armed = FALSE
    /\ loop = LoopInit
    /\ js_queue = NewQueueHeap(Conn \cup {JsQueue})
    /\ conn = [c \in Conn |-> [mem |-> "none", initialized |-> FALSE,
                               completed |-> FALSE, recvd |-> 0]]
    /\ js = [c \in Conn |-> NoJs]
    /\ file = [f \in Fd |-> NULL]
    /\ net = [c \in Conn |-> [state |-> "new", bytes |-> FALSE, eof |-> FALSE]]
    /\ answers = [c \in Conn |-> <<>>]
    /\ numConns = 0 /\ loaded = NULL /\ uncounted = 0 /\ raced = FALSE
    /\ \E build \in Builds : runtime = build[1] /\ port = build[2]
    /\ should_exit = FALSE

-----------------------------------------------------------------------------
(* What the steps of the task are made of.                                 *)

Goto(where) == pc' = where /\ UNCHANGED <<i, cur, rest, callbacked, pending, armed>>

\* uv__io_poll goes on to the next entry.
NextEntry == pc' = "iter" /\ i' = i + 1 /\ cur' = NULL /\ rest' = <<>>
             /\ UNCHANGED <<callbacked, pending, armed>>

\* What the client of the socket behind f has been sent, with one response more.
Written(f, text) ==
    [c \in Conn |-> IF file[f] = c THEN Append(answers[c], text) ELSE answers[c]]

\* isere_tcp_write, whose result nobody looks at: the response goes out in full, or
\* a write of it fails or takes only some of the bytes.
Write(f, text) == \E sent \in {text, "cut"} : answers' = Written(f, sent)

\* __httpd_writeback: the row of writes of the handler's response, or 200 if it has none.
Writeback(c) == Write(loop.fd[c], IF conn[c].completed THEN "response" ELSE "200")

\* The server's __num_of_tcp_conns++ or --: a value the exporter has loaded is stale then.
\* (A -- of the exporter between the server's own load and store is lost, and is no step.)
Counted == raced' = (raced \/ loaded # NULL) /\ UNCHANGED loaded

\* isere_tcp_accept of Linux keeps a limit; that of the Pico 2 neither has one nor
\* counts: what there is room for is up to lwIP.
LinuxAccept == /\ numConns < MaxConns /\ numConns' = (numConns + 1) % CountMod
               /\ Counted /\ UNCHANGED uncounted
PicoAccept  == UNCHANGED counter

\* isere_tcp_accept takes the connection of c, as descriptor f.
TcpAccept(c, f) ==
    /\ IF port = "linux" THEN LinuxAccept ELSE PicoAccept
    /\ net[c].state = "backlog" /\ file[f] = NULL
    /\ file' = [file EXCEPT ![f] = c]
    /\ net' = [net EXCEPT ![c].state = "open"]

\* Mutant of TcpClose: the connection is not counted down.
TcpClose_Uncounted(f) ==
    /\ file' = [file EXCEPT ![f] = NULL]
    /\ net' = [c \in Conn |-> IF file[f] = c
                              THEN [state |-> "closed", bytes |-> FALSE, eof |-> FALSE]
                              ELSE net[c]]
    /\ UNCHANGED counter

\* isere_tcp_close counts down on both platforms.
CountDown == numConns' = (numConns + CountMod - 1) % CountMod /\ Counted

\* isere_tcp_close: the descriptor is free again, the client sees the end. (The
\* descriptor of a connection that is cleaned up twice is free already.)
TcpClose(f) ==
    /\ file' = [file EXCEPT ![f] = NULL]
    /\ net' = [c \in Conn |-> IF file[f] = c
                              THEN [state |-> "closed", bytes |-> FALSE, eof |-> FALSE]
                              ELSE net[c]]
    /\ CountDown
    /\ uncounted' = IF file[f] \in Conn THEN uncounted ELSE uncounted + 1

\* isere_js_new_context with QuickJS: a runtime, unless the connection has one.
NewContext(c) == IF conn[c].initialized THEN js[c] ELSE [NoJs EXCEPT !.work = MaxWork]

\* With JerryScript: a context, which the connection gets in any case. Its calls
\* lock the engine; no other task makes one.
NewJerryContext == [NoJs EXCEPT !.work = MaxWork]

\* isere_js_free_context: no timer and no job of the runtime is left.
FreeContext(c) == IF conn[c].initialized THEN [js EXCEPT ![c] = NoJs] ELSE js

\* What is known of a freed connection: its context is gone.
Freed == [mem |-> "freed", initialized |-> FALSE, completed |-> FALSE, recvd |-> 0]

\* Mutant of CleanupConn: the connection stays in js_queue.
CleanupConn_StaysQueued(l, c) ==
    /\ UNCHANGED js_queue
    /\ js' = FreeContext(c)
    /\ conn' = [conn EXCEPT ![c] = Freed]
    /\ loop' = IoStop(l, c, {"IN"})
    /\ TcpClose(loop.fd[c])

\* __httpd_cleanup_conn(c), on a loop l the caller has already changed. (Of a connection
\* that is freed already it reads what was there: see ParseError.)
CleanupConn(l, c) ==
    /\ js_queue' = IF conn[c].initialized THEN QueueRemove(js_queue, c) ELSE js_queue
    /\ js' = FreeContext(c)
    /\ conn' = [conn EXCEPT ![c] = Freed]
    /\ loop' = IoStop(l, c, {"IN"})
    /\ TcpClose(loop.fd[c])

\* JavaScript code runs in a runtime s: it queues jobs, sets and clears timers.
AfterCode(s) ==
    {u \in JsState : LET j == u.jobs - s.jobs
                         t == s.work - u.work - j
                     IN  j >= 0 /\ t >= 0 /\ u.timers \in t..(s.timers + t)}

\* JerryScript has no setTimeout: the handler's code queues jobs.
AfterJerryCode(s) == {u \in AfterCode(s) : u.timers = 0}

\* cb(response): the response is complete.
HandlerCb(c) == conn' = [conn EXCEPT ![c].completed = TRUE]

\* The callback of JerryScript copies the same fields of the response.
JerryCb(c) == HandlerCb(c)

\* isere_js_eval, in the context made for c.
Evaluated(c) == IF runtime = "quickjs" THEN AfterCode(NewContext(c))
                                       ELSE AfterJerryCode(NewJerryContext)

-----------------------------------------------------------------------------
(* The clients, the signals and the timer daemon.                          *)

Connect(c) == /\ net[c].state = "new"
              /\ file[ServerFd] = Server /\ ~should_exit
              /\ net' = [net EXCEPT ![c].state = "backlog"]
              /\ UNCHANGED <<task, loop, handlers, file, answers, counter, process>>

Connected(c) == net[c].state \in {"backlog", "open"} /\ ~net[c].eof /\ ~should_exit

Send(c) == /\ Connected(c)
           /\ net' = [net EXCEPT ![c].bytes = TRUE]
           /\ UNCHANGED <<task, loop, handlers, file, answers, counter, process>>

HangUp(c) == /\ Connected(c)
             /\ net' = [net EXCEPT ![c].eof = TRUE]
             /\ UNCHANGED <<task, loop, handlers, file, answers, counter, process>>

\* sigint() of src/main.c, on Linux, sets should_exit and ends the process with exit(): its
\* memory is gone, the system closes its sockets, and no step of it follows.
SigInt == /\ pc # "exit" /\ port = "linux"
          /\ should_exit' = TRUE
          /\ pc' = "exit" /\ i' = 1 /\ cur' = NULL /\ rest' = <<>>
          /\ callbacked' = FALSE /\ pending' = 0 /\ armed' = FALSE
          /\ loop' = LoopInit
          /\ js_queue' = NewQueueHeap(Conn \cup {JsQueue})
          /\ conn' = [c \in Conn |-> IF conn[c].mem = "none" THEN conn[c]
                                     ELSE Freed]
          /\ js' = [c \in Conn |-> NoJs]
          /\ file' = [f \in Fd |-> NULL]
          /\ net' = [c \in Conn |-> IF net[c].state = "new" THEN net[c]
                                    ELSE [state |-> "closed", bytes |-> FALSE, eof |-> FALSE]]
          /\ numConns' = 0 /\ loaded' = NULL /\ uncounted' = 0 /\ raced' = FALSE
          /\ UNCHANGED <<answers, runtime, port>>

\* The daemon preempts the task and runs the callback of an expired timer of c.
\* If it comes in the middle of the timer poll of c, its slot is emptied before
\* the scan gets there, and the timers it sets go into slots before or after that
\* point: what the scan finds is open. (After the scan, armed just may stay.)
\* cb is a global function: the callback of a timer may complete the response.
TimerFires(c) == /\ js[c].timers > 0 /\ ~should_exit
                 /\ \E s \in AfterCode([js[c] EXCEPT !.timers = @ - 1]) : js' = [js EXCEPT ![c] = s]
                 /\ IF pc = "job" /\ cur = c THEN armed' \in BOOLEAN ELSE UNCHANGED armed
                 /\ UNCHANGED conn \/ HandlerCb(c)
                 /\ UNCHANGED <<pc, i, cur, rest, callbacked, pending>>
                 /\ UNCHANGED <<loop, js_queue, sockets, process>>

Exports == port = "linux" /\ pc \notin {"main", "exit"} /\ ~should_exit

\* The exporter closes a socket of its own, or the -1 it has for none: its
\* __num_of_tcp_conns-- loads the counter ...
ExporterLoads == /\ Exports /\ loaded = NULL /\ uncounted < MaxUncounted
                 /\ loaded' = (numConns + CountMod - 1) % CountMod
                 /\ UNCHANGED <<numConns, uncounted, raced>>
                 /\ UNCHANGED <<task, loop, handlers, file, client, process>>

\* ... and stores it, one less, over whatever the server has counted meanwhile.
ExporterStores == /\ Exports /\ loaded # NULL
                  /\ numConns' = loaded /\ loaded' = NULL /\ uncounted' = uncounted + 1
                  /\ UNCHANGED raced
                  /\ UNCHANGED <<task, loop, handlers, file, client, process>>

-----------------------------------------------------------------------------
(* The httpd task.                                                         *)

\* main() has initialised every module, the server the last of them, and starts the
\* scheduler. (Init has what isere_httpd_init makes of its memory.)
Start == /\ pc = "main"
         /\ Goto("boot")
         /\ UNCHANGED <<loop, handlers, sockets, process>>

\* The initialisation of one of the modules fails: main() returns, and no task runs.
StartFails == /\ pc = "main"
              /\ Goto("exit")
              /\ UNCHANGED <<loop, handlers, sockets, process>>

\* The listening socket is made, and its watcher started.
BootListen ==
    /\ pc = "boot"
    /\ file' = [file EXCEPT ![ServerFd] = Server]
    /\ loop' = IoStart(IoOpen(loop, Server, ServerFd), Server, {"IN"})
    /\ Goto("poll")
    /\ UNCHANGED <<handlers, client, counter, process>>

\* The listening socket could not be made: the task ends. Its loop tests
\* should_exit too, which nothing but sigint sets once the loop runs.
BootFails ==
    /\ pc = "boot"
    /\ loop' = IoStop(loop, Server, {"IN"})
    /\ should_exit' = TRUE
    /\ Goto("exit")
    /\ UNCHANGED <<handlers, sockets, runtime, port>>

PollBegin == /\ pc = "poll"
             /\ Goto(IF loop.nfds = 0 THEN "js" ELSE "drain")
             /\ UNCHANGED <<loop, handlers, sockets, process>>

Drain == /\ pc = "drain" /\ ~QueueEmpty(loop.queue, Loop)
         /\ loop' = TakeQueued(loop)
         /\ UNCHANGED <<task, handlers, sockets, process>>

Readable(f) == \/ file[f] = Server /\ \E c \in Conn : net[c].state = "backlog"
               \/ file[f] \in Conn /\ (net[file[f]].bytes \/ net[file[f]].eof)

\* What poll() sees: Linux reports POLLIN with POLLERR and POLLHUP.
Seen == [f \in Fd |-> IF file[f] = NULL THEN {"NVAL"} ELSE IF Readable(f) THEN {"IN"} ELSE {}]

StartIter(re) == /\ pc = "drain" /\ QueueEmpty(loop.queue, Loop)
                 /\ loop' = Polled(loop, re)
                 /\ pc' = "iter" /\ i' = 1
                 /\ UNCHANGED <<cur, rest, callbacked, pending, armed>>
                 /\ UNCHANGED <<handlers, sockets, process>>

PollReady == StartIter(Seen)

\* EINTR: Linux clears every revents, and uv__io_poll goes on with them. lwIP has none.
PollInterrupted == port = "linux" /\ StartIter([f \in Fd |-> {}])

PollError == /\ pc = "drain" /\ QueueEmpty(loop.queue, Loop)
             /\ Goto("js")
             /\ UNCHANGED <<loop, handlers, sockets, process>>

Entry == loop.poll_fds[i]
InRange == pc = "iter" /\ i \in DOMAIN loop.poll_fds
Calls(w) == InRange /\ Entry.fd # NULL /\ WatcherAt(loop, i) = w /\ "IN" \in EventsAt(loop, i)

\* An invalidated entry, a stopped watcher, or a watcher with nothing to read.
SkipEntry ==
    /\ InRange
    /\ \/ /\ Entry.fd = NULL
          /\ UNCHANGED loop
       \/ /\ Entry.fd # NULL /\ WatcherAt(loop, i) = NULL
          /\ loop' = InvalidateFd(loop, Entry.fd)
       \/ /\ Entry.fd # NULL /\ WatcherAt(loop, i) # NULL /\ "IN" \notin EventsAt(loop, i)
          /\ UNCHANGED loop
    /\ NextEntry
    /\ UNCHANGED <<handlers, sockets, process>>

PollEnd == /\ pc = "iter" /\ i \notin DOMAIN loop.poll_fds
           /\ loop' = [loop EXCEPT !.iterating = FALSE]
           /\ pc' = "js" /\ i' = 1
           /\ UNCHANGED <<cur, rest, callbacked, pending, armed>>
           /\ UNCHANGED <<handlers, sockets, process>>

\* __on_connected, when isere_tcp_accept refuses at its limit or fails.
AcceptRefused ==
    /\ Calls(Server)
    /\ NextEntry
    /\ UNCHANGED <<loop, handlers, sockets, process>>

\* Mutant of Accept: the watcher of the new connection is not started.
Accept_NotStarted(c, f) ==
    /\ Calls(Server) /\ TcpAccept(c, f)
    /\ conn' = [conn EXCEPT ![c] = [mem |-> "live", initialized |-> FALSE,
                                    completed |-> FALSE, recvd |-> 0]]
    /\ loop' = IoOpen(loop, c, f)
    /\ NextEntry
    /\ UNCHANGED <<js_queue, js, answers, process>>

\* __on_connected with a new connection c on descriptor f.
Accept(c, f) ==
    /\ Calls(Server) /\ TcpAccept(c, f)
    /\ conn' = [conn EXCEPT ![c] = [mem |-> "live", initialized |-> FALSE,
                                    completed |-> FALSE, recvd |-> 0]]
    /\ loop' = IoStart(IoOpen(loop, c, f), c, {"IN"})
    /\ NextEntry
    /\ UNCHANGED <<js_queue, js, answers, process>>

\* __on_connected when pvPortMalloc fails: the socket is counted, then closed.
AcceptNoMemory(c) ==
    /\ Calls(Server)
    /\ net[c].state = "backlog" /\ \E f \in Fd : file[f] = NULL
    /\ IF port = "linux" THEN numConns < MaxConns /\ Counted /\ UNCHANGED <<numConns, uncounted>>
                         ELSE CountDown /\ UNCHANGED uncounted
    /\ net' = [net EXCEPT ![c] = [state |-> "closed", bytes |-> FALSE, eof |-> FALSE]]
    /\ NextEntry
    /\ UNCHANGED <<loop, handlers, file, answers, process>>

\* __on_poll when a signal interrupts recv().
RecvInterrupted(c) ==
    /\ Calls(c) /\ port = "linux"
    /\ NextEntry
    /\ UNCHANGED <<loop, handlers, sockets, process>>

\* Mutant of RecvEnd: the end of the stream is taken for EAGAIN.
RecvEnd_Ignored(c) ==
    /\ Calls(c) /\ ~net[c].bytes
    /\ NextEntry
    /\ UNCHANGED <<loop, handlers, sockets, process>>

\* __on_poll when the client has hung up.
RecvEnd(c) ==
    /\ Calls(c) /\ ~net[c].bytes
    /\ CleanupConn(loop, c)
    /\ NextEntry
    /\ UNCHANGED <<answers, process>>

\* __on_poll with bytes: the size check, which recvd never makes true, then the
\* parser. What is left of a longer stream stays readable.
Recv(c, chunk) ==
    /\ Calls(c) /\ net[c].bytes
    /\ IF conn[c].recvd + 1 > MaxRequest
       THEN /\ Write(loop.fd[c], "413")
            /\ CleanupConn(loop, c)
            /\ NextEntry
       ELSE /\ \E more \in BOOLEAN : net' = [net EXCEPT ![c].bytes = more]
            /\ pc' = "parse" /\ cur' = c /\ rest' = chunk
            /\ UNCHANGED <<i, callbacked, pending, armed>>
            /\ UNCHANGED <<loop, handlers, file, answers, counter>>
    /\ UNCHANGED process

Parses(result) == pc = "parse" /\ rest # <<>> /\ Head(rest) = result
ParserGoesOn == rest' = Tail(rest) /\ UNCHANGED <<pc, i, cur, callbacked, pending, armed>>

\* llhttp_execute returns an error, and the connection is cleaned up, also when a 404
\* has freed it: the allocator leaves what the second cleanup reads (a heap that finds
\* the second free may end the process instead, which is SigInt's step).
ParseError ==
    /\ Parses("bad")
    /\ CleanupConn(loop, cur)
    /\ NextEntry
    /\ UNCHANGED <<answers, process>>

\* llhttp_execute has parsed the whole chunk.
ParseEnd ==
    /\ pc = "parse" /\ rest = <<>>
    /\ NextEntry
    /\ UNCHANGED <<loop, handlers, sockets, process>>

\* Mutant of MessageClosed: the response is written, the connection kept.
MessageClosed_Kept(text) ==
    /\ Write(loop.fd[cur], text)
    /\ ParserGoesOn
    /\ UNCHANGED <<loop, handlers, file, net, counter, process>>

\* __on_message_complete, when the path is not "/": the connection is
\* freed under the parser, which goes on. There is always a handler (main.c:110).
MessageClosed(text) ==
    /\ Write(loop.fd[cur], text)
    /\ CleanupConn(IoStop(loop, cur, {"IN"}), cur)
    /\ ParserGoesOn
    /\ UNCHANGED process

NotFound == Parses("other") /\ MessageClosed("404")

\* Mutants of RunHandler: a handler that cannot be evaluated is cleaned up at
\* once, under the parser; the connection is never put into js_queue.
RunHandler_CleansUp == Parses("request") /\ MessageClosed("200")
RunHandler_NotQueued ==
    /\ Parses("request")
    /\ loop' = IoStop(loop, cur, {"IN"})
    /\ conn' = [conn EXCEPT ![cur].initialized = TRUE]
    /\ \E s \in Evaluated(cur) : js' = [js EXCEPT ![cur] = s]
    /\ js_queue' = QueueInit(js_queue, cur)
    /\ ParserGoesOn
    /\ UNCHANGED <<sockets, process>>

\* __on_message_complete: the handler's context is made unless there is one,
\* the handler is evaluated, which may call cb, and the connection waits in js_queue.
RunHandler ==
    /\ Parses("request")
    /\ loop' = IoStop(loop, cur, {"IN"})
    /\ \E done \in {conn[cur].completed, TRUE} :
           conn' = [conn EXCEPT ![cur].initialized = TRUE, ![cur].completed = done]
    /\ \E s \in Evaluated(cur) : js' = [js EXCEPT ![cur] = s]
    /\ js_queue' = QueueInsertTail(QueueInit(js_queue, cur), JsQueue, cur)
    /\ ParserGoesOn
    /\ UNCHANGED <<file, client, counter, process>>

-----------------------------------------------------------------------------
(* The js loop, which runs until js_queue is empty.                        *)

JsEmpty == /\ pc = "js" /\ QueueEmpty(js_queue, JsQueue)
           /\ Goto("poll")
           /\ UNCHANGED <<loop, handlers, sockets, process>>

\* The first connection leaves the queue; whether it has answered is read here.
JsTake ==
    /\ pc = "js" /\ ~QueueEmpty(js_queue, JsQueue)
    /\ LET c == QueueHead(js_queue, JsQueue)
       IN  /\ js_queue' = QueueUnlink(js_queue, c)
           /\ cur' = c
           /\ callbacked' = conn[c].completed
    /\ pc' = "timers"
    /\ UNCHANGED <<i, rest, pending, armed>>
    /\ UNCHANGED <<loop, conn, js, sockets, process>>

\* isere_js_poll looks for an active timer of the context, slot by slot.
JsPollTimers ==
    /\ pc = "timers" /\ runtime = "quickjs"
    /\ armed' = (js[cur].timers > 0)
    /\ pc' = "job"
    /\ UNCHANGED <<i, cur, rest, callbacked, pending>>
    /\ UNCHANGED <<loop, handlers, sockets, process>>

\* Mutant of JsNoJob: work is always reported.
JsNoJob_AlwaysPending ==
    /\ pc = "job" /\ js[cur].jobs = 0
    /\ pending' = 1 /\ pc' = "decide"
    /\ UNCHANGED <<i, cur, rest, callbacked, armed>>
    /\ UNCHANGED <<loop, handlers, sockets, process>>

\* isere_js_poll: there is no job to execute.
JsNoJob ==
    /\ pc = "job" /\ js[cur].jobs = 0
    /\ pending' = IF armed THEN 1 ELSE 0
    /\ pc' = "decide"
    /\ UNCHANGED <<i, cur, rest, callbacked, armed>>
    /\ UNCHANGED <<loop, handlers, sockets, process>>

\* isere_js_poll executes one job, which may call cb, and may fail, after that too.
JsRunJob ==
    /\ pc = "job" /\ js[cur].jobs > 0
    /\ \E s \in AfterCode([js[cur] EXCEPT !.jobs = @ - 1]) : js' = [js EXCEPT ![cur] = s]
    /\ pending' \in {-1, 1}
    /\ UNCHANGED conn \/ HandlerCb(cur)
    /\ pc' = "decide"
    /\ UNCHANGED <<i, cur, rest, callbacked, armed>>
    /\ UNCHANGED <<loop, js_queue, file, client, counter, process>>

\* isere_js_poll with JerryScript runs every job, those that jobs queue included,
\* until one fails. (What is left in the queue then is freed with the context.)
JerryRunJobs ==
    /\ pc = "timers" /\ runtime = "jerryscript"
    /\ \E left \in 0..js[cur].work : js' = [js EXCEPT ![cur] = [NoJs EXCEPT !.work = left]]
    /\ \/ pending' = 0 /\ UNCHANGED conn
       \/ pending' \in {0, -1} /\ js[cur].jobs > 0 /\ JerryCb(cur)
       \/ pending' = -1 /\ js[cur].jobs > 0 /\ UNCHANGED conn
    /\ pc' = "decide"
    /\ UNCHANGED <<i, cur, rest, callbacked, armed>>
    /\ UNCHANGED <<loop, js_queue, file, client, counter, process>>

Decided == pc' = "js" /\ cur' = NULL /\ callbacked' = FALSE /\ pending' = 0 /\ armed' = FALSE
           /\ UNCHANGED <<i, rest>>

\* The handler has not answered and has work left: it waits for its next turn.
JsRequeue ==
    /\ pc = "decide" /\ ~callbacked /\ pending > 0
    /\ js_queue' = QueueInsertTail(js_queue, JsQueue, cur)
    /\ Decided
    /\ UNCHANGED <<loop, conn, js, sockets, process>>

\* A job failed before the handler answered: the connection is dropped.
JsFail ==
    /\ pc = "decide" /\ ~callbacked /\ pending < 0
    /\ CleanupConn(loop, cur)
    /\ Decided
    /\ UNCHANGED <<answers, process>>

\* __httpd_writeback, then the connection is closed.
JsAnswer ==
    /\ pc = "decide" /\ (callbacked \/ pending = 0)
    /\ Writeback(cur)
    /\ CleanupConn(loop, cur)
    /\ Decided
    /\ UNCHANGED process

-----------------------------------------------------------------------------
Task == \/ Start \/ StartFails
        \/ BootListen \/ BootFails \/ PollBegin \/ Drain \/ PollReady \/ PollInterrupted \/ PollError
        \/ SkipEntry \/ PollEnd \/ AcceptRefused
        \/ \E c \in Conn, f \in Fd : Accept(c, f)
        \/ \E c \in Conn : AcceptNoMemory(c) \/ RecvInterrupted(c) \/ RecvEnd(c)
        \/ \E c \in Conn, chunk \in Chunks : Recv(c, chunk)
        \/ ParseError \/ ParseEnd \/ NotFound \/ RunHandler
        \/ JsEmpty \/ JsTake \/ JsPollTimers \/ JsNoJob \/ JsRunJob \/ JerryRunJobs
        \/ JsRequeue \/ JsFail \/ JsAnswer

Environment == \/ SigInt \/ ExporterLoads \/ ExporterStores
               \/ \E c \in Conn : Connect(c) \/ Send(c) \/ HangUp(c) \/ TimerFires(c)

Next == Task \/ Environment

Spec == Init /\ [][Next]_vars

\* The task never stops between two steps and timers expire (the scheduler);
\* poll() and recv() are not interrupted for ever, and what a client sends in
\* one go ends (the system); nobody has to connect, send or hang up.
Fairness ==
    /\ WF_vars(Task) /\ SF_vars(PollReady)
    /\ \A c \in Conn : /\ WF_vars(TimerFires(c))
                       /\ SF_vars(RecvEnd(c))
                       /\ SF_vars(\E chunk \in Chunks : Recv(c, chunk) /\ ~net'[c].bytes)

FairSpec == Spec /\ Fairness

-----------------------------------------------------------------------------
Live(c) == conn[c].mem = "live"
Linked(c) == ~QueueEmpty(js_queue, c)
InHand(c) == cur = c /\ pc \in {"timers", "job", "decide"}

\* js_queue is a well-formed list, and what it leads to is always an allocated
\* connection whose JavaScript context exists: neither __httpd_cleanup_conn nor
\* a second message leaves a freed connection where the js loop finds it.
QueueSafe ==
    LET sound == {c \in Conn : Live(c)} \cup {JsQueue}
    IN  /\ \A n \in sound : js_queue.next[n] \in sound /\ js_queue.prev[n] \in sound
        /\ QueueLinked(js_queue, sound)
        /\ \A c \in Conn : Live(c) /\ Linked(c) => conn[c].initialized

\* No live connection is forgotten: either its socket is watched and no handler
\* runs for it, or its handler's context is in js_queue or in the js loop's
\* hands, and its socket is not watched; a freed connection is in neither place.
NoOrphan ==
    \A c \in Conn :
        LET watched == c \in {loop.watchers[f] : f \in Fd}
        IN  /\ Live(c) => (watched <=> ~conn[c].initialized)
            /\ Live(c) /\ conn[c].initialized => (Linked(c) <=> ~InHand(c))
            /\ ~Live(c) => ~watched /\ ~InHand(c)

\* Every live connection owns an open descriptor of its own, and every accepted socket
\* belongs to a live connection: no descriptor is leaked or closed for another
\* connection that reused it. On Linux __num_of_tcp_conns is the number of connections
\* less the closes that ended none (the exporter's, and second cleanups), as long as
\* these are no more and no race has lost a count: the limit is exceeded by what they
\* took off, and by nothing else.
SocketsAccounted ==
    LET accepted == Cardinality({f \in Fd : file[f] \in Conn})
    IN  /\ \A c \in Conn : Live(c) <=> \E f \in Fd : file[f] = c
        /\ \A f \in Fd : file[f] \in Conn => loop.fd[file[f]] = f
        /\ port = "linux" /\ ~raced => /\ uncounted <= accepted => numConns = accepted - uncounted
                                       /\ accepted <= MaxConns + uncounted

\* The parser goes on in a connection that was freed only behind a 404, and cleaning
\* it up once more does no harm to another one: its socket is closed, nobody has its
\* descriptor, it is not watched for it, and neither in js_queue nor with a context.
FreedConfined ==
    pc = "parse" /\ rest # <<>> /\ ~Live(cur) =>
        /\ answers[cur] \in {<<"404">>, <<"cut">>} /\ net[cur].state = "closed"
        /\ file[loop.fd[cur]] = NULL /\ cur \notin {loop.watchers[f] : f \in Fd}
        /\ ~conn[cur].initialized /\ \A n \in {c \in Conn : Live(c)} \cup {JsQueue} : js_queue.next[n] # cur

\* A callback never gets the events of an earlier socket with the same
\* descriptor: the watcher of an entry that has events to report was already
\* registered when poll() was called.
FreshEvents ==
    InRange /\ Entry.fd # NULL /\ WatcherAt(loop, i) # NULL /\ EventsAt(loop, i) # {}
        => QueueEmpty(loop.queue, WatcherAt(loop, i))

\* Every connection as the clients of HttpdService see it.
Phase(c) == CASE conn[c].mem = "freed" -> "closed"
              [] conn[c].mem = "live"  -> IF conn[c].initialized THEN "handling" ELSE "open"
              [] conn[c].mem = "none"  -> IF net[c].state = "closed" THEN "closed" ELSE "outside"

Service == INSTANCE HttpdService WITH phase <- [c \in Conn |-> Phase(c)]

\* The task, its two queues and its watchers implement HttpdService: one
\* request and at most one response per connection, and nothing is sent on a
\* connection that was closed.
RefinesService == Service!ServiceSpec

\* A request whose handler was started is answered or dropped, and its
\* connection closed, however the timers and the other clients interleave.
HandlerEnds == \A c \in Observed : conn[c].initialized ~> (~conn[c].initialized \/ should_exit)

\* Bytes a client sent on an accepted connection reach the parser, or the
\* connection is closed, whatever was closed, invalidated and reused before.
InputRead ==
    \A c \in Observed : (net[c].state = "open" /\ net[c].bytes)
                    ~> ((pc = "parse" /\ cur = c) \/ net[c].state = "closed" \/ should_exit)

\* A client that hangs up before its request is complete does not keep its
\* connection: what it sent is read, then the connection is closed and freed.
HangUpSeen ==
    \A c \in Observed : (net[c].state = "open" /\ net[c].eof)
                    ~> (net[c].state = "closed" \/ should_exit)
=============================================================================
