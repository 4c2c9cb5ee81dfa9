------------------------------- MODULE Timers --------------------------------
(***************************************************************************)
(* setTimeout and clearTimeout of one QuickJS runtime                      *)
(* (polyfills/quickjs/timer.c), the FreeRTOS timers behind them, and the   *)
(* two loops over the slots: js_runtime_poll and the deinit of the         *)
(* context. JavaScript runs in the httpd task and in the timer daemon. The *)
(* daemon has the highest priority and there is one core (Linux): it       *)
(* preempts the task between any two of its steps, is preempted by none,   *)
(* and has carried out every command before the task goes on.              *)
(*                                                                         *)
(* A call of setTimeout has an identity, which names the function it was   *)
(* given and the FreeRTOS timer it makes. Calls of the QuickJS API are     *)
(* atomic.                                                                 *)
(***************************************************************************)
EXTENDS Integers, Sequences, FiniteSets
CONSTANTS Timer,         \* the calls of setTimeout
          NULL,
          MaxTimers,     \* ISERE_JS_POLYFILLS_MAX_TIMERS
          QueueLength,   \* configTIMER_QUEUE_LENGTH
          MaxJobs        \* bound: the jobs queued at a time

ASSUME TimersNames == NULL \notin Timer
ASSUME TimersNumbers == /\ MaxTimers \in Nat \ {0} /\ QueueLength \in Nat \ {0}
                        /\ MaxJobs \in Nat

Slots == 1..MaxTimers

VARIABLES
    pc,         \* where the httpd task is
    i,          \* the slot a loop has reached
    handle,     \* the timer deinit has read from its slot
    found,      \* tmrerr: the scan has met an active timer
    pending,    \* what js_runtime_poll returns
    jobs,       \* the jobs of the runtime
    slot,       \* ctx->timers
    id,         \* pvTimerGetTimerID
    state,      \* the FreeRTOS timer of each call
    refs,       \* references to each function the slots have taken and not freed
    commands,   \* the queue of the timer daemon
    daemon,     \* what the timer daemon is doing
    running,    \* the timer whose callback runs
    cleared,    \* the timers the task's code has cleared
    lost,       \* the timers any code has cleared, or failed to start
    late,       \* the calls made after the deinit has begun
    overtaken   \* a callback has run during the scan
task == <<pc, i, handle, found, pending>>
history == <<cleared, lost, late, overtaken>>
vars == <<task, jobs, slot, id, state, refs, commands, daemon, running, history>>

Deinit == {"read", "stop", "delete", "release"}

TypeOK ==
    /\ pc \in {"code", "wait", "scan", "job", "polled", "freed"} \cup Deinit
    /\ i \in 1..(MaxTimers + 1) /\ handle \in Timer \cup {NULL}
    /\ found \in BOOLEAN /\ pending \in -1..1 /\ jobs \in 0..MaxJobs
    /\ slot \in [Slots -> [timer : Timer \cup {NULL}, func : Timer \cup {NULL}]]
    /\ id \in [Timer -> Slots]
    /\ state \in [Timer -> {"unused", "failed", "dormant", "active", "deleted"}]
    /\ refs \in [Timer -> -1..1]
    /\ commands \in Seq([cmd : {"start", "stop", "delete"}, timer : Timer])
    /\ Len(commands) <= QueueLength
    /\ daemon \in {"blocked", "callback", "commands"} /\ running \in Timer \cup {NULL}
    /\ cleared \subseteq lost /\ lost \subseteq Timer /\ late \subseteq Timer /\ overtaken \in BOOLEAN

Empty == [timer |-> NULL, func |-> NULL]

\* isere_js_polyfill_timer_init; then the handler is evaluated.
Init ==
    /\ pc = "code" /\ i = 1 /\ handle = NULL /\ found = FALSE /\ pending = 0 /\ jobs = 0
    /\ slot = [s \in Slots |-> Empty]
    /\ id = [t \in Timer |-> 1] /\ state = [t \in Timer |-> "unused"]
    /\ refs = [t \in Timer |-> 0]
    /\ commands = <<>> /\ daemon = "blocked" /\ running = NULL
    /\ cleared = {} /\ lost = {} /\ late = {} /\ overtaken = FALSE

-----------------------------------------------------------------------------
(* JavaScript, in the task or in a callback.                               *)

TaskRuns == daemon = "blocked"
CodeRuns == daemon = "callback" \/ (TaskRuns /\ pc = "code")

HasRoom == Len(commands) < QueueLength

\* A command wakes the daemon, unless it is the daemon's own.
Send(c, t) == /\ commands' = Append(commands, [cmd |-> c, timer |-> t])
              /\ daemon' = IF daemon = "blocked" THEN "commands" ELSE daemon

\* Mutant of FreeSlots: the loop goes one slot too far, behind the array.
FreeSlots_OneMore == {s \in 1..(MaxTimers + 1) : s \notin Slots \/ slot[s].timer = NULL}

FreeSlots == {s \in Slots : slot[s].timer = NULL}

\* Mutant of GetFreeSlot: the last slot is taken for free.
GetFreeSlot_Last == CHOOSE s \in Slots : \A r \in Slots : r <= s

GetFreeSlot == CHOOSE s \in FreeSlots : \A r \in FreeSlots : s <= r

\* The slot is taken and the function referenced, also if what follows fails.
Takes(t, timer) ==
    /\ CodeRuns /\ state[t] = "unused" /\ FreeSlots # {}
    /\ slot' = [slot EXCEPT ![GetFreeSlot] = [timer |-> timer, func |-> t]]
    /\ id' = [id EXCEPT ![t] = GetFreeSlot]
    /\ refs' = [refs EXCEPT ![t] = 1]
    /\ late' = IF pc \in Deinit THEN late \cup {t} ELSE late
    /\ UNCHANGED <<task, jobs, running, cleared, overtaken>>

SetTimeout(t) == /\ Takes(t, t)
                 /\ state' = [state EXCEPT ![t] = "dormant"]
                 /\ HasRoom /\ Send("start", t)
                 /\ UNCHANGED lost

\* xTimerStart fails on a full queue: the slot keeps a timer that never runs.
StartFails(t) == /\ Takes(t, t)
                 /\ state' = [state EXCEPT ![t] = "dormant"]
                 /\ ~HasRoom /\ UNCHANGED <<commands, daemon>>
                 /\ lost' = lost \cup {t}

\* xTimerCreate fails.
CreateFails(t) == /\ Takes(t, NULL)
                  /\ state' = [state EXCEPT ![t] = "failed"]
                  /\ UNCHANGED <<commands, daemon, lost>>

\* Mutant of ClearTimeout: nothing is sent.
ClearTimeout_Forgets(t) ==
    /\ CodeRuns /\ state[t] \in {"dormant", "active"}
    /\ cleared' = IF TaskRuns THEN cleared \cup {t} ELSE cleared
    /\ lost' = lost \cup {t}
    /\ UNCHANGED <<task, jobs, slot, id, state, refs, commands, daemon, running, late, overtaken>>

\* The slot stays taken. On a full queue the command is lost. (A callback during the
\* deinit may still name a timer that was deleted: a read of freed memory, left out.)
ClearTimeout(t) ==
    /\ CodeRuns /\ state[t] \in {"dormant", "active"}
    /\ IF HasRoom THEN Send("stop", t) ELSE UNCHANGED <<commands, daemon>>
    /\ cleared' = IF TaskRuns THEN cleared \cup {t} ELSE cleared
    /\ lost' = lost \cup {t}
    /\ UNCHANGED <<task, jobs, slot, id, state, refs, running, late, overtaken>>

\* A promise is resolved.
QueueJob == /\ CodeRuns /\ jobs < MaxJobs
            /\ jobs' = jobs + 1
            /\ UNCHANGED <<task, slot, id, state, refs, commands, daemon, running, history>>

-----------------------------------------------------------------------------
(* The timer daemon.                                                       *)

\* The callback of t is called; a runtime that is freed has none to call.
Calls(t) == /\ pc # "freed"
            /\ state' = [state EXCEPT ![t] = "dormant"]
            /\ daemon' = "callback" /\ running' = t
            /\ overtaken' = (overtaken \/ pc = "scan")
            /\ UNCHANGED <<task, jobs, slot, id, refs, cleared, lost, late>>

Expire(t) == /\ daemon = "blocked" /\ state[t] = "active"
             /\ Calls(t)
             /\ UNCHANGED commands

\* Mutant of CallbackEnds: the function is kept in the slot.
CallbackEnds_KeepsFunc ==
    /\ daemon = "callback" /\ daemon' = "commands" /\ running' = NULL
    /\ LET s == id[running]
       IN  /\ refs' = [refs EXCEPT ![slot[s].func] = @ - 1]
           /\ slot' = [slot EXCEPT ![s].timer = NULL]
    /\ UNCHANGED <<task, jobs, id, state, commands, history>>

\* The function has returned: it is freed and the slot emptied.
CallbackEnds ==
    /\ daemon = "callback" /\ daemon' = "commands" /\ running' = NULL
    /\ LET s == id[running]
       IN  /\ refs' = [refs EXCEPT ![slot[s].func] = @ - 1]
           /\ slot' = [slot EXCEPT ![s] = Empty]
    /\ UNCHANGED <<task, jobs, id, state, commands, history>>

Next1(c) == daemon = "commands" /\ commands # <<>> /\ Head(commands).cmd = c

Becomes(s) == /\ state' = [state EXCEPT ![Head(commands).timer] = s]
              /\ commands' = Tail(commands)
              /\ UNCHANGED <<task, jobs, slot, id, refs, daemon, running, history>>

Starts == Next1("start") /\ Becomes("active")
Stops == Next1("stop") /\ Becomes("dormant")
Deletes == Next1("delete") /\ Becomes("deleted")

\* The time of a timer that waited in the queue has come already.
StartsLate == /\ Next1("start") /\ Calls(Head(commands).timer)
              /\ commands' = Tail(commands)

DaemonBlocks == /\ daemon = "commands" /\ commands = <<>>
                /\ daemon' = "blocked"
                /\ UNCHANGED <<task, jobs, slot, id, state, refs, commands, running, history>>

-----------------------------------------------------------------------------
(* The httpd task.                                                         *)

Goto(there) == TaskRuns /\ pc' = there
            /\ UNCHANGED <<slot, id, state, daemon, running, cleared, lost, late>>

\* The evaluation of the handler, or a job, is over.
CodeEnds == /\ pc = "code"
            /\ Goto(IF pending = 0 THEN "wait" ELSE "polled")
            /\ UNCHANGED <<i, handle, found, pending, jobs, refs, commands, overtaken>>

BeginPoll == /\ pc = "wait"
             /\ Goto("scan")
             /\ i' = 1 /\ found' = FALSE /\ pending' = 0 /\ overtaken' = FALSE
             /\ UNCHANGED <<handle, jobs, refs, commands>>

ActiveIn(s) == slot[s].timer # NULL /\ state[slot[s].timer] = "active"

\* Mutant of Scan: the last slot is not looked at.
Scan_OneShort ==
    /\ pc = "scan"
    /\ found' = ActiveIn(i)
    /\ IF found' \/ i + 1 >= MaxTimers THEN Goto("job") /\ UNCHANGED i
                                       ELSE Goto("scan") /\ i' = i + 1
    /\ UNCHANGED <<handle, pending, jobs, refs, commands, overtaken>>

\* isere_js_polyfill_timer_poll looks at one slot.
Scan == /\ pc = "scan"
        /\ found' = ActiveIn(i)
        /\ IF found' \/ i = MaxTimers THEN Goto("job") /\ UNCHANGED i
                                      ELSE Goto("scan") /\ i' = i + 1
        /\ UNCHANGED <<handle, pending, jobs, refs, commands, overtaken>>

RunJob == /\ pc = "job" /\ jobs > 0
          /\ Goto("code")
          /\ jobs' = jobs - 1 /\ pending' \in {1, -1}
          /\ UNCHANGED <<i, handle, found, refs, commands, overtaken>>

NoJob == /\ pc = "job" /\ jobs = 0
         /\ Goto("polled")
         /\ pending' = IF found THEN 1 ELSE 0
         /\ UNCHANGED <<i, handle, found, jobs, refs, commands, overtaken>>

Requeue == /\ pc = "polled" /\ pending = 1
           /\ Goto("wait")
           /\ UNCHANGED <<i, handle, found, pending, jobs, refs, commands, overtaken>>

\* The handler has answered before this turn, has failed or has nothing left.
BeginDeinit == /\ pc = "polled"
               /\ Goto("read") /\ i' = 1
               /\ UNCHANGED <<handle, found, pending, jobs, refs, commands, overtaken>>

ReadSlot == /\ pc = "read"
            /\ handle' = slot[i].timer
            /\ Goto(IF handle' = NULL THEN "release" ELSE "stop")
            /\ UNCHANGED <<i, found, pending, jobs, refs, commands, overtaken>>

\* Mutant of Stop: the timer is not stopped, nor deleted.
Stop_Skipped == /\ pc = "stop"
                /\ Goto("release")
                /\ UNCHANGED <<i, handle, found, pending, jobs, refs, commands, overtaken>>

Commands(c, there) ==
    /\ TaskRuns /\ pc' = there
    /\ Send(c, handle)
    /\ UNCHANGED <<i, handle, found, pending, jobs, slot, id, state, refs, running, history>>

Stop == pc = "stop" /\ Commands("stop", "delete")

Delete == pc = "delete" /\ Commands("delete", "release")

\* The function of the slot is freed, which the slot keeps.
Release ==
    /\ pc = "release"
    /\ LET f == slot[i].func
       IN  refs' = IF f = NULL THEN refs ELSE [refs EXCEPT ![f] = @ - 1]
    /\ Goto(IF i = MaxTimers THEN "freed" ELSE "read") /\ i' = i + 1
    /\ UNCHANGED <<handle, found, pending, jobs, commands, overtaken>>

Code == QueueJob \/ \E t \in Timer : SetTimeout(t) \/ StartFails(t) \/ CreateFails(t) \/ ClearTimeout(t)

Daemon == \/ CallbackEnds \/ Starts \/ Stops \/ Deletes \/ StartsLate \/ DaemonBlocks
          \/ \E t \in Timer : Expire(t)

Task == \/ CodeEnds \/ BeginPoll \/ Scan \/ RunJob \/ NoJob \/ Requeue
        \/ BeginDeinit \/ ReadSlot \/ Stop \/ Delete \/ Release

Next == Code \/ Daemon \/ Task

Spec == Init /\ [][Next]_vars

-----------------------------------------------------------------------------
Active(t) == state[t] = "active"
Started(t) == \E k \in DOMAIN commands : commands[k] = [cmd |-> "start", timer |-> t]

\* A timer that runs, or is about to, has the slot its callback will look into,
\* with the function it was made for: slots are reused by code of two tasks, but
\* no callback calls, frees or empties what belongs to another call. And until the
\* deinit every slot that is taken is such a timer's, or was lost: clearTimeout
\* never gives a slot back, nor does a setTimeout whose xTimerStart fails.
SlotsMatch ==
    /\ \A t \in Timer : Active(t) \/ Started(t) \/ running = t
                        => slot[id[t]] = [timer |-> t, func |-> t]
    /\ \A s \in Slots : slot[s].timer # NULL /\ pc \notin Deinit \cup {"freed"}
                        => LET t == slot[s].timer
                           IN  Active(t) \/ Started(t) \/ running = t \/ t \in lost

\* A function is freed once, by its callback or by the deinit, even where the
\* timer fires between two steps of the deinit, and none is left when the
\* runtime is freed. (Except: functions whose timer could not be made are lost
\* with the next call, and calls made by a callback during the deinit.)
FuncsFreedOnce ==
    \A t \in Timer \ late :
        /\ refs[t] >= 0 /\ (running = t => refs[t] = 1)
        /\ pc = "freed" /\ state[t] # "failed" => refs[t] = 0

\* When the runtime is freed, no timer is left to call into it, but those a
\* callback has set while the deinit went through the slots.
OnlyLateSurvive == pc = "freed" => {t \in Timer : Active(t)} \subseteq late

\* A timer that the handler's own code has cleared never calls back.
ClearedQuiet == running # NULL => running \notin cleared

\* js_runtime_poll reports that nothing is pending only when nothing is, unless
\* a callback has run while it went through the slots.
PollMissesOnlyOvertaken ==
    pc = "polled" /\ pending = 0 /\ ~overtaken => jobs = 0 /\ ~\E t \in Timer : Active(t)
=============================================================================
