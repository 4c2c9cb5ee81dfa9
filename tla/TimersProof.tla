----------------------------- MODULE TimersProof -----------------------------
(***************************************************************************)
(* setTimeout for any number of timers, slots, jobs and commands, by the   *)
(* inductive invariant IInv. A timer is busy from its start command to the *)
(* end of its callback; a busy timer has its slot. The rest says where the *)
(* two loops over the slots are when a busy timer may still be met: the    *)
(* scan of js_runtime_poll, unless a callback overtakes it, and the        *)
(* deinit, for the timers that were set before it began.                   *)
(***************************************************************************)
EXTENDS Timers, WellFoundedInduction, TLAPS

Made == {"dormant", "active", "deleted"}
Ending == Deinit \cup {"freed"}

Busy(t) == Active(t) \/ Started(t) \/ running = t

\* The only command is to stop t, and the daemon is about to carry it out.
Stopping(t) == daemon = "commands" /\ commands = <<[cmd |-> "stop", timer |-> t]>>

\* The daemon, its callback and its queue.
DaemonOK ==
    /\ daemon = "blocked" => commands = <<>>
    /\ daemon = "callback" <=> running # NULL
    /\ \A t \in Timer : running = t => state[t] = "dormant" /\ ~Started(t) /\ pc # "freed"

\* A start command comes before any other command for its timer, once.
CommandsOK ==
    \A k \in DOMAIN commands :
        LET t == commands[k].timer
        IN  /\ state[t] \in Made
            /\ commands[k].cmd = "start" =>
                  /\ state[t] = "dormant"
                  /\ \A j \in DOMAIN commands : j < k => commands[j].timer # t
            /\ commands[k].cmd = "stop" => t \in lost \/ pc \in Ending
            /\ commands[k].cmd = "delete" => pc \in Ending

\* What a slot holds; one whose timer could not be made looks free.
SlotsOK ==
    \A s \in Slots :
        /\ slot[s].timer # NULL => /\ slot[s].func = slot[s].timer
                                   /\ state[slot[s].timer] \in Made
        /\ slot[s].func # NULL => /\ id[slot[s].func] = s
                                  /\ state[slot[s].func] # "unused"
        /\ slot[s].timer = NULL /\ slot[s].func # NULL => state[slot[s].func] = "failed"

\* What SlotsMatch says, of busy timers.
Matched ==
    /\ \A t \in Timer : Busy(t) => slot[id[t]] = [timer |-> t, func |-> t]
    /\ pc \notin Ending => \A s \in Slots, t \in Timer :
                               slot[s].timer = t => Busy(t) \/ t \in lost

\* Where the loops are.
LoopsOK ==
    /\ pc = "scan" \/ pc \in Deinit => i \in Slots
    /\ pc = "freed" => i = MaxTimers + 1
    /\ pc \in {"stop", "delete"} => handle # NULL /\ state[handle] \in Made

\* The slots the deinit has released.
Released(s) == pc \in Ending /\ s < i

Held(t) == slot[id[t]].func = t

\* The references to a function, while its slot has it and after.
RefsOK ==
    \A t \in Timer :
        /\ state[t] = "unused" => refs[t] = 0 /\ ~Held(t)
        /\ state[t] = "failed" => refs[t] \in 0..1
        /\ Held(t) => refs[t] \in 0..1
        /\ Held(t) /\ ~Released(id[t]) => refs[t] = 1
        /\ Held(t) /\ Released(id[t]) /\ t \notin late => refs[t] = 0
        /\ ~Held(t) /\ t \notin late /\ state[t] # "failed" => refs[t] = 0

\* A timer set before the deinit is busy only until the deinit has stopped it.
DeinitStops ==
    pc \in Ending =>
        \A t \in Timer \ late : Busy(t) =>
            /\ id[t] >= i
            /\ id[t] = i => \/ pc = "read"
                            \/ pc = "stop" /\ handle = t
                            \/ pc = "delete" /\ handle = t /\ Stopping(t)

\* What the task's own code has cleared is busy only until the daemon has stopped it.
ClearStops == \A t \in cleared : state[t] \in Made /\ (Busy(t) => Active(t) /\ Stopping(t))

\* A scan that no callback overtook leaves no busy timer behind.
ScanMisses ==
    ~overtaken =>
        /\ pc = "scan" => daemon = "blocked" /\ \A t \in Timer : Busy(t) => id[t] >= i
        /\ pc = "job" /\ ~found => daemon = "blocked" /\ \A t \in Timer : ~Busy(t)
        /\ pc = "polled" /\ pending = 0 =>
              daemon = "blocked" /\ jobs = 0 /\ \A t \in Timer : ~Busy(t)

IInv == /\ TypeOK /\ DaemonOK /\ CommandsOK /\ SlotsOK /\ LoopsOK /\ Matched
        /\ RefsOK /\ DeinitStops /\ ClearStops /\ ScanMisses

-----------------------------------------------------------------------------
(* Lemmas about the queue of commands and the slots.                       *)

Command == [cmd : {"start", "stop", "delete"}, timer : Timer]

\* A command is added behind the others.
LEMMA SendQueue ==
    ASSUME NEW c \in {"start", "stop", "delete"}, NEW t \in Timer,
           commands \in Seq(Command), commands' = Append(commands, [cmd |-> c, timer |-> t])
    PROVE  /\ commands' \in Seq(Command)
           /\ Len(commands') = Len(commands) + 1
           /\ DOMAIN commands' = DOMAIN commands \cup {Len(commands) + 1}
           /\ DOMAIN commands = 1..Len(commands) /\ Len(commands) \in Nat
           /\ \A k \in DOMAIN commands : commands'[k] = commands[k]
           /\ commands'[Len(commands) + 1] = [cmd |-> c, timer |-> t]
           /\ \A u \in Timer : Started(u)' <=> Started(u) \/ (c = "start" /\ u = t)
<1>1. [cmd |-> c, timer |-> t] \in Command
  BY DEF Command
<1>2. /\ commands' \in Seq(Command)
      /\ Len(commands') = Len(commands) + 1
      /\ DOMAIN commands' = DOMAIN commands \cup {Len(commands) + 1}
      /\ DOMAIN commands = 1..Len(commands) /\ Len(commands) \in Nat
      /\ \A k \in DOMAIN commands : commands'[k] = commands[k]
      /\ commands'[Len(commands) + 1] = [cmd |-> c, timer |-> t]
  BY <1>1
<1>3. ASSUME NEW u \in Timer PROVE Started(u)' <=> Started(u) \/ (c = "start" /\ u = t)
  BY <1>2 DEF Started
<1> QED
  BY <1>2, <1>3

\* The daemon takes the first command.
LEMMA TakeQueue ==
    ASSUME commands \in Seq(Command), commands # <<>>, commands' = Tail(commands)
    PROVE  /\ commands' \in Seq(Command)
           /\ Len(commands') = Len(commands) - 1 /\ Len(commands) \in Nat
           /\ 1 \in DOMAIN commands /\ Head(commands) = commands[1] /\ commands[1] \in Command
           /\ \A k \in DOMAIN commands' : k \in Nat /\ k >= 1 /\ k + 1 \in DOMAIN commands
                                          /\ commands'[k] = commands[k + 1]
           /\ \A k \in DOMAIN commands : k # 1 => k - 1 \in DOMAIN commands'
                                                  /\ commands'[k - 1] = commands[k]
OBVIOUS

\* Once taken, a start command has no other.
LEMMA TakeStarted ==
    ASSUME TypeOK, CommandsOK, commands # <<>>, commands' = Tail(commands), NEW u \in Timer
    PROVE  Started(u)' <=> Started(u) /\ ~(Head(commands).cmd = "start" /\ Head(commands).timer = u)
<1>1. commands \in Seq(Command)
  BY DEF TypeOK, Command
<1>2. ASSUME Started(u)' PROVE Started(u) /\ ~(Head(commands).cmd = "start" /\ Head(commands).timer = u)
  <2>1. PICK k \in DOMAIN commands' : commands'[k] = [cmd |-> "start", timer |-> u]
    BY <1>2 DEF Started
  <2>2. k \in Nat /\ k >= 1 /\ k + 1 \in DOMAIN commands /\ commands[k + 1] = [cmd |-> "start", timer |-> u]
        /\ 1 \in DOMAIN commands /\ Head(commands) = commands[1]
    BY <1>1, <2>1, TakeQueue
  <2> QED
    BY <2>2 DEF Started, CommandsOK
<1>3. ASSUME Started(u), ~(Head(commands).cmd = "start" /\ Head(commands).timer = u) PROVE Started(u)'
  <2>1. PICK k \in DOMAIN commands : commands[k] = [cmd |-> "start", timer |-> u]
    BY <1>3 DEF Started
  <2>2. k # 1
    BY <1>1, <1>3, <2>1, TakeQueue
  <2>3. k - 1 \in DOMAIN commands' /\ commands'[k - 1] = [cmd |-> "start", timer |-> u]
    BY <1>1, <2>1, <2>2, TakeQueue
  <2> QED
    BY <2>3 DEF Started
<1> QED
  BY <1>2, <1>3

\* A timer with a start command has been made, and is not active yet.
LEMMA StartedDormant ==
    ASSUME CommandsOK, NEW u \in Timer, Started(u)
    PROVE  state[u] = "dormant"
BY DEF CommandsOK, Started

\* isere_js_polyfill_timer_settimeout finds a slot, if one is free.
LEMMA FreeSlot ==
    ASSUME TypeOK, FreeSlots # {}
    PROVE  GetFreeSlot \in Slots /\ slot[GetFreeSlot].timer = NULL
<1>1. FreeSlots \subseteq Nat
  BY TimersNumbers DEF FreeSlots, Slots
<1>2. PICK s \in FreeSlots : \A r \in FreeSlots : ~(<<r, s>> \in OpToRel(<, Nat))
  BY <1>1, NatLessThanWellFounded, WFMin
<1>3. \A r \in FreeSlots : s <= r
  <2> SUFFICES ASSUME NEW r \in FreeSlots, r < s PROVE FALSE
    BY <1>1
  <2>1. <<r, s>> \in Nat \X Nat /\ <<r, s>>[1] < <<r, s>>[2]
    BY <1>1
  <2>2. <<r, s>> \in OpToRel(<, Nat)
    BY <2>1, Zenon DEF OpToRel
  <2> QED
    BY <1>2, <2>2
<1>4. GetFreeSlot \in FreeSlots
  BY <1>3 DEF GetFreeSlot
<1> QED
  BY <1>4 DEF FreeSlots

-----------------------------------------------------------------------------
(* Every step keeps IInv.                                                  *)

LEMMA InitIInv == Init => IInv
<1> SUFFICES ASSUME Init PROVE IInv
  OBVIOUS
<1>1. 1 \in Slots /\ 1 \in 1..(MaxTimers + 1) /\ 0 \in 0..MaxJobs /\ <<>> \in Seq(Command)
  BY TimersNumbers DEF Slots
<1>2. Len(commands) <= QueueLength /\ DOMAIN commands = {}
  BY TimersNumbers DEF Init
<1>3. \A t \in Timer : ~Busy(t) /\ ~Held(t)
  BY <1>1, <1>2, TimersNames DEF Init, Busy, Active, Started, Held, Empty
<1>4. TypeOK
  <2>1. slot \in [Slots -> [timer : Timer \cup {NULL}, func : Timer \cup {NULL}]]
    BY DEF Init, Empty
  <2>2. found \in BOOLEAN /\ overtaken \in BOOLEAN
    BY Zenon DEF Init
  <2> QED
    BY <1>1, <1>2, <2>1, <2>2 DEF Init, TypeOK, Command
<1>5. DaemonOK /\ CommandsOK /\ LoopsOK /\ DeinitStops /\ ClearStops /\ ScanMisses
  BY <1>2, <1>3, TimersNames DEF Init, DaemonOK, CommandsOK, LoopsOK, DeinitStops, ClearStops, ScanMisses,
                    Deinit, Ending
<1>6. SlotsOK /\ Matched
  BY <1>3, TimersNames DEF Init, SlotsOK, Matched, Empty
<1>7. RefsOK
  BY <1>3 DEF Init, RefsOK
<1> QED
  BY <1>4, <1>5, <1>6, <1>7 DEF IInv

\* A timer that is busy has been made.
LEMMA BusyMade ==
    ASSUME IInv, NEW t \in Timer, Busy(t)
    PROVE  /\ state[t] \in {"dormant", "active"}
           /\ slot[id[t]] = [timer |-> t, func |-> t] /\ id[t] \in Slots
<1>1. state[t] \in {"dormant", "active"}
  BY StartedDormant, TimersNames DEF IInv, DaemonOK, Busy, Active
<1>2. slot[id[t]] = [timer |-> t, func |-> t] /\ id[t] \in Slots
  BY DEF IInv, TypeOK, Matched
<1> QED
  BY <1>1, <1>2

\* setTimeout takes a slot. Only where its start command is queued the timer is busy.
LEMMA TakesIInv ==
    ASSUME IInv, NEW t \in Timer, SetTimeout(t) \/ StartFails(t) \/ CreateFails(t)
    PROVE  IInv'
<1> USE DEF IInv
<1>1. PICK new \in {NULL, t}, g \in Slots :
         /\ slot[g].timer = NULL
         /\ slot' = [slot EXCEPT ![g] = [timer |-> new, func |-> t]]
         /\ id' = [id EXCEPT ![t] = g] /\ refs' = [refs EXCEPT ![t] = 1]
         /\ late' = (IF pc \in Deinit THEN late \cup {t} ELSE late)
         /\ state[t] = "unused" /\ CodeRuns
         /\ \/ /\ new = t /\ state' = [state EXCEPT ![t] = "dormant"]
               /\ HasRoom /\ Send("start", t) /\ lost' = lost
            \/ /\ new = t /\ state' = [state EXCEPT ![t] = "dormant"]
               /\ UNCHANGED <<commands, daemon>> /\ lost' = lost \cup {t}
            \/ /\ new = NULL /\ state' = [state EXCEPT ![t] = "failed"]
               /\ UNCHANGED <<commands, daemon, lost>>
  BY FreeSlot DEF SetTimeout, StartFails, CreateFails, Takes
<1>2. UNCHANGED <<pc, i, handle, found, pending, jobs, running, cleared, overtaken>>
  BY DEF SetTimeout, StartFails, CreateFails, Takes, task
<1>3. ~Busy(t) /\ ~Held(t) /\ t # NULL
  BY <1>1, BusyMade, TimersNames DEF RefsOK
<1>4. commands \in Seq(Command) /\ Len(commands) \in Nat /\ Len(commands) <= QueueLength
  BY DEF TypeOK, Command
<1>5. /\ commands' \in Seq(Command) /\ Len(commands') <= QueueLength
      /\ \A u \in Timer \ {t} : Started(u)' <=> Started(u)
      /\ \A k \in DOMAIN commands' :
            \/ k \in DOMAIN commands /\ commands'[k] = commands[k]
            \/ /\ commands'[k] = [cmd |-> "start", timer |-> t] /\ new = t
               /\ state'[t] = "dormant" /\ k = Len(commands) + 1
      /\ Started(t)' => new = t
      /\ new = t => Started(t)' \/ t \in lost'
      /\ daemon' \in {"blocked", "callback", "commands"}
      /\ daemon' = "blocked" => daemon = "blocked" /\ commands' = <<>>
      /\ daemon' = "callback" <=> daemon = "callback"
      /\ DOMAIN commands = 1..Len(commands)
  <2>1. CASE HasRoom /\ Send("start", t) /\ new = t
    <3>1. state'[t] = "dormant"
      BY <1>1, <1>3, <2>1 DEF TypeOK
    <3>2. commands' = Append(commands, [cmd |-> "start", timer |-> t])
      BY <2>1 DEF Send
    <3>3. /\ commands' \in Seq(Command)
          /\ Len(commands') = Len(commands) + 1
          /\ DOMAIN commands' = DOMAIN commands \cup {Len(commands) + 1}
          /\ DOMAIN commands = 1..Len(commands)
          /\ \A k \in DOMAIN commands : commands'[k] = commands[k]
          /\ commands'[Len(commands) + 1] = [cmd |-> "start", timer |-> t]
          /\ \A u \in Timer : Started(u)' <=> Started(u) \/ u = t
      BY <1>4, <3>2, SendQueue
    <3>4. Len(commands') <= QueueLength
      BY <1>4, <2>1, <3>3, TimersNumbers DEF HasRoom
    <3>5. /\ daemon' \in {"blocked", "callback", "commands"} /\ daemon' # "blocked"
          /\ daemon' = "callback" <=> daemon = "callback"
      BY <2>1 DEF Send, TypeOK
    <3> QED
      BY <2>1, <3>1, <3>3, <3>4, <3>5
  <2>2. CASE UNCHANGED <<commands, daemon>>
    <3>1. \A u \in Timer : Started(u)' <=> Started(u)
      BY <2>2 DEF Started
    <3>2. ~Started(t)
      BY <1>3 DEF Busy
    <3>3. new = t => t \in lost' \/ Send("start", t)
      BY <1>1, <1>3
    <3>4. ~Send("start", t)
      BY <1>4, <2>2 DEF Send
    <3> QED
      BY <1>4, <2>2, <3>1, <3>2, <3>3, <3>4 DEF TypeOK, DaemonOK
  <2> QED
    BY <1>1, <1>3, <2>1, <2>2
<1>6. /\ \A u \in Timer \ {t} : state'[u] = state[u] /\ id'[u] = id[u] /\ refs'[u] = refs[u]
      /\ state'[t] = (IF new = t THEN "dormant" ELSE "failed") /\ id'[t] = g /\ refs'[t] = 1
      /\ slot'[g] = [timer |-> new, func |-> t] /\ \A s \in Slots \ {g} : slot'[s] = slot[s]
  BY <1>1, <1>3 DEF TypeOK
<1>7. /\ \A u \in Timer \ {t} : Busy(u)' <=> Busy(u)
      /\ Busy(t)' => new = t
      /\ running # t
  BY <1>2, <1>3, <1>5, <1>6 DEF Busy, Active
<1>8. TypeOK'
  <2>1. slot' \in [Slots -> [timer : Timer \cup {NULL}, func : Timer \cup {NULL}]]
    BY <1>1 DEF TypeOK
  <2>2. /\ id' \in [Timer -> Slots] /\ refs' \in [Timer -> -1..1]
        /\ state' \in [Timer -> {"unused", "failed", "dormant", "active", "deleted"}]
    BY <1>1 DEF TypeOK
  <2>3. cleared' \subseteq lost' /\ lost' \subseteq Timer /\ late' \subseteq Timer
    BY <1>1, <1>2 DEF TypeOK
  <2> QED
    BY <1>2, <1>5, <2>1, <2>2, <2>3 DEF TypeOK, Command
<1>9. DaemonOK'
  BY <1>2, <1>5, <1>6, <1>7 DEF DaemonOK, TypeOK
<1>10. CommandsOK'
  <2> SUFFICES ASSUME NEW k \in DOMAIN commands', NEW u, u = commands'[k].timer
               PROVE  /\ state'[u] \in Made
                      /\ commands'[k].cmd = "start" =>
                            /\ state'[u] = "dormant"
                            /\ \A j \in DOMAIN commands' : j < k => commands'[j].timer # u
                      /\ commands'[k].cmd = "stop" => u \in lost' \/ pc' \in Ending
                      /\ commands'[k].cmd = "delete" => pc' \in Ending
    BY DEF CommandsOK
  <2>1. CASE k \in DOMAIN commands /\ commands'[k] = commands[k]
    <3>1. /\ state[u] \in Made /\ u \in Timer /\ u # t
      <4>1. commands[k] \in Command
        BY <1>4, <2>1
      <4>2. u \in Timer /\ state[u] \in Made
        BY <2>1, <4>1 DEF CommandsOK, Command
      <4> QED
        BY <1>1, <4>2 DEF Made
    <3>2. ASSUME NEW j \in DOMAIN commands', j < k
          PROVE  j \in DOMAIN commands /\ commands'[j] = commands[j]
      BY <1>4, <1>5, <2>1, <3>2
    <3> QED
      BY <1>1, <1>2, <1>6, <2>1, <3>1, <3>2 DEF CommandsOK
  <2>2. CASE /\ commands'[k] = [cmd |-> "start", timer |-> t] /\ state'[t] = "dormant"
             /\ k = Len(commands) + 1
    <3>1. ASSUME NEW j \in DOMAIN commands', j < k
          PROVE  commands'[j].timer # t
      BY <1>1, <1>4, <1>5, <2>2, <3>1 DEF CommandsOK, Made
    <3> QED
      BY <2>2, <3>1 DEF Made
  <2> QED
    BY <1>5, <2>1, <2>2
<1>11. SlotsOK'
  BY <1>1, <1>3, <1>6 DEF SlotsOK, Made, TypeOK
<1>12. Matched'
  <2>1. ASSUME NEW u \in Timer, Busy(u)' PROVE slot'[id'[u]] = [timer |-> u, func |-> u]
    <3>1. CASE u = t
      BY <1>6, <1>7, <2>1, <3>1
    <3>2. CASE u # t
      <4>1. slot[id[u]] = [timer |-> u, func |-> u] /\ id[u] \in Slots
        BY <1>7, <2>1, <3>2, BusyMade
      <4> QED
        BY <1>1, <1>6, <3>2, <4>1, TimersNames
    <3> QED
      BY <3>1, <3>2
  <2>2. ASSUME pc' \notin Ending, NEW s \in Slots, NEW u \in Timer, slot'[s].timer = u
        PROVE  Busy(u)' \/ u \in lost'
    <3>1. CASE s = g
      BY <1>3, <1>5, <1>6, <2>2, <3>1, TimersNames DEF Busy
    <3>2. CASE s # g
      <4>1. slot[s].timer = u
        BY <1>6, <2>2, <3>2
      <4>2. u # t
        BY <1>1, <4>1, TimersNames DEF SlotsOK, Made
      <4> QED
        BY <1>1, <1>2, <1>7, <2>2, <4>1, <4>2 DEF Matched
    <3> QED
      BY <3>1, <3>2
  <2> QED
    BY <2>1, <2>2 DEF Matched
<1>13. LoopsOK'
  BY <1>1, <1>2, <1>6 DEF LoopsOK, TypeOK, Made
<1>14. ASSUME NEW u \in Timer \ {t} PROVE Stopping(u) => Stopping(u)'
  <2>1. CASE Stopping(u)
    <3>1. daemon = "commands" /\ ~CodeRuns
      BY <2>1 DEF Stopping, CodeRuns, TaskRuns
    <3> QED
      BY <1>1, <3>1
  <2> QED
    BY <2>1
<1>15. DeinitStops'
  <2> SUFFICES ASSUME pc' \in Ending, NEW u \in Timer \ late', Busy(u)'
               PROVE  /\ id'[u] >= i'
                      /\ id'[u] = i' => \/ pc' = "read"
                                        \/ pc' = "stop" /\ handle' = u
                                        \/ pc' = "delete" /\ handle' = u /\ Stopping(u)'
    BY DEF DeinitStops
  <2>1. u # t /\ u \notin late
    <3>1. pc # "freed"
      BY <1>1 DEF CodeRuns, TaskRuns, DaemonOK, TypeOK
    <3>2. pc \in Deinit
      BY <1>2, <3>1 DEF Ending
    <3> QED
      BY <1>1, <3>2
  <2> QED
    BY <1>2, <1>6, <1>7, <1>14, <2>1 DEF DeinitStops
<1>16. ClearStops'
  <2>1. t \notin cleared
    BY <1>1 DEF ClearStops, Made
  <2>2. ASSUME NEW u \in cleared, Stopping(u) PROVE Stopping(u)'
    BY <1>14, <2>1, <2>2 DEF TypeOK
  <2> QED
    BY <1>2, <1>6, <1>7, <2>1, <2>2 DEF ClearStops, Active, TypeOK
<1>17. ScanMisses'
  <2>1. pc = "code" \/ daemon # "blocked"
    BY <1>1 DEF CodeRuns, TaskRuns
  <2> QED
    BY <1>2, <2>1 DEF ScanMisses
<1>18. RefsOK'
  <2> SUFFICES ASSUME NEW u \in Timer
               PROVE  /\ state'[u] = "unused" => refs'[u] = 0 /\ ~Held(u)'
                      /\ state'[u] = "failed" => refs'[u] \in 0..1
                      /\ Held(u)' => refs'[u] \in 0..1
                      /\ Held(u)' /\ ~Released(id[u])' => refs'[u] = 1
                      /\ Held(u)' /\ Released(id[u])' /\ u \notin late' => refs'[u] = 0
                      /\ ~Held(u)' /\ u \notin late' /\ state'[u] # "failed" => refs'[u] = 0
    BY DEF RefsOK
  <2>1. CASE u = t
    <3>1. Held(t)'
      BY <1>6 DEF Held
    <3>2. Released(id[t])' => t \in late'
      BY <1>1, <1>2 DEF Released, CodeRuns, TaskRuns, DaemonOK, TypeOK, Ending, Deinit
    <3> QED
      BY <1>6, <2>1, <3>1, <3>2
  <2>2. CASE u # t
    <3>1. id'[u] = id[u] /\ state'[u] = state[u] /\ refs'[u] = refs[u] /\ (u \in late' <=> u \in late)
      BY <1>1, <1>6, <2>2
    <3>2. Released(id[u])' <=> Released(id[u])
      BY <1>2, <3>1 DEF Released
    <3>3. CASE id[u] # g
      <4>1. Held(u)' <=> Held(u)
        BY <1>6, <3>1, <3>3 DEF Held, TypeOK
      <4> QED
        BY <3>1, <3>2, <4>1 DEF RefsOK
    <3>4. CASE id[u] = g
      <4>1. ~Held(u)'
        BY <1>6, <2>2, <3>1, <3>4 DEF Held
      <4>2. Held(u) => state[u] = "failed"
        BY <1>1, <3>4, TimersNames DEF Held, SlotsOK
      <4> QED
        BY <3>1, <3>2, <4>1, <4>2 DEF RefsOK
    <3> QED
      BY <3>3, <3>4
  <2> QED
    BY <2>1, <2>2
<1> QED
  BY <1>8, <1>9, <1>10, <1>11, <1>12, <1>13, <1>15, <1>16, <1>17, <1>18

\* What the steps of the task change is where it is; no timer is touched.
LEMMA TaskIInv ==
    ASSUME IInv,
           \/ CodeEnds \/ BeginPoll \/ Scan \/ RunJob \/ NoJob \/ Requeue
           \/ BeginDeinit \/ ReadSlot \/ Release
    PROVE  IInv'
<1> USE DEF IInv
<1>1. /\ daemon = "blocked" /\ commands = <<>> /\ running = NULL
      /\ UNCHANGED <<slot, id, state, daemon, running, cleared, lost, late, commands>>
      /\ pc # "freed" /\ (pc \in Deinit => pc' \in Ending)
      /\ pc' = "freed" => Release
  BY TypeOK DEF CodeEnds, BeginPoll, Scan, RunJob, NoJob, Requeue, BeginDeinit, ReadSlot, Release,
         Goto, TaskRuns, DaemonOK, Deinit, Ending
<1>2. \A t \in Timer : /\ Busy(t)' <=> Busy(t)
                       /\ Busy(t) <=> Active(t)
                       /\ Held(t)' <=> Held(t)
                       /\ Stopping(t)' <=> Stopping(t)
  BY <1>1, TimersNames DEF Busy, Active, Started, Held, Stopping
<1>3. DaemonOK'
  BY <1>1, TimersNames DEF DaemonOK
<1>4. CommandsOK'
  BY <1>1 DEF CommandsOK
<1>5. SlotsOK'
  BY <1>1 DEF SlotsOK
<1>6. Matched'
  BY <1>1, <1>2 DEF Matched, Ending
<1>7. ClearStops'
  <2>1. cleared \subseteq Timer
    BY DEF TypeOK
  <2>2. \A t \in Timer : Active(t)' <=> Active(t)
    BY <1>1 DEF Active
  <2> QED
    BY <1>1, <1>2, <2>1, <2>2 DEF ClearStops
<1>8. /\ i' \in 1..(MaxTimers + 1) /\ pc' \in {"code", "wait", "scan", "job", "polled", "freed"} \cup Deinit
      /\ LoopsOK'
  BY <1>1, TimersNumbers DEF CodeEnds, BeginPoll, Scan, RunJob, NoJob, Requeue, BeginDeinit, ReadSlot, Release,
         Goto, LoopsOK, Slots, Deinit, SlotsOK, TypeOK
<1>9. /\ handle' \in Timer \cup {NULL} /\ found' \in BOOLEAN /\ pending' \in -1..1
      /\ jobs' \in 0..MaxJobs /\ overtaken' \in BOOLEAN
  <2>1. handle' \in Timer \cup {NULL}
    <3>1. CASE ReadSlot
      <4>1. i \in Slots /\ handle' = slot[i].timer
        BY <3>1 DEF ReadSlot, LoopsOK, Deinit
      <4> QED
        BY <4>1 DEF TypeOK
    <3> QED
      BY <3>1 DEF CodeEnds, BeginPoll, Scan, RunJob, NoJob, Requeue, BeginDeinit, Release, TypeOK
  <2>2. found' \in BOOLEAN
    <3>1. found \in BOOLEAN /\ FALSE \in BOOLEAN /\ ActiveIn(i) \in BOOLEAN
      BY DEF TypeOK, ActiveIn
    <3>2. found' = found \/ found' = FALSE \/ found' = ActiveIn(i)
      BY Zenon DEF CodeEnds, BeginPoll, Scan, RunJob, NoJob, Requeue, BeginDeinit, ReadSlot, Release
    <3> QED
      BY <3>1, <3>2, Zenon
  <2>3. pending' \in -1..1 /\ jobs' \in 0..MaxJobs
    BY TimersNumbers DEF CodeEnds, BeginPoll, Scan, RunJob, NoJob, Requeue, BeginDeinit, ReadSlot, Release, TypeOK
  <2>4. overtaken' \in BOOLEAN
    <3>1. overtaken \in BOOLEAN /\ FALSE \in BOOLEAN
      BY DEF TypeOK
    <3>2. overtaken' = overtaken \/ overtaken' = FALSE
      BY Zenon DEF CodeEnds, BeginPoll, Scan, RunJob, NoJob, Requeue, BeginDeinit, ReadSlot, Release
    <3> QED
      BY <3>1, <3>2, Zenon
  <2> QED
    BY <2>1, <2>2, <2>3, <2>4
<1>10. refs' \in [Timer -> -1..1] /\ RefsOK'
  <2>1. CASE ~Release
    <3>1. /\ refs' = refs /\ (pc \in Deinit => i' = i /\ pc' \in Deinit)
          /\ pc \notin Deinit /\ pc' \in Ending => i' = 1
      BY <1>1, <2>1 DEF CodeEnds, BeginPoll, Scan, RunJob, NoJob, Requeue, BeginDeinit, ReadSlot,
                        Goto, Deinit, Ending
    <3>2. \A t \in Timer : Released(id[t])' <=> Released(id[t])
      BY <1>1, <3>1, TimersNumbers DEF Released, Ending, TypeOK, Slots
    <3> QED
      BY <1>1, <1>2, <3>1, <3>2 DEF RefsOK, TypeOK
  <2>2. CASE Release
    <3> DEFINE f == slot[i].func
    <3>1. /\ i \in Slots /\ pc = "release" /\ pc' \in Ending /\ i' = i + 1
          /\ refs' = IF f = NULL THEN refs ELSE [refs EXCEPT ![f] = @ - 1]
      BY <2>2 DEF Release, Goto, LoopsOK, Deinit, Ending
    <3>2. f \in Timer \cup {NULL} /\ (f # NULL => id[f] = i)
      BY <3>1 DEF TypeOK, SlotsOK
    <3>3. ASSUME f # NULL PROVE Held(f) /\ ~Released(id[f]) /\ refs[f] = 1 /\ f \in Timer
      BY <3>1, <3>2, <3>3, TimersNumbers DEF Held, Released, RefsOK, Slots
    <3>4. refs' \in [Timer -> -1..1] /\ \A u \in Timer : refs'[u] = IF u = f THEN 0 ELSE refs[u]
      BY <3>1, <3>2, <3>3, TimersNames DEF TypeOK
    <3>5. ASSUME NEW u \in Timer, Held(u), u # f
          PROVE  Released(id[u])' <=> Released(id[u])
      <4>1. id[u] # i /\ id[u] \in Nat /\ i \in Nat
        BY <3>1, <3>5, TimersNumbers DEF Held, TypeOK, Slots
      <4> QED
        BY <1>1, <3>1, <4>1 DEF Released, Ending, Deinit
    <3>6. ASSUME NEW u \in Timer, u = f PROVE Released(id[u])' /\ Held(u) /\ refs[u] = 1
      <4>1. id[u] = i /\ i \in Nat
        BY <3>1, <3>2, <3>6, TimersNames, TimersNumbers DEF Slots
      <4>2. id'[u] < i'
        BY <1>1, <3>1, <4>1
      <4> QED
        BY <3>1, <3>3, <3>6, <4>2, TimersNames DEF Released
    <3> HIDE DEF f
    <3>7. ASSUME NEW u \in Timer
          PROVE  /\ state'[u] = "unused" => refs'[u] = 0 /\ ~Held(u)'
                 /\ state'[u] = "failed" => refs'[u] \in 0..1
                 /\ Held(u)' => refs'[u] \in 0..1
                 /\ Held(u)' /\ ~Released(id[u])' => refs'[u] = 1
                 /\ Held(u)' /\ Released(id[u])' /\ u \notin late' => refs'[u] = 0
                 /\ ~Held(u)' /\ u \notin late' /\ state'[u] # "failed" => refs'[u] = 0
      <4>1. CASE u = f
        BY <1>1, <1>2, <3>4, <3>6, <4>1 DEF RefsOK
      <4>2. CASE u # f
        BY <1>1, <1>2, <3>4, <3>5, <4>2 DEF RefsOK
      <4> QED
        BY <4>1, <4>2
    <3> QED
      BY <3>4, <3>7 DEF RefsOK
  <2> QED
    BY <2>1, <2>2
<1>11. TypeOK'
  BY <1>1, <1>8, <1>9, <1>10 DEF TypeOK
<1>12. DeinitStops'
  <2> SUFFICES ASSUME pc' \in Ending, NEW u \in Timer \ late, Busy(u)
               PROVE  /\ id[u] >= i'
                      /\ id[u] = i' => \/ pc' = "read"
                                       \/ pc' = "stop" /\ handle' = u
                                       \/ pc' = "delete" /\ handle' = u /\ Stopping(u)
    BY <1>1, <1>2 DEF DeinitStops
  <2>1. slot[id[u]] = [timer |-> u, func |-> u] /\ id[u] \in Slots
    BY BusyMade
  <2>2. ~Stopping(u)
    BY <1>1 DEF Stopping
  <2>3. CASE BeginDeinit
    BY <2>1, <2>3, TimersNumbers DEF BeginDeinit, Goto, Slots
  <2>4. CASE ReadSlot
    BY <1>1, <2>1, <2>4, TimersNames DEF ReadSlot, Goto, DeinitStops, Deinit, Ending
  <2>5. CASE Release
    BY <1>1, <2>1, <2>5, TimersNumbers DEF Release, Goto, DeinitStops, Deinit, Ending, Slots, TypeOK
  <2> QED
    BY <1>1, <2>3, <2>4, <2>5 DEF CodeEnds, BeginPoll, Scan, RunJob, NoJob, Requeue, Goto, Ending, Deinit
<1>13. ScanMisses'
  <2>1. ASSUME NEW t \in Timer, Busy(t)
        PROVE  /\ slot[id[t]].timer = t /\ state[t] = "active"
               /\ id[t] \in Nat /\ id[t] >= 1 /\ id[t] <= MaxTimers
    <3>1. slot[id[t]] = [timer |-> t, func |-> t] /\ id[t] \in Slots
      BY <2>1, BusyMade
    <3>2. state[t] = "active"
      BY <1>2, <2>1 DEF Active
    <3> QED
      BY <3>1, <3>2, TimersNumbers DEF Slots
  <2>2. CASE Scan
    <3>1. /\ UNCHANGED <<pending, jobs, overtaken>> /\ pc = "scan" /\ i \in Nat
          /\ found' = ActiveIn(i) /\ pc' \in {"scan", "job"}
          /\ pc' = "scan" => i' = i + 1
          /\ pc' = "job" => found' \/ i = MaxTimers
      BY <2>2, TimersNumbers DEF Scan, Goto, LoopsOK, Slots
    <3>2. ASSUME NEW t \in Timer, Busy(t), ~overtaken, ~found'
          PROVE  id[t] > i
      <4>1. id[t] >= i
        BY <3>1, <3>2 DEF ScanMisses
      <4>2. id[t] # i
        BY <2>1, <3>1, <3>2, TimersNames DEF ActiveIn
      <4> QED
        BY <2>1, <3>1, <3>2, <4>1, <4>2
    <3>3. ASSUME ~overtaken, pc' = "scan" PROVE \A t \in Timer : Busy(t) => id[t] >= i'
      <4>1. ~found'
        BY <2>2, <3>3 DEF Scan, Goto
      <4> QED
        BY <2>1, <3>1, <3>2, <3>3, <4>1
    <3>4. ASSUME ~overtaken, pc' = "job", ~found' PROVE \A t \in Timer : ~Busy(t)
      BY <2>1, <3>1, <3>2, <3>4, TimersNumbers
    <3> QED
      BY <1>1, <1>2, <3>1, <3>3, <3>4 DEF ScanMisses
  <2>3. CASE BeginPoll
    <3>1. pc' = "scan" /\ i' = 1
      BY <2>3 DEF BeginPoll, Goto
    <3> QED
      BY <1>1, <1>2, <2>1, <3>1 DEF ScanMisses
  <2>4. CASE NoJob
    <3>1. /\ pc = "job" /\ jobs = 0 /\ jobs' = jobs /\ overtaken' = overtaken /\ pc' = "polled"
          /\ pending' = IF found THEN 1 ELSE 0
      BY <2>4 DEF NoJob, Goto
    <3> QED
      BY <1>1, <1>2, <3>1 DEF ScanMisses
  <2>5. CASE CodeEnds \/ RunJob \/ Requeue \/ BeginDeinit \/ ReadSlot \/ Release
    <3>1. pc' \notin {"scan", "job"} /\ (pc' = "polled" => pending' # 0)
      BY <2>5 DEF CodeEnds, RunJob, Requeue, BeginDeinit, ReadSlot, Release, Goto
    <3> QED
      BY <3>1 DEF ScanMisses
  <2> QED
    BY <2>2, <2>3, <2>4, <2>5
<1> QED
  BY <1>3, <1>4, <1>5, <1>6, <1>7, <1>8, <1>10, <1>11, <1>12, <1>13

\* While code runs, no stop command is all that is queued: what is cleared is quiet.
LEMMA ClearTimeoutIInv ==
    ASSUME IInv, NEW t \in Timer, ClearTimeout(t)
    PROVE  IInv'
<1> USE DEF IInv
<1>1. /\ CodeRuns /\ state[t] \in {"dormant", "active"} /\ lost' = lost \cup {t}
      /\ cleared' = IF TaskRuns THEN cleared \cup {t} ELSE cleared
      /\ UNCHANGED <<pc, i, handle, found, pending, jobs, slot, id, state, refs, running, late, overtaken>>
  BY DEF ClearTimeout, task
<1>2. commands \in Seq(Command) /\ Len(commands) \in Nat /\ Len(commands) <= QueueLength
  BY DEF TypeOK, Command
<1>3. /\ commands' \in Seq(Command) /\ Len(commands') <= QueueLength
      /\ DOMAIN commands = 1..Len(commands)
      /\ \A k \in DOMAIN commands' :
            \/ k \in DOMAIN commands /\ commands'[k] = commands[k]
            \/ commands'[k] = [cmd |-> "stop", timer |-> t] /\ k = Len(commands) + 1
      /\ \A u \in Timer : Started(u)' <=> Started(u)
      /\ daemon' \in {"blocked", "callback", "commands"} /\ (daemon' = "callback" <=> daemon = "callback")
      /\ daemon' = "blocked" => daemon = "blocked" /\ commands' = <<>>
  <2>1. CASE HasRoom
    <3>1. /\ commands' = Append(commands, [cmd |-> "stop", timer |-> t])
          /\ daemon' = IF daemon = "blocked" THEN "commands" ELSE daemon
      BY <2>1 DEF ClearTimeout, Send
    <3>2. /\ commands' \in Seq(Command)
          /\ Len(commands') = Len(commands) + 1
          /\ DOMAIN commands' = DOMAIN commands \cup {Len(commands) + 1}
          /\ DOMAIN commands = 1..Len(commands)
          /\ \A k \in DOMAIN commands : commands'[k] = commands[k]
          /\ commands'[Len(commands) + 1] = [cmd |-> "stop", timer |-> t]
          /\ \A u \in Timer : Started(u)' <=> Started(u)
      BY <1>2, <3>1, SendQueue
    <3>3. Len(commands') <= QueueLength
      BY <1>2, <2>1, <3>2, TimersNumbers DEF HasRoom
    <3>4. /\ daemon' \in {"blocked", "callback", "commands"} /\ (daemon' = "callback" <=> daemon = "callback")
          /\ daemon' # "blocked"
      BY <3>1 DEF TypeOK
    <3> QED
      BY <3>2, <3>3, <3>4
  <2>2. CASE ~HasRoom
    <3>1. UNCHANGED <<commands, daemon>>
      BY <2>2 DEF ClearTimeout
    <3> QED
      BY <1>2, <3>1 DEF Started, TypeOK, DaemonOK
  <2> QED
    BY <2>1, <2>2
<1>4. \A u \in Timer : /\ Busy(u)' <=> Busy(u)
                       /\ Held(u)' <=> Held(u)
                       /\ Released(id[u])' <=> Released(id[u])
                       /\ Active(u)' <=> Active(u)
                       /\ ~Stopping(u)
  BY <1>1, <1>3 DEF Busy, Active, Held, Released, Stopping, CodeRuns, TaskRuns
<1>5. TypeOK'
  BY <1>1, <1>3 DEF TypeOK, Command
<1>6. DaemonOK'
  BY <1>1, <1>3 DEF DaemonOK
<1>7. CommandsOK'
  <2> SUFFICES ASSUME NEW k \in DOMAIN commands', NEW u, u = commands'[k].timer
               PROVE  /\ state[u] \in Made
                      /\ commands'[k].cmd = "start" =>
                            /\ state[u] = "dormant"
                            /\ \A j \in DOMAIN commands' : j < k => commands'[j].timer # u
                      /\ commands'[k].cmd = "stop" => u \in lost' \/ pc \in Ending
                      /\ commands'[k].cmd = "delete" => pc \in Ending
    BY <1>1 DEF CommandsOK
  <2>1. CASE k \in DOMAIN commands /\ commands'[k] = commands[k]
    <3>1. ASSUME NEW j \in DOMAIN commands', j < k
          PROVE  j \in DOMAIN commands /\ commands'[j] = commands[j]
      BY <1>2, <1>3, <2>1, <3>1
    <3> QED
      BY <1>1, <2>1, <3>1 DEF CommandsOK
  <2>2. CASE commands'[k] = [cmd |-> "stop", timer |-> t]
    BY <1>1, <2>2 DEF Made
  <2> QED
    BY <1>3, <2>1, <2>2
<1>8. SlotsOK' /\ LoopsOK' /\ RefsOK'
  BY <1>1, <1>4 DEF SlotsOK, LoopsOK, RefsOK
<1>9. Matched'
  BY <1>1, <1>4 DEF Matched
<1>10. DeinitStops'
  BY <1>1, <1>4 DEF DeinitStops
<1>11. ClearStops'
  <2>1. ASSUME NEW u \in cleared PROVE state[u] \in Made /\ ~Busy(u)
    BY <1>4, <2>1 DEF ClearStops, TypeOK
  <2>2. ASSUME TaskRuns, Busy(t) PROVE Active(t) /\ Stopping(t)'
    <3>1. commands = <<>> /\ running = NULL /\ daemon = "blocked"
      BY <2>2 DEF TaskRuns, DaemonOK
    <3>2. Active(t)
      BY <2>2, <3>1, TimersNames DEF Busy, Started
    <3>3. HasRoom
      BY <3>1, TimersNumbers DEF HasRoom
    <3>4. commands' = <<[cmd |-> "stop", timer |-> t]>> /\ daemon' = "commands"
      BY <3>1, <3>3 DEF ClearTimeout, Send
    <3> QED
      BY <3>2, <3>4 DEF Stopping
  <2>3. ASSUME NEW u \in cleared'
        PROVE  state'[u] \in Made /\ (Busy(u)' => Active(u)' /\ Stopping(u)')
    <3>1. CASE u \in cleared
      BY <1>1, <1>4, <2>1, <3>1 DEF TypeOK
    <3>2. CASE TaskRuns /\ u = t
      BY <1>1, <1>4, <2>2, <3>2 DEF Made
    <3> QED
      BY <1>1, <2>3, <3>1, <3>2
  <2> QED
    BY <2>3 DEF ClearStops
<1>12. ScanMisses'
  <2>1. pc = "code" \/ daemon # "blocked"
    BY <1>1 DEF CodeRuns, TaskRuns
  <2> QED
    BY <1>1, <2>1 DEF ScanMisses
<1> QED
  BY <1>5, <1>6, <1>7, <1>8, <1>9, <1>10, <1>11, <1>12

\* A promise is resolved: nothing but the number of jobs changes.
LEMMA QueueJobIInv == IInv /\ QueueJob => IInv'
<1> SUFFICES ASSUME IInv, QueueJob PROVE IInv'
  OBVIOUS
<1> USE DEF IInv
<1>1. /\ UNCHANGED <<pc, i, handle, found, pending, slot, id, state, refs, commands, daemon, running>>
      /\ UNCHANGED <<cleared, lost, late, overtaken>>
      /\ jobs' = jobs + 1 /\ jobs < MaxJobs /\ CodeRuns
  BY DEF QueueJob, task, history
<1>2. \A u \in Timer : /\ Busy(u)' <=> Busy(u)
                       /\ Held(u)' <=> Held(u)
                       /\ Released(id[u])' <=> Released(id[u])
                       /\ Active(u)' <=> Active(u)
                       /\ Stopping(u)' <=> Stopping(u)
                       /\ Started(u)' <=> Started(u)
  BY <1>1 DEF Busy, Active, Started, Held, Released, Stopping
<1>3. TypeOK'
  BY <1>1, TimersNumbers DEF TypeOK
<1>4. DaemonOK' /\ CommandsOK' /\ SlotsOK' /\ LoopsOK'
  BY <1>1, <1>2 DEF DaemonOK, CommandsOK, SlotsOK, LoopsOK
<1>5. Matched' /\ RefsOK' /\ DeinitStops'
  BY <1>1, <1>2 DEF Matched, RefsOK, DeinitStops
<1>6. ClearStops'
  BY <1>1, <1>2 DEF ClearStops, TypeOK
<1>7. ScanMisses'
  <2>1. pc = "code" \/ daemon # "blocked"
    BY <1>1 DEF CodeRuns, TaskRuns
  <2> QED
    BY <1>1, <2>1 DEF ScanMisses
<1> QED
  BY <1>3, <1>4, <1>5, <1>6, <1>7

\* A busy timer calls back. It stays busy: its slot is kept until the function returns.
LEMMA CallsIInv ==
    ASSUME IInv, NEW t \in Timer, Calls(t),
           \/ daemon = "blocked" /\ state[t] = "active" /\ commands' = commands
           \/ Next1("start") /\ t = Head(commands).timer /\ commands' = Tail(commands)
    PROVE  IInv'
<1> USE DEF IInv
<1>1. /\ UNCHANGED <<pc, i, handle, found, pending, jobs, slot, id, refs, cleared, lost, late>>
      /\ state' = [state EXCEPT ![t] = "dormant"]
      /\ pc # "freed" /\ daemon' = "callback" /\ running' = t
      /\ overtaken' = (overtaken \/ pc = "scan")
  BY DEF Calls, task
<1>2. daemon # "callback" /\ running = NULL /\ t # NULL
  BY TimersNames DEF DaemonOK, Next1
<1>3. commands \in Seq(Command) /\ Len(commands) \in Nat /\ Len(commands) <= QueueLength
  BY DEF TypeOK, Command
<1>4. /\ commands' \in Seq(Command) /\ Len(commands') <= QueueLength
      /\ \E shift \in {0, 1} : \A k \in DOMAIN commands' : /\ k \in Nat /\ k + shift \in DOMAIN commands
                                                      /\ commands'[k] = commands[k + shift]
      /\ \A u \in Timer \ {t} : Started(u)' <=> Started(u)
      /\ ~Started(t)' /\ Busy(t) /\ state[t] \in {"dormant", "active"}
      /\ \A u \in Timer : ~Stopping(u)
  <2>1. CASE daemon = "blocked" /\ state[t] = "active" /\ commands' = commands
    <3>1. ~Started(t)
      BY <2>1, StartedDormant
    <3>2. \A u \in Timer : Started(u)' <=> Started(u)
      BY <2>1 DEF Started
    <3>3. \A k \in DOMAIN commands' : /\ k \in Nat /\ k + 0 \in DOMAIN commands
                                      /\ commands'[k] = commands[k + 0]
      BY <1>3, <2>1
    <3> QED
      BY <1>3, <2>1, <3>1, <3>2, <3>3 DEF Busy, Active, Stopping
  <2>2. CASE Next1("start") /\ t = Head(commands).timer /\ commands' = Tail(commands)
    <3>1. commands # <<>> /\ Head(commands).cmd = "start" /\ Head(commands).timer = t
      BY <2>2 DEF Next1
    <3>2. \A u \in Timer : Started(u)' <=> Started(u) /\ u # t
      BY <2>2, <3>1, TakeStarted
    <3>3. /\ commands' \in Seq(Command) /\ Len(commands') <= QueueLength
          /\ 1 \in DOMAIN commands /\ Head(commands) = commands[1] /\ commands[1] \in Command
          /\ \A k \in DOMAIN commands' : /\ k \in Nat /\ k + 1 \in DOMAIN commands
                                         /\ commands'[k] = commands[k + 1]
      <4>1. /\ commands' \in Seq(Command) /\ Len(commands') = Len(commands) - 1
            /\ 1 \in DOMAIN commands /\ Head(commands) = commands[1] /\ commands[1] \in Command
            /\ \A k \in DOMAIN commands' : /\ k \in Nat /\ k + 1 \in DOMAIN commands
                                           /\ commands'[k] = commands[k + 1]
        BY <1>3, <2>2, <3>1, TakeQueue
      <4> QED
        BY <1>3, <4>1, TimersNumbers
    <3>4. commands[1] = [cmd |-> "start", timer |-> t]
      BY <3>1, <3>3 DEF Command
    <3>5. Started(t)
      BY <3>3, <3>4 DEF Started
    <3>6. state[t] = "dormant"
      BY <3>5, StartedDormant
    <3>7. \A u \in Timer : ~Stopping(u)
      BY <3>3, <3>4 DEF Stopping
    <3> QED
      BY <3>2, <3>3, <3>5, <3>6, <3>7 DEF Busy
  <2> QED
    BY <2>1, <2>2
<1>5. \A u \in Timer : /\ Busy(u)' <=> Busy(u)
                       /\ Held(u)' <=> Held(u)
                       /\ Released(id[u])' <=> Released(id[u])
                       /\ state'[u] = IF u = t THEN "dormant" ELSE state[u]
  BY <1>1, <1>2, <1>4, TimersNames DEF Busy, Active, Held, Released, TypeOK
<1>6. TypeOK'
  <2>1. overtaken' \in BOOLEAN
    BY <1>1, Zenon
  <2> QED
    BY <1>1, <1>4, <2>1 DEF TypeOK, Command
<1>7. DaemonOK'
  BY <1>1, <1>2, <1>4, <1>5 DEF DaemonOK
<1>8. CommandsOK'
  <2>1. PICK shift \in {0, 1} : \A k \in DOMAIN commands' : /\ k \in Nat /\ k + shift \in DOMAIN commands
                                                       /\ commands'[k] = commands[k + shift]
    BY <1>4
  <2> SUFFICES ASSUME NEW k \in DOMAIN commands', NEW u, u = commands'[k].timer
               PROVE  /\ state'[u] \in Made
                      /\ commands'[k].cmd = "start" =>
                            /\ state'[u] = "dormant"
                            /\ \A j \in DOMAIN commands' : j < k => commands'[j].timer # u
                      /\ commands'[k].cmd = "stop" => u \in lost' \/ pc' \in Ending
                      /\ commands'[k].cmd = "delete" => pc' \in Ending
    BY DEF CommandsOK
  <2>2. commands[k + shift] \in Command
    BY <1>3, <2>1
  <2>3. u \in Timer /\ u = commands[k + shift].timer
    BY <2>1, <2>2 DEF Command
  <2>4. ASSUME NEW j \in DOMAIN commands', j < k
        PROVE  j + shift \in DOMAIN commands /\ j + shift < k + shift /\ commands'[j] = commands[j + shift]
    BY <2>1, <2>4
  <2> QED
    BY <1>1, <1>5, <2>1, <2>3, <2>4 DEF CommandsOK, Made
<1>9. SlotsOK'
  <2> SUFFICES ASSUME NEW s \in Slots
               PROVE  /\ slot[s].timer # NULL => /\ slot[s].func = slot[s].timer
                                                 /\ state'[slot[s].timer] \in Made
                      /\ slot[s].func # NULL => /\ id[slot[s].func] = s
                                                /\ state'[slot[s].func] # "unused"
                      /\ slot[s].timer = NULL /\ slot[s].func # NULL => state'[slot[s].func] = "failed"
    BY <1>1 DEF SlotsOK
  <2>1. slot[s].timer \in Timer \cup {NULL} /\ slot[s].func \in Timer \cup {NULL}
    BY DEF TypeOK
  <2> QED
    BY <1>4, <1>5, <2>1 DEF SlotsOK, Made
<1>10. Matched'
  BY <1>1, <1>5 DEF Matched
<1>11. RefsOK'
  BY <1>1, <1>4, <1>5 DEF RefsOK
<1>12. LoopsOK'
  <2>1. pc \in {"stop", "delete"} => handle \in Timer
    BY DEF LoopsOK, TypeOK
  <2> QED
    BY <1>1, <1>5, <2>1 DEF LoopsOK, Made
<1>13. DeinitStops'
  BY <1>1, <1>4, <1>5 DEF DeinitStops
<1>14. ClearStops'
  <2>1. ASSUME NEW u \in cleared PROVE u \in Timer /\ state[u] \in Made /\ ~Busy(u)
    BY <1>4, <2>1 DEF ClearStops, TypeOK
  <2> QED
    BY <1>1, <1>5, <2>1 DEF ClearStops, Made
<1>15. ScanMisses'
  <2>1. ASSUME ~overtaken' PROVE ~overtaken /\ pc # "scan"
    BY <1>1, <2>1
  <2> QED
    BY <1>1, <1>4, <2>1 DEF ScanMisses
<1> QED
  BY <1>6, <1>7, <1>8, <1>9, <1>10, <1>11, <1>12, <1>13, <1>14, <1>15

\* The function of the slot was the callback's own: it is freed, once.
LEMMA CallbackEndsIInv == IInv /\ CallbackEnds => IInv'
<1> SUFFICES ASSUME IInv, CallbackEnds PROVE IInv'
  OBVIOUS
<1> USE DEF IInv
<1>1. /\ daemon = "callback" /\ daemon' = "commands" /\ running' = NULL
      /\ UNCHANGED <<pc, i, handle, found, pending, jobs, id, state, commands>>
      /\ UNCHANGED <<cleared, lost, late, overtaken>>
  BY DEF CallbackEnds, task, history
<1>2. PICK t \in Timer : t = running
  BY <1>1 DEF DaemonOK, TypeOK
<1>3. /\ slot[id[t]] = [timer |-> t, func |-> t] /\ id[t] \in Slots /\ state[t] = "dormant"
      /\ ~Started(t) /\ Held(t) /\ pc # "freed"
  BY <1>2, BusyMade DEF Busy, DaemonOK, Held
<1>4. /\ slot' = [slot EXCEPT ![id[t]] = Empty]
      /\ refs' = [refs EXCEPT ![t] = @ - 1]
  BY <1>2, <1>3 DEF CallbackEnds
<1>5. refs[t] \in 0..1 /\ (refs[t] = 0 => t \in late)
  <2>1. ASSUME Released(id[t]) PROVE t \in late
    <3>1. id[t] \in Nat /\ i \in Nat
      BY <1>3, TimersNumbers DEF TypeOK, Slots
    <3> QED
      BY <1>2, <2>1, <3>1 DEF Released, DeinitStops, Busy
  <2> QED
    BY <1>3, <2>1 DEF RefsOK
<1>6. \A u \in Timer : Started(u)' <=> Started(u)
  BY <1>1 DEF Started
<1>7. \A u \in Timer : /\ Busy(u)' <=> Busy(u) /\ u # t
                       /\ ~Stopping(u)
  BY <1>1, <1>2, <1>3, <1>6, TimersNames DEF Busy, Active, Stopping
<1>8. /\ slot'[id[t]].timer = NULL /\ slot'[id[t]].func = NULL
      /\ \A s \in Slots : s # id[t] => slot'[s] = slot[s]
  BY <1>3, <1>4 DEF Empty, TypeOK
<1>9. /\ refs' \in [Timer -> -1..1]
      /\ \A u \in Timer : refs'[u] = IF u = t THEN refs[t] - 1 ELSE refs[u]
  BY <1>4, <1>5 DEF TypeOK
<1>10. TypeOK'
  <2>1. slot' \in [Slots -> [timer : Timer \cup {NULL}, func : Timer \cup {NULL}]]
    BY <1>4 DEF TypeOK, Empty
  <2> QED
    BY <1>1, <1>9, <2>1 DEF TypeOK
<1>11. DaemonOK'
  BY <1>1, TimersNames DEF DaemonOK
<1>12. CommandsOK'
  BY <1>1 DEF CommandsOK
<1>13. SlotsOK'
  BY <1>1, <1>8 DEF SlotsOK
<1>14. Matched'
  <2>1. ASSUME NEW u \in Timer, Busy(u)' PROVE slot'[id'[u]] = [timer |-> u, func |-> u]
    <3>1. u # t /\ slot[id[u]] = [timer |-> u, func |-> u] /\ id[u] \in Slots
      BY <1>7, <2>1, BusyMade
    <3> QED
      BY <1>1, <1>3, <1>8, <3>1
  <2>2. ASSUME pc' \notin Ending, NEW s \in Slots, NEW u \in Timer, slot'[s].timer = u
        PROVE  Busy(u)' \/ u \in lost'
    <3>1. s # id[t] /\ slot[s].timer = u
      BY <1>8, <2>2, TimersNames
    <3>2. u # t
      BY <3>1, TimersNames DEF SlotsOK
    <3> QED
      BY <1>1, <1>7, <2>2, <3>1, <3>2 DEF Matched
  <2> QED
    BY <2>1, <2>2 DEF Matched
<1>15. LoopsOK'
  BY <1>1 DEF LoopsOK
<1>16. RefsOK'
  <2> SUFFICES ASSUME NEW u \in Timer
               PROVE  /\ state'[u] = "unused" => refs'[u] = 0 /\ ~Held(u)'
                      /\ state'[u] = "failed" => refs'[u] \in 0..1
                      /\ Held(u)' => refs'[u] \in 0..1
                      /\ Held(u)' /\ ~Released(id[u])' => refs'[u] = 1
                      /\ Held(u)' /\ Released(id[u])' /\ u \notin late' => refs'[u] = 0
                      /\ ~Held(u)' /\ u \notin late' /\ state'[u] # "failed" => refs'[u] = 0
    BY DEF RefsOK
  <2>1. Released(id[u])' <=> Released(id[u])
    BY <1>1 DEF Released
  <2>2. CASE u = t
    <3>1. ~Held(u)'
      BY <1>1, <1>8, <2>2, TimersNames DEF Held
    <3> QED
      BY <1>1, <1>3, <1>5, <1>9, <2>2, <3>1
  <2>3. CASE u # t
    <3>1. Held(u)' <=> Held(u)
      BY <1>1, <1>3, <1>8, <2>3, TimersNames DEF Held, TypeOK
    <3> QED
      BY <1>1, <1>9, <2>1, <2>3, <3>1 DEF RefsOK
  <2> QED
    BY <2>2, <2>3
<1>17. DeinitStops'
  BY <1>1, <1>7 DEF DeinitStops
<1>18. ClearStops'
  <2>1. ASSUME NEW u \in cleared PROVE u \in Timer /\ state[u] \in Made /\ ~Busy(u)
    BY <1>7, <2>1 DEF ClearStops, TypeOK
  <2> QED
    BY <1>1, <1>7, <2>1 DEF ClearStops
<1>19. ScanMisses'
  BY <1>1, <1>2 DEF ScanMisses, Busy
<1> QED
  BY <1>10, <1>11, <1>12, <1>13, <1>14, <1>15, <1>16, <1>17, <1>18, <1>19

\* The daemon carries out the first command, or has nothing left to do.
LEMMA CommandIInv ==
    ASSUME IInv, Starts \/ Stops \/ Deletes
    PROVE  IInv'
<1> USE DEF IInv
<1> DEFINE t == Head(commands).timer
<1>1. /\ daemon = "commands" /\ commands # <<>> /\ commands' = Tail(commands)
      /\ UNCHANGED <<pc, i, handle, found, pending, jobs, slot, id, refs, daemon, running>>
      /\ UNCHANGED <<cleared, lost, late, overtaken>>
      /\ \/ Starts /\ Head(commands).cmd = "start" /\ state' = [state EXCEPT ![t] = "active"]
         \/ Stops /\ Head(commands).cmd = "stop" /\ state' = [state EXCEPT ![t] = "dormant"]
         \/ Deletes /\ Head(commands).cmd = "delete" /\ state' = [state EXCEPT ![t] = "deleted"]
  BY DEF Starts, Stops, Deletes, Next1, Becomes, task, history
<1>2. commands \in Seq(Command) /\ Len(commands) \in Nat /\ Len(commands) <= QueueLength
  BY DEF TypeOK, Command
<1>3. /\ commands' \in Seq(Command) /\ Len(commands') = Len(commands) - 1
      /\ 1 \in DOMAIN commands /\ Head(commands) = commands[1] /\ commands[1] \in Command
      /\ \A k \in DOMAIN commands' : /\ k \in Nat /\ k >= 1 /\ k + 1 \in DOMAIN commands
                                     /\ commands'[k] = commands[k + 1]
  BY <1>1, <1>2, TakeQueue
<1>4. /\ t \in Timer /\ state[t] \in Made /\ t # NULL
      /\ commands[1] = [cmd |-> Head(commands).cmd, timer |-> t]
      /\ Head(commands).cmd = "start" => state[t] = "dormant" /\ Started(t)
      /\ Head(commands).cmd = "stop" => t \in lost \/ pc \in Ending
      /\ Head(commands).cmd = "delete" => pc \in Ending
  <2>1. t \in Timer /\ commands[1] = [cmd |-> Head(commands).cmd, timer |-> t]
    BY <1>3 DEF Command
  <2> QED
    BY <1>3, <2>1, TimersNames DEF CommandsOK, Started
<1>5. ASSUME NEW k \in DOMAIN commands', commands'[k].cmd = "start"
      PROVE  commands'[k].timer # t \/ Head(commands).cmd = "stop"
  <2>1. k + 1 \in DOMAIN commands /\ 1 < k + 1 /\ commands[k + 1].cmd = "start"
    BY <1>3, <1>5
  <2> QED
    BY <1>3, <1>5, <2>1 DEF CommandsOK
<1>6. Head(commands).cmd = "delete" => ~Started(t)
  <2> SUFFICES ASSUME Head(commands).cmd = "delete", Started(t) PROVE FALSE
    OBVIOUS
  <2>1. PICK k \in DOMAIN commands : commands[k] = [cmd |-> "start", timer |-> t]
    BY DEF Started
  <2>2. k # 1 /\ k \in Nat /\ 1 < k
    BY <1>2, <1>3, <2>1
  <2> QED
    BY <1>3, <2>1, <2>2 DEF CommandsOK
<1> HIDE DEF t
<1>7. /\ \A u \in Timer : Started(u)' <=> Started(u) /\ ~(Head(commands).cmd = "start" /\ u = t)
      /\ \A u \in Timer : u # t => state'[u] = state[u]
      /\ state'[t] \in Made
      /\ Head(commands).cmd = "start" => state'[t] = "active"
      /\ Head(commands).cmd = "stop" => state'[t] = "dormant"
      /\ Head(commands).cmd = "delete" => state'[t] = "deleted"
      /\ state' \in [Timer -> {"unused", "failed", "dormant", "active", "deleted"}]
  <2>1. \A u \in Timer : Started(u)' <=> Started(u) /\ ~(Head(commands).cmd = "start" /\ u = t)
    BY <1>1, TakeStarted DEF t
  <2> QED
    BY <1>1, <1>4, <2>1 DEF t, TypeOK, Made
<1>8. running = NULL
  BY <1>1 DEF DaemonOK
<1>9. /\ \A u \in Timer : /\ Busy(u)' => Busy(u)
                          /\ u # t \/ Head(commands).cmd = "start" => (Busy(u) => Busy(u)')
                          /\ Stopping(u) => ~Busy(u)'
      /\ Head(commands).cmd = "start" => \A u \in Timer : ~Stopping(u)
  <2>1. ASSUME NEW u \in Timer
        PROVE  /\ Busy(u)' => Busy(u)
               /\ u # t \/ Head(commands).cmd = "start" => (Busy(u) => Busy(u)')
    BY <1>1, <1>4, <1>7, <1>8, TimersNames DEF Busy, Active
  <2>2. ASSUME NEW u \in Timer, Stopping(u)
        PROVE  ~Busy(u)' /\ Head(commands).cmd = "stop"
    <3>1. commands = <<[cmd |-> "stop", timer |-> u]>>
      BY <2>2 DEF Stopping
    <3>2. u = t /\ Head(commands).cmd = "stop"
      BY <1>3, <1>4, <3>1
    <3>3. ~Started(u)
      BY <3>1 DEF Started
    <3> QED
      BY <1>1, <1>4, <1>7, <1>8, <3>2, <3>3, TimersNames DEF Busy, Active
  <2> QED
    BY <2>1, <2>2
<1>10. TypeOK'
  BY <1>1, <1>2, <1>3, <1>7, TimersNumbers DEF TypeOK, Command
<1>11. DaemonOK'
  BY <1>1, <1>8, TimersNames DEF DaemonOK
<1>12. CommandsOK'
  <2> SUFFICES ASSUME NEW k \in DOMAIN commands', NEW u, u = commands'[k].timer
               PROVE  /\ state'[u] \in Made
                      /\ commands'[k].cmd = "start" =>
                            /\ state'[u] = "dormant"
                            /\ \A j \in DOMAIN commands' : j < k => commands'[j].timer # u
                      /\ commands'[k].cmd = "stop" => u \in lost' \/ pc' \in Ending
                      /\ commands'[k].cmd = "delete" => pc' \in Ending
    BY DEF CommandsOK
  <2>1. k \in Nat /\ k + 1 \in DOMAIN commands /\ commands'[k] = commands[k + 1] /\ commands[k + 1] \in Command
    BY <1>2, <1>3
  <2>2. u \in Timer /\ u = commands[k + 1].timer
    BY <2>1 DEF Command
  <2>3. ASSUME NEW j \in DOMAIN commands', j < k
        PROVE  j + 1 \in DOMAIN commands /\ j + 1 < k + 1 /\ commands'[j] = commands[j + 1]
    BY <1>3, <2>1, <2>3
  <2>4. /\ state[u] \in Made
        /\ commands[k + 1].cmd = "start" =>
              /\ state[u] = "dormant"
              /\ \A j \in DOMAIN commands : j < k + 1 => commands[j].timer # u
        /\ commands[k + 1].cmd = "stop" => u \in lost \/ pc \in Ending
        /\ commands[k + 1].cmd = "delete" => pc \in Ending
    BY <2>1, <2>2 DEF CommandsOK
  <2> QED
    BY <1>1, <1>5, <1>7, <2>1, <2>2, <2>3, <2>4
<1>13. SlotsOK'
  <2> SUFFICES ASSUME NEW s \in Slots
               PROVE  /\ slot[s].timer # NULL => /\ slot[s].func = slot[s].timer
                                                 /\ state'[slot[s].timer] \in Made
                      /\ slot[s].func # NULL => /\ id[slot[s].func] = s
                                                /\ state'[slot[s].func] # "unused"
                      /\ slot[s].timer = NULL /\ slot[s].func # NULL => state'[slot[s].func] = "failed"
    BY <1>1 DEF SlotsOK
  <2>1. slot[s].timer \in Timer \cup {NULL} /\ slot[s].func \in Timer \cup {NULL}
    BY DEF TypeOK
  <2> QED
    BY <1>4, <1>7, <2>1 DEF SlotsOK, Made
<1>14. Matched'
  <2>1. ASSUME NEW u \in Timer, Busy(u)' PROVE slot'[id'[u]] = [timer |-> u, func |-> u]
    BY <1>1, <1>9, <2>1 DEF Matched
  <2>2. ASSUME pc' \notin Ending, NEW s \in Slots, NEW u \in Timer, slot'[s].timer = u
        PROVE  Busy(u)' \/ u \in lost'
    BY <1>1, <1>4, <1>9, <2>2 DEF Matched
  <2> QED
    BY <2>1, <2>2 DEF Matched
<1>15. LoopsOK'
  <2>1. pc \in {"stop", "delete"} => handle \in Timer
    BY DEF LoopsOK, TypeOK
  <2> QED
    BY <1>1, <1>7, <2>1 DEF LoopsOK
<1>16. RefsOK'
  <2>1. \A u \in Timer : Held(u)' <=> Held(u)
    BY <1>1 DEF Held
  <2>2. \A u \in Timer : Released(id[u])' <=> Released(id[u])
    BY <1>1 DEF Released
  <2>3. \A u \in Timer : (state'[u] = "unused" <=> state[u] = "unused") /\ (state'[u] = "failed" <=> state[u] = "failed")
    BY <1>4, <1>7 DEF Made
  <2> QED
    BY <1>1, <2>1, <2>2, <2>3 DEF RefsOK
<1>17. DeinitStops'
  BY <1>1, <1>9 DEF DeinitStops
<1>18. ClearStops'
  <2>1. ASSUME NEW u \in cleared PROVE u \in Timer /\ state[u] \in Made /\ (Busy(u) => Stopping(u))
    BY <2>1 DEF ClearStops, TypeOK
  <2> QED
    BY <1>1, <1>7, <1>9, <2>1 DEF ClearStops
<1>19. ScanMisses'
  BY <1>1, <1>9 DEF ScanMisses
<1> QED
  BY <1>10, <1>11, <1>12, <1>13, <1>14, <1>15, <1>16, <1>17, <1>18, <1>19

LEMMA DaemonBlocksIInv == IInv /\ DaemonBlocks => IInv'
<1> SUFFICES ASSUME IInv, DaemonBlocks PROVE IInv'
  OBVIOUS
<1> USE DEF IInv
<1>1. /\ daemon = "commands" /\ commands = <<>> /\ daemon' = "blocked"
      /\ UNCHANGED <<pc, i, handle, found, pending, jobs, slot, id, state, refs, commands, running>>
      /\ UNCHANGED <<cleared, lost, late, overtaken>>
  BY DEF DaemonBlocks, task, history
<1>2. \A u \in Timer : /\ Busy(u)' <=> Busy(u)
                       /\ Active(u)' <=> Active(u)
                       /\ Held(u)' <=> Held(u)
                       /\ Released(id[u])' <=> Released(id[u])
                       /\ ~Stopping(u)
  BY <1>1 DEF Busy, Active, Started, Held, Released, Stopping
<1>3. TypeOK'
  BY <1>1 DEF TypeOK
<1>4. DaemonOK'
  BY <1>1, TimersNames DEF DaemonOK
<1>5. CommandsOK' /\ SlotsOK' /\ LoopsOK'
  BY <1>1 DEF CommandsOK, SlotsOK, LoopsOK
<1>6. Matched' /\ RefsOK'
  BY <1>1, <1>2 DEF Matched, RefsOK
<1>7. DeinitStops'
  BY <1>1, <1>2 DEF DeinitStops
<1>8. ClearStops'
  <2>1. ASSUME NEW u \in cleared PROVE u \in Timer /\ state[u] \in Made /\ ~Busy(u)
    BY <1>2, <2>1 DEF ClearStops, TypeOK
  <2> QED
    BY <1>1, <1>2, <2>1 DEF ClearStops
<1>9. ScanMisses'
  BY <1>1 DEF ScanMisses
<1> QED
  BY <1>3, <1>4, <1>5, <1>6, <1>7, <1>8, <1>9

\* The deinit sends a command to an empty queue, and goes on when it is carried out.
LEMMA SendsIInv == IInv /\ (Stop \/ Delete) => IInv'
<1> SUFFICES ASSUME IInv, Stop \/ Delete PROVE IInv'
  OBVIOUS
<1> USE DEF IInv
<1>1. /\ daemon = "blocked" /\ daemon' = "commands" /\ pc \in Deinit /\ pc' \in Ending
      /\ commands' = Append(commands, [cmd |-> IF pc = "stop" THEN "stop" ELSE "delete", timer |-> handle])
      /\ \/ pc = "stop" /\ pc' = "delete"
         \/ pc = "delete" /\ pc' = "release"
      /\ UNCHANGED <<i, handle, found, pending, jobs, slot, id, state, refs, running>>
      /\ UNCHANGED <<cleared, lost, late, overtaken>>
  BY DEF Stop, Delete, Commands, Send, TaskRuns, history, Deinit, Ending
<1>2. commands = <<>> /\ running = NULL /\ handle \in Timer /\ state[handle] \in Made
  BY <1>1 DEF DaemonOK, LoopsOK, TypeOK
<1> DEFINE sent == [cmd |-> IF pc = "stop" THEN "stop" ELSE "delete", timer |-> handle]
<1>3. commands' = <<sent>> /\ sent \in Command /\ DOMAIN commands' = {1} /\ commands'[1] = sent
  BY <1>1, <1>2 DEF Command
<1>4. \A u \in Timer : /\ ~Started(u)' /\ ~Started(u) /\ ~Stopping(u)
                       /\ Held(u)' <=> Held(u)
                       /\ Released(id[u])' <=> Released(id[u])
  <2>1. \A u \in Timer : ~Started(u)'
    BY <1>3 DEF Started
  <2> QED
    BY <1>1, <1>2, <2>1 DEF Started, Stopping, Held, Released, Ending
<1>5. \A u \in Timer : /\ Busy(u)' <=> Busy(u)
                       /\ Active(u)' <=> Active(u)
  BY <1>1, <1>4 DEF Busy, Active
<1>6. TypeOK'
  <2>1. commands' \in Seq(Command) /\ Len(commands') <= QueueLength
    BY <1>3, TimersNumbers
  <2>2. pc' \in {"code", "wait", "scan", "job", "polled", "freed"} \cup Deinit
    BY <1>1 DEF Deinit
  <2> QED
    BY <1>1, <2>1, <2>2 DEF TypeOK, Command
<1>7. DaemonOK'
  BY <1>1, <1>2, TimersNames DEF DaemonOK
<1>8. CommandsOK'
  BY <1>1, <1>2, <1>3 DEF CommandsOK
<1>9. SlotsOK'
  BY <1>1 DEF SlotsOK
<1>10. LoopsOK'
  BY <1>1, <1>2, TimersNames DEF LoopsOK, Deinit
<1>11. Matched'
  BY <1>1, <1>5 DEF Matched
<1>12. RefsOK'
  BY <1>1, <1>4 DEF RefsOK
<1>13. DeinitStops'
  <2> SUFFICES ASSUME NEW u \in Timer \ late, Busy(u)
               PROVE  /\ id[u] >= i
                      /\ id[u] = i => pc' = "delete" /\ handle = u /\ Stopping(u)'
    BY <1>1, <1>5 DEF DeinitStops
  <2>1. pc \in Ending
    BY <1>1 DEF Ending
  <2>2. id[u] >= i /\ (id[u] = i => pc = "stop" /\ handle = u)
    BY <1>1, <1>4, <2>1 DEF DeinitStops
  <2>3. ASSUME id[u] = i PROVE Stopping(u)'
    BY <1>1, <1>3, <2>2, <2>3 DEF Stopping
  <2> QED
    BY <1>1, <2>2, <2>3
<1>14. ClearStops'
  <2>1. ASSUME NEW u \in cleared PROVE u \in Timer /\ state[u] \in Made /\ ~Busy(u)
    BY <1>4, <2>1 DEF ClearStops, TypeOK
  <2> QED
    BY <1>1, <1>5, <2>1 DEF ClearStops
<1>15. ScanMisses'
  BY <1>1 DEF ScanMisses
<1> QED
  BY <1>6, <1>7, <1>8, <1>9, <1>10, <1>11, <1>12, <1>13, <1>14, <1>15

LEMMA StutterIInv == IInv /\ UNCHANGED vars => IInv'
<1> SUFFICES ASSUME IInv, UNCHANGED vars PROVE IInv'
  OBVIOUS
<1>1. /\ UNCHANGED <<pc, i, handle, found, pending, jobs, slot, id, state, refs, commands, daemon, running>>
      /\ UNCHANGED <<cleared, lost, late, overtaken>>
  BY DEF vars, task, history
<1> QED
  BY <1>1 DEF IInv, TypeOK, DaemonOK, CommandsOK, SlotsOK, LoopsOK, Matched, RefsOK, DeinitStops, ClearStops,
              ScanMisses, Busy, Active, Started, Held, Released, Stopping

LEMMA NextIInv == IInv /\ [Next]_vars => IInv'
<1> SUFFICES ASSUME IInv, [Next]_vars PROVE IInv'
  OBVIOUS
<1>1. CASE Code
  <2>1. ASSUME NEW t \in Timer, SetTimeout(t) \/ StartFails(t) \/ CreateFails(t) PROVE IInv'
    BY <2>1, TakesIInv
  <2>2. ASSUME NEW t \in Timer, ClearTimeout(t) PROVE IInv'
    BY <2>2, ClearTimeoutIInv
  <2> QED
    BY <1>1, <2>1, <2>2, QueueJobIInv DEF Code
<1>2. CASE Daemon
  <2>1. ASSUME NEW t \in Timer, Expire(t) PROVE IInv'
    BY <2>1, CallsIInv DEF Expire
  <2>2. CASE StartsLate
    <3>1. /\ Next1("start") /\ Calls(Head(commands).timer) /\ commands' = Tail(commands)
      BY <2>2 DEF StartsLate
    <3>2. Head(commands).timer \in Timer
      <4>1. commands \in Seq(Command) /\ commands # <<>>
        BY <3>1 DEF IInv, TypeOK, Command, Next1
      <4>2. Head(commands) \in Command
        BY <4>1
      <4> QED
        BY <4>2 DEF Command
    <3> QED
      BY <3>1, <3>2, CallsIInv
  <2> QED
    BY <1>2, <2>1, <2>2, CallbackEndsIInv, CommandIInv, DaemonBlocksIInv DEF Daemon
<1>3. CASE Task
  BY <1>3, TaskIInv, SendsIInv DEF Task
<1> QED
  BY <1>1, <1>2, <1>3, StutterIInv DEF Next

-----------------------------------------------------------------------------
(* What the runs check, for every number of timers.                        *)

\* The inductive invariant implies each property of the runs.
LEMMA IInvImplies ==
    IInv => SlotsMatch /\ FuncsFreedOnce /\ OnlyLateSurvive /\ ClearedQuiet /\ PollMissesOnlyOvertaken
<1> SUFFICES ASSUME IInv
             PROVE  SlotsMatch /\ FuncsFreedOnce /\ OnlyLateSurvive /\ ClearedQuiet /\ PollMissesOnlyOvertaken
  OBVIOUS
<1> USE DEF IInv
<1>1. SlotsMatch
  <2>1. ASSUME NEW s \in Slots, slot[s].timer # NULL, pc \notin Ending
        PROVE  Busy(slot[s].timer) \/ slot[s].timer \in lost
    BY <2>1 DEF Matched, TypeOK
  <2> QED
    BY <2>1 DEF SlotsMatch, Matched, Busy, Ending
<1>2. FuncsFreedOnce
  <2> SUFFICES ASSUME NEW t \in Timer \ late
               PROVE  /\ refs[t] >= 0 /\ (running = t => refs[t] = 1)
                      /\ pc = "freed" /\ state[t] # "failed" => refs[t] = 0
    BY DEF FuncsFreedOnce
  <2>1. refs[t] \in 0..1
    BY DEF RefsOK
  <2>2. id[t] \in 1..MaxTimers /\ i \in Nat /\ id[t] \in Nat
    BY TimersNumbers DEF TypeOK, Slots
  <2>3. ASSUME running = t PROVE refs[t] = 1
    <3>1. Busy(t)
      BY <2>3 DEF Busy
    <3>2. Held(t)
      <4>1. slot[id[t]] = [timer |-> t, func |-> t]
        BY <3>1 DEF Matched
      <4> QED
        BY <4>1 DEF Held
    <3>3. ~Released(id[t])
      BY <2>2, <3>1 DEF Released, DeinitStops
    <3> QED
      BY <3>2, <3>3 DEF RefsOK
  <2>4. ASSUME pc = "freed", state[t] # "failed" PROVE refs[t] = 0
    <3>1. Released(id[t])
      BY <2>2, <2>4, TimersNumbers DEF Released, Ending, LoopsOK
    <3> QED
      BY <2>4, <3>1 DEF RefsOK
  <2> QED
    BY <2>1, <2>3, <2>4
<1>3. OnlyLateSurvive
  <2> SUFFICES ASSUME pc = "freed", NEW t \in Timer \ late, Active(t) PROVE FALSE
    BY DEF OnlyLateSurvive
  <2>1. id[t] >= i
    BY DEF Busy, DeinitStops, Ending
  <2> QED
    BY <2>1, TimersNumbers DEF LoopsOK, TypeOK, Slots
<1>4. ClearedQuiet
  <2> SUFFICES ASSUME running # NULL, running \in cleared PROVE FALSE
    BY DEF ClearedQuiet
  <2>1. running \in Timer /\ Busy(running)
    BY DEF TypeOK, Busy
  <2>2. Stopping(running) /\ daemon = "callback"
    BY <2>1 DEF ClearStops, DaemonOK
  <2> QED
    BY <2>2 DEF Stopping
<1>5. PollMissesOnlyOvertaken
  BY DEF PollMissesOnlyOvertaken, ScanMisses, Busy
<1> QED
  BY <1>1, <1>2, <1>3, <1>4, <1>5

\* IInv holds in every state the handlers, the daemon and the two loops can reach.
THEOREM Invariance == Spec => []IInv
BY InitIInv, NextIInv, PTL DEF Spec

\* However many timers, slots and commands there are, each variable of the
\* model of setTimeout keeps to its type; i never leaves the slots.
THEOREM TimersType == Spec => []TypeOK
<1>1. IInv => TypeOK
  BY DEF IInv
<1> QED
  BY <1>1, Invariance, PTL

\* No callback calls, frees or empties what belongs to another setTimeout, and a
\* slot that is taken is a busy timer's or a lost one's until the deinit.
THEOREM TimersMatchSlots == Spec => []SlotsMatch
BY Invariance, IInvImplies, PTL

\* Each function a handler has passed to setTimeout is freed once, by its
\* callback or by the deinit, wherever the timer fires between their steps.
THEOREM TimersFreeOnce == Spec => []FuncsFreedOnce
BY Invariance, IInvImplies, PTL

\* When the runtime is freed the deinit has stopped all timers that were set
\* before it began.
THEOREM DeinitLeavesLate == Spec => []OnlyLateSurvive
BY Invariance, IInvImplies, PTL

\* clearTimeout in the handler's own code is final, also where the timer is
\* about to expire or the queue of the daemon is short.
THEOREM ClearedStaysQuiet == Spec => []ClearedQuiet
BY Invariance, IInvImplies, PTL

\* js_runtime_poll overlooks a timer only where a callback ran during its scan.
THEOREM PollComplete == Spec => []PollMissesOnlyOvertaken
BY Invariance, IInvImplies, PTL
=============================================================================
