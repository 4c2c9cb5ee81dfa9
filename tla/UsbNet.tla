------------------------------- MODULE UsbNet --------------------------------
(***************************************************************************)
(* The network of the Pico 2: portable/pico2/src/tusb_lwip_glue.c and the  *)
(* usb task of its tcp.c, between TinyUSB (a USB network device) and lwIP. *)
(*                                                                         *)
(* lwipopts.h sets LWIP_TCPIP_CORE_LOCKING and CORE_LOCKING_INPUT: a socket *)
(* call runs lwIP in the task that makes it, under one recursive lock, and *)
(* netif->input takes that lock too. Who sends a frame calls linkoutput_fn *)
(* with the lock held, and when the driver is busy runs tud_task() in      *)
(* there, which may receive a frame, enter lwIP again and send another.    *)
(* A task is therefore described by the calls it is in, innermost first:   *)
(*                                                                         *)
(*   in, out   in lwIP with its lock, before and after it sends            *)
(*   link      at the head of the loop of linkoutput_fn                    *)
(*   send      in it, tud_ready() and tud_network_can_xmit() were true     *)
(*   tud       in tud_task(), between two events                           *)
(*   recv, none  in tud_network_recv_cb with a frame, with an empty one    *)
(*   input     in it, before lwIP takes the copy                           *)
(*   renew     in it, before tud_network_recv_renew()                      *)
(*                                                                         *)
(* and, while the usb task starts: tusb, lwip, wait, dhcpd; boot is the    *)
(* tcpip thread before tcpip_init_done. tud_task() returns when there is   *)
(* no event, as the build of the Pico SDK has it.                          *)
(***************************************************************************)
EXTENDS Naturals, Sequences, FiniteSets
CONSTANTS App,        \* the tasks that use sockets
          PoolSize,   \* PBUF_POOL_SIZE
          MaxFrames,  \* bound: frames the host sends
          MaxResets   \* bound: times the cable is pulled

ASSUME UsbNetAssumption == /\ IsFiniteSet(App) /\ App \cap {"usb", "tcpip"} = {}
                           /\ PoolSize \in Nat \ {0}
                           /\ MaxFrames \in Nat /\ MaxResets \in Nat

Task == App \cup {"usb", "tcpip"}

VARIABLES stack,        \* the calls each task is in, the innermost first
          initialized,  \* of tcp.c
          netif,        \* lwip_add_netif was done: the interface is up
          ready,        \* tud_ready()
          canXmit,      \* tud_network_can_xmit()
          armed,        \* the driver waits for a frame
          events,       \* TinyUSB's queue
          wire,         \* the host is being sent a frame
          plugged, frames, resets,   \* the cable; what the host has done so far
          free,         \* pbufs left in the pool
          unread,       \* pbufs lwIP keeps for a socket to read
          mute,         \* history: an empty frame came since the host connected
          torn          \* history: it connected while a frame was being received
driver == <<ready, canXmit, armed, events>>
host   == <<wire, plugged, frames, resets>>
pbufs  == <<free, unread>>
up     == <<initialized, netif>>
past   == <<mute, torn>>
vars == <<stack, driver, host, pbufs, up, past>>

Boot  == {"tusb", "lwip", "wait", "dhcpd", "boot"}
Recv  == {"recv", "none", "input", "renew"}   \* the frame in hand is the driver's
Place == Boot \cup Recv \cup {"in", "out", "link", "send", "tud"}
Event == {"plug", "unplug", "frame", "empty", "sent"}

TypeOK == /\ stack \in [Task -> Seq(Place)]
          /\ {initialized, netif, ready, canXmit, armed, wire, plugged, mute, torn} \subseteq BOOLEAN
          /\ events \in Seq(Event)
          /\ frames \in 0..MaxFrames /\ resets \in 0..MaxResets
          /\ free \in 0..PoolSize /\ unread \in 0..PoolSize

\* isere_tcp_init has created the usb task; the others wait.
Init == /\ stack = [t \in Task |-> IF t = "usb" THEN <<"tusb">> ELSE <<>>]
        /\ initialized = FALSE /\ netif = FALSE
        /\ ready = FALSE /\ canXmit = FALSE /\ armed = FALSE /\ events = <<>>
        /\ wire = FALSE /\ plugged = FALSE /\ frames = 0 /\ resets = 0
        /\ free = PoolSize /\ unread = 0
        /\ mute = FALSE /\ torn = FALSE

At(t, p)     == stack[t] # <<>> /\ Head(stack[t]) = p
Goes(t, s)   == stack' = [stack EXCEPT ![t] = s \o Tail(@)]   \* the innermost call becomes s
Calls(t, p)  == stack' = [stack EXCEPT ![t] = <<p>> \o @]
Returns(t)   == Goes(t, <<>>)
Within(t, S) == {k \in DOMAIN stack[t] : stack[t][k] \in S}

\* The core lock of lwIP, which a task may take again.
InCore(t)   == Within(t, {"in", "out"}) # {}
LockFree(t) == \A u \in Task \ {t} : ~InCore(u)

Queued(S) == {k \in DOMAIN events : events[k] \in S}
-----------------------------------------------------------------------------
(* Start-up: __isere_tusb_task before its loop. *)

\* Mutant of TusbInit: initialized is set at the top of the task.
TusbInit_Early == /\ At("usb", "tusb") /\ Goes("usb", <<"lwip">>)
                  /\ initialized' = TRUE
                  /\ UNCHANGED <<driver, host, pbufs, netif, past>>

TusbInit == /\ At("usb", "tusb") /\ Goes("usb", <<"lwip">>)
            /\ UNCHANGED <<driver, host, pbufs, up, past>>

LwipInit == /\ At("usb", "lwip")
            /\ stack' = [stack EXCEPT !["usb"] = <<"wait">>, !["tcpip"] = <<"boot">>]
            /\ UNCHANGED <<driver, host, pbufs, up, past>>

TcpipInitDone == /\ At("tcpip", "boot") /\ Returns("tcpip")
                 /\ netif' = TRUE
                 /\ UNCHANGED <<driver, host, pbufs, initialized, past>>

\* The semaphore is given, and the interface is up from its first moment.
NetifIsUp == /\ At("usb", "wait") /\ netif /\ Goes("usb", <<"dhcpd">>)
             /\ UNCHANGED <<driver, host, pbufs, up, past>>

\* dhserv_init is tried until it succeeds.
DhcpdInit == /\ At("usb", "dhcpd") /\ Returns("usb")
             /\ initialized' = TRUE
             /\ UNCHANGED <<driver, host, pbufs, netif, past>>
-----------------------------------------------------------------------------
(* lwIP, as sockets, timers and netif->input enter it. *)

\* A socket call of a task that waited for isere_tcp_is_initialized, or a timer.
Enter(t) == /\ stack[t] = <<>> /\ LockFree(t)
            /\ IF t = "tcpip" THEN netif ELSE t \in App /\ initialized
            /\ Calls(t, "in")
            /\ UNCHANGED <<driver, host, pbufs, up, past>>

\* lwip_recv gives back a pbuf.
Read(t) == /\ t \in App /\ At(t, "in") /\ Len(stack[t]) = 1 /\ unread > 0
           /\ free' = free + 1 /\ unread' = unread - 1
           /\ UNCHANGED <<stack, driver, host, up, past>>

\* output_fn, etharp_output: a frame goes to netif->linkoutput. Bound: one each time.
Output(t) == /\ At(t, "in") /\ Goes(t, <<"link", "out">>)
             /\ UNCHANGED <<driver, host, pbufs, up, past>>

Leave(t) == /\ At(t, "in") \/ At(t, "out")
            /\ Returns(t)
            /\ UNCHANGED <<driver, host, pbufs, up, past>>

\* Mutant of Link: tud_ready() is not asked.
Link_NotReady(t) == /\ At(t, "link")
                    /\ \/ canXmit /\ Goes(t, <<"send">>)
                       \/ ~canXmit /\ Calls(t, "tud")
                    /\ UNCHANGED <<driver, host, pbufs, up, past>>

\* One round of the loop of linkoutput_fn.
Link(t) == /\ At(t, "link")
           /\ \/ ~ready /\ Returns(t)                       \* ERR_USE
              \/ ready /\ canXmit /\ Goes(t, <<"send">>)
              \/ ready /\ ~canXmit /\ Calls(t, "tud")
           /\ UNCHANGED <<driver, host, pbufs, up, past>>

\* tud_network_xmit copies the frame and starts the transfer, if there is a host.
Connected == ready /\ plugged /\ Queued({"unplug"}) = {}

Xmit(t) == /\ At(t, "send") /\ Returns(t)
           /\ canXmit' = FALSE
           /\ wire' = Connected
           /\ UNCHANGED <<ready, armed, events, plugged, frames, resets, pbufs, up, past>>
-----------------------------------------------------------------------------
(* tud_task() and the callbacks it makes. *)

TudTask == /\ stack["usb"] = <<>> /\ Calls("usb", "tud")
           /\ UNCHANGED <<driver, host, pbufs, up, past>>

\* Mutant of TudReturns: linkoutput_fn sends without another look.
TudReturns_Blind(t) ==
    /\ At(t, "tud") /\ events = <<>>
    /\ stack' = [stack EXCEPT ![t] = IF Len(@) = 1 THEN <<>> ELSE <<"send">> \o Tail(Tail(@))]
    /\ UNCHANGED <<driver, host, pbufs, up, past>>

TudReturns(t) == /\ At(t, "tud") /\ events = <<>> /\ Returns(t)
                 /\ UNCHANGED <<driver, host, pbufs, up, past>>

Takes(t, e) == /\ At(t, "tud") /\ events # <<>> /\ Head(events) = e
               /\ events' = Tail(events)

Sent(t) == /\ Takes(t, "sent")
           /\ canXmit' = TRUE
           /\ UNCHANGED <<stack, ready, armed, host, pbufs, up, past>>

\* The host configures the device: both directions start afresh.
Plug(t) == /\ Takes(t, "plug")
           /\ ready' = TRUE /\ canXmit' = TRUE /\ armed' = TRUE
           /\ mute' = FALSE
           /\ torn' = \E u \in Task : Within(u, Recv) # {}
           /\ UNCHANGED <<stack, host, pbufs, up>>

Unplug(t) == /\ Takes(t, "unplug")
             /\ ready' = FALSE /\ armed' = FALSE
             /\ UNCHANGED <<stack, canXmit, host, pbufs, up, past>>

Received(t) == /\ \/ Takes(t, "frame") /\ Calls(t, "recv")
                  \/ Takes(t, "empty") /\ Calls(t, "none")
               /\ UNCHANGED <<ready, canXmit, armed, host, pbufs, up, past>>

\* tud_network_recv_renew: nothing happens on an endpoint that is closed or busy.
Renew == armed' = (armed \/ (ready /\ Queued({"frame", "empty"}) = {}))

\* A frame without data: recv_cb returns true and renews nothing.
RecvEmpty(t) == /\ At(t, "none") /\ Returns(t)
                /\ mute' = TRUE
                /\ UNCHANGED <<driver, host, pbufs, up, torn>>

\* Mutant of RecvNoPbuf: it returns true.
RecvNoPbuf_Accepts(t) == /\ At(t, "recv") /\ free = 0 /\ Returns(t)
                         /\ UNCHANGED <<driver, host, pbufs, up, past>>

\* No pbuf: recv_cb returns false, and the driver renews by itself.
RecvNoPbuf(t) == /\ At(t, "recv") /\ free = 0 /\ Returns(t)
                 /\ Renew
                 /\ UNCHANGED <<ready, canXmit, events, host, pbufs, up, past>>

RecvCopies(t) == /\ At(t, "recv") /\ free > 0 /\ Goes(t, <<"input">>)
                 /\ free' = free - 1
                 /\ UNCHANGED <<driver, host, unread, up, past>>

\* Mutant of Input: the pbuf is freed also when lwIP took it.
Input_FreesToo(t) == /\ At(t, "input") /\ LockFree(t) /\ Goes(t, <<"in", "renew">>)
                     /\ free' = free + 1 /\ unread' = unread + 1
                     /\ UNCHANGED <<driver, host, up, past>>

\* lwIP takes the pbuf: it frees it, or keeps it for a socket.
Input(t) == /\ At(t, "input") /\ LockFree(t) /\ Goes(t, <<"in", "renew">>)
            /\ \/ free' = free + 1 /\ UNCHANGED unread
               \/ unread' = unread + 1 /\ UNCHANGED free
            /\ UNCHANGED <<driver, host, up, past>>

\* Mutant of InputRefused: the pbuf is forgotten.
InputRefused_Leaks(t) == /\ At(t, "input") /\ LockFree(t) /\ Goes(t, <<"renew">>)
                         /\ UNCHANGED <<driver, host, pbufs, up, past>>

\* lwIP refuses it, and recv_cb frees it.
InputRefused(t) == /\ At(t, "input") /\ LockFree(t) /\ Goes(t, <<"renew">>)
                   /\ free' = free + 1
                   /\ UNCHANGED <<driver, host, unread, up, past>>

RecvRenews(t) == /\ At(t, "renew") /\ Returns(t)
                 /\ Renew
                 /\ UNCHANGED <<ready, canXmit, events, host, pbufs, up, past>>
-----------------------------------------------------------------------------
(* The host, as the device controller reports it. *)

HostPlugs == /\ ~plugged /\ ~At("usb", "tusb")
             /\ plugged' = TRUE /\ events' = Append(events, "plug")
             /\ UNCHANGED <<stack, ready, canXmit, armed, wire, frames, resets, pbufs, up, past>>

HostUnplugs == /\ plugged /\ resets < MaxResets
               /\ plugged' = FALSE /\ wire' = FALSE /\ resets' = resets + 1
               /\ events' = Append(events, "unplug")
               /\ UNCHANGED <<stack, ready, canXmit, armed, frames, pbufs, up, past>>

HostSends == /\ Connected /\ armed /\ frames < MaxFrames
             /\ armed' = FALSE /\ frames' = frames + 1
             /\ \E e \in {"frame", "empty"} : events' = Append(events, e)
             /\ UNCHANGED <<stack, ready, canXmit, wire, plugged, resets, pbufs, up, past>>

HostReceives == /\ wire
                /\ wire' = FALSE /\ events' = Append(events, "sent")
                /\ UNCHANGED <<stack, ready, canXmit, armed, plugged, frames, resets, pbufs, up, past>>

Start == TusbInit \/ LwipInit \/ TcpipInitDone \/ NetifIsUp \/ DhcpdInit
Lwip(t) == Read(t) \/ Output(t) \/ Leave(t) \/ Link(t) \/ Xmit(t)
Tud(t) == \/ TudReturns(t) \/ Sent(t) \/ Plug(t) \/ Unplug(t) \/ Received(t)
          \/ RecvEmpty(t) \/ RecvNoPbuf(t) \/ RecvCopies(t) \/ RecvRenews(t)
Takeover(t) == Input(t) \/ InputRefused(t)

Next == \/ Start \/ TudTask
        \/ \E t \in Task : Enter(t) \/ Lwip(t) \/ Tud(t) \/ Takeover(t)
        \/ HostPlugs \/ HostUnplugs \/ HostSends \/ HostReceives

Spec == Init /\ [][Next]_vars

\* The scheduler runs a task that is not waiting: the usb task spins on one of the
\* two cores, the others share what is left. The lock goes to the waiting task of the
\* highest priority. A host that is connected takes what it is sent.
Fairness == /\ WF_vars(Start) /\ WF_vars(TudTask)
            /\ \A t \in Task : WF_vars(Lwip(t)) /\ WF_vars(Tud(t)) /\ SF_vars(Takeover(t))
            /\ WF_vars(HostReceives)
FairSpec == Spec /\ Fairness
-----------------------------------------------------------------------------
\* Reception never stops and its buffer is never shared: while a host is connected
\* the driver waits for a frame, or has queued one, or exactly one tud_network_recv_cb,
\* in whichever task and however deep, has it in hand. Two cases are excepted: an
\* empty frame, after which line 159 renews nothing, and a host that connected anew
\* while a frame of the old connection was in hand.
OneReception == ready /\ ~mute /\ ~torn =>
    Cardinality({t \in Task : Within(t, Recv) # {}})
      + Cardinality(Queued({"frame", "empty"})) + (IF armed THEN 1 ELSE 0) = 1

\* Every pbuf of the pool is free, kept by lwIP, or in the hands of one recv_cb that
\* has not given it to lwIP yet; no path of recv_cb loses one or frees one twice.
PbufsAccounted ==
    free + unread + Cardinality({t \in Task : Within(t, {"input"}) # {}}) = PoolSize

\* linkoutput_fn answers ERR_OK only for a frame the driver took: what it saw before
\* it sends is still true, though the other tasks, and tud_task() in its own, ran on.
SendsToFreeDriver == \A t \in Task : At(t, "send") => canXmit

\* No task makes a socket call before lwIP, its interface and the DHCP server are up.
UsedWhenUp == \A t \in App : stack[t] # <<>> => netif /\ Within("usb", Boot) = {}

\* linkoutput_fn ends, and with it the call that holds the lock of lwIP: the driver
\* becomes free by the tud_task() it runs itself, or the host is gone.
LinkEnds == \A t \in Task : Within(t, {"link"}) # {} ~> Within(t, {"link"}) = {}
=============================================================================
