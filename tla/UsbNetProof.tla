----------------------------- MODULE UsbNetProof -----------------------------
(***************************************************************************)
(* The network of the Pico 2 for any number of tasks, any pool of pbufs,   *)
(* and a host that sends and resets as often as it likes: its invariants   *)
(* hold, by the inductive invariant IInv. What the checked invariants lack *)
(* is which call may be inside which one (Nested), that one task at most   *)
(* has the lock of lwIP (OneOwner), in which order start-up goes           *)
(* (Starting), and what TinyUSB's queue may hold behind a reset of the     *)
(* bus (EventOrder).                                                       *)
(***************************************************************************)
EXTENDS UsbNet, TLAPS, FiniteSetTheorems, SequenceTheorems

Has(s, S) == \E k \in DOMAIN s : s[k] \in S

Core   == {"in", "out"}                     \* in lwIP, with its lock
Lower  == {"out", "link", "tud", "renew"}   \* what a call may be made from
Frames == {"frame", "empty"}
Head4  == {"tusb", "lwip", "wait", "dhcpd"} \* the usb task before its loop

\* Which call is made from which other one, and from none.
Above == {<<"link", "out">>, <<"send", "out">>, <<"tud", "link">>}
           \cup ({"recv", "none", "input", "renew"} \X {"tud"}) \cup (Core \X {"renew"})
Bottom == Boot \cup {"in", "out", "tud"}

Nested(s) == /\ \A k \in DOMAIN s : k + 1 \in DOMAIN s => <<s[k], s[k + 1]>> \in Above
             /\ s # <<>> => s[Len(s)] \in Bottom

\* One frame is in hand at most.
Once(s) == \A j, k \in DOMAIN s : s[j] \in Recv /\ s[k] \in Recv => j = k

Stacks   == \A t \in Task : Nested(stack[t])
OneOwner == \A t, u \in Task : Has(stack[t], Core) /\ Has(stack[u], Core) => t = u
Sending  == \A t \in Task : Has(stack[t], {"send"}) => canXmit

Starting ==
    /\ \A t \in Task : Has(stack[t], Head4) => t = "usb"
    /\ Has(stack["usb"], {"tusb", "lwip"}) => stack["tcpip"] = <<>> /\ ~netif
    /\ Has(stack["usb"], {"dhcpd"}) => netif
    /\ initialized => netif /\ ~Has(stack["usb"], Boot)
    /\ \A t \in App : stack[t] # <<>> => initialized

\* A host that is gone, or will be when the queue has been worked off, sends nothing.
EventOrder ==
    /\ \A k \in DOMAIN events : events[k] = "plug" /\ ready =>
          \E j \in DOMAIN events : j < k /\ events[j] = "unplug"
    /\ \A j, k \in DOMAIN events : j < k /\ events[j] = "unplug" => events[k] \notin Frames
    /\ \A j, k \in DOMAIN events : j < k /\ events[j] = "plug" /\ events[k] = "plug" =>
          \E m \in DOMAIN events : j < m /\ m < k /\ events[m] = "unplug"
    /\ ~plugged /\ ready => \E j \in DOMAIN events : events[j] = "unplug"
    /\ ~plugged => \A j \in DOMAIN events : events[j] = "plug" =>
          \E m \in DOMAIN events : j < m /\ events[m] = "unplug"
    /\ ~ready => ~Has(events, Frames) /\ ~armed

\* OneReception without counting.
Receiving ==
    ready /\ ~mute /\ ~torn =>
       /\ armed \/ Has(events, Frames) \/ \E t \in Task : Has(stack[t], Recv)
       /\ armed => ~Has(events, Frames)
       /\ \A t \in Task : Has(stack[t], Recv) =>
             Once(stack[t]) /\ ~armed /\ ~Has(events, Frames)
       /\ \A t, u \in Task : Has(stack[t], Recv) /\ Has(stack[u], Recv) => t = u
       /\ \A j, k \in DOMAIN events : events[j] \in Frames /\ events[k] \in Frames => j = k

IInv == TypeOK /\ Stacks /\ OneOwner /\ Sending /\ Starting /\ EventOrder /\ Receiving
          /\ PbufsAccounted

-----------------------------------------------------------------------------
(* Stacks: what a call on top of one does to the questions asked of it.    *)

Push(p, s) == <<p>> \o s

LEMMA PushTyped ==
    ASSUME NEW s \in Seq(Place), NEW p \in Place
    PROVE  /\ Push(p, s) \in Seq(Place) /\ Push(p, s) # <<>>
           /\ Len(Push(p, s)) = Len(s) + 1
           /\ Push(p, s)[1] = p
           /\ \A k \in DOMAIN s : Push(p, s)[k + 1] = s[k]
           /\ Head(Push(p, s)) = p /\ Tail(Push(p, s)) = s
BY DEF Push

LEMMA Popped ==
    ASSUME NEW s \in Seq(Place), s # <<>>
    PROVE  /\ Head(s) \in Place /\ Tail(s) \in Seq(Place)
           /\ s = Push(Head(s), Tail(s))
BY DEF Push

LEMMA PushHas ==
    ASSUME NEW s \in Seq(Place), NEW p \in Place, NEW S
    PROVE  Has(Push(p, s), S) <=> p \in S \/ Has(s, S)
<1> DEFINE r == Push(p, s)
<1>1. /\ r \in Seq(Place) /\ Len(r) = Len(s) + 1 /\ r[1] = p
      /\ \A k \in DOMAIN s : r[k + 1] = s[k]
  BY PushTyped
<1> HIDE DEF r
<1>2. ASSUME NEW k \in DOMAIN r, r[k] \in S PROVE p \in S \/ Has(s, S)
  <2>1. CASE k = 1
    BY <2>1, <1>1, <1>2
  <2>2. CASE k # 1
    <3>1. k - 1 \in DOMAIN s /\ r[k] = s[k - 1]
      BY <2>2, <1>1
    <3> QED
      BY <3>1, <1>2 DEF Has
  <2> QED
    BY <2>1, <2>2
<1>3. ASSUME NEW k \in DOMAIN s, s[k] \in S PROVE Has(r, S)
  <2>1. k + 1 \in DOMAIN r /\ r[k + 1] = s[k]
    BY <1>1
  <2> QED
    BY <2>1, <1>3 DEF Has
<1>4. p \in S => Has(r, S)
  <2>1. 1 \in DOMAIN r
    BY <1>1
  <2> QED
    BY <1>1, <2>1 DEF Has
<1> QED
  BY <1>2, <1>3, <1>4 DEF Has, r

LEMMA PushNested ==
    ASSUME NEW s \in Seq(Place), NEW p \in Place
    PROVE  Nested(Push(p, s)) <=>
              /\ Nested(s)
              /\ s = <<>> => p \in Bottom
              /\ s # <<>> => <<p, Head(s)>> \in Above
<1> DEFINE r == Push(p, s)
<1>1. /\ r \in Seq(Place) /\ Len(r) = Len(s) + 1 /\ r[1] = p
      /\ \A k \in DOMAIN s : r[k + 1] = s[k]
  BY PushTyped
<1> HIDE DEF r
<1>2. CASE s = <<>>
  BY <1>1, <1>2 DEF Nested, r
<1>3. CASE s # <<>>
  <2>1. Len(s) \in DOMAIN s /\ 1 \in DOMAIN s /\ Head(s) = s[1] /\ r # <<>>
    BY <1>1, <1>3
  <2>2. r[Len(r)] = s[Len(s)] /\ r[2] = Head(s)
    BY <1>1, <2>1
  <2>3. ASSUME Nested(r) PROVE Nested(s) /\ <<p, Head(s)>> \in Above
    <3>1. ASSUME NEW k \in DOMAIN s, k + 1 \in DOMAIN s PROVE <<s[k], s[k + 1]>> \in Above
      <4>1. k + 1 \in DOMAIN r /\ (k + 1) + 1 \in DOMAIN r
        BY <1>1, <3>1
      <4>2. r[k + 1] = s[k] /\ r[(k + 1) + 1] = s[k + 1]
        BY <1>1, <3>1
      <4> QED
        BY <2>3, <4>1, <4>2 DEF Nested
    <3>2. 1 \in DOMAIN r /\ 1 + 1 \in DOMAIN r
      BY <1>1, <2>1
    <3>3. <<p, Head(s)>> \in Above
      BY <2>3, <3>2, <2>2, <1>1 DEF Nested
    <3> QED
      BY <2>1, <2>2, <2>3, <3>1, <3>3 DEF Nested
  <2>4. ASSUME Nested(s), <<p, Head(s)>> \in Above PROVE Nested(r)
    <3>1. ASSUME NEW k \in DOMAIN r, k + 1 \in DOMAIN r PROVE <<r[k], r[k + 1]>> \in Above
      <4>1. CASE k = 1
        BY <4>1, <1>1, <2>2, <2>4
      <4>2. CASE k # 1
        <5>1. k - 1 \in DOMAIN s /\ (k - 1) + 1 \in DOMAIN s
          BY <4>2, <1>1, <3>1
        <5>2. r[k] = s[k - 1] /\ r[k + 1] = s[(k - 1) + 1]
          BY <4>2, <1>1, <3>1
        <5> QED
          BY <2>4, <5>1, <5>2 DEF Nested
      <4> QED
        BY <4>1, <4>2
    <3> QED
      BY <2>2, <2>4, <1>3, <3>1 DEF Nested
  <2> QED
    BY <2>3, <2>4, <1>3 DEF r
<1> QED
  BY <1>2, <1>3

LEMMA PushOnce ==
    ASSUME NEW s \in Seq(Place), NEW p \in Place
    PROVE  Once(Push(p, s)) <=> Once(s) /\ ~(p \in Recv /\ Has(s, Recv))
<1> DEFINE r == Push(p, s)
<1>1. /\ r \in Seq(Place) /\ Len(r) = Len(s) + 1 /\ r[1] = p
      /\ \A k \in DOMAIN s : r[k + 1] = s[k]
  BY PushTyped
<1> HIDE DEF r
<1>2. \A k \in DOMAIN r : k = 1 \/ (k - 1 \in DOMAIN s /\ r[k] = s[k - 1])
  BY <1>1
<1>3. \A k \in DOMAIN s : k + 1 \in DOMAIN r /\ k + 1 # 1
  BY <1>1
<1>4. 1 \in DOMAIN r
  BY <1>1
<1>5. Once(r) => Once(s)
  <2> SUFFICES ASSUME Once(r), NEW j \in DOMAIN s, NEW k \in DOMAIN s, s[j] \in Recv, s[k] \in Recv
               PROVE  j = k
    BY DEF Once
  <2>1. j + 1 = k + 1
    BY <1>1, <1>3 DEF Once
  <2> QED
    BY <2>1
<1>6. Once(r) => ~(p \in Recv /\ Has(s, Recv))
  BY <1>1, <1>3, <1>4 DEF Once, Has
<1>7. Once(s) /\ ~(p \in Recv /\ Has(s, Recv)) => Once(r)
  <2> SUFFICES ASSUME Once(s), ~(p \in Recv /\ Has(s, Recv)),
                      NEW j \in DOMAIN r, NEW k \in DOMAIN r, r[j] \in Recv, r[k] \in Recv
               PROVE  j = k
    BY DEF Once
  <2>1. CASE j = 1 \/ k = 1
    BY <2>1, <1>1, <1>2 DEF Has
  <2>2. CASE j # 1 /\ k # 1
    <3>1. j - 1 = k - 1
      BY <2>2, <1>2 DEF Once
    <3> QED
      BY <3>1, <1>1
  <2> QED
    BY <2>1, <2>2
<1> QED
  BY <1>5, <1>6, <1>7 DEF r

-----------------------------------------------------------------------------
(* Steps: the calls H on top of a task's stack make way for the calls P.   *)

Shows(s, H, r) == /\ \A S : Has(s, S) <=> S \cap H # {} \/ Has(r, S)
                  /\ Once(s) <=> Once(r) /\ ~(H \cap Recv # {} /\ Has(r, Recv))

Moves(t, H, P) ==
    /\ stack' \in [Task -> Seq(Place)]
    /\ \A u \in Task \ {t} : stack'[u] = stack[u]
    /\ Nested(stack'[t])
    /\ \E r \in Seq(Place) : /\ Shows(stack[t], H, r) /\ Shows(stack'[t], P, r)
                             /\ \A S : Has(r, S) => S \cap Lower # {}

LEMMA ShowsNothing == ASSUME NEW s PROVE Shows(s, {}, s)
BY DEF Shows

LEMMA ShowsPush ==
    ASSUME NEW s \in Seq(Place), NEW p \in Place
    PROVE  Shows(Push(p, s), {p}, s)
BY PushHas, PushOnce DEF Shows

\* Below the innermost call there are only calls that others are made from.
LEMMA BelowTop ==
    ASSUME NEW r \in Seq(Place), NEW p \in Place, Nested(Push(p, r))
    PROVE  \A S : Has(r, S) => S \cap Lower # {}
<1> SUFFICES ASSUME NEW k \in DOMAIN r PROVE r[k] \in Lower
  BY DEF Has
<1> DEFINE s == Push(p, r)
<1>1. s \in Seq(Place) /\ Len(s) = Len(r) + 1 /\ s[k + 1] = r[k] /\ Nested(s)
  BY PushTyped
<1> HIDE DEF s
<1>2. <<s[k], s[k + 1]>> \in Above
  <2>1. k \in DOMAIN s /\ k + 1 \in DOMAIN s
    BY <1>1
  <2> QED
    BY <1>1, <2>1 DEF Nested
<1>3. s[k + 1] \in Lower
  BY <1>2 DEF Above, Lower
<1> QED
  BY <1>1, <1>3

LEMMA ReturnMoves ==
    ASSUME TypeOK, Stacks, NEW t \in Task, NEW h, At(t, h), Returns(t)
    PROVE  Moves(t, {h}, {})
<1> DEFINE r == Tail(stack[t])
<1>1. /\ stack[t] \in Seq(Place) /\ stack[t] # <<>> /\ h = Head(stack[t])
      /\ stack \in [Task -> Seq(Place)]
  BY DEF TypeOK, At
<1>2. h \in Place /\ r \in Seq(Place) /\ stack[t] = Push(h, r)
  BY <1>1, Popped
<1>3. stack' = [stack EXCEPT ![t] = r]
  BY <1>1, <1>2 DEF Returns, Goes
<1> HIDE DEF r
<1>4. Nested(r)
  BY <1>2, PushNested DEF Stacks
<1>5. \A S : Has(r, S) => S \cap Lower # {}
  BY <1>2, BelowTop DEF Stacks
<1>6. Shows(stack[t], {h}, r) /\ Shows(r, {}, r)
  BY <1>2, ShowsPush, ShowsNothing
<1> QED
  BY <1>1, <1>2, <1>3, <1>4, <1>5, <1>6 DEF Moves

\* The innermost call becomes one that may be made from the same place.
LEMMA ReplaceMoves ==
    ASSUME TypeOK, Stacks, NEW t \in Task, NEW h, At(t, h), NEW p \in Place, Goes(t, <<p>>),
           h \in Bottom => p \in Bottom,
           \A q : <<h, q>> \in Above => <<p, q>> \in Above
    PROVE  Moves(t, {h}, {p})
<1> DEFINE r == Tail(stack[t])
<1>1. /\ stack[t] \in Seq(Place) /\ stack[t] # <<>> /\ h = Head(stack[t])
      /\ stack \in [Task -> Seq(Place)]
  BY DEF TypeOK, At
<1>2. h \in Place /\ r \in Seq(Place) /\ stack[t] = Push(h, r)
  BY <1>1, Popped
<1>3. stack' = [stack EXCEPT ![t] = Push(p, r)]
  BY DEF Goes, Push
<1> HIDE DEF r
<1>4. Nested(Push(p, r))
  <2>1. Nested(Push(h, r))
    BY <1>2 DEF Stacks
  <2>2. Nested(r) /\ (r = <<>> => h \in Bottom) /\ (r # <<>> => <<h, Head(r)>> \in Above)
    BY <1>2, <2>1, PushNested
  <2> QED
    BY <1>2, <2>2, PushNested
<1>5. \A S : Has(r, S) => S \cap Lower # {}
  BY <1>2, BelowTop DEF Stacks
<1>6. Shows(stack[t], {h}, r) /\ Shows(Push(p, r), {p}, r) /\ Push(p, r) \in Seq(Place)
  <2>1. Shows(Push(h, r), {h}, r) /\ Shows(Push(p, r), {p}, r)
    BY <1>2, ShowsPush
  <2>2. Push(p, r) \in Seq(Place)
    BY <1>2, PushTyped
  <2> QED
    BY <1>2, <2>1, <2>2, Zenon
<1> QED
  BY <1>1, <1>2, <1>3, <1>4, <1>5, <1>6 DEF Moves

LEMMA CallMoves ==
    ASSUME TypeOK, Stacks, NEW t \in Task, NEW p \in Place, Calls(t, p),
           stack[t] = <<>> => p \in Bottom,
           stack[t] # <<>> => Head(stack[t]) \in Lower /\ <<p, Head(stack[t])>> \in Above
    PROVE  Moves(t, {}, {p})
<1> DEFINE r == stack[t]
<1>1. r \in Seq(Place) /\ Nested(r) /\ stack \in [Task -> Seq(Place)]
  BY DEF TypeOK, Stacks
<1>2. stack' = [stack EXCEPT ![t] = Push(p, r)]
  BY DEF Calls, Push
<1>3. \A S : Has(r, S) => S \cap Lower # {}
  <2>1. CASE r = <<>>
    BY <2>1 DEF Has
  <2>2. CASE r # <<>>
    <3> DEFINE h == Head(r)  q == Tail(r)
    <3>1. h \in Place /\ q \in Seq(Place) /\ r = Push(h, q)
      BY <1>1, <2>2, Popped
    <3>2. h \in Lower
      BY <2>2
    <3> HIDE DEF r, h, q
    <3>3. \A S : Has(q, S) => S \cap Lower # {}
      BY <3>1, <1>1, BelowTop
    <3> QED
      BY <3>1, <3>2, <3>3, PushHas
  <2> QED
    BY <2>1, <2>2
<1>4. Nested(Push(p, r))
  BY <1>1, PushNested
<1>5. Shows(r, {}, r) /\ Shows(Push(p, r), {p}, r) /\ Push(p, r) \in Seq(Place)
  BY <1>1, ShowsNothing, ShowsPush, PushTyped
<1> HIDE DEF r
<1> QED
  BY <1>1, <1>2, <1>3, <1>4, <1>5 DEF Moves, r

\* The innermost call becomes two, one made from the other.
LEMMA NestMoves ==
    ASSUME TypeOK, Stacks, NEW t \in Task, NEW h, At(t, h),
           NEW p \in Place, NEW q \in Place, Goes(t, <<p, q>>),
           <<p, q>> \in Above, ~(p \in Recv /\ q \in Recv),
           h \in Bottom => q \in Bottom,
           \A l : <<h, l>> \in Above => <<q, l>> \in Above
    PROVE  Moves(t, {h}, {p, q})
<1> DEFINE r == Tail(stack[t])  s == Push(q, r)
<1>1. /\ stack[t] \in Seq(Place) /\ stack[t] # <<>> /\ h = Head(stack[t])
      /\ stack \in [Task -> Seq(Place)]
  BY DEF TypeOK, At
<1>2. h \in Place /\ r \in Seq(Place) /\ stack[t] = Push(h, r)
  BY <1>1, Popped
<1>3. stack' = [stack EXCEPT ![t] = Push(p, s)]
  <2>1. <<p, q>> \o r = Push(p, s)
    <3>1. <<p>> \o <<q>> = <<p, q>>
      <4>1. /\ <<p>> \o <<q>> \in Seq(Place) /\ <<p, q>> \in Seq(Place)
            /\ Len(<<p>> \o <<q>>) = 2 /\ Len(<<p, q>>) = 2
            /\ \A k \in 1..2 : (<<p>> \o <<q>>)[k] = <<p, q>>[k]
        OBVIOUS
      <4> QED
        BY <4>1, SeqEqual
    <3>2. (<<p>> \o <<q>>) \o r = <<p>> \o (<<q>> \o r)
      BY <1>2, ConcatAssociative
    <3> QED
      BY <3>1, <3>2 DEF Push
  <2> QED
    BY <2>1 DEF Goes
<1> HIDE DEF r
<1>4. s \in Seq(Place) /\ s # <<>> /\ Head(s) = q
  BY <1>2, PushTyped
<1>5. Nested(s)
  <2>1. Nested(Push(h, r))
    BY <1>2 DEF Stacks
  <2>2. Nested(r) /\ (r = <<>> => h \in Bottom) /\ (r # <<>> => <<h, Head(r)>> \in Above)
    BY <1>2, <2>1, PushNested
  <2> QED
    BY <1>2, <2>2, PushNested
<1>6. Shows(s, {q}, r)
  BY <1>2, ShowsPush
<1> HIDE DEF s
<1>7. Nested(Push(p, s)) /\ Push(p, s) \in Seq(Place)
  BY <1>4, <1>5, PushNested, PushTyped
<1>8. Shows(Push(p, s), {p}, s)
  BY <1>4, ShowsPush
<1>9. Shows(Push(p, s), {p, q}, r)
  BY <1>6, <1>8 DEF Shows
<1>10. \A S : Has(r, S) => S \cap Lower # {}
  BY <1>2, BelowTop DEF Stacks
<1>11. Shows(stack[t], {h}, r)
  BY <1>2, ShowsPush
<1> QED
  BY <1>1, <1>2, <1>3, <1>7, <1>9, <1>10, <1>11 DEF Moves

\* What lwIP's part of a step does to the stack of its task.
LEMMA LwipMoves ==
    ASSUME TypeOK, Stacks, NEW t \in Task
    PROVE  /\ Enter(t) => Moves(t, {}, {"in"})
           /\ Output(t) => Moves(t, {"in"}, {"link", "out"})
           /\ Leave(t) => Moves(t, {"in"}, {}) \/ Moves(t, {"out"}, {})
           /\ Link(t) => \/ Moves(t, {"link"}, {})
                         \/ canXmit /\ Moves(t, {"link"}, {"send"})
                         \/ Moves(t, {}, {"tud"})
           /\ Xmit(t) => Moves(t, {"send"}, {})
<1>1. ASSUME Enter(t) PROVE Moves(t, {}, {"in"})
  BY <1>1, CallMoves DEF Enter, Place, Bottom
<1>2. ASSUME Output(t) PROVE Moves(t, {"in"}, {"link", "out"})
  <2>1. At(t, "in") /\ Goes(t, <<"link", "out">>)
    BY <1>2 DEF Output
  <2>2. /\ "link" \in Place /\ "out" \in Place /\ "out" \in Bottom
        /\ <<"link", "out">> \in Above /\ "link" \notin Recv
        /\ \A l : <<"in", l>> \in Above => <<"out", l>> \in Above
    BY DEF Place, Bottom, Above, Core, Recv
  <2> QED
    BY <2>1, <2>2, NestMoves
<1>3. ASSUME Leave(t) PROVE Moves(t, {"in"}, {}) \/ Moves(t, {"out"}, {})
  BY <1>3, ReturnMoves DEF Leave
<1>4. ASSUME Link(t)
      PROVE  \/ Moves(t, {"link"}, {})
             \/ canXmit /\ Moves(t, {"link"}, {"send"})
             \/ Moves(t, {}, {"tud"})
  <2>1. CASE Returns(t)
    BY <1>4, <2>1, ReturnMoves DEF Link
  <2>2. CASE canXmit /\ Goes(t, <<"send">>)
    <3>1. /\ "send" \in Place /\ "link" \notin Bottom
          /\ \A l : <<"link", l>> \in Above => <<"send", l>> \in Above
      BY DEF Place, Bottom, Boot, Above, Core
    <3> QED
      BY <1>4, <2>2, <3>1, ReplaceMoves DEF Link
  <2>3. CASE Calls(t, "tud")
    <3>1. At(t, "link")
      BY <1>4 DEF Link
    <3>2. "tud" \in Place /\ "link" \in Lower /\ <<"tud", "link">> \in Above
      BY DEF Place, Lower, Above
    <3> QED
      BY <2>3, <3>1, <3>2, CallMoves DEF At
  <2> QED
    BY <1>4, <2>1, <2>2, <2>3 DEF Link
<1>5. ASSUME Xmit(t) PROVE Moves(t, {"send"}, {})
  BY <1>5, ReturnMoves DEF Xmit
<1> QED
  BY <1>1, <1>2, <1>3, <1>4, <1>5

\* What TinyUSB's part, with the callbacks of the glue, does.
LEMMA TudMoves ==
    ASSUME TypeOK, Stacks, NEW t \in Task
    PROVE  /\ TudReturns(t) => Moves(t, {"tud"}, {})
           /\ Received(t) => \/ Takes(t, "frame") /\ Moves(t, {}, {"recv"})
                             \/ Takes(t, "empty") /\ Moves(t, {}, {"none"})
           /\ RecvEmpty(t) => Moves(t, {"none"}, {})
           /\ RecvNoPbuf(t) => Moves(t, {"recv"}, {})
           /\ RecvCopies(t) => Moves(t, {"recv"}, {"input"})
           /\ RecvRenews(t) => Moves(t, {"renew"}, {})
           /\ Input(t) => Moves(t, {"input"}, {"in", "renew"})
           /\ InputRefused(t) => Moves(t, {"input"}, {"renew"})
<1>1. ASSUME NEW e, NEW p \in {"recv", "none"}, Takes(t, e), Calls(t, p)
      PROVE  Moves(t, {}, {p})
  <2>1. stack[t] # <<>> /\ Head(stack[t]) = "tud"
    BY <1>1 DEF Takes, At
  <2>2. p \in Place /\ "tud" \in Lower /\ <<p, "tud">> \in Above
    BY <1>1 DEF Place, Recv, Lower, Above
  <2> QED
    BY <1>1, <2>1, <2>2, CallMoves
<1>2. Received(t) => \/ Takes(t, "frame") /\ Moves(t, {}, {"recv"})
                     \/ Takes(t, "empty") /\ Moves(t, {}, {"none"})
  BY <1>1 DEF Received
<1>3. /\ TudReturns(t) => Moves(t, {"tud"}, {})
      /\ RecvEmpty(t) => Moves(t, {"none"}, {})
      /\ RecvNoPbuf(t) => Moves(t, {"recv"}, {})
      /\ RecvRenews(t) => Moves(t, {"renew"}, {})
  BY ReturnMoves DEF TudReturns, RecvEmpty, RecvNoPbuf, RecvRenews
<1>4. \A h, p \in {"recv", "input", "renew"} :
         /\ p \in Place /\ h \notin Bottom
         /\ \A l : <<h, l>> \in Above => <<p, l>> \in Above
  BY DEF Place, Recv, Bottom, Boot, Above, Core
<1>5. /\ RecvCopies(t) => Moves(t, {"recv"}, {"input"})
      /\ InputRefused(t) => Moves(t, {"input"}, {"renew"})
  <2>1. ASSUME RecvCopies(t) PROVE Moves(t, {"recv"}, {"input"})
    BY <2>1, <1>4, ReplaceMoves DEF RecvCopies
  <2>2. ASSUME InputRefused(t) PROVE Moves(t, {"input"}, {"renew"})
    BY <2>2, <1>4, ReplaceMoves DEF InputRefused
  <2> QED
    BY <2>1, <2>2
<1>6. ASSUME Input(t) PROVE Moves(t, {"input"}, {"in", "renew"})
  <2>1. At(t, "input") /\ Goes(t, <<"in", "renew">>)
    BY <1>6 DEF Input
  <2>2. "in" \in Place /\ "in" \notin Recv /\ <<"in", "renew">> \in Above
    BY DEF Place, Recv, Above, Core
  <2> QED
    BY <2>1, <2>2, <1>4, NestMoves
<1> QED
  BY <1>2, <1>3, <1>5, <1>6

LEMMA StartMoves ==
    ASSUME TypeOK, Stacks
    PROVE  /\ TusbInit => Moves("usb", {"tusb"}, {"lwip"})
           /\ TcpipInitDone => Moves("tcpip", {"boot"}, {})
           /\ NetifIsUp => Moves("usb", {"wait"}, {"dhcpd"})
           /\ DhcpdInit => Moves("usb", {"dhcpd"}, {})
           /\ TudTask => Moves("usb", {}, {"tud"})
<1>1. "usb" \in Task /\ "tcpip" \in Task
  BY DEF Task
<1>2. TcpipInitDone => Moves("tcpip", {"boot"}, {})
  BY <1>1, ReturnMoves DEF TcpipInitDone
<1>3. DhcpdInit => Moves("usb", {"dhcpd"}, {})
  BY <1>1, ReturnMoves DEF DhcpdInit
<1>4. ASSUME TudTask PROVE Moves("usb", {}, {"tud"})
  BY <1>1, <1>4, CallMoves DEF TudTask, Place, Bottom
<1>5. \A h, p \in Boot :
         p \in Place /\ p \in Bottom /\ \A l : <<h, l>> \notin Above
  BY DEF Place, Bottom, Boot, Above, Core
<1>6. "tusb" \in Boot /\ "lwip" \in Boot /\ "wait" \in Boot /\ "dhcpd" \in Boot
  BY DEF Boot
<1>7. ASSUME TusbInit PROVE Moves("usb", {"tusb"}, {"lwip"})
  BY <1>1, <1>5, <1>6, <1>7, ReplaceMoves DEF TusbInit
<1>8. ASSUME NetifIsUp PROVE Moves("usb", {"wait"}, {"dhcpd"})
  BY <1>1, <1>5, <1>6, <1>8, ReplaceMoves DEF NetifIsUp
<1> QED
  BY <1>2, <1>3, <1>4, <1>7, <1>8

-----------------------------------------------------------------------------
(* What holds of the stacks in every step.                                 *)

\* A question S is answered differently after the step only if H or P says so.
LEMMA MovesHas ==
    ASSUME NEW t \in Task, NEW H, NEW P, Moves(t, H, P), NEW S
    PROVE  /\ S \cap P # {} => Has(stack'[t], S)
           /\ Has(stack'[t], S) => S \cap P # {} \/ Has(stack[t], S)
           /\ S \cap H # {} => Has(stack[t], S)
           /\ S \cap H = {} => (Has(stack[t], S) => Has(stack'[t], S))
           /\ S \cap Lower = {} => /\ Has(stack[t], S) <=> S \cap H # {}
                                   /\ Has(stack'[t], S) <=> S \cap P # {}
BY DEF Moves, Shows

\* Who sends is in lwIP.
LEMMA SendInCore ==
    ASSUME NEW s \in Seq(Place), Nested(s), Has(s, {"send"})
    PROVE  Has(s, Core)
<1>1. PICK k \in DOMAIN s : s[k] = "send"
  BY DEF Has
<1>2. "send" \notin Bottom
  BY DEF Bottom, Boot
<1>3. k + 1 \in DOMAIN s
  BY <1>1, <1>2 DEF Nested
<1>4. <<"send", s[k + 1]>> \in Above
  BY <1>1, <1>3 DEF Nested
<1>5. s[k + 1] = "out"
  BY <1>4 DEF Above, Recv, Core
<1> QED
  BY <1>3, <1>5 DEF Has, Core

LEMMA LockFreeHas ==
    ASSUME NEW t \in Task, LockFree(t), NEW u \in Task, u # t
    PROVE  ~Has(stack[u], Core)
BY DEF LockFree, InCore, Within, Has, Core

\* A step of lwIP, of TinyUSB or of a callback, by task t.
Ordinary(t) == Enter(t) \/ Lwip(t) \/ Tud(t) \/ Takeover(t) \/ (t = "usb" /\ TudTask)

\* Nobody calls anything from the start-up code; calls are made by a task that is in
\* one, or may begin.
Ready(t) == \/ stack[t] # <<>>
            \/ t = "usb"
            \/ t = "tcpip" /\ netif
            \/ t \in App /\ initialized

LEMMA OrdinaryMoves ==
    ASSUME TypeOK, Stacks, NEW t \in Task, Ordinary(t)
    PROVE  /\ UNCHANGED up /\ Ready(t)
           /\ \/ UNCHANGED stack
              \/ \E H, P : /\ Moves(t, H, P) /\ P \cap Boot = {}
                           /\ P \cap Core # {} => H \cap Core # {} \/ LockFree(t)
<1> DEFINE Does == \/ UNCHANGED stack
                   \/ \E H, P : /\ Moves(t, H, P) /\ P \cap Boot = {}
                                /\ P \cap Core # {} => H \cap Core # {} \/ LockFree(t)
<1>1. ASSUME NEW H, NEW P, Moves(t, H, P), P \cap Boot = {},
             P \cap Core # {} => H \cap Core # {} \/ LockFree(t)
      PROVE  Does
  BY <1>1
<1>2. ASSUME NEW H, NEW p \in {"send", "tud", "recv", "none", "input", "renew"}, Moves(t, H, {p})
      PROVE  Does
  BY <1>2, <1>1 DEF Boot, Core
<1>3. ASSUME NEW H, Moves(t, H, {}) PROVE Does
  BY <1>3, <1>1
<1> HIDE DEF Does
<1>4. CASE Enter(t)
  <2>1. Moves(t, {}, {"in"}) /\ LockFree(t)
    BY <1>4, LwipMoves DEF Enter
  <2>2. Does
    BY <2>1, <1>1 DEF Boot
  <2> QED
    BY <1>4, <2>2 DEF Enter, Ready, Does
<1>5. CASE Lwip(t)
  <2>1. ASSUME Output(t) PROVE Does
    <3>1. Moves(t, {"in"}, {"link", "out"})
      BY <2>1, LwipMoves
    <3> QED
      BY <3>1, <1>1 DEF Boot, Core
  <2>2. ASSUME Read(t) PROVE Does
    BY <2>2 DEF Read, Does
  <2>3. ASSUME Leave(t) \/ Link(t) \/ Xmit(t) PROVE Does
    BY <2>3, <1>2, <1>3, LwipMoves
  <2>4. UNCHANGED up /\ stack[t] # <<>>
    BY <1>5 DEF Lwip, Read, Output, Leave, Link, Xmit, At, up
  <2> QED
    BY <1>5, <2>1, <2>2, <2>3, <2>4 DEF Lwip, Ready, Does
<1>6. CASE Tud(t)
  <2>1. ASSUME Sent(t) \/ Plug(t) \/ Unplug(t) PROVE Does
    BY <2>1 DEF Sent, Plug, Unplug, Does
  <2>2. ASSUME TudReturns(t) \/ RecvEmpty(t) \/ RecvNoPbuf(t) \/ RecvRenews(t) PROVE Does
    BY <2>2, <1>3, TudMoves
  <2>3. ASSUME Received(t) \/ RecvCopies(t) PROVE Does
    BY <2>3, <1>2, TudMoves
  <2>4. UNCHANGED up /\ stack[t] # <<>>
    BY <1>6 DEF Tud, TudReturns, Sent, Plug, Unplug, Received, Takes, RecvEmpty, RecvNoPbuf,
                RecvCopies, RecvRenews, At, up
  <2> QED
    BY <1>6, <2>1, <2>2, <2>3, <2>4 DEF Tud, Ready, Does
<1>7. CASE Takeover(t)
  <2>1. ASSUME Input(t) PROVE Does
    <3>1. Moves(t, {"input"}, {"in", "renew"}) /\ LockFree(t)
      BY <2>1, TudMoves DEF Input
    <3> QED
      BY <3>1, <1>1 DEF Boot
  <2>2. ASSUME InputRefused(t) PROVE Does
    BY <2>2, <1>2, TudMoves
  <2>3. UNCHANGED up /\ stack[t] # <<>>
    BY <1>7 DEF Takeover, Input, InputRefused, At, up
  <2> QED
    BY <1>7, <2>1, <2>2, <2>3 DEF Takeover, Ready, Does
<1>8. CASE t = "usb" /\ TudTask
  <2>1. Moves(t, {}, {"tud"}) /\ UNCHANGED up
    BY <1>8, StartMoves DEF TudTask
  <2> QED
    BY <1>8, <2>1, <1>2 DEF Ready, Does
<1> QED
  BY <1>4, <1>5, <1>6, <1>7, <1>8 DEF Ordinary

LEMMA OrdinaryKeeps ==
    ASSUME TypeOK, Stacks, OneOwner, Starting, NEW t \in Task, Ordinary(t)
    PROVE  stack' \in [Task -> Seq(Place)] /\ Stacks' /\ OneOwner' /\ Starting'
<1>1. UNCHANGED up /\ Ready(t)
  BY OrdinaryMoves
<1>2. CASE UNCHANGED stack
  BY <1>1, <1>2 DEF TypeOK, Stacks, OneOwner, Starting, up
<1>3. CASE \E H, P : /\ Moves(t, H, P) /\ P \cap Boot = {}
                     /\ P \cap Core # {} => H \cap Core # {} \/ LockFree(t)
  <2>1. PICK H, P : /\ Moves(t, H, P) /\ P \cap Boot = {}
                    /\ P \cap Core # {} => H \cap Core # {} \/ LockFree(t)
    BY <1>3
  <2>2. stack' \in [Task -> Seq(Place)] /\ Stacks'
    BY <2>1 DEF Moves, Stacks
  <2>3. \A u \in Task \ {t} : stack'[u] = stack[u]
    BY <2>1 DEF Moves
  <2>4. OneOwner'
    <3>1. Has(stack'[t], Core) => Has(stack[t], Core) \/ LockFree(t)
      BY <2>1, MovesHas
    <3> QED
      BY <2>3, <3>1, LockFreeHas DEF OneOwner
  <2>5. Starting'
    <3>1. ASSUME NEW S, S \subseteq Boot PROVE Has(stack'[t], S) => Has(stack[t], S)
      BY <2>1, <3>1, MovesHas
    <3>2. \A u \in Task : \A S \in SUBSET Boot : Has(stack'[u], S) => Has(stack[u], S)
      BY <2>3, <3>1
    <3>3. /\ Head4 \subseteq Boot /\ {"tusb", "lwip"} \subseteq Boot
          /\ {"dhcpd"} \subseteq Boot
          /\ "usb" \in Task /\ "tcpip" \in Task /\ App \subseteq Task
          /\ "usb" \notin App /\ "tcpip" \notin App
      BY UsbNetAssumption DEF Head4, Boot, Task
    <3>4. \A u \in Task : Has(stack'[u], Head4) => u = "usb"
      BY <3>2, <3>3 DEF Starting
    <3>5. Has(stack'["usb"], {"tusb", "lwip"}) => stack'["tcpip"] = <<>> /\ ~netif'
      BY <1>1, <2>3, <3>2, <3>3 DEF Starting, Ready, up
    <3>6. Has(stack'["usb"], {"dhcpd"}) => netif'
      BY <1>1, <3>2, <3>3 DEF Starting, up
    <3>7. initialized' => netif' /\ ~Has(stack'["usb"], Boot)
      BY <1>1, <3>2, <3>3 DEF Starting, up
    <3>8. \A u \in App : stack'[u] # <<>> => initialized'
      BY <1>1, <2>3, <3>3 DEF Starting, Ready, up
    <3> QED
      BY <3>4, <3>5, <3>6, <3>7, <3>8 DEF Starting
  <2> QED
    BY <2>2, <2>4, <2>5
<1> QED
  BY <1>2, <1>3, OrdinaryMoves

\* lwip_init ends while the tcpip thread, made just now, has its start-up to do.
LEMMA LwipInitStacks ==
    ASSUME TypeOK, Stacks, Starting, LwipInit
    PROVE  /\ stack' \in [Task -> Seq(Place)] /\ Stacks' /\ UNCHANGED up
           /\ stack["tcpip"] = <<>> /\ ~netif
           /\ stack'["usb"] = <<"wait">> /\ stack'["tcpip"] = <<"boot">>
           /\ \A t \in Task \ {"usb", "tcpip"} : stack'[t] = stack[t]
           /\ \A S : S \cap {"wait", "boot", "lwip"} = {} =>
                 \A t \in Task : Has(stack'[t], S) <=> Has(stack[t], S)
<1>1. /\ stack \in [Task -> Seq(Place)] /\ "usb" \in Task /\ "tcpip" \in Task
      /\ "usb" # "tcpip"
  BY DEF TypeOK, Task
<1>2. stack' = [stack EXCEPT !["usb"] = <<"wait">>, !["tcpip"] = <<"boot">>] /\ UNCHANGED up
  BY DEF LwipInit
<1>3. <<"wait">> \in Seq(Place) /\ <<"boot">> \in Seq(Place)
  BY DEF Place, Boot
<1>4. /\ stack' \in [Task -> Seq(Place)]
      /\ stack'["usb"] = <<"wait">> /\ stack'["tcpip"] = <<"boot">>
      /\ \A t \in Task \ {"usb", "tcpip"} : stack'[t] = stack[t]
  BY <1>1, <1>2, <1>3
<1>5. Nested(<<"wait">>) /\ Nested(<<"boot">>)
  BY DEF Nested, Bottom, Boot
<1>6. Stacks'
  BY <1>4, <1>5 DEF Stacks
<1>7. /\ 1 \in DOMAIN stack["usb"] /\ stack["usb"][1] = "lwip"
      /\ DOMAIN stack["usb"] = {1}
  <2> DEFINE s == stack["usb"]
  <2>1. s \in Seq(Place) /\ s # <<>> /\ Head(s) = "lwip"
    BY <1>1 DEF LwipInit, At
  <2>2. 1 \in DOMAIN s /\ s[1] = "lwip"
    BY <2>1
  <2>3. ~(1 + 1 \in DOMAIN s)
    <3>1. <<"lwip", s[1 + 1]>> \notin Above
      BY DEF Above, Core
    <3> QED
      BY <1>1, <2>2, <3>1 DEF Stacks, Nested
  <2>4. Len(s) = 1
    <3>1. Len(s) \in Nat \ {0} /\ DOMAIN s = 1..Len(s)
      BY <2>1, EmptySeq, LenProperties
    <3> DEFINE n == Len(s)
    <3>2. 1 + 1 \notin 1..n
      BY <2>3, <3>1
    <3>3. n \in Nat \ {0}
      BY <3>1
    <3> HIDE DEF n
    <3>4. n = 1
      BY <3>2, <3>3
    <3> QED
      BY <3>4 DEF n
  <2> QED
    BY <2>1, <2>2, <2>4
<1>8. stack["tcpip"] = <<>> /\ ~netif
  BY <1>7 DEF Starting, Has
<1>9. ASSUME NEW S, S \cap {"wait", "boot", "lwip"} = {}
      PROVE  /\ ~Has(<<"wait">>, S) /\ ~Has(<<"boot">>, S)
             /\ ~Has(stack["usb"], S) /\ ~Has(stack["tcpip"], S)
  BY <1>7, <1>8, <1>9 DEF Has
<1> QED
  BY <1>2, <1>4, <1>6, <1>8, <1>9

LEMMA StartKeeps ==
    ASSUME TypeOK, Stacks, OneOwner, Starting, Start
    PROVE  stack' \in [Task -> Seq(Place)] /\ Stacks' /\ OneOwner' /\ Starting'
<1>1. /\ "usb" \in Task /\ "tcpip" \in Task /\ App \subseteq Task
      /\ "usb" \notin App /\ "tcpip" \notin App /\ "usb" # "tcpip"
  BY UsbNetAssumption DEF Task
<1>2. ASSUME NEW t \in {"usb", "tcpip"}, NEW H, NEW P, Moves(t, H, P), P \cap Core = {}
      PROVE  /\ stack' \in [Task -> Seq(Place)] /\ Stacks' /\ OneOwner'
             /\ \A u \in Task \ {t} : stack'[u] = stack[u]
  <2>1. /\ stack' \in [Task -> Seq(Place)] /\ Stacks'
        /\ \A u \in Task \ {t} : stack'[u] = stack[u]
    BY <1>1, <1>2 DEF Moves, Stacks
  <2>2. Has(stack'[t], Core) => Has(stack[t], Core)
    BY <1>1, <1>2, MovesHas
  <2> QED
    BY <1>1, <2>1, <2>2 DEF OneOwner
<1>3. \A t \in Task : Has(stack[t], {"tusb", "lwip"}) \/ Has(stack[t], {"dhcpd"}) => Has(stack[t], Boot)
  BY DEF Has, Boot
<1>4. CASE TusbInit
  <2>1. Moves("usb", {"tusb"}, {"lwip"}) /\ UNCHANGED up
    BY <1>4, StartMoves DEF TusbInit
  <2>2. /\ Has(stack["usb"], {"tusb", "lwip"}) /\ Has(stack["usb"], Boot)
        /\ ~Has(stack'["usb"], {"dhcpd"})
    BY <1>1, <2>1, MovesHas DEF Boot, Lower
  <2>3. Starting'
    BY <1>1, <1>2, <2>1, <2>2 DEF Starting, Core, up
  <2> QED
    BY <1>2, <2>1, <2>3 DEF Core
<1>5. CASE LwipInit
  <2>1. OneOwner'
    BY <1>5, LwipInitStacks DEF OneOwner, Core
  <2>2. /\ ~Has(<<"wait">>, {"tusb", "lwip"}) /\ ~Has(<<"wait">>, {"dhcpd"})
        /\ ~Has(<<"boot">>, Head4)
    BY DEF Has, Head4
  <2>3. Has(stack["usb"], Boot)
    <3>1. stack["usb"] # <<>> /\ Head(stack["usb"]) = "lwip" /\ stack["usb"] \in Seq(Place)
      BY <1>1, <1>5 DEF LwipInit, At, TypeOK
    <3>2. 1 \in DOMAIN stack["usb"] /\ stack["usb"][1] = "lwip"
      BY <3>1
    <3> QED
      BY <3>2 DEF Has, Boot
  <2>4. Starting'
    <3>1. /\ stack'["usb"] = <<"wait">> /\ stack'["tcpip"] = <<"boot">>
          /\ \A t \in Task \ {"usb", "tcpip"} : stack'[t] = stack[t]
          /\ UNCHANGED <<initialized, netif>>
      BY <1>5, LwipInitStacks DEF up
    <3>2. ~initialized /\ ~initialized'
      BY <2>3, <3>1 DEF Starting
    <3>3. \A t \in Task : Has(stack'[t], Head4) => t = "usb"
      BY <2>2, <3>1 DEF Starting
    <3>4. \A t \in App : stack'[t] # <<>> => initialized'
      BY <1>1, <3>1 DEF Starting
    <3> QED
      BY <2>2, <3>1, <3>2, <3>3, <3>4 DEF Starting
  <2> QED
    BY <1>5, <2>1, <2>4, LwipInitStacks
<1>6. CASE TcpipInitDone
  <2>1. Moves("tcpip", {"boot"}, {}) /\ netif' = TRUE /\ initialized' = initialized
    BY <1>6, StartMoves DEF TcpipInitDone
  <2>2. stack["tcpip"] # <<>> /\ ~Has(stack'["tcpip"], Head4)
    <3>1. stack["tcpip"] # <<>>
      BY <1>6 DEF TcpipInitDone, At
    <3>2. Head4 \cap Lower = {}
      BY DEF Head4, Lower
    <3> QED
      BY <1>1, <2>1, <3>1, <3>2, MovesHas
  <2>3. Starting'
    BY <1>1, <1>2, <2>1, <2>2 DEF Starting, Core
  <2> QED
    BY <1>2, <2>1, <2>3 DEF Core
<1>7. CASE NetifIsUp
  <2>1. Moves("usb", {"wait"}, {"dhcpd"}) /\ netif /\ UNCHANGED up
    BY <1>7, StartMoves DEF NetifIsUp
  <2>2. Has(stack["usb"], Boot) /\ ~Has(stack'["usb"], {"tusb", "lwip"})
    BY <1>1, <2>1, MovesHas DEF Boot, Lower
  <2>3. Starting'
    BY <1>1, <1>2, <2>1, <2>2 DEF Starting, Core, up
  <2> QED
    BY <1>2, <2>1, <2>3 DEF Core
<1>8. CASE DhcpdInit
  <2>1. Moves("usb", {"dhcpd"}, {}) /\ initialized' = TRUE /\ netif' = netif
    BY <1>8, StartMoves DEF DhcpdInit
  <2>2. Has(stack["usb"], {"dhcpd"}) /\ ~Has(stack'["usb"], Boot)
    BY <1>1, <2>1, MovesHas DEF Boot, Lower
  <2>3. ~Has(stack'["usb"], {"tusb", "lwip"}) /\ ~Has(stack'["usb"], {"dhcpd"})
    BY <1>1, <2>1, MovesHas DEF Lower
  <2>4. Starting'
    BY <1>1, <1>2, <2>1, <2>2, <2>3 DEF Starting, Core
  <2> QED
    BY <1>2, <2>1, <2>4 DEF Core
<1> QED
  BY <1>4, <1>5, <1>6, <1>7, <1>8 DEF Start

Host == HostPlugs \/ HostUnplugs \/ HostSends \/ HostReceives

LEMMA NextCases ==
    ASSUME Next
    PROVE  Start \/ Host \/ \E t \in Task : Ordinary(t)
BY DEF Next, Host, Ordinary, Task

\* A frame is sent only to a driver that has told its sender so.
LEMMA SendingKept ==
    ASSUME TypeOK, Stacks, OneOwner, Starting, Sending, Next
    PROVE  Sending'
<1>1. ASSUME UNCHANGED stack, canXmit => canXmit' PROVE Sending'
  BY <1>1 DEF Sending
<1>2. ASSUME NEW t \in Task, NEW H, NEW P, Moves(t, H, P),
             "send" \in P => canXmit, canXmit => canXmit'
      PROVE  Sending'
  <2>1. \A u \in Task \ {t} : stack'[u] = stack[u]
    BY <1>2 DEF Moves
  <2>2. Has(stack'[t], {"send"}) => canXmit
    BY <1>2, MovesHas DEF Sending
  <2> QED
    BY <1>2, <2>1, <2>2 DEF Sending
<1>3. CASE Start
  <2>1. CASE LwipInit
    BY <2>1, LwipInitStacks DEF Sending, LwipInit, driver
  <2>2. CASE TusbInit \/ TcpipInitDone \/ NetifIsUp \/ DhcpdInit
    <3>1. UNCHANGED canXmit /\ "usb" \in Task /\ "tcpip" \in Task
      BY <2>2 DEF TusbInit, TcpipInitDone, NetifIsUp, DhcpdInit, driver, Task
    <3> QED
      BY <2>2, <3>1, <1>2, StartMoves
  <2> QED
    BY <1>3, <2>1, <2>2 DEF Start
<1>4. CASE Host
  BY <1>1, <1>4 DEF Host, HostPlugs, HostUnplugs, HostSends, HostReceives
<1>5. ASSUME NEW t \in Task, Xmit(t) PROVE Sending'
  <2>1. Moves(t, {"send"}, {})
    BY <1>5, LwipMoves
  <2>2. Has(stack[t], {"send"}) /\ ~Has(stack'[t], {"send"})
    BY <2>1, MovesHas DEF Lower
  <2>3. ASSUME NEW u \in Task, u # t PROVE ~Has(stack'[u], {"send"})
    <3>1. stack'[u] = stack[u]
      BY <2>1, <2>3 DEF Moves
    <3>2. Has(stack[t], Core) /\ (Has(stack[u], {"send"}) => Has(stack[u], Core))
      BY <2>2, SendInCore DEF TypeOK, Stacks
    <3> QED
      BY <2>3, <3>1, <3>2 DEF OneOwner
  <2> QED
    BY <2>2, <2>3 DEF Sending
<1>6. ASSUME NEW t \in Task, Ordinary(t), ~Xmit(t) PROVE Sending'
  <2>1. CASE Enter(t) \/ Output(t) \/ Leave(t) \/ Link(t)
    <3>1. UNCHANGED canXmit
      BY <2>1 DEF Enter, Output, Leave, Link, driver
    <3> QED
      BY <2>1, <3>1, <1>2, LwipMoves
  <2>2. CASE Read(t) \/ Sent(t) \/ Plug(t) \/ Unplug(t)
    <3>1. UNCHANGED stack
      BY <2>2 DEF Read, Sent, Plug, Unplug
    <3>2. canXmit => canXmit'
      BY <2>2 DEF Read, Sent, Plug, Unplug, driver
    <3> QED
      BY <3>1, <3>2, <1>1
  <2>3. CASE \/ TudReturns(t) \/ Received(t) \/ RecvEmpty(t) \/ RecvNoPbuf(t)
             \/ RecvCopies(t) \/ RecvRenews(t) \/ Input(t) \/ InputRefused(t)
    <3>1. UNCHANGED canXmit
      BY <2>3 DEF TudReturns, Received, RecvEmpty, RecvNoPbuf, RecvCopies, RecvRenews,
                  Input, InputRefused, driver
    <3> QED
      BY <2>3, <3>1, <1>2, TudMoves
  <2>4. CASE t = "usb" /\ TudTask
    <3>1. UNCHANGED canXmit
      BY <2>4 DEF TudTask, driver
    <3> QED
      BY <2>4, <3>1, <1>2, StartMoves
  <2> QED
    BY <1>6, <2>1, <2>2, <2>3, <2>4 DEF Ordinary, Lwip, Tud, Takeover
<1> QED
  BY <1>3, <1>4, <1>5, <1>6, NextCases

-----------------------------------------------------------------------------
(* TinyUSB's queue.                                                        *)

LEMMA TakenEvents ==
    ASSUME TypeOK, NEW t, NEW e, Takes(t, e)
    PROVE  /\ events' \in Seq(Event) /\ 1 \in DOMAIN events /\ events[1] = e
           /\ \A k \in DOMAIN events' : /\ k + 1 \in DOMAIN events
                                        /\ events'[k] = events[k + 1]
           /\ \A k \in DOMAIN events : k # 1 => /\ k - 1 \in DOMAIN events'
                                                /\ events'[k - 1] = events[k]
           /\ DOMAIN events \subseteq Nat \ {0} /\ DOMAIN events' \subseteq Nat \ {0}
<1>1. events \in Seq(Event) /\ events # <<>> /\ Head(events) = e /\ events' = Tail(events)
  BY DEF TypeOK, Takes
<1> QED
  BY <1>1

LEMMA AppendedEvents ==
    ASSUME TypeOK, NEW e \in Event, events' = Append(events, e)
    PROVE  /\ events' \in Seq(Event)
           /\ \E n \in DOMAIN events' :
                 /\ events'[n] = e /\ n \notin DOMAIN events
                 /\ DOMAIN events' = DOMAIN events \cup {n}
                 /\ \A k \in DOMAIN events : k < n /\ events'[k] = events[k]
           /\ DOMAIN events' \subseteq Nat \ {0}
<1> DEFINE n == Len(events) + 1
<1>1. events \in Seq(Event)
  BY DEF TypeOK
<1>2. /\ events' \in Seq(Event) /\ Len(events') = n /\ events'[n] = e
      /\ \A k \in DOMAIN events : events'[k] = events[k]
  BY <1>1
<1>3. DOMAIN events = 1..Len(events) /\ DOMAIN events' = 1..n /\ Len(events) \in Nat
  BY <1>1, <1>2
<1> QED
  BY <1>2, <1>3

LEMMA TakenPlugs ==
    ASSUME TypeOK, EventOrder, NEW t, NEW e, Takes(t, e)
    PROVE  \A j, k \in DOMAIN events' : j < k /\ events'[j] = "plug" /\ events'[k] = "plug" =>
              \E m \in DOMAIN events' : j < m /\ m < k /\ events'[m] = "unplug"
<1> SUFFICES ASSUME NEW j \in DOMAIN events', NEW k \in DOMAIN events', j < k,
                    events'[j] = "plug", events'[k] = "plug"
             PROVE  \E m \in DOMAIN events' : j < m /\ m < k /\ events'[m] = "unplug"
  OBVIOUS
<1>1. /\ \A n \in DOMAIN events' : n + 1 \in DOMAIN events /\ events'[n] = events[n + 1]
      /\ \A n \in DOMAIN events : n # 1 => /\ n - 1 \in DOMAIN events'
                                           /\ events'[n - 1] = events[n]
      /\ DOMAIN events \subseteq Nat \ {0} /\ DOMAIN events' \subseteq Nat \ {0}
  BY TakenEvents
<1>2. j + 1 < k + 1
  BY <1>1
<1>3. PICK m \in DOMAIN events : j + 1 < m /\ m < k + 1 /\ events[m] = "unplug"
  BY <1>1, <1>2 DEF EventOrder
<1>4. m - 1 \in DOMAIN events' /\ j < m - 1 /\ m - 1 < k /\ events'[m - 1] = "unplug"
  BY <1>1, <1>3
<1> QED
  BY <1>4

\* An event that says nothing about the connection leaves the queue.
LEMMA TakenOrder ==
    ASSUME TypeOK, EventOrder, NEW t, NEW e \in {"frame", "empty", "sent"}, Takes(t, e),
           UNCHANGED <<ready, armed, plugged>>
    PROVE  EventOrder'
<1>1. /\ 1 \in DOMAIN events /\ events[1] = e
      /\ \A k \in DOMAIN events' : k + 1 \in DOMAIN events /\ events'[k] = events[k + 1]
      /\ \A k \in DOMAIN events : k # 1 => /\ k - 1 \in DOMAIN events'
                                           /\ events'[k - 1] = events[k]
      /\ DOMAIN events \subseteq Nat \ {0} /\ DOMAIN events' \subseteq Nat \ {0}
  BY TakenEvents
<1>2. ASSUME NEW k \in DOMAIN events', events'[k] = "plug", ready'
      PROVE  \E j \in DOMAIN events' : j < k /\ events'[j] = "unplug"
  <2>1. PICK j \in DOMAIN events : j < k + 1 /\ events[j] = "unplug"
    BY <1>1, <1>2 DEF EventOrder
  <2>2. j - 1 \in DOMAIN events' /\ j - 1 < k /\ events'[j - 1] = "unplug"
    BY <1>1, <2>1
  <2> QED
    BY <2>2
<1>3. ASSUME NEW j \in DOMAIN events', NEW k \in DOMAIN events', j < k, events'[j] = "unplug"
      PROVE  events'[k] \notin Frames
  <2>1. j + 1 < k + 1
    BY <1>1, <1>3
  <2> QED
    BY <1>1, <1>3, <2>1 DEF EventOrder
<1>4. \A j, k \in DOMAIN events' : j < k /\ events'[j] = "plug" /\ events'[k] = "plug" =>
         \E m \in DOMAIN events' : j < m /\ m < k /\ events'[m] = "unplug"
  BY TakenPlugs
<1>5. ASSUME ~plugged', ready' PROVE \E j \in DOMAIN events' : events'[j] = "unplug"
  BY <1>1, <1>5 DEF EventOrder
<1>6. ASSUME ~plugged', NEW j \in DOMAIN events', events'[j] = "plug"
      PROVE  \E m \in DOMAIN events' : j < m /\ events'[m] = "unplug"
  <2>1. PICK m \in DOMAIN events : j + 1 < m /\ events[m] = "unplug"
    BY <1>1, <1>6 DEF EventOrder
  <2>2. m - 1 \in DOMAIN events' /\ j < m - 1 /\ events'[m - 1] = "unplug"
    BY <1>1, <2>1
  <2> QED
    BY <2>2
<1>7. ~ready' => ~Has(events', Frames) /\ ~armed'
  BY <1>1 DEF EventOrder, Has
<1> QED
  BY <1>2, <1>3, <1>4, <1>5, <1>6, <1>7 DEF EventOrder

LEMMA PlugOrder ==
    ASSUME TypeOK, EventOrder, NEW t, Plug(t)
    PROVE  EventOrder' /\ ~Has(events', Frames) /\ ~ready /\ ~Has(events, Frames)
<1>1. /\ 1 \in DOMAIN events /\ events[1] = "plug"
      /\ \A k \in DOMAIN events' : k + 1 \in DOMAIN events /\ events'[k] = events[k + 1]
      /\ \A k \in DOMAIN events : k # 1 => /\ k - 1 \in DOMAIN events'
                                           /\ events'[k - 1] = events[k]
      /\ DOMAIN events \subseteq Nat \ {0} /\ DOMAIN events' \subseteq Nat \ {0}
  BY TakenEvents DEF Plug
<1>2. ready' = TRUE /\ plugged' = plugged
  BY DEF Plug, host
<1>3. ~ready /\ ~Has(events, Frames)
  BY <1>1 DEF EventOrder
<1>4. ASSUME NEW k \in DOMAIN events', events'[k] = "plug"
      PROVE  \E j \in DOMAIN events' : j < k /\ events'[j] = "unplug"
  <2>1. 1 < k + 1
    BY <1>1
  <2>2. PICK m \in DOMAIN events : 1 < m /\ m < k + 1 /\ events[m] = "unplug"
    BY <1>1, <1>4, <2>1 DEF EventOrder
  <2>3. m - 1 \in DOMAIN events' /\ m - 1 < k /\ events'[m - 1] = "unplug"
    BY <1>1, <2>2
  <2> QED
    BY <2>3
<1>5. ~Has(events', Frames)
  BY <1>1, <1>3 DEF Has
<1>6. \A j, k \in DOMAIN events' : j < k /\ events'[j] = "plug" /\ events'[k] = "plug" =>
         \E m \in DOMAIN events' : j < m /\ m < k /\ events'[m] = "unplug"
  BY TakenPlugs DEF Plug
<1>7. ASSUME ~plugged', NEW k \in DOMAIN events, events[k] = "plug"
      PROVE  \E m \in DOMAIN events' : k <= m /\ events'[m] = "unplug"
  <2>1. PICK m \in DOMAIN events : k < m /\ events[m] = "unplug"
    BY <1>2, <1>7 DEF EventOrder
  <2>2. m - 1 \in DOMAIN events' /\ k <= m - 1 /\ events'[m - 1] = "unplug"
    BY <1>1, <2>1
  <2> QED
    BY <2>2
<1>8. ~plugged' => \E j \in DOMAIN events' : events'[j] = "unplug"
  BY <1>1, <1>7
<1>9. ASSUME ~plugged', NEW j \in DOMAIN events', events'[j] = "plug"
      PROVE  \E m \in DOMAIN events' : j < m /\ events'[m] = "unplug"
  <2>1. PICK m \in DOMAIN events' : j + 1 <= m /\ events'[m] = "unplug"
    BY <1>1, <1>7, <1>9
  <2> QED
    BY <1>1, <2>1
<1>10. EventOrder'
  BY <1>2, <1>4, <1>5, <1>6, <1>8, <1>9 DEF EventOrder, Has
<1> QED
  BY <1>3, <1>5, <1>10

LEMMA UnplugOrder ==
    ASSUME TypeOK, EventOrder, NEW t, Unplug(t)
    PROVE  EventOrder'
<1>1. /\ 1 \in DOMAIN events /\ events[1] = "unplug"
      /\ \A k \in DOMAIN events' : k + 1 \in DOMAIN events /\ events'[k] = events[k + 1]
      /\ \A k \in DOMAIN events : k # 1 => /\ k - 1 \in DOMAIN events'
                                           /\ events'[k - 1] = events[k]
      /\ DOMAIN events \subseteq Nat \ {0} /\ DOMAIN events' \subseteq Nat \ {0}
  BY TakenEvents DEF Unplug
<1>2. ready' = FALSE /\ armed' = FALSE /\ plugged' = plugged
  BY DEF Unplug, host
<1>3. ASSUME NEW k \in DOMAIN events' PROVE events'[k] \notin Frames
  <2>1. 1 < k + 1
    BY <1>1
  <2> QED
    BY <1>1, <2>1 DEF EventOrder
<1>4. \A j, k \in DOMAIN events' : j < k /\ events'[j] = "plug" /\ events'[k] = "plug" =>
         \E m \in DOMAIN events' : j < m /\ m < k /\ events'[m] = "unplug"
  BY TakenPlugs DEF Unplug
<1>5. ASSUME ~plugged', NEW j \in DOMAIN events', events'[j] = "plug"
      PROVE  \E m \in DOMAIN events' : j < m /\ events'[m] = "unplug"
  <2>1. PICK m \in DOMAIN events : j + 1 < m /\ events[m] = "unplug"
    BY <1>1, <1>2, <1>5 DEF EventOrder
  <2>2. m - 1 \in DOMAIN events' /\ j < m - 1 /\ events'[m - 1] = "unplug"
    BY <1>1, <2>1
  <2> QED
    BY <2>2
<1> QED
  BY <1>2, <1>3, <1>4, <1>5 DEF EventOrder, Has

LEMMA HostOrder ==
    ASSUME TypeOK, EventOrder, Host
    PROVE  EventOrder'
<1>1. ready' = ready
  BY DEF Host, HostPlugs, HostUnplugs, HostSends, HostReceives
<1> DEFINE Adds(e) == \E n \in DOMAIN events' :
                         /\ events'[n] = e /\ n \notin DOMAIN events
                         /\ DOMAIN events' = DOMAIN events \cup {n}
                         /\ \A k \in DOMAIN events : k < n /\ events'[k] = events[k]
<1>2. ASSUME NEW e \in Event, events' = Append(events, e)
      PROVE  Adds(e) /\ DOMAIN events' \subseteq Nat
  BY <1>2, AppendedEvents
<1> HIDE DEF Adds
<1>3. CASE HostPlugs
  <2>1. Adds("plug") /\ DOMAIN events' \subseteq Nat
    BY <1>2, <1>3 DEF HostPlugs, Event
  <2>2. PICK n \in DOMAIN events' :
           /\ events'[n] = "plug" /\ n \notin DOMAIN events
           /\ DOMAIN events' = DOMAIN events \cup {n}
           /\ \A k \in DOMAIN events : k < n /\ events'[k] = events[k]
    BY <2>1 DEF Adds
  <2>3. ~plugged /\ plugged' = TRUE /\ armed' = armed
    BY <1>3 DEF HostPlugs
  <2>4. \A k \in DOMAIN events' : events'[k] = "plug" /\ ready' =>
           \E j \in DOMAIN events' : j < k /\ events'[j] = "unplug"
    BY <1>1, <2>2, <2>3 DEF EventOrder
  <2>5. \A j, k \in DOMAIN events' : j < k /\ events'[j] = "unplug" => events'[k] \notin Frames
    BY <2>1, <2>2 DEF EventOrder, Frames
  <2>6. \A j, k \in DOMAIN events' : j < k /\ events'[j] = "plug" /\ events'[k] = "plug" =>
           \E m \in DOMAIN events' : j < m /\ m < k /\ events'[m] = "unplug"
    BY <2>1, <2>2, <2>3 DEF EventOrder
  <2>7. ~ready' => ~Has(events', Frames) /\ ~armed'
    BY <1>1, <2>2, <2>3 DEF EventOrder, Has, Frames
  <2> QED
    BY <2>3, <2>4, <2>5, <2>6, <2>7 DEF EventOrder
<1>4. CASE HostUnplugs
  <2>1. Adds("unplug") /\ DOMAIN events' \subseteq Nat
    BY <1>2, <1>4 DEF HostUnplugs, Event
  <2>2. PICK n \in DOMAIN events' :
           /\ events'[n] = "unplug" /\ n \notin DOMAIN events
           /\ DOMAIN events' = DOMAIN events \cup {n}
           /\ \A k \in DOMAIN events : k < n /\ events'[k] = events[k]
    BY <2>1 DEF Adds
  <2>3. plugged' = FALSE /\ armed' = armed
    BY <1>4 DEF HostUnplugs
  <2>4. \A k \in DOMAIN events' : events'[k] = "plug" /\ ready' =>
           \E j \in DOMAIN events' : j < k /\ events'[j] = "unplug"
    BY <1>1, <2>2 DEF EventOrder
  <2>5. \A j, k \in DOMAIN events' : j < k /\ events'[j] = "unplug" => events'[k] \notin Frames
    BY <2>1, <2>2 DEF EventOrder, Frames
  <2>6. \A j, k \in DOMAIN events' : j < k /\ events'[j] = "plug" /\ events'[k] = "plug" =>
           \E m \in DOMAIN events' : j < m /\ m < k /\ events'[m] = "unplug"
    BY <2>1, <2>2 DEF EventOrder
  <2>7. ~ready' => ~Has(events', Frames) /\ ~armed'
    BY <1>1, <2>2, <2>3 DEF EventOrder, Has, Frames
  <2>8. \A j \in DOMAIN events' : events'[j] = "plug" =>
           \E m \in DOMAIN events' : j < m /\ events'[m] = "unplug"
    BY <2>2
  <2> QED
    BY <2>2, <2>4, <2>5, <2>6, <2>7, <2>8 DEF EventOrder
<1>5. CASE HostSends
  <2>1. PICK e \in Frames : events' = Append(events, e)
    BY <1>5 DEF HostSends, Frames
  <2>2. Adds(e) /\ DOMAIN events' \subseteq Nat
    BY <1>2, <2>1 DEF Event, Frames
  <2>3. PICK n \in DOMAIN events' :
           /\ events'[n] = e /\ n \notin DOMAIN events
           /\ DOMAIN events' = DOMAIN events \cup {n}
           /\ \A k \in DOMAIN events : k < n /\ events'[k] = events[k]
    BY <2>2 DEF Adds
  <2>4. ready /\ plugged' /\ armed' = FALSE /\ \A k \in DOMAIN events : events[k] # "unplug"
    BY <1>5 DEF HostSends, Connected, Queued
  <2>5. e # "plug" /\ e # "unplug"
    BY DEF Frames
  <2>6. \A k \in DOMAIN events' : events'[k] = "plug" /\ ready' =>
           \E j \in DOMAIN events' : j < k /\ events'[j] = "unplug"
    BY <1>1, <2>3, <2>5 DEF EventOrder
  <2>7. \A j \in DOMAIN events' : events'[j] # "unplug"
    BY <2>3, <2>4, <2>5
  <2>8. \A j, k \in DOMAIN events' : j < k /\ events'[j] = "plug" /\ events'[k] = "plug" =>
           \E m \in DOMAIN events' : j < m /\ m < k /\ events'[m] = "unplug"
    BY <2>2, <2>3, <2>5 DEF EventOrder
  <2> QED
    BY <1>1, <2>4, <2>6, <2>7, <2>8 DEF EventOrder
<1>6. CASE HostReceives
  <2>1. Adds("sent") /\ DOMAIN events' \subseteq Nat
    BY <1>2, <1>6 DEF HostReceives, Event
  <2>2. PICK n \in DOMAIN events' :
           /\ events'[n] = "sent" /\ n \notin DOMAIN events
           /\ DOMAIN events' = DOMAIN events \cup {n}
           /\ \A k \in DOMAIN events : k < n /\ events'[k] = events[k]
    BY <2>1 DEF Adds
  <2>3. plugged' = plugged /\ armed' = armed
    BY <1>6 DEF HostReceives
  <2>4. \A k \in DOMAIN events' : events'[k] = "plug" /\ ready' =>
           \E j \in DOMAIN events' : j < k /\ events'[j] = "unplug"
    BY <1>1, <2>2 DEF EventOrder
  <2>5. \A j, k \in DOMAIN events' : j < k /\ events'[j] = "unplug" => events'[k] \notin Frames
    BY <2>1, <2>2 DEF EventOrder, Frames
  <2>6. \A j, k \in DOMAIN events' : j < k /\ events'[j] = "plug" /\ events'[k] = "plug" =>
           \E m \in DOMAIN events' : j < m /\ m < k /\ events'[m] = "unplug"
    BY <2>1, <2>2 DEF EventOrder
  <2>7. ~ready' => ~Has(events', Frames) /\ ~armed'
    BY <1>1, <2>2, <2>3 DEF EventOrder, Has, Frames
  <2>8. ~plugged' /\ ready' => \E j \in DOMAIN events' : events'[j] = "unplug"
    BY <1>1, <2>2, <2>3 DEF EventOrder
  <2>9. ~plugged' => \A j \in DOMAIN events' : events'[j] = "plug" =>
           \E m \in DOMAIN events' : j < m /\ events'[m] = "unplug"
    BY <2>2, <2>3 DEF EventOrder
  <2> QED
    BY <2>4, <2>5, <2>6, <2>7, <2>8, <2>9 DEF EventOrder
<1> QED
  BY <1>3, <1>4, <1>5, <1>6 DEF Host

LEMMA EventOrderKept ==
    ASSUME TypeOK, EventOrder, Next
    PROVE  EventOrder'
<1>1. ASSUME UNCHANGED <<events, ready, plugged>>, ~ready => armed' = armed PROVE EventOrder'
  BY <1>1 DEF EventOrder
<1>2. CASE Start
  BY <1>1, <1>2 DEF Start, TusbInit, LwipInit, TcpipInitDone, NetifIsUp, DhcpdInit, driver, host
<1>3. CASE Host
  BY <1>3, HostOrder
<1>4. ASSUME NEW t \in Task, Ordinary(t) PROVE EventOrder'
  <2>1. CASE Enter(t) \/ Lwip(t) \/ (t = "usb" /\ TudTask) \/ Takeover(t)
    BY <1>1, <2>1 DEF Enter, Lwip, Read, Output, Leave, Link, Xmit, TudTask, Takeover, Input,
                      InputRefused, driver, host
  <2>2. CASE Tud(t)
    <3>1. CASE Sent(t) \/ Received(t)
      <4>1. PICK e \in {"frame", "empty", "sent"} : Takes(t, e)
        BY <3>1 DEF Sent, Received
      <4>2. UNCHANGED <<ready, armed, plugged>>
        BY <3>1 DEF Sent, Received, host
      <4> QED
        BY <4>1, <4>2, TakenOrder
    <3>2. CASE Plug(t)
      BY <3>2, PlugOrder
    <3>3. CASE Unplug(t)
      BY <3>3, UnplugOrder
    <3>4. CASE RecvNoPbuf(t) \/ RecvRenews(t)
      <4>1. UNCHANGED <<events, ready, plugged>>
        BY <3>4 DEF RecvNoPbuf, RecvRenews, host
      <4>2. ~ready => armed' = armed
        BY <3>4 DEF RecvNoPbuf, RecvRenews, Renew, TypeOK
      <4> QED
        BY <1>1, <4>1, <4>2
    <3>5. CASE TudReturns(t) \/ RecvEmpty(t) \/ RecvCopies(t)
      BY <1>1, <3>5 DEF TudReturns, RecvEmpty, RecvCopies, driver, host
    <3> QED
      BY <2>2, <3>1, <3>2, <3>3, <3>4, <3>5 DEF Tud
  <2> QED
    BY <1>4, <2>1, <2>2 DEF Ordinary
<1> QED
  BY <1>2, <1>3, <1>4, NextCases

-----------------------------------------------------------------------------
(* The frame in hand.                                                      *)

LEMMA RecvMoves ==
    ASSUME NEW t \in Task, NEW H, NEW P, Moves(t, H, P),
           P \cap Recv = {} <=> H \cap Recv = {}
    PROVE  \A u \in Task : /\ Has(stack'[u], Recv) <=> Has(stack[u], Recv)
                           /\ Once(stack[u]) => Once(stack'[u])
BY DEF Moves, Shows

\* Whose frame it is depends on these only.
LEMMA ReceivingStays ==
    ASSUME Receiving,
           ready' /\ ~mute' /\ ~torn' => ready /\ ~mute /\ ~torn,
           armed' = armed,
           Has(events', Frames) <=> Has(events, Frames),
           (\A j, k \in DOMAIN events : events[j] \in Frames /\ events[k] \in Frames => j = k) =>
              \A j, k \in DOMAIN events' : events'[j] \in Frames /\ events'[k] \in Frames => j = k,
           \A u \in Task : /\ Has(stack'[u], Recv) <=> Has(stack[u], Recv)
                           /\ Once(stack[u]) => Once(stack'[u])
    PROVE  Receiving'
BY DEF Receiving

LEMMA FramesStay ==
    ASSUME TypeOK, NEW e \in Event, e \notin Frames,
           events' = Append(events, e) \/ \E t : Takes(t, e)
    PROVE  /\ Has(events', Frames) <=> Has(events, Frames)
           /\ (\A j, k \in DOMAIN events : events[j] \in Frames /\ events[k] \in Frames => j = k) =>
              \A j, k \in DOMAIN events' : events'[j] \in Frames /\ events'[k] \in Frames => j = k
<1>1. CASE events' = Append(events, e)
  <2>1. PICK n \in DOMAIN events' :
           /\ events'[n] = e
           /\ DOMAIN events' = DOMAIN events \cup {n}
           /\ \A k \in DOMAIN events : events'[k] = events[k]
    BY <1>1, AppendedEvents
  <2> QED
    BY <2>1 DEF Has
<1>2. CASE \E t : Takes(t, e)
  <2>1. /\ events[1] = e
        /\ \A k \in DOMAIN events' : k + 1 \in DOMAIN events /\ events'[k] = events[k + 1]
        /\ \A k \in DOMAIN events : k # 1 => /\ k - 1 \in DOMAIN events'
                                             /\ events'[k - 1] = events[k]
        /\ DOMAIN events' \subseteq Nat \ {0}
    BY <1>2, TakenEvents
  <2>2. Has(events', Frames) <=> Has(events, Frames)
    BY <2>1 DEF Has
  <2>3. ASSUME \A j, k \in DOMAIN events : events[j] \in Frames /\ events[k] \in Frames => j = k,
               NEW j \in DOMAIN events', NEW k \in DOMAIN events',
               events'[j] \in Frames, events'[k] \in Frames
        PROVE  j = k
    <3>1. j + 1 = k + 1
      BY <2>1, <2>3
    <3> QED
      BY <2>1, <3>1
  <2> QED
    BY <2>2, <2>3
<1> QED
  BY <1>1, <1>2

\* A frame leaves the queue for the hands of recv_cb.
LEMMA ReceivedReceiving ==
    ASSUME TypeOK, Receiving, NEW t \in Task, NEW e \in Frames, Takes(t, e),
           NEW p \in {"recv", "none"}, Moves(t, {}, {p}), UNCHANGED <<ready, armed, past>>
    PROVE  Receiving'
<1> SUFFICES ASSUME ready, ~mute, ~torn PROVE Receiving'
  BY DEF Receiving, past
<1>1. /\ 1 \in DOMAIN events /\ events[1] = e
      /\ \A k \in DOMAIN events' : k + 1 \in DOMAIN events /\ events'[k] = events[k + 1]
      /\ DOMAIN events' \subseteq Nat \ {0}
  BY TakenEvents
<1>2. Has(events, Frames)
  BY <1>1 DEF Has
<1>3. ~armed /\ \A u \in Task : ~Has(stack[u], Recv)
  BY <1>2 DEF Receiving
<1>4. ~Has(events', Frames)
  <2>1. ASSUME NEW k \in DOMAIN events', events'[k] \in Frames PROVE FALSE
    <3>1. k + 1 = 1
      BY <1>1, <2>1 DEF Receiving
    <3> QED
      BY <1>1, <3>1
  <2> QED
    BY <2>1 DEF Has
<1>5. /\ \A u \in Task \ {t} : ~Has(stack'[u], Recv)
      /\ Has(stack'[t], Recv) /\ Once(stack'[t])
  <2>1. {p} \cap Recv # {} /\ "recv" \in Recv
    BY DEF Recv
  <2>2. PICK r \in Seq(Place) : Shows(stack[t], {}, r) /\ Shows(stack'[t], {p}, r)
    BY DEF Moves
  <2>3. ~Has(r, Recv)
    BY <1>3, <2>2 DEF Shows
  <2>4. Has(stack'[t], Recv)
    BY <2>1, <2>2 DEF Shows
  <2>5. Once(stack[t])
    BY <1>3 DEF Once, Has
  <2>6. Once(stack'[t])
    BY <2>2, <2>3, <2>5 DEF Shows
  <2> QED
    BY <1>3, <2>4, <2>6 DEF Moves
<1>6. ~armed'
  BY <1>3
<1> QED
  BY <1>4, <1>5, <1>6 DEF Receiving, Has

\* recv_cb ends, and the driver waits for the next frame.
LEMMA RenewReceiving ==
    ASSUME TypeOK, Receiving, NEW t \in Task, NEW h \in Recv, Moves(t, {h}, {}), Renew,
           UNCHANGED <<ready, events, past>>
    PROVE  Receiving'
<1> SUFFICES ASSUME ready, ~mute, ~torn PROVE Receiving'
  BY DEF Receiving, past
<1>1. Has(stack[t], Recv)
  BY MovesHas
<1>2. /\ Once(stack[t]) /\ ~armed /\ ~Has(events, Frames)
      /\ \A u \in Task \ {t} : ~Has(stack[u], Recv)
  BY <1>1 DEF Receiving
<1>3. ~Has(stack'[t], Recv)
  <2>1. PICK r \in Seq(Place) : Shows(stack[t], {h}, r) /\ Shows(stack'[t], {}, r)
    BY DEF Moves
  <2>2. ~Has(r, Recv)
    BY <1>2, <2>1 DEF Shows
  <2> QED
    BY <2>1, <2>2 DEF Shows
<1>4. \A u \in Task : ~Has(stack'[u], Recv)
  BY <1>2, <1>3 DEF Moves
<1>5. armed'
  BY <1>2 DEF Renew, Queued, Has, Frames
<1> QED
  BY <1>2, <1>4, <1>5 DEF Receiving, Has

LEMMA ReceivingKept ==
    ASSUME TypeOK, Stacks, Starting, EventOrder, Receiving, Next
    PROVE  Receiving'
<1>1. ASSUME UNCHANGED <<ready, armed, events, past>>,
             \A u \in Task : /\ Has(stack'[u], Recv) <=> Has(stack[u], Recv)
                             /\ Once(stack[u]) => Once(stack'[u])
      PROVE  Receiving'
  BY <1>1 DEF Receiving, past
<1>2. ASSUME UNCHANGED <<ready, armed, events, past>>, NEW t \in Task, NEW H, NEW P,
             Moves(t, H, P), P \cap Recv = {} <=> H \cap Recv = {}
      PROVE  Receiving'
  <2>1. \A u \in Task : /\ Has(stack'[u], Recv) <=> Has(stack[u], Recv)
                        /\ Once(stack[u]) => Once(stack'[u])
    BY <1>2, RecvMoves
  <2> QED
    BY <1>1, <1>2, <2>1
<1>3. ASSUME NEW e \in {"plug", "unplug", "sent"},
             events' = Append(events, e) \/ \E t : Takes(t, e),
             UNCHANGED <<stack, armed, past>>, ready' => ready
      PROVE  Receiving'
  <2>1. e \in Event /\ e \notin Frames
    BY DEF Event, Frames
  <2> QED
    BY <1>3, <2>1, FramesStay, ReceivingStays DEF past
<1>4. CASE Start
  <2>1. UNCHANGED <<ready, armed, events, past>>
    BY <1>4 DEF Start, TusbInit, LwipInit, TcpipInitDone, NetifIsUp, DhcpdInit, driver
  <2>2. CASE LwipInit
    <3>1. \A u \in Task : Has(stack'[u], Recv) <=> Has(stack[u], Recv)
      <4>1. Recv \cap {"wait", "boot", "lwip"} = {}
        BY DEF Recv
      <4> QED
        BY <2>2, <4>1, LwipInitStacks
    <3>2. \A u \in Task : Once(stack[u]) => Once(stack'[u])
      <4>1. Once(<<"wait">>) /\ Once(<<"boot">>)
        BY DEF Once
      <4> QED
        BY <2>2, <4>1, LwipInitStacks
    <3> QED
      BY <2>1, <3>1, <3>2, <1>1
  <2>3. CASE TusbInit \/ TcpipInitDone \/ NetifIsUp \/ DhcpdInit
    <3>1. "usb" \in Task /\ "tcpip" \in Task
      BY DEF Task
    <3> QED
      BY <2>1, <2>3, <3>1, <1>2, StartMoves DEF Recv
  <2> QED
    BY <1>4, <2>2, <2>3 DEF Start
<1>5. CASE Host
  <2>1. CASE HostSends
    <3>1. armed /\ armed' = FALSE /\ UNCHANGED <<stack, ready, past>>
      BY <2>1 DEF HostSends, Connected
    <3>2. PICK e \in Frames : events' = Append(events, e)
      BY <2>1 DEF HostSends, Frames
    <3>3. PICK n \in DOMAIN events' :
             /\ events'[n] = e
             /\ DOMAIN events' = DOMAIN events \cup {n}
             /\ \A k \in DOMAIN events : events'[k] = events[k]
      <4>1. e \in Event
        BY DEF Frames, Event
      <4> QED
        BY <3>2, <4>1, AppendedEvents
    <3> QED
      BY <3>1, <3>3 DEF Receiving, Has, past
  <2>2. CASE HostPlugs
    BY <1>3, <2>2 DEF HostPlugs
  <2>3. CASE HostUnplugs
    BY <1>3, <2>3 DEF HostUnplugs
  <2>4. CASE HostReceives
    BY <1>3, <2>4 DEF HostReceives
  <2> QED
    BY <1>5, <2>1, <2>2, <2>3, <2>4 DEF Host
<1>6. ASSUME NEW t \in Task, Enter(t) \/ Lwip(t) \/ (t = "usb" /\ TudTask) PROVE Receiving'
  <2>1. CASE Read(t)
    BY <1>1, <2>1 DEF Read, driver
  <2>2. CASE Xmit(t)
    <3>1. UNCHANGED <<ready, armed, events, past>>
      BY <2>2 DEF Xmit
    <3> QED
      BY <2>2, <3>1, <1>2, LwipMoves DEF Recv
  <2>3. CASE Enter(t) \/ Output(t) \/ Leave(t) \/ Link(t)
    <3>1. UNCHANGED <<ready, armed, events, past>>
      BY <2>3 DEF Enter, Output, Leave, Link, driver
    <3> QED
      BY <2>3, <3>1, <1>2, LwipMoves DEF Recv
  <2>4. CASE t = "usb" /\ TudTask
    <3>1. UNCHANGED <<ready, armed, events, past>>
      BY <2>4 DEF TudTask, driver
    <3> QED
      BY <2>4, <3>1, <1>2, StartMoves DEF Recv
  <2> QED
    BY <1>6, <2>1, <2>2, <2>3, <2>4 DEF Lwip
<1>7. ASSUME NEW t \in Task, Tud(t) PROVE Receiving'
  <2>1. CASE TudReturns(t)
    <3>1. UNCHANGED <<ready, armed, events, past>>
      BY <2>1 DEF TudReturns, driver
    <3> QED
      BY <2>1, <3>1, <1>2, TudMoves DEF Recv
  <2>2. CASE Sent(t)
    BY <2>2, <1>3 DEF Sent
  <2>3. CASE Plug(t)
    <3>1. ~Has(events', Frames) /\ armed' = TRUE /\ stack' = stack
      BY <2>3, PlugOrder DEF Plug
    <3>2. ~torn' => \A u \in Task : ~Has(stack[u], Recv)
      BY <2>3 DEF Plug, Within, Has
    <3> QED
      BY <3>1, <3>2 DEF Receiving, Has
  <2>4. CASE Unplug(t)
    BY <2>4 DEF Unplug, Receiving
  <2>5. CASE Received(t)
    <3>1. UNCHANGED <<ready, armed, past>>
      BY <2>5 DEF Received
    <3> QED
      BY <2>5, <3>1, TudMoves, ReceivedReceiving DEF Frames
  <2>6. CASE RecvEmpty(t)
    BY <2>6 DEF RecvEmpty, Receiving
  <2>7. CASE RecvNoPbuf(t) \/ RecvRenews(t)
    <3>1. Renew /\ UNCHANGED <<ready, events, past>>
      BY <2>7 DEF RecvNoPbuf, RecvRenews
    <3>2. "recv" \in Recv /\ "renew" \in Recv
      BY DEF Recv
    <3> QED
      BY <2>7, <3>1, <3>2, TudMoves, RenewReceiving
  <2>8. CASE RecvCopies(t)
    <3>1. UNCHANGED <<ready, armed, events, past>>
      BY <2>8 DEF RecvCopies, driver
    <3> QED
      BY <2>8, <3>1, <1>2, TudMoves DEF Recv
  <2> QED
    BY <1>7, <2>1, <2>2, <2>3, <2>4, <2>5, <2>6, <2>7, <2>8 DEF Tud
<1>8. ASSUME NEW t \in Task, Takeover(t) PROVE Receiving'
  <2>1. UNCHANGED <<ready, armed, events, past>>
    BY <1>8 DEF Takeover, Input, InputRefused, driver
  <2> QED
    BY <1>8, <2>1, <1>2, TudMoves DEF Takeover, Recv
<1> QED
  BY <1>4, <1>5, <1>6, <1>7, <1>8, NextCases DEF Ordinary

-----------------------------------------------------------------------------
(* The pbufs.                                                              *)

Holders == {t \in Task : Within(t, {"input"}) # {}}

LEMMA TaskFinite == IsFiniteSet(Task)
<1>1. IsFiniteSet(App \cup {"usb"})
  BY UsbNetAssumption, FS_AddElement
<1>2. IsFiniteSet((App \cup {"usb"}) \cup {"tcpip"})
  BY <1>1, FS_AddElement
<1>3. Task = (App \cup {"usb"}) \cup {"tcpip"}
  BY DEF Task
<1> QED
  BY <1>2, <1>3

LEMMA HoldersFinite ==
    /\ IsFiniteSet(Holders) /\ Cardinality(Holders) \in Nat
    /\ Holders = {t \in Task : Has(stack[t], {"input"})}
<1>1. IsFiniteSet(Task)
  BY TaskFinite
<1>2. IsFiniteSet(Holders)
  BY <1>1, FS_Subset DEF Holders
<1>3. Holders = {t \in Task : Has(stack[t], {"input"})}
  BY DEF Holders, Within, Has
<1> QED
  BY <1>2, <1>3, FS_CardinalityType

LEMMA HoldersNext ==
    /\ IsFiniteSet(Holders') /\ Cardinality(Holders') \in Nat
    /\ Holders' = {t \in Task : Has(stack'[t], {"input"})}
<1>1. IsFiniteSet(Task)
  BY TaskFinite
<1>2. Holders' = {t \in Task : Has(stack'[t], {"input"})}
  BY DEF Holders, Within, Has
<1>3. IsFiniteSet(Holders')
  BY <1>1, <1>2, FS_Subset
<1> QED
  BY <1>2, <1>3, FS_CardinalityType

\* One recv_cb has a pbuf more or less in hand, or all have the same.
LEMMA HoldersMove ==
    ASSUME NEW t \in Task, NEW H, NEW P, Moves(t, H, P)
    PROVE  /\ "input" \notin H /\ "input" \notin P => Holders' = Holders
           /\ "input" \notin H /\ "input" \in P =>
                 Cardinality(Holders') = Cardinality(Holders) + 1
           /\ "input" \in H /\ "input" \notin P =>
                 Cardinality(Holders') = Cardinality(Holders) - 1
<1>1. /\ Has(stack[t], {"input"}) <=> "input" \in H
      /\ Has(stack'[t], {"input"}) <=> "input" \in P
  BY MovesHas DEF Lower
<1>2. \A u \in Task \ {t} : stack'[u] = stack[u]
  BY DEF Moves
<1>3. "input" \notin H /\ "input" \notin P => Holders' = Holders
  BY <1>1, <1>2, HoldersFinite, HoldersNext
<1>4. ASSUME "input" \notin H, "input" \in P
      PROVE  Cardinality(Holders') = Cardinality(Holders) + 1
  <2>1. Holders' = Holders \cup {t} /\ t \notin Holders
    BY <1>1, <1>2, <1>4, HoldersFinite, HoldersNext
  <2> QED
    BY <2>1, HoldersFinite, FS_AddElement
<1>5. ASSUME "input" \in H, "input" \notin P
      PROVE  Cardinality(Holders') = Cardinality(Holders) - 1
  <2>1. Holders' = Holders \ {t} /\ t \in Holders
    BY <1>1, <1>2, <1>5, HoldersFinite, HoldersNext
  <2> QED
    BY <2>1, HoldersFinite, FS_RemoveElement
<1> QED
  BY <1>3, <1>4, <1>5

LEMMA PbufsKept ==
    ASSUME TypeOK, Stacks, Starting, PbufsAccounted, Next
    PROVE  PbufsAccounted' /\ free' \in Nat /\ unread' \in Nat
<1> DEFINE Goal == PbufsAccounted' /\ free' \in Nat /\ unread' \in Nat
<1>1. free \in Nat /\ unread \in Nat /\ free + unread + Cardinality(Holders) = PoolSize
  BY DEF TypeOK, PbufsAccounted, Holders
<1>2. ASSUME free' \in Nat, unread' \in Nat,
             free' + unread' + Cardinality(Holders') = free + unread + Cardinality(Holders)
      PROVE  Goal
  BY <1>1, <1>2 DEF PbufsAccounted, Holders
<1>3. ASSUME UNCHANGED pbufs, Holders' = Holders PROVE Goal
  BY <1>1, <1>2, <1>3 DEF pbufs
<1> SUFFICES Goal
  OBVIOUS
<1> HIDE DEF Goal
<1>4. ASSUME UNCHANGED stack PROVE Holders' = Holders
  BY <1>4 DEF Holders, Within
<1>5. ASSUME NEW t \in Task, NEW H, NEW P, Moves(t, H, P), "input" \notin H, "input" \notin P,
             UNCHANGED pbufs
      PROVE  Goal
  BY <1>3, <1>5, HoldersMove
<1>6. CASE Start
  <2>1. UNCHANGED pbufs /\ "usb" \in Task /\ "tcpip" \in Task
    BY <1>6 DEF Start, TusbInit, LwipInit, TcpipInitDone, NetifIsUp, DhcpdInit, Task
  <2>2. CASE LwipInit
    <3>1. {"input"} \cap {"wait", "boot", "lwip"} = {}
      OBVIOUS
    <3>2. Holders' = Holders
      BY <2>2, <3>1, LwipInitStacks, HoldersFinite, HoldersNext
    <3> QED
      BY <2>1, <3>2, <1>3
  <2>3. CASE TusbInit \/ TcpipInitDone \/ NetifIsUp \/ DhcpdInit
    BY <2>1, <2>3, <1>5, StartMoves
  <2> QED
    BY <1>6, <2>2, <2>3 DEF Start
<1>7. CASE Host
  <2>1. UNCHANGED stack /\ UNCHANGED pbufs
    BY <1>7 DEF Host, HostPlugs, HostUnplugs, HostSends, HostReceives
  <2> QED
    BY <2>1, <1>3, <1>4
<1>8. ASSUME NEW t \in Task, Read(t) PROVE Goal
  <2>1. Holders' = Holders
    BY <1>4, <1>8 DEF Read
  <2>2. free' = free + 1 /\ unread' = unread - 1 /\ unread > 0
    BY <1>8 DEF Read
  <2> QED
    BY <1>1, <1>2, <2>1, <2>2, HoldersFinite
<1>9. ASSUME NEW t \in Task, RecvCopies(t) PROVE Goal
  <2>1. Cardinality(Holders') = Cardinality(Holders) + 1
    BY <1>9, TudMoves, HoldersMove
  <2> QED
    BY <1>1, <1>2, <1>9, <2>1, HoldersFinite DEF RecvCopies
<1>10. ASSUME NEW t \in Task, Takeover(t) PROVE Goal
  <2>1. Cardinality(Holders') = Cardinality(Holders) - 1
    BY <1>10, TudMoves, HoldersMove DEF Takeover
  <2>2. \/ free' = free + 1 /\ unread' = unread
        \/ unread' = unread + 1 /\ free' = free
    BY <1>10 DEF Takeover, Input, InputRefused
  <2> QED
    BY <1>1, <1>2, <2>1, <2>2, HoldersFinite
<1>11. ASSUME NEW t \in Task, Ordinary(t), ~Read(t), ~RecvCopies(t), ~Takeover(t) PROVE Goal
  <2>1. UNCHANGED pbufs
    BY <1>11 DEF Ordinary, Enter, Lwip, Output, Leave, Link, Xmit, Tud, TudReturns, Sent, Plug,
                 Unplug, Received, RecvEmpty, RecvNoPbuf, RecvRenews, TudTask
  <2>2. CASE Enter(t) \/ Lwip(t)
    BY <1>11, <2>1, <2>2, <1>5, LwipMoves DEF Lwip
  <2>3. CASE Sent(t) \/ Plug(t) \/ Unplug(t)
    BY <2>1, <2>3, <1>3, <1>4 DEF Sent, Plug, Unplug
  <2>4. CASE TudReturns(t) \/ Received(t) \/ RecvEmpty(t) \/ RecvNoPbuf(t) \/ RecvRenews(t)
    BY <2>1, <2>4, <1>5, TudMoves
  <2>5. CASE t = "usb" /\ TudTask
    BY <2>1, <2>5, <1>5, StartMoves
  <2> QED
    BY <1>11, <2>2, <2>3, <2>4, <2>5 DEF Ordinary, Tud
<1> QED
  BY <1>6, <1>7, <1>8, <1>9, <1>10, <1>11, NextCases

-----------------------------------------------------------------------------
(* The theorem.                                                            *)

\* The stacks, who is in lwIP, and how far start-up is.
LEMMA StacksKept ==
    ASSUME TypeOK, Stacks, OneOwner, Starting, Next
    PROVE  stack' \in [Task -> Seq(Place)] /\ Stacks' /\ OneOwner' /\ Starting'
<1>1. CASE Start
  BY <1>1, StartKeeps
<1>2. CASE Host
  <2>1. UNCHANGED stack /\ UNCHANGED up
    BY <1>2 DEF Host, HostPlugs, HostUnplugs, HostSends, HostReceives
  <2> QED
    BY <2>1 DEF TypeOK, Stacks, OneOwner, Starting, up
<1>3. ASSUME NEW t \in Task, Ordinary(t)
      PROVE  stack' \in [Task -> Seq(Place)] /\ Stacks' /\ OneOwner' /\ Starting'
  BY <1>3, OrdinaryKeeps
<1> QED
  BY <1>1, <1>2, <1>3, NextCases

\* The other variables; free and unread are in their range by PbufsAccounted.
LEMMA TypeKept ==
    ASSUME TypeOK, Next, stack' \in [Task -> Seq(Place)], PbufsAccounted',
           free' \in Nat, unread' \in Nat
    PROVE  TypeOK'
<1>1. free' \in 0..PoolSize /\ unread' \in 0..PoolSize
  <2>1. free' + unread' + Cardinality(Holders') = PoolSize
    BY DEF PbufsAccounted, Holders
  <2> QED
    BY <2>1, HoldersNext, UsbNetAssumption
<1>2. ASSUME NEW t, NEW e, Takes(t, e) PROVE events' \in Seq(Event)
  BY <1>2, TakenEvents
<1>3. ASSUME NEW e \in Event, events' = Append(events, e) PROVE events' \in Seq(Event)
  BY <1>3, AppendedEvents
<1> DEFINE Flags == {initialized, netif, ready, canXmit, armed, wire, plugged, mute, torn}
<1>4. ASSUME Flags' \subseteq BOOLEAN, events' \in Seq(Event),
             frames' \in 0..MaxFrames, resets' \in 0..MaxResets
      PROVE  TypeOK'
  BY <1>1, <1>4 DEF TypeOK
<1>5. /\ Flags \subseteq BOOLEAN /\ events \in Seq(Event)
      /\ frames \in 0..MaxFrames /\ resets \in 0..MaxResets
  BY DEF TypeOK
<1>6. CASE Start
  BY <1>4, <1>5, <1>6 DEF Start, TusbInit, LwipInit, TcpipInitDone, NetifIsUp, DhcpdInit,
                          driver, host, up, past
<1>7. CASE Host
  <2>1. CASE HostPlugs
    BY <1>3, <1>4, <1>5, <2>1 DEF HostPlugs, Event, up, past
  <2>2. CASE HostUnplugs
    <3>1. resets' \in 0..MaxResets /\ frames' = frames
      BY <1>5, <2>2, UsbNetAssumption DEF HostUnplugs
    <3>2. events' \in Seq(Event)
      BY <1>3, <2>2 DEF HostUnplugs, Event
    <3>3. Flags' \subseteq BOOLEAN
      BY <1>5, <2>2 DEF HostUnplugs, up, past
    <3> QED
      BY <1>4, <1>5, <3>1, <3>2, <3>3
  <2>3. CASE HostSends
    <3>1. frames' \in 0..MaxFrames /\ resets' = resets
      BY <1>5, <2>3, UsbNetAssumption DEF HostSends
    <3>2. events' \in Seq(Event)
      BY <1>3, <2>3 DEF HostSends, Event
    <3>3. Flags' \subseteq BOOLEAN
      BY <1>5, <2>3 DEF HostSends, up, past
    <3> QED
      BY <1>4, <1>5, <3>1, <3>2, <3>3
  <2>4. CASE HostReceives
    BY <1>3, <1>4, <1>5, <2>4 DEF HostReceives, Event, up, past
  <2> QED
    BY <1>7, <2>1, <2>2, <2>3, <2>4 DEF Host
<1>8. ASSUME NEW t \in Task, Ordinary(t) PROVE TypeOK'
  <2>1. CASE Enter(t) \/ Lwip(t) \/ (t = "usb" /\ TudTask) \/ Takeover(t)
    <3>1. CASE Xmit(t)
      BY <1>4, <1>5, <3>1 DEF Xmit, Connected, Queued, up, past
    <3>2. CASE ~Xmit(t)
      <4>1. UNCHANGED <<driver, host, up, past>>
        BY <2>1, <3>2 DEF Enter, Lwip, Read, Output, Leave, Link, TudTask, Takeover, Input,
                          InputRefused
      <4> QED
        BY <1>4, <1>5, <4>1 DEF driver, host, up, past
    <3> QED
      BY <3>1, <3>2
  <2>2. CASE Tud(t)
    <3>1. UNCHANGED <<host, up>>
      BY <2>2 DEF Tud, TudReturns, Sent, Plug, Unplug, Received, RecvEmpty, RecvNoPbuf,
                  RecvCopies, RecvRenews
    <3>2. events' \in Seq(Event)
      BY <1>2, <1>5, <2>2 DEF Tud, TudReturns, Sent, Plug, Unplug, Received, RecvEmpty,
                              RecvNoPbuf, RecvCopies, RecvRenews, driver
    <3>3. {ready, canXmit, armed, mute, torn}' \subseteq BOOLEAN
      <4>1. CASE Plug(t)
        BY <4>1 DEF Plug
      <4>2. CASE RecvNoPbuf(t) \/ RecvRenews(t)
        BY <1>5, <4>2 DEF RecvNoPbuf, RecvRenews, Renew, past
      <4>3. CASE Sent(t) \/ Unplug(t) \/ Received(t) \/ RecvEmpty(t)
        BY <1>5, <4>3 DEF Sent, Unplug, Received, RecvEmpty, driver, past
      <4>4. CASE TudReturns(t) \/ RecvCopies(t)
        BY <1>5, <4>4 DEF TudReturns, RecvCopies, driver, past
      <4> QED
        BY <2>2, <4>1, <4>2, <4>3, <4>4 DEF Tud
    <3> QED
      BY <1>4, <1>5, <3>1, <3>2, <3>3 DEF host, up
  <2> QED
    BY <1>8, <2>1, <2>2 DEF Ordinary
<1> QED
  BY <1>6, <1>7, <1>8, NextCases

LEMMA InitIInv == Init => IInv
<1> SUFFICES ASSUME Init PROVE IInv
  OBVIOUS
<1>1. "usb" \in Task /\ "tcpip" \in Task /\ App \subseteq Task /\ "usb" \notin App
  BY UsbNetAssumption DEF Task
<1>2. stack["usb"] = <<"tusb">> /\ \A t \in Task : t # "usb" => stack[t] = <<>>
  BY <1>1 DEF Init
<1>3. /\ \A S : ~Has(<<>>, S)
      /\ \A S : Has(<<"tusb">>, S) <=> "tusb" \in S
      /\ Nested(<<>>) /\ Nested(<<"tusb">>)
  BY DEF Has, Nested, Bottom, Boot
<1>4. \A t \in Task : stack[t] \in Seq(Place)
  <2>1. <<"tusb">> \in Seq(Place) /\ <<>> \in Seq(Place)
    BY DEF Place, Boot
  <2> QED
    BY <1>2, <2>1
<1>5. TypeOK
  <2>1. stack \in [Task -> Seq(Place)]
    BY <1>4 DEF Init
  <2>2. <<>> \in Seq(Event) /\ 0 \in 0..MaxFrames /\ 0 \in 0..MaxResets /\ PoolSize \in 0..PoolSize
        /\ 0 \in 0..PoolSize
    BY UsbNetAssumption
  <2> QED
    BY <2>1, <2>2 DEF Init, TypeOK
<1>6. Stacks /\ OneOwner /\ Sending
  BY <1>2, <1>3 DEF Stacks, OneOwner, Sending, Core
<1>7. Starting
  BY <1>1, <1>2, <1>3 DEF Init, Starting, Head4
<1>8. EventOrder /\ Receiving
  BY <1>3 DEF Init, EventOrder, Receiving
<1>9. PbufsAccounted
  <2>1. Holders = {}
    BY <1>2, <1>3, HoldersFinite
  <2> QED
    <3>1. Cardinality(Holders) = 0
      BY <2>1, FS_EmptySet
    <3>2. free = PoolSize /\ unread = 0 /\ PoolSize \in Nat
      BY UsbNetAssumption DEF Init
    <3>3. free + unread + Cardinality(Holders) = PoolSize
      BY <3>1, <3>2
    <3> QED
      BY <3>3 DEF PbufsAccounted, Holders
<1> QED
  BY <1>5, <1>6, <1>7, <1>8, <1>9 DEF IInv

LEMMA NextIInv == IInv /\ [Next]_vars => IInv'
<1> SUFFICES ASSUME IInv, [Next]_vars PROVE IInv'
  OBVIOUS
<1>1. CASE Next
  <2>1. stack' \in [Task -> Seq(Place)] /\ Stacks' /\ OneOwner' /\ Starting'
    BY <1>1, StacksKept DEF IInv
  <2>2. Sending' /\ EventOrder' /\ Receiving'
    BY <1>1, SendingKept, EventOrderKept, ReceivingKept DEF IInv
  <2>3. PbufsAccounted' /\ free' \in Nat /\ unread' \in Nat
    BY <1>1, PbufsKept DEF IInv
  <2>4. TypeOK'
    BY <1>1, <2>1, <2>3, TypeKept DEF IInv
  <2> QED
    BY <2>1, <2>2, <2>3, <2>4 DEF IInv
<1>2. CASE UNCHANGED vars
  BY <1>2 DEF vars, driver, host, pbufs, up, past, IInv, TypeOK, Stacks, OneOwner, Sending,
              Starting, EventOrder, Receiving, PbufsAccounted, Within
<1> QED
  BY <1>1, <1>2

\* A set of which there is one is counted as one.
LEMMA CountOne ==
    ASSUME NEW S, IsFiniteSet(S), \A x, y \in S : x = y
    PROVE  Cardinality(S) = IF S = {} THEN 0 ELSE 1
<1>1. CASE S = {}
  BY <1>1, FS_EmptySet
<1>2. CASE S # {}
  <2>1. PICK x : S = {x}
    BY <1>2
  <2> QED
    BY <1>2, <2>1, FS_Singleton
<1> QED
  BY <1>1, <1>2

LEMMA IInvCounts == IInv => OneReception
<1> SUFFICES ASSUME IInv, ready, ~mute, ~torn
             PROVE  Cardinality({t \in Task : Within(t, Recv) # {}})
                      + Cardinality(Queued({"frame", "empty"})) + (IF armed THEN 1 ELSE 0) = 1
  BY DEF OneReception
<1> DEFINE R == {t \in Task : Within(t, Recv) # {}}
           Q == Queued(Frames)
<1>1. R = {t \in Task : Has(stack[t], Recv)} /\ (Q # {} <=> Has(events, Frames))
  BY DEF Within, Queued, Has
<1>2. /\ armed \/ Has(events, Frames) \/ \E t \in Task : Has(stack[t], Recv)
      /\ armed => ~Has(events, Frames)
      /\ \A t \in Task : Has(stack[t], Recv) => ~armed /\ ~Has(events, Frames)
      /\ \A t, u \in Task : Has(stack[t], Recv) /\ Has(stack[u], Recv) => t = u
      /\ \A j, k \in DOMAIN events : events[j] \in Frames /\ events[k] \in Frames => j = k
  BY DEF IInv, Receiving
<1>3. IsFiniteSet(R)
  BY TaskFinite, FS_Subset
<1>4. IsFiniteSet(Q)
  <2>1. events \in Seq(Event)
    BY DEF IInv, TypeOK
  <2>2. DOMAIN events = 1..Len(events) /\ Len(events) \in Nat
    BY <2>1
  <2>3. IsFiniteSet(1..Len(events))
    BY <2>2, FS_Interval
  <2> QED
    BY <2>2, <2>3, FS_Subset DEF Queued
<1>5. \A x, y \in Q : x = y
  BY <1>2 DEF Queued
<1>6. \A x, y \in R : x = y
  BY <1>1, <1>2
<1>7. /\ Cardinality(R) = IF R = {} THEN 0 ELSE 1
      /\ Cardinality(Q) = IF Q = {} THEN 0 ELSE 1
  BY <1>3, <1>4, <1>5, <1>6, CountOne
<1>8. \/ R = {} /\ Q = {} /\ armed
      \/ R = {} /\ Q # {} /\ ~armed
      \/ R # {} /\ Q = {} /\ ~armed
  BY <1>1, <1>2
<1> HIDE DEF R, Q
<1>9. Cardinality(R) + Cardinality(Q) + (IF armed THEN 1 ELSE 0) = 1
  BY <1>7, <1>8
<1> QED
  BY <1>9 DEF R, Q, Frames

LEMMA IInvImplies ==
    IInv => /\ TypeOK /\ OneReception /\ PbufsAccounted /\ SendsToFreeDriver /\ UsedWhenUp
<1> SUFFICES ASSUME IInv PROVE SendsToFreeDriver /\ UsedWhenUp
  BY IInvCounts DEF IInv
<1>1. SendsToFreeDriver
  <2> SUFFICES ASSUME NEW t \in Task, At(t, "send") PROVE canXmit
    BY DEF SendsToFreeDriver
  <2>1. stack[t] \in Seq(Place) /\ stack[t] # <<>> /\ Head(stack[t]) = "send"
    BY DEF IInv, TypeOK, At
  <2>2. 1 \in DOMAIN stack[t] /\ stack[t][1] = "send"
    BY <2>1
  <2>3. Has(stack[t], {"send"})
    BY <2>2 DEF Has
  <2> QED
    BY <2>3 DEF IInv, Sending
<1>2. UsedWhenUp
  <2>1. ~Has(stack["usb"], Boot) <=> Within("usb", Boot) = {}
    BY DEF Has, Within
  <2> QED
    BY <2>1 DEF IInv, Starting, UsedWhenUp
<1> QED
  BY <1>1, <1>2

\* The network for every number of tasks, every pool, and a host that sends and resets
\* as often as it likes: one frame at a time is received and reception goes on, no pbuf
\* is lost or freed twice, a frame is given only to a driver that is free, in spite of
\* tud_task() running inside linkoutput_fn, and no socket is used before start-up ended.
THEOREM NetworkIsSound ==
    Spec => [](TypeOK /\ OneReception /\ PbufsAccounted /\ SendsToFreeDriver /\ UsedWhenUp)
<1>1. Init => IInv
  BY InitIInv
<1>2. IInv /\ [Next]_vars => IInv'
  BY NextIInv
<1>3. IInv => TypeOK /\ OneReception /\ PbufsAccounted /\ SendsToFreeDriver /\ UsedWhenUp
  BY IInvImplies
<1> QED
  BY <1>1, <1>2, <1>3, PTL DEF Spec

\* Every record the glue, lwIP and the tasks keep stays in its range: no call is left that
\* TypeOK does not know, and the pool is neither overdrawn nor filled above its size.
COROLLARY NetworkTypes == Spec => []TypeOK
BY NetworkIsSound, PTL

\* tud_network_recv_cb has the driver armed again once for each frame, however the calls
\* of lwIP, linkoutput_fn and tud_task() are nested.
COROLLARY ReceptionGoesOn == Spec => []OneReception
BY NetworkIsSound, PTL

\* Between the test of tud_network_can_xmit() and tud_network_xmit() the driver stays free.
COROLLARY DriverStaysFree == Spec => []SendsToFreeDriver
BY NetworkIsSound, PTL

\* isere_tcp_is_initialized() lets no task use a socket before start-up has ended.
COROLLARY StartUpComesFirst == Spec => []UsedWhenUp
BY NetworkIsSound, PTL
=============================================================================
