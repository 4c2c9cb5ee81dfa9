---------------------------- MODULE RequestProof -----------------------------
(***************************************************************************)
(* The buffers of a request and the headers of the event object, for every *)
(* request and every size of the buffers, by the inductive invariant IInv: *)
(* what the parser has handed over so far determines every buffer and both *)
(* counters. The handler's headers then follow from what a buffer and a    *)
(* walk over the flat arrays are, by induction on the number of a header.  *)
(***************************************************************************)
EXTENDS Request, SequenceTheorems, WellFoundedInduction, TLAPS

-----------------------------------------------------------------------------
(* Lemmas about numbers and sequences.                                     *)

LEMMA MinIs ==
    ASSUME NEW S \in SUBSET Int, NEW m \in S, \A y \in S : m <= y
    PROVE  Min(S) = m
<1>1. \E x \in S : \A y \in S : x <= y
  OBVIOUS
<1>2. Min(S) \in S /\ \A y \in S : Min(S) <= y
  BY <1>1, Zenon DEF Min
<1> DEFINE z == Min(S)
<1> HIDE DEF z
<1>3. z \in S /\ \A y \in S : z <= y
  BY <1>2 DEF z
<1>4. z = m
  BY <1>3
<1> QED
  BY <1>4 DEF z

LEMMA Smaller ==
    ASSUME NEW a \in Int, NEW b \in Int
    PROVE  Min({a, b}) = IF a <= b THEN a ELSE b
BY MinIs

\* Induction, of which the numbers that have the property are the set.
LEMMA Induction ==
    ASSUME NEW S, 1 \in S, \A n \in Nat \ {0} : n \in S => n + 1 \in S
    PROVE  \A n \in Nat \ {0} : n \in S
<1> SUFFICES ASSUME NEW n \in Nat \ {0}, n \notin S PROVE FALSE
  OBVIOUS
<1> DEFINE T == (Nat \ {0}) \ S
<1>1. T \subseteq Nat /\ T # {}
  OBVIOUS
<1>2. PICK m \in T : \A k \in T : ~(<<k, m>> \in OpToRel(<, Nat))
  BY <1>1, NatLessThanWellFounded, WFMin
<1>3. m # 1 /\ m - 1 \in Nat \ {0}
  OBVIOUS
<1>4. m - 1 \notin T
  <2> SUFFICES ASSUME m - 1 \in T PROVE FALSE
    OBVIOUS
  <2>1. m - 1 \in Nat /\ m \in Nat /\ m - 1 < m
    BY <1>3
  <2>2. <<m - 1, m>> \in OpToRel(<, Nat)
    BY <2>1, Zenon DEF OpToRel
  <2> QED
    BY <1>2, <2>2
<1> QED
  BY <1>3, <1>4

LEMMA Place ==
    ASSUME NEW w \in Nat \ {0}, NEW r \in Nat, NEW c \in 0..(w - 1)
    PROVE  (r * w + c) \div w = r /\ (r * w + c) % w = c
OBVIOUS

\* The beginning of a text, by its length.
Cut(n, max) == IF max - 1 < n THEN max - 1 ELSE n

LEMMA Texts ==
    ASSUME NEW x, NEW n \in Nat
    PROVE  /\ Text(x, n) \in Seq({x} \X Nat) /\ Len(Text(x, n)) = n
           /\ DOMAIN Text(x, n) = 1..n /\ \A k \in 1..n : Text(x, n)[k] = <<x, k>>
BY DEF Text

\* The m characters of a text that follow its first d, and those of a sequence.
Stretch(x, d, m) == [k \in 1..m |-> <<x, k + d>>]
Between(s, d, m) == SubSeq(s, d + 1, d + m)

LEMMA PartOfText ==
    ASSUME NEW x, NEW n \in Nat, NEW d \in Nat, NEW m \in Nat, d + m <= n
    PROVE  Between(Text(x, n), d, m) = Stretch(x, d, m)
<1> DEFINE t == Text(x, n)
           p == SubSeq(t, d + 1, d + m)
<1>1. \A k \in (d + 1)..(d + m) : t[k] = <<x, k>> /\ t[k] \in {x} \X Nat
  <2> SUFFICES ASSUME NEW k \in (d + 1)..(d + m) PROVE t[k] = <<x, k>> /\ t[k] \in {x} \X Nat
    OBVIOUS
  <2>1. k \in 1..n /\ k \in Nat
    OBVIOUS
  <2>2. t[k] = <<x, k>>
    BY <2>1, Texts
  <2> QED
    BY <2>1, <2>2
<1> HIDE DEF t
<1>2. /\ p \in Seq({x} \X Nat) /\ Len(p) = IF d + 1 <= d + m THEN (d + m) - (d + 1) + 1 ELSE 0
      /\ \A k \in 1..((d + m) - (d + 1) + 1) : p[k] = t[(d + 1) + k - 1]
  BY <1>1, SubSeqProperties
<1>3. Len(p) = m /\ (d + m) - (d + 1) + 1 = m
  BY <1>2
<1>4. ASSUME NEW k \in 1..m PROVE p[k] = <<x, k + d>>
  <2>1. k + d \in (d + 1)..(d + m) /\ (d + 1) + k - 1 = k + d
    OBVIOUS
  <2> QED
    BY <1>1, <1>2, <1>3, <2>1
<1> HIDE DEF p
<1>5. p \in [1..m -> {x} \X Nat]
  BY <1>2, <1>3, LenProperties
<1>6. p = [k \in 1..m |-> <<x, k + d>>]
  BY <1>4, <1>5
<1> QED
  BY <1>6 DEF p, t, Stretch, Between

LEMMA Begins ==
    ASSUME NEW x, NEW n \in Nat, NEW max \in Nat \ {0}
    PROVE  /\ Cut(n, max) \in Nat /\ Cut(n, max) < max /\ Cut(n, max) <= n
           /\ Received(x, n, max) = Text(x, Cut(n, max))
<1>1. Cut(n, max) \in Nat /\ Cut(n, max) < max /\ Cut(n, max) <= n
  BY DEF Cut
<1>2. Received(x, n, max) = SubSeq(Text(x, n), 1, Cut(n, max))
  BY Texts DEF Received, Prefix, Cut
<1> QED
  BY <1>1, <1>2 DEF Text

\* __on_method and the callbacks like it: a piece behind what the buffer has of a text
\* leaves what the buffer has of the longer text.
LEMMA FillReceived ==
    ASSUME NEW x, sent \in Nat, NEW n \in Nat \ {0}, NEW max \in Nat \ {0}
    PROVE  Fill(Received(x, sent, max), Piece(x, n), max) = Received(x, sent + n, max)
<1> DEFINE a == Cut(sent, max)
           b == Cut(sent + n, max)
           p == Piece(x, n)
           m == max - 1 - a
           c == IF m < n THEN m ELSE n
<1>1. /\ Received(x, sent, max) = Text(x, a) /\ Received(x, sent + n, max) = Text(x, b)
      /\ a \in Nat /\ b \in Nat /\ a < max
  <2>1. sent + n \in Nat
    OBVIOUS
  <2> QED
    BY <2>1, Begins
<1>2. p = [j \in 1..n |-> <<x, sent + j>>] /\ Len(p) = n /\ p \in Seq({x} \X Nat)
  BY DEF Piece, Text
<1>3. m \in Nat /\ a + c = b /\ (c # 0 => a = sent) /\ c \in Nat /\ c <= n
  BY <1>1 DEF Cut
<1>4. Fill(Text(x, a), p, max) = Text(x, a) \o SubSeq(p, 1, c)
  <2>1. Len(Text(x, a)) = a
    BY <1>1, Texts
  <2> QED
    BY <1>2, <2>1 DEF Fill, Prefix
<1> HIDE DEF a, b, p, m, c
<1>5. /\ Len(SubSeq(p, 1, c)) = c /\ SubSeq(p, 1, c) \in Seq({x} \X Nat)
      /\ \A j \in 1..c : SubSeq(p, 1, c)[j] = <<x, a + j>>
  <2>1. \A j \in 1..c : p[j] \in {x} \X Nat /\ p[j] = <<x, sent + j>>
    BY <1>2, <1>3
  <2>2. /\ Len(SubSeq(p, 1, c)) = c /\ SubSeq(p, 1, c) \in Seq({x} \X Nat)
        /\ \A j \in 1..c : SubSeq(p, 1, c)[j] = p[j]
    BY <1>3, <2>1, SubSeqProperties
  <2>3. ASSUME NEW j \in 1..c PROVE SubSeq(p, 1, c)[j] = <<x, a + j>>
    BY <1>3, <2>1, <2>2
  <2> QED
    BY <2>2, <2>3
<1>6. Text(x, a) \o SubSeq(p, 1, c) = Text(x, b)
  <2>1. /\ Text(x, a) \in Seq({x} \X Nat) /\ Len(Text(x, a)) = a
        /\ \A k \in 1..a : Text(x, a)[k] = <<x, k>>
    BY <1>1, Texts
  <2>2. /\ Text(x, b) \in Seq({x} \X Nat) /\ Len(Text(x, b)) = b
        /\ \A k \in 1..b : Text(x, b)[k] = <<x, k>>
    BY <1>1, Texts
  <2> DEFINE q == SubSeq(p, 1, c)
             t == Text(x, a)
  <2> HIDE DEF q, t
  <2>3. /\ t \o q \in Seq({x} \X Nat) /\ Len(t \o q) = a + c
        /\ \A k \in 1..(a + c) : (t \o q)[k] = IF k <= a THEN t[k] ELSE q[k - a]
    <3> DEFINE S == {x} \X Nat
    <3>1. t \in Seq(S) /\ q \in Seq(S) /\ Len(t) = a /\ Len(q) = c
      BY <1>5, <2>1 DEF q, t
    <3> HIDE DEF S
    <3>2. /\ t \o q \in Seq(S) /\ Len(t \o q) = Len(t) + Len(q)
          /\ \A k \in 1..(Len(t) + Len(q)) :
                (t \o q)[k] = IF k <= Len(t) THEN t[k] ELSE q[k - Len(t)]
      BY <3>1, ConcatProperties
    <3> QED
      BY <3>1, <3>2 DEF S
  <2>4. ASSUME NEW k \in 1..b PROVE (t \o q)[k] = <<x, k>>
    <3>1. CASE k <= a
      BY <1>1, <1>3, <2>1, <2>3, <3>1 DEF t
    <3>2. CASE k > a
      <4>1. k - a \in 1..c /\ a + (k - a) = k
        BY <1>1, <1>3, <3>2
      <4>2. q[k - a] = <<x, k>>
        BY <1>5, <4>1 DEF q
      <4>3. (t \o q)[k] = q[k - a]
        <5>1. k \in 1..(a + c) /\ ~(k <= a)
          BY <1>1, <1>3, <3>2
        <5> QED
          BY <2>3, <5>1
      <4> QED
        BY <4>2, <4>3
    <3>3. k <= a \/ k > a
      BY <1>1
    <3> QED
      BY <3>1, <3>2, <3>3
  <2> QED
    BY <1>3, <2>2, <2>3, <2>4, SeqEqual DEF q, t
<1> QED
  BY <1>1, <1>4, <1>6 DEF p

-----------------------------------------------------------------------------
(* The inductive invariant.                                                *)

Stages == {"method", "url", "field", "value", "body", "complete"}
Empty  == [path |-> <<>>, query |-> <<>>]

\* What __on_header_field and __on_header_value have made of row k.
Row(k) ==
    IF k \in DOMAIN request.headers /\ k <= header
    THEN [name  |-> Received(<<"name", k>>, NameSent(k), MaxName),
          value |-> Received(<<"value", k>>, ValueSent(k), MaxValue)]
    ELSE [name |-> <<>>, value |-> <<>>]

\* A counter that has seen n headers.
Count(n) == IF n < MaxHeaders THEN n ELSE MaxHeaders

StageOK ==
    /\ request \in Requests /\ stage \in Stages
    /\ header \in 1..(Len(request.headers) + 1) /\ sent \in Nat
    /\ stage \in {"method", "url"} => header = 1
    /\ stage \in {"field", "value"} => header <= Len(request.headers)
    /\ stage \in {"body", "complete"} => header = Len(request.headers) + 1

TextsOK ==
    /\ method = Received("method", IF stage = "method" THEN sent ELSE request.method, MaxMethod)
    /\ path = IF stage = "url" THEN Received("path", sent, MaxPath) ELSE <<>>
    /\ url_parser = IF stage \in {"method", "url"} THEN Empty ELSE Asked
    /\ body = CASE stage = "body" -> Received("body", sent, MaxBody)
                [] stage = "complete" -> Received("body", request.body, MaxBody)
                [] OTHER -> <<>>

RowsOK ==
    /\ headers = [k \in 1..MaxHeaders |-> Row(k)]
    /\ num_header_fields = Count(IF stage = "value" THEN header ELSE header - 1)
    /\ num_header_values = Count(header - 1)

IInv == StageOK /\ TextsOK /\ RowsOK

LEMMA Lengths ==
    ASSUME NEW r \in Requests
    PROVE  /\ r.method \in Nat \ {0} /\ r.path \in Nat \ {0} /\ r.query \in Nat /\ r.body \in Nat
           /\ r.query = 0 \/ r.query \in 2..r.path
           /\ Len(r.headers) \in Nat /\ DOMAIN r.headers = 1..Len(r.headers)
           /\ \A k \in DOMAIN r.headers : r.headers[k].name \in Nat \ {0} /\ r.headers[k].value \in Nat
<1>1. r \in RequestType /\ (r.query = 0 \/ r.query \in 2..r.path)
  BY RequestsTyped
<1>2. r.headers \in Seq([name : Nat \ {0}, value : Nat])
  BY <1>1 DEF RequestType
<1>3. \A k \in DOMAIN r.headers : r.headers[k] \in [name : Nat \ {0}, value : Nat]
  <2> DEFINE h == r.headers
  <2> HIDE DEF h
  <2>1. DOMAIN h = 1..Len(h) /\ \A k \in 1..Len(h) : h[k] \in [name : Nat \ {0}, value : Nat]
    BY <1>2, LenProperties, ElementOfSeq DEF h
  <2> QED
    BY <2>1 DEF h
<1> QED
  BY <1>1, <1>2, <1>3 DEF RequestType

LEMMA NothingYet ==
    ASSUME NEW x, NEW max \in Nat \ {0}
    PROVE  Received(x, 0, max) = <<>>
<1>1. Cut(0, max) = 0
  BY DEF Cut
<1> QED
  BY <1>1, Begins DEF Text

LEMMA InitIInv == Init => IInv
<1> SUFFICES ASSUME Init PROVE IInv
  OBVIOUS
<1>1. StageOK
  BY Lengths DEF Init, StageOK, Stages
<1>2. TextsOK
  BY NothingYet, Sizes DEF Init, TextsOK, Empty
<1>3. ASSUME NEW k \in 1..MaxHeaders PROVE Row(k) = [name |-> <<>>, value |-> <<>>]
  <2>1. k \in DOMAIN request.headers /\ k <= header => NameSent(k) = 0 /\ ValueSent(k) = 0
    BY Sizes DEF Init, NameSent, ValueSent
  <2> QED
    BY <2>1, NothingYet, Sizes DEF Row
<1>4. RowsOK
  BY <1>3, Sizes DEF Init, RowsOK, Count
<1> QED
  BY <1>1, <1>2, <1>4 DEF IInv

-----------------------------------------------------------------------------
(* Every step keeps IInv.                                                  *)

LEMMA OnMethodKeeps ==
    ASSUME IInv, NEW n \in Pieces, OnMethod(n)
    PROVE  IInv'
<1>1. /\ n \in Nat \ {0} /\ sent' = sent + n /\ stage = "method"
      /\ method' = Fill(method, Piece("method", n), MaxMethod)
      /\ UNCHANGED <<request, stage, header, path, body, url_parser, headers,
                     num_header_fields, num_header_values>>
  BY DEF OnMethod, Gets, Pieces, counts
<1>2. StageOK'
  BY <1>1 DEF IInv, StageOK
<1>3. method' = Received("method", sent', MaxMethod)
  BY <1>1, FillReceived, Sizes DEF IInv, StageOK, TextsOK
<1>4. TextsOK'
  BY <1>1, <1>3 DEF IInv, TextsOK, Asked
<1>5. RowsOK'
  BY <1>1 DEF IInv, RowsOK, Row, NameSent, ValueSent
<1> QED
  BY <1>2, <1>4, <1>5 DEF IInv

LEMMA OnUrlKeeps ==
    ASSUME IInv, NEW n \in Pieces, OnUrl(n)
    PROVE  IInv'
<1>1. /\ n \in Nat \ {0} /\ sent' = sent + n /\ stage = "url"
      /\ path' = Fill(path, Piece("path", n), MaxPath)
      /\ UNCHANGED <<request, stage, header, method, body, url_parser, headers,
                     num_header_fields, num_header_values>>
  BY DEF OnUrl, Gets, Pieces, counts
<1>2. StageOK'
  BY <1>1 DEF IInv, StageOK
<1>3. path' = Received("path", sent', MaxPath)
  BY <1>1, FillReceived, Sizes DEF IInv, StageOK, TextsOK
<1>4. TextsOK'
  BY <1>1, <1>3 DEF IInv, TextsOK
<1>5. RowsOK'
  BY <1>1 DEF IInv, RowsOK, Row, NameSent, ValueSent
<1> QED
  BY <1>2, <1>4, <1>5 DEF IInv

LEMMA OnBodyKeeps ==
    ASSUME IInv, NEW n \in Pieces, OnBody(n)
    PROVE  IInv'
<1>1. /\ n \in Nat \ {0} /\ sent' = sent + n /\ stage = "body"
      /\ body' = Fill(body, Piece("body", n), MaxBody)
      /\ UNCHANGED <<request, stage, header, method, path, url_parser, headers,
                     num_header_fields, num_header_values>>
  BY DEF OnBody, Gets, Pieces, counts
<1>2. StageOK'
  BY <1>1 DEF IInv, StageOK
<1>3. body' = Received("body", sent', MaxBody)
  BY <1>1, FillReceived, Sizes DEF IInv, StageOK, TextsOK
<1>4. TextsOK'
  BY <1>1, <1>3 DEF IInv, TextsOK, Asked
<1>5. RowsOK'
  BY <1>1 DEF IInv, RowsOK, Row, NameSent, ValueSent
<1> QED
  BY <1>2, <1>4, <1>5 DEF IInv

\* The row of the header at hand is counted when its text is complete.
LEMMA OnHeaderFieldKeeps ==
    ASSUME IInv, NEW n \in Pieces, OnHeaderField(n)
    PROVE  IInv'
<1>1. /\ n \in Nat \ {0} /\ sent' = sent + n /\ stage = "field"
      /\ UNCHANGED <<request, stage, header, method, path, body, url_parser,
                     num_header_fields, num_header_values>>
  BY DEF OnHeaderField, Gets, Pieces, counts
<1>2. /\ StageOK /\ header \in DOMAIN request.headers /\ header \in Nat \ {0} /\ sent \in Nat
      /\ sent + n \in Nat /\ DOMAIN request.headers \subseteq Nat
  BY <1>1, Lengths DEF IInv, StageOK
<1>3. StageOK'
  BY <1>1, <1>2 DEF StageOK
<1>4. TextsOK'
  BY <1>1 DEF IInv, TextsOK, Asked
<1>5. headers = [k \in 1..MaxHeaders |-> Row(k)]
  BY DEF IInv, RowsOK
<1>6. ASSUME NEW k, k # header PROVE Row(k)' = Row(k)
  <2>1. k \in DOMAIN request.headers /\ k <= header => k < header
    BY <1>2, <1>6
  <2> QED
    BY <1>1, <2>1 DEF Row, NameSent, ValueSent
<1>7. ASSUME NEW k, k = header
      PROVE  /\ Row(k).name = Received(<<"name", k>>, sent, MaxName)
             /\ Row(k)' = [Row(k) EXCEPT !.name = Received(<<"name", k>>, sent + n, MaxName)]
  BY <1>1, <1>2, <1>7 DEF Row, NameSent, ValueSent
<1>8. CASE header <= MaxHeaders
  <2>1. num_header_fields + 1 = header /\ num_header_fields < MaxHeaders
    BY <1>1, <1>2, <1>8, Sizes DEF IInv, RowsOK, Count
  <2>2. headers' = [headers EXCEPT ![header].name = Fill(@, Piece(<<"name", header>>, n), MaxName)]
    BY <2>1 DEF OnHeaderField
  <2>3. ASSUME NEW k \in 1..MaxHeaders PROVE headers'[k] = Row(k)'
    <3>1. CASE k # header
      BY <1>5, <1>6, <2>2, <3>1
    <3>2. CASE k = header
      <4>1. headers[k] = Row(k)
        BY <1>5
      <4>2. headers'[k] = [Row(k) EXCEPT !.name = Fill(@, Piece(<<"name", k>>, n), MaxName)]
        BY <1>5, <2>2, <3>2, <4>1
      <4>3. Fill(Row(k).name, Piece(<<"name", k>>, n), MaxName) = Received(<<"name", k>>, sent + n, MaxName)
        BY <1>1, <1>2, <1>7, <3>2, FillReceived, Sizes
      <4> QED
        BY <1>7, <3>2, <4>2, <4>3
    <3> QED
      BY <3>1, <3>2
  <2>4. headers' = [k \in 1..MaxHeaders |-> headers'[k]]
    BY <1>5, <2>2
  <2> QED
    BY <1>1, <1>3, <1>4, <2>3, <2>4 DEF IInv, RowsOK
<1>9. CASE ~(header <= MaxHeaders)
  <2>1. ~(num_header_fields < MaxHeaders)
    BY <1>1, <1>2, <1>9, Sizes DEF IInv, RowsOK, Count
  <2>2. headers' = headers
    BY <2>1 DEF OnHeaderField
  <2>3. ASSUME NEW k \in 1..MaxHeaders PROVE Row(k)' = Row(k)
    BY <1>2, <1>6, <1>9, Sizes
  <2> QED
    BY <1>1, <1>3, <1>4, <1>5, <2>2, <2>3 DEF IInv, RowsOK
<1> QED
  BY <1>8, <1>9

LEMMA OnHeaderValueKeeps ==
    ASSUME IInv, NEW n \in Pieces, OnHeaderValue(n)
    PROVE  IInv'
<1>1. /\ n \in Nat \ {0} /\ sent' = sent + n /\ stage = "value"
      /\ UNCHANGED <<request, stage, header, method, path, body, url_parser,
                     num_header_fields, num_header_values>>
  BY DEF OnHeaderValue, Gets, Pieces, counts
<1>2. /\ StageOK /\ header \in DOMAIN request.headers /\ header \in Nat \ {0} /\ sent \in Nat
      /\ sent + n \in Nat /\ DOMAIN request.headers \subseteq Nat
  BY <1>1, Lengths DEF IInv, StageOK
<1>3. StageOK'
  BY <1>1, <1>2 DEF StageOK
<1>4. TextsOK'
  BY <1>1 DEF IInv, TextsOK, Asked
<1>5. headers = [k \in 1..MaxHeaders |-> Row(k)]
  BY DEF IInv, RowsOK
<1>6. ASSUME NEW k, k # header PROVE Row(k)' = Row(k)
  <2>1. k \in DOMAIN request.headers /\ k <= header => k < header
    BY <1>2, <1>6
  <2> QED
    BY <1>1, <2>1 DEF Row, NameSent, ValueSent
<1>7. ASSUME NEW k, k = header
      PROVE  /\ Row(k).value = Received(<<"value", k>>, sent, MaxValue)
             /\ Row(k)' = [Row(k) EXCEPT !.value = Received(<<"value", k>>, sent + n, MaxValue)]
  BY <1>1, <1>2, <1>7 DEF Row, NameSent, ValueSent
<1>8. CASE header <= MaxHeaders
  <2>1. num_header_values + 1 = header /\ num_header_values < MaxHeaders
    BY <1>1, <1>2, <1>8, Sizes DEF IInv, RowsOK, Count
  <2>2. headers' = [headers EXCEPT ![header].value = Fill(@, Piece(<<"value", header>>, n), MaxValue)]
    BY <2>1 DEF OnHeaderValue
  <2>3. ASSUME NEW k \in 1..MaxHeaders PROVE headers'[k] = Row(k)'
    <3>1. CASE k # header
      BY <1>5, <1>6, <2>2, <3>1
    <3>2. CASE k = header
      <4>1. headers[k] = Row(k)
        BY <1>5
      <4>2. headers'[k] = [Row(k) EXCEPT !.value = Fill(@, Piece(<<"value", k>>, n), MaxValue)]
        BY <1>5, <2>2, <3>2, <4>1
      <4>3. Fill(Row(k).value, Piece(<<"value", k>>, n), MaxValue) = Received(<<"value", k>>, sent + n, MaxValue)
        BY <1>1, <1>2, <1>7, <3>2, FillReceived, Sizes
      <4> QED
        BY <1>7, <3>2, <4>2, <4>3
    <3> QED
      BY <3>1, <3>2
  <2>4. headers' = [k \in 1..MaxHeaders |-> headers'[k]]
    BY <1>5, <2>2
  <2> QED
    BY <1>1, <1>3, <1>4, <2>3, <2>4 DEF IInv, RowsOK
<1>9. CASE ~(header <= MaxHeaders)
  <2>1. ~(num_header_values < MaxHeaders)
    BY <1>1, <1>2, <1>9, Sizes DEF IInv, RowsOK, Count
  <2>2. headers' = headers
    BY <2>1 DEF OnHeaderValue
  <2>3. ASSUME NEW k \in 1..MaxHeaders PROVE Row(k)' = Row(k)
    BY <1>2, <1>6, <1>9, Sizes
  <2> QED
    BY <1>1, <1>3, <1>4, <1>5, <2>2, <2>3 DEF IInv, RowsOK
<1> QED
  BY <1>8, <1>9

\* A text is complete: what the buffer has of it is final, and of the next one nothing.
LEMMA MethodCompletes ==
    ASSUME IInv, MethodComplete
    PROVE  IInv'
<1>1. /\ stage = "method" /\ sent = request.method /\ stage' = "url" /\ sent' = 0
      /\ UNCHANGED <<request, header, method, path, body, url_parser, headers,
                     num_header_fields, num_header_values>>
  BY DEF MethodComplete, Completes, counts
<1>2. StageOK'
  BY <1>1 DEF IInv, StageOK, Stages
<1>3. TextsOK'
  BY <1>1, NothingYet, Sizes DEF IInv, TextsOK
<1>4. RowsOK'
  BY <1>1 DEF IInv, RowsOK, Row, NameSent, ValueSent
<1> QED
  BY <1>2, <1>3, <1>4 DEF IInv

LEMMA BodyCompletes ==
    ASSUME IInv, BodyComplete
    PROVE  IInv'
<1>1. /\ stage = "body" /\ sent = request.body /\ stage' = "complete" /\ sent' = 0
      /\ UNCHANGED <<request, header, method, path, body, url_parser, headers,
                     num_header_fields, num_header_values>>
  BY DEF BodyComplete, Completes, counts
<1>2. StageOK'
  BY <1>1 DEF IInv, StageOK, Stages
<1>3. TextsOK'
  BY <1>1 DEF IInv, TextsOK, Asked
<1>4. header = Len(request.headers) + 1 /\ DOMAIN request.headers = 1..Len(request.headers)
      /\ Len(request.headers) \in Nat
  BY <1>1, Lengths DEF IInv, StageOK
<1>5. RowsOK'
  BY <1>1, <1>4 DEF IInv, RowsOK, Row, NameSent, ValueSent
<1> QED
  BY <1>2, <1>3, <1>5 DEF IInv

LEMMA FieldCompletes ==
    ASSUME IInv, FieldComplete
    PROVE  IInv'
<1>1. /\ stage = "field" /\ sent = request.headers[header].name /\ stage' = "value" /\ sent' = 0
      /\ num_header_fields' = Counted(num_header_fields)
      /\ UNCHANGED <<request, header, method, path, body, url_parser, headers, num_header_values>>
  BY DEF FieldComplete, Completes
<1>2. StageOK'
  BY <1>1 DEF IInv, StageOK, Stages
<1>3. TextsOK'
  BY <1>1 DEF IInv, TextsOK, Asked
<1>4. header \in Nat \ {0} /\ DOMAIN request.headers \subseteq Nat
  BY Lengths DEF IInv, StageOK
<1>5. ASSUME NEW k PROVE Row(k)' = Row(k)
  <2>1. k \in DOMAIN request.headers /\ k <= header => k < header \/ k = header
    BY <1>4
  <2>2. CASE k \in DOMAIN request.headers /\ k = header
    BY <1>1, <1>4, <2>2 DEF Row, NameSent, ValueSent
  <2>3. CASE k \in DOMAIN request.headers /\ k < header
    BY <1>1, <1>4, <2>3 DEF Row, NameSent, ValueSent
  <2>4. CASE ~(k \in DOMAIN request.headers /\ k <= header)
    BY <1>1, <2>4 DEF Row
  <2> QED
    BY <2>1, <2>2, <2>3, <2>4
<1>6. num_header_fields' = Count(header) /\ num_header_values' = Count(header - 1)
  BY <1>1, <1>4, Sizes DEF IInv, RowsOK, Count, Counted
<1>7. RowsOK'
  BY <1>1, <1>5, <1>6 DEF IInv, RowsOK
<1> QED
  BY <1>2, <1>3, <1>7 DEF IInv

LEMMA ValueCompletes ==
    ASSUME IInv, ValueComplete
    PROVE  IInv'
<1>1. /\ stage = "value" /\ sent = request.headers[header].value /\ sent' = 0
      /\ stage' = AfterHeader(header + 1) /\ header' = header + 1
      /\ num_header_values' = Counted(num_header_values)
      /\ UNCHANGED <<request, method, path, body, url_parser, headers, num_header_fields>>
  BY DEF ValueComplete, Completes
<1>2. /\ header \in Nat \ {0} /\ header <= Len(request.headers) /\ Len(request.headers) \in Nat
      /\ DOMAIN request.headers = 1..Len(request.headers)
  BY <1>1, Lengths DEF IInv, StageOK
<1>3. stage' = IF header' > Len(request.headers) THEN "body" ELSE "field"
  BY <1>1 DEF AfterHeader
<1>4. StageOK'
  BY <1>1, <1>2, <1>3 DEF IInv, StageOK, Stages
<1>5. TextsOK'
  <2>1. path' = <<>> /\ body' = <<>> /\ url_parser' = Asked /\ Asked' = Asked
        /\ method' = Received("method", request.method, MaxMethod)
    BY <1>1 DEF IInv, TextsOK, Asked
  <2>2. Received("body", 0, MaxBody) = <<>>
    BY NothingYet, Sizes
  <2> QED
    BY <1>1, <1>3, <2>1, <2>2 DEF TextsOK
<1>6. ASSUME NEW k PROVE Row(k)' = Row(k)
  <2>1. CASE k \in DOMAIN request.headers /\ k < header
    BY <1>1, <1>2, <2>1 DEF Row, NameSent, ValueSent
  <2>2. CASE k \in DOMAIN request.headers /\ k = header
    BY <1>1, <1>2, <2>2 DEF Row, NameSent, ValueSent
  <2>3. CASE k \in DOMAIN request.headers /\ k = header + 1
    <3>1. Row(k) = [name |-> <<>>, value |-> <<>>]
      BY <1>2, <2>3 DEF Row
    <3>2. NameSent(k)' = 0 /\ ValueSent(k)' = 0
      BY <1>1, <1>2, <1>3, <2>3 DEF NameSent, ValueSent
    <3>3. Row(k)' = [name |-> Received(<<"name", k>>, 0, MaxName),
                     value |-> Received(<<"value", k>>, 0, MaxValue)]
      BY <1>1, <1>2, <2>3, <3>2 DEF Row
    <3> QED
      BY <3>1, <3>3, NothingYet, Sizes
  <2>4. CASE ~(k \in DOMAIN request.headers /\ k <= header + 1)
    BY <1>1, <1>2, <2>4 DEF Row
  <2>5. k \in DOMAIN request.headers /\ k <= header + 1 => k < header \/ k = header \/ k = header + 1
    BY <1>2
  <2> QED
    BY <2>1, <2>2, <2>3, <2>4, <2>5
<1>7. num_header_values' = Count(header' - 1) /\ num_header_fields' = Count(header' - 1)
  BY <1>1, <1>2, Sizes DEF IInv, RowsOK, Count, Counted
<1>8. RowsOK'
  BY <1>1, <1>3, <1>6, <1>7 DEF IInv, RowsOK
<1> QED
  BY <1>4, <1>5, <1>8 DEF IInv

\* yuarel_parse and the '/' it leaves out: what the buffer has of the target falls into
\* what it has of the path and of the query.
LEMMA ParsedAsAsked ==
    ASSUME request \in Requests
    PROVE  /\ Parsed(Received("path", request.path, MaxPath)) = Asked
           /\ Len(Asked.path) \in Nat /\ Len(Asked.query) \in Nat
           /\ Len(Asked.path) + Len(Asked.query) < MaxPath - 1
<1> DEFINE end == Cut(request.path, MaxPath)
           t == Text("path", end)
           mark == IF request.query \in 1..end THEN request.query ELSE end + 1
<1>1. /\ Received("path", request.path, MaxPath) = t
      /\ end \in Nat \ {0} /\ end < MaxPath /\ MaxPath \in Nat
      /\ end = IF request.path <= MaxPath - 1 THEN request.path ELSE MaxPath - 1
  BY Lengths, Begins, Sizes DEF Cut
<1>2. t \in Seq({"path"} \X Nat) /\ Len(t) = end /\ \A k \in 1..end : t[k] = <<"path", k>>
  BY <1>1, Texts
<1>3. Min({request.path, MaxPath - 1}) = end
  BY <1>1, Smaller, Lengths, Sizes
<1>4. /\ request.query = 0 \/ (request.query \in Nat /\ request.query >= 2)
      /\ mark \in Nat /\ mark >= 2 /\ mark <= end + 1
      /\ mark = IF request.query = 0 \/ request.query > end THEN end + 1 ELSE request.query
  BY <1>1, Lengths
<1>5. (IF request.query = 0 THEN end ELSE Min({end, request.query - 1})) = mark - 1
  BY <1>1, <1>4, Smaller
<1>6. Parsed(t) = [path |-> SubSeq(t, 2, mark - 1), query |-> SubSeq(t, mark + 1, end)]
  BY <1>2 DEF Parsed
<1>7. Asked = [path |-> [k \in 1..(mark - 2) |-> <<"path", k + 1>>],
               query |-> IF mark = end + 1 THEN <<>> ELSE [k \in 1..(end - mark) |-> <<"path", k + mark>>]]
  <2>1. (mark - 1) - 1 = mark - 2
    BY <1>4
  <2>2. Asked = [path |-> [k \in 1..((mark - 1) - 1) |-> <<"path", k + 1>>],
                 query |-> IF request.query = 0 \/ request.query > end THEN <<>>
                           ELSE [k \in 1..(end - request.query) |-> <<"path", k + request.query>>]]
    BY <1>3, <1>5, Zenon DEF Asked
  <2>3. request.query = 0 \/ request.query > end <=> mark = end + 1
    BY <1>1, <1>4
  <2>4. ~(request.query = 0 \/ request.query > end) => mark = request.query
    BY <1>4
  <2> QED
    BY <2>1, <2>2, <2>3, <2>4
<1> HIDE DEF end, t, mark
<1>8. /\ SubSeq(t, 2, mark - 1) = [k \in 1..(mark - 2) |-> <<"path", k + 1>>]
      /\ Len(SubSeq(t, 2, mark - 1)) = mark - 2
  <2>1. mark - 2 \in Nat /\ 1 + (mark - 2) <= end
    BY <1>1, <1>4
  <2>2. 1 + 1 = 2 /\ 1 + (mark - 2) = mark - 1
    BY <1>4
  <2>3. /\ SubSeq(t, 1 + 1, 1 + (mark - 2)) = [k \in 1..(mark - 2) |-> <<"path", k + 1>>]
        /\ Len(SubSeq(t, 1 + 1, 1 + (mark - 2))) = mark - 2
    <3> DEFINE m == mark - 2
    <3>1. m \in Nat /\ 1 + m <= end /\ end \in Nat /\ 1 \in Nat
      BY <1>1, <2>1
    <3> HIDE DEF m
    <3>2. /\ SubSeq(t, 1 + 1, 1 + m) = Stretch("path", 1, m)
          /\ Len(SubSeq(t, 1 + 1, 1 + m)) = m
      <4>1. SubSeq(t, 1 + 1, 1 + m) = Stretch("path", 1, m)
        <5>1. Between(t, 1, m) = Stretch("path", 1, m)
          BY <3>1, PartOfText DEF t
        <5> QED
          BY <5>1 DEF Between
      <4>2. Len(Stretch("path", 1, m)) = m
        BY <3>1 DEF Stretch
      <4> QED
        BY <4>1, <4>2
    <3> QED
      BY <3>2, Zenon DEF m, Stretch
  <2> QED
    BY <2>2, <2>3
<1>9. CASE mark = end + 1
  <2>1. SubSeq(t, mark + 1, end) = <<>> /\ Len(<<>>) = 0
    BY <1>1, <1>9, SubSeqEmpty
  <2>2. Asked = [path |-> SubSeq(t, 2, mark - 1), query |-> <<>>]
    BY <1>7, <1>8, <1>9
  <2>3. Parsed(t) = [path |-> SubSeq(t, 2, mark - 1), query |-> <<>>]
    BY <1>6, <2>1
  <2>4. Len(Asked.path) = end - 1 /\ Len(Asked.query) = 0
    BY <1>1, <1>8, <1>9, <2>1, <2>2
  <2>5. end - 1 \in Nat /\ end - 1 < MaxPath - 1
    BY <1>1
  <2>6. Asked = Parsed(t)
    BY <2>2, <2>3
  <2> QED
    BY <1>1, <2>4, <2>5, <2>6
<1>10. CASE mark # end + 1
  <2>1. end - mark \in Nat /\ mark + (end - mark) <= end
    BY <1>1, <1>4, <1>10
  <2>2. mark + (end - mark) = end
    BY <1>1, <1>4
  <2>3. /\ SubSeq(t, mark + 1, end) = [k \in 1..(end - mark) |-> <<"path", k + mark>>]
        /\ Len(SubSeq(t, mark + 1, end)) = end - mark
    <3>1. /\ SubSeq(t, mark + 1, mark + (end - mark)) = [k \in 1..(end - mark) |-> <<"path", k + mark>>]
          /\ Len(SubSeq(t, mark + 1, mark + (end - mark))) = end - mark
      <4> DEFINE m == end - mark
      <4>1. m \in Nat /\ mark + m <= end /\ end \in Nat /\ mark \in Nat
        BY <1>1, <1>4, <2>1
      <4> HIDE DEF m
      <4>2. /\ SubSeq(t, mark + 1, mark + m) = Stretch("path", mark, m)
            /\ Len(SubSeq(t, mark + 1, mark + m)) = m
        <5>1. SubSeq(t, mark + 1, mark + m) = Stretch("path", mark, m)
          <6>1. Between(t, mark, m) = Stretch("path", mark, m)
            BY <4>1, PartOfText DEF t
          <6> QED
            BY <6>1 DEF Between
        <5>2. Len(Stretch("path", mark, m)) = m
          BY <4>1 DEF Stretch
        <5> QED
          BY <5>1, <5>2
      <4> QED
        BY <4>2, Zenon DEF m, Stretch
    <3> QED
      BY <2>2, <3>1
  <2>4. Asked = [path |-> SubSeq(t, 2, mark - 1), query |-> SubSeq(t, mark + 1, end)]
    BY <1>7, <1>8, <1>10, <2>3
  <2>5. Len(Asked.path) = mark - 2 /\ Len(Asked.query) = end - mark
    BY <1>8, <2>3, <2>4
  <2>6. mark - 2 \in Nat /\ end - mark \in Nat /\ (mark - 2) + (end - mark) < MaxPath - 1
    BY <1>1, <1>4, <1>10
  <2> QED
    BY <1>1, <1>6, <2>4, <2>5, <2>6
<1> QED
  BY <1>9, <1>10

LEMMA UrlCompletes ==
    ASSUME IInv, UrlComplete
    PROVE  IInv'
<1>1. /\ stage = "url" /\ sent = request.path /\ stage' = AfterHeader(1) /\ sent' = 0
      /\ url_parser' = Parsed(path) /\ path' = <<>>
      /\ UNCHANGED <<request, header, method, body, headers, num_header_fields, num_header_values>>
  BY DEF UrlComplete, Completes, counts
<1>2. /\ header = 1 /\ Len(request.headers) \in Nat /\ DOMAIN request.headers = 1..Len(request.headers)
      /\ request \in Requests
  BY <1>1, Lengths DEF IInv, StageOK
<1>3. stage' = IF 1 > Len(request.headers) THEN "body" ELSE "field"
  BY <1>1 DEF AfterHeader
<1>4. StageOK'
  BY <1>1, <1>2, <1>3 DEF IInv, StageOK, Stages
<1>5. TextsOK'
  <2>1. body' = <<>> /\ method' = Received("method", request.method, MaxMethod)
    BY <1>1 DEF IInv, TextsOK
  <2>2. Received("body", 0, MaxBody) = <<>>
    BY NothingYet, Sizes
  <2>3. url_parser' = Asked /\ Asked' = Asked
    BY <1>1, <1>2, ParsedAsAsked DEF IInv, TextsOK, Asked
  <2> QED
    BY <1>1, <1>3, <2>1, <2>2, <2>3 DEF TextsOK
<1>6. ASSUME NEW k PROVE Row(k)' = Row(k)
  BY <1>1, <1>2, <1>3 DEF Row, NameSent, ValueSent
<1>7. RowsOK'
  BY <1>1, <1>3, <1>6 DEF IInv, RowsOK
<1> QED
  BY <1>4, <1>5, <1>7 DEF IInv

LEMMA NextIInv == IInv /\ [Next]_vars => IInv'
<1> SUFFICES ASSUME IInv, [Next]_vars PROVE IInv'
  OBVIOUS
<1>1. ASSUME NEW n \in Pieces, OnMethod(n) \/ OnUrl(n) \/ OnHeaderField(n) \/ OnHeaderValue(n) \/ OnBody(n)
      PROVE  IInv'
  BY <1>1, OnMethodKeeps, OnUrlKeeps, OnHeaderFieldKeeps, OnHeaderValueKeeps, OnBodyKeeps
<1>2. CASE MethodComplete \/ UrlComplete \/ FieldComplete \/ ValueComplete \/ BodyComplete
  BY <1>2, MethodCompletes, UrlCompletes, FieldCompletes, ValueCompletes, BodyCompletes
<1>3. CASE UNCHANGED vars
  BY <1>3 DEF vars, counts, IInv, StageOK, TextsOK, RowsOK, Row, NameSent, ValueSent, Asked
<1> QED
  BY <1>1, <1>2, <1>3 DEF Next

-----------------------------------------------------------------------------
(* The walk of js_runtime_eval_handler over a flat array.                  *)

\* The w bytes at p of a flat array hold the first n characters of x and are zero behind.
Holds(f, p, w, x, n) ==
    \A q \in p..(p + w - 1) :
        q \in DOMAIN f /\ f[q] = IF q - p + 1 <= n THEN <<x, q - p + 1>> ELSE NoChar

LEMMA StringHere ==
    ASSUME NEW f, DOMAIN f \subseteq Int, NEW p \in Nat, NEW w \in Nat, NEW x, NEW n \in Nat, n < w,
           Holds(f, p, w, x, n)
    PROVE  StringAt(f, p) = Text(x, n)
<1> DEFINE Z == {q \in DOMAIN f : q >= p /\ f[q] = NoChar}
           zero == Min(Z)
<1>1. ASSUME NEW q \in p..(p + w - 1) PROVE <<x, q - p + 1>> # NoChar
  BY DEF NoChar
<1>2. p + n \in Z
  <2> DEFINE q == p + n
  <2>1. q \in p..(p + w - 1) /\ ~(q - p + 1 <= n) /\ q >= p
    OBVIOUS
  <2> HIDE DEF q
  <2>2. q \in DOMAIN f /\ f[q] = NoChar
    BY <2>1 DEF Holds
  <2>3. q \in Z
    BY <2>1, <2>2
  <2> QED
    BY <2>3 DEF q
<1>3. ASSUME NEW y \in Z PROVE p + n <= y
  <2> SUFFICES ASSUME y < p + n PROVE FALSE
    OBVIOUS
  <2>1. y \in p..(p + w - 1) /\ y - p + 1 <= n
    OBVIOUS
  <2> QED
    BY <1>1, <2>1 DEF Holds
<1>4. Z \in SUBSET Int
  OBVIOUS
<1> HIDE DEF Z
<1>5. zero = p + n
  BY <1>2, <1>3, <1>4, MinIs
<1>6. StringAt(f, p) = [k \in 1..(zero - p) |-> f[p + k - 1]]
  BY Zenon DEF StringAt, Z
<1> HIDE DEF zero
<1>7. zero - p = n
  BY <1>5
<1>8. ASSUME NEW k \in 1..n PROVE f[p + k - 1] = <<x, k>>
  <2> DEFINE q == p + k - 1
  <2>1. q \in p..(p + w - 1) /\ q - p + 1 <= n /\ q - p + 1 = k
    OBVIOUS
  <2> HIDE DEF q
  <2>2. f[q] = <<x, q - p + 1>>
    BY <2>1 DEF Holds
  <2> QED
    BY <2>1, <2>2 DEF q
<1> QED
  BY <1>6, <1>7, <1>8 DEF Text

\* An empty string cannot be told from its zero, so that the walk must not come to one
\* behind another string, and a row must be longer than one byte.
LEMMA NextRow ==
    ASSUME NEW f, DOMAIN f \subseteq Int, NEW p \in Nat, NEW w \in Nat, NEW x, NEW n \in Nat, n < w, w >= 2,
           Holds(f, p, w, x, n), p + w \in DOMAIN f, f[p + w] # NoChar
    PROVE  NextString(f, p) = p + w
<1> DEFINE e == IF n = 0 THEN 1 ELSE n
           Z == {q \in DOMAIN f : q > p /\ f[q] = NoChar}
           zero == Min(Z)
           N == {q \in DOMAIN f : q > zero /\ f[q] # NoChar}
<1>1. ASSUME NEW q \in p..(p + w - 1) PROVE <<x, q - p + 1>> # NoChar
  BY DEF NoChar
<1>2. p + e \in Z
  <2> DEFINE q == p + e
  <2>1. q \in p..(p + w - 1) /\ ~(q - p + 1 <= n) /\ q > p
    OBVIOUS
  <2> HIDE DEF q
  <2>2. q \in DOMAIN f /\ f[q] = NoChar
    BY <2>1 DEF Holds
  <2>3. q \in Z
    BY <2>1, <2>2
  <2> QED
    BY <2>3 DEF q
<1>3. ASSUME NEW y \in Z PROVE p + e <= y
  <2> SUFFICES ASSUME y < p + e PROVE FALSE
    OBVIOUS
  <2>1. y \in p..(p + w - 1) /\ y - p + 1 <= n
    OBVIOUS
  <2> QED
    BY <1>1, <2>1 DEF Holds
<1>4. Z \in SUBSET Int
  OBVIOUS
<1> HIDE DEF Z
<1>5. zero = p + e
  BY <1>2, <1>3, <1>4, MinIs
<1>6. NextString(f, p) = Min(N)
  BY Zenon DEF NextString, Z
<1> HIDE DEF zero
<1>7. p + w \in N
  BY <1>5
<1>8. ASSUME NEW y \in N PROVE p + w <= y
  <2> SUFFICES ASSUME y < p + w PROVE FALSE
    OBVIOUS
  <2>1. y \in p..(p + w - 1) /\ ~(y - p + 1 <= n)
    BY <1>5
  <2> QED
    BY <2>1 DEF Holds
<1>9. N \in SUBSET Int
  OBVIOUS
<1> HIDE DEF N
<1> QED
  BY <1>6, <1>7, <1>8, <1>9, MinIs

\* __http_handler writes row r at r * width, the rows behind it follow.
LEMMA RowOfFlat ==
    ASSUME NEW texts, NEW width \in Nat \ {0}, NEW k \in 1..MaxHeaders, NEW x, NEW n \in Nat,
           NumHeaders \in Nat, k <= NumHeaders, CopyOf(texts[k], width) = Text(x, n)
    PROVE  Holds(Flat(texts, width), (k - 1) * width, width, x, n)
<1> DEFINE f == Flat(texts, width)
           p == (k - 1) * width
<1> SUFFICES ASSUME NEW q \in p..(p + width - 1)
             PROVE  q \in DOMAIN f /\ f[q] = IF q - p + 1 <= n THEN <<x, q - p + 1>> ELSE NoChar
  BY Zenon DEF Holds
<1>1. p \in Nat /\ p + width = k * width /\ k * width <= MaxHeaders * width
  BY Sizes
<1> DEFINE c == q - p
           r == k - 1
           M == MaxHeaders * width
           K == k * width
<1>2. M \in Nat /\ K \in Nat
  BY Sizes
<1>3. c \in 0..(width - 1) /\ r \in Nat /\ q = r * width + c
  BY <1>1
<1>4. q \in 0..(M - 1)
  <2> HIDE DEF p, M, K
  <2> QED
    BY <1>1, <1>2 DEF M, K
<1> HIDE DEF p
<1>5. q \div width = r /\ q % width = c
  <2> HIDE DEF c, r
  <2> QED
    BY <1>3, Place
<1>6. /\ DOMAIN f = 0..(M - 1)
      /\ f[q] = IF r + 1 <= NumHeaders /\ c + 1 <= Len(CopyOf(texts[r + 1], width))
                THEN CopyOf(texts[r + 1], width)[c + 1] ELSE NoChar
  <2> HIDE DEF c, r, M
  <2> QED
    BY <1>4, <1>5, Zenon DEF Flat, M
<1>7. r + 1 = k /\ Len(Text(x, n)) = n
  <2>1. r + 1 = k
    OBVIOUS
  <2> QED
    BY <2>1, Texts
<1>8. f[q] = IF c + 1 <= n THEN Text(x, n)[c + 1] ELSE NoChar
  <2> HIDE DEF f, c, r
  <2> QED
    BY <1>6, <1>7
<1>9. c + 1 <= n => Text(x, n)[c + 1] = <<x, c + 1>>
  BY <1>3 DEF Text
<1> HIDE DEF f, M
<1> QED
  BY <1>4, <1>6, <1>8, <1>9

\* The strings to be copied into the rows up to row last are the first n[k]
\* characters of the x[k].
Rows(texts, width, x, n, last) ==
    \A k \in 1..last : /\ CopyOf(texts[k], width) = Text(x[k], n[k])
                             /\ n[k] \in Nat /\ n[k] < width /\ (k # 1 => n[k] # 0)

\* The last string of the walk up to row last is that row, if no string but the first
\* is empty.
LEMMA Walk ==
    ASSUME NEW texts, NEW width \in Nat \ {0}, width >= 2, NumHeaders \in 0..MaxHeaders,
           NEW x, NEW n, NEW last \in 1..NumHeaders, Rows(texts, width, x, n, last)
    PROVE  Walked(texts, width, last) = Text(x[last], n[last])
<1> DEFINE f == Flat(texts, width)
           at == [k \in 1..last |-> (k - 1) * width]
<1>1. DOMAIN f \subseteq Int
  <2>1. DOMAIN f = 0..(MaxHeaders * width - 1)
    BY Zenon DEF Flat
  <2> QED
    BY <2>1
<1>2. ASSUME NEW k \in 1..last
      PROVE  (k - 1) * width \in Nat /\ Holds(f, (k - 1) * width, width, x[k], n[k])
  <2>1. k \in 1..MaxHeaders /\ k <= NumHeaders /\ NumHeaders \in Nat
    BY Sizes
  <2> QED
    BY <2>1, RowOfFlat, Sizes DEF Rows
<1> HIDE DEF f
<1>3. ASSUME NEW k \in 1..last, k # 1
      PROVE  NextString(f, (k - 2) * width) = (k - 1) * width
  <2> DEFINE p == (k - 2) * width
             e == (k - 1) * width
             j == k - 1
  <2>1. j \in 1..last /\ j - 1 = k - 2
    BY <1>3
  <2>2. p \in Nat /\ Holds(f, p, width, x[j], n[j])
    <3>1. (j - 1) * width \in Nat /\ Holds(f, (j - 1) * width, width, x[j], n[j])
      BY <1>2, <2>1
    <3> QED
      BY <2>1, <3>1
  <2>3. e \in Nat /\ Holds(f, e, width, x[k], n[k])
    BY <1>2
  <2>4. p + width = e
    OBVIOUS
  <2> HIDE DEF p, e, j
  <2>5. e \in DOMAIN f /\ f[e] # NoChar
    <3>1. e \in e..(e + width - 1) /\ e - e + 1 = 1 /\ 1 <= n[k]
      BY <1>3, <2>3 DEF Rows
    <3>2. e \in DOMAIN f /\ f[e] = <<x[k], 1>>
      BY <2>3, <3>1 DEF Holds
    <3>3. <<x[k], 1>> # NoChar
      BY DEF NoChar
    <3> QED
      BY <3>2, <3>3
  <2>6. n[j] \in Nat /\ n[j] < width
    BY <2>1 DEF Rows
  <2>7. NextString(f, p) = p + width
    BY <1>1, <2>2, <2>4, <2>5, <2>6, NextRow
  <2> QED
    BY <2>4, <2>7 DEF p, e
<1>4. PICK start : /\ start = [k \in 1..last |-> IF k = 1 THEN 0 ELSE NextString(f, start[k - 1])]
                 /\ StartOf(f, last) = start[last]
  <2>1. at = [k \in 1..last |-> IF k = 1 THEN 0 ELSE NextString(f, at[k - 1])]
    <3>1. ASSUME NEW k \in 1..last
          PROVE  (k - 1) * width = IF k = 1 THEN 0 ELSE NextString(f, at[k - 1])
      <4>1. CASE k = 1
        BY <4>1
      <4>2. CASE k # 1
        <5>1. k - 1 \in 1..last /\ (k - 1) - 1 = k - 2
          BY <4>2
        <5>2. at[k - 1] = (k - 2) * width
          BY <5>1
        <5> QED
          BY <1>3, <4>2, <5>2
      <4> QED
        BY <4>1, <4>2
    <3> QED
      BY <3>1
  <2> HIDE DEF at
  <2> DEFINE Recurs(g) == g = [k \in 1..last |-> IF k = 1 THEN 0 ELSE NextString(f, g[k - 1])]
             chosen == CHOOSE g : Recurs(g)
  <2>2. StartOf(f, last) = chosen[last]
    BY Zenon DEF StartOf
  <2>3. Recurs(at)
    BY <2>1, Zenon
  <2> HIDE DEF Recurs
  <2>4. Recurs(chosen)
    BY <2>3, Zenon
  <2> HIDE DEF chosen
  <2> QED
    BY <2>2, <2>4, Zenon DEF Recurs
<1>5. ASSUME NEW k \in 1..last PROVE start[k] = (k - 1) * width
  <2> DEFINE S == {i \in Nat \ {0} : i <= last => start[i] = (i - 1) * width}
  <2>1. 1 \in S
    BY <1>4
  <2>2. ASSUME NEW i \in Nat \ {0}, i \in S PROVE i + 1 \in S
    <3> SUFFICES ASSUME i + 1 <= last PROVE start[i + 1] = i * width
      OBVIOUS
    <3> DEFINE m == i + 1
    <3>1. m \in 1..last /\ m # 1 /\ m - 1 = i /\ m - 2 = i - 1 /\ i <= last
      OBVIOUS
    <3> HIDE DEF m
    <3>2. start[m] = NextString(f, start[m - 1])
      BY <1>4, <3>1
    <3>3. start[i] = (i - 1) * width
      BY <2>2, <3>1
    <3>4. NextString(f, (m - 2) * width) = (m - 1) * width
      BY <1>3, <3>1
    <3>5. start[m] = i * width
      BY <3>1, <3>2, <3>3, <3>4
    <3> QED
      BY <3>5 DEF m
  <2> HIDE DEF S
  <2>3. k \in S
    BY <2>1, <2>2, Induction
  <2> QED
    BY <2>3 DEF S
<1>6. StringAt(f, StartOf(f, last)) = Text(x[last], n[last])
  <2> DEFINE p == (last - 1) * width
  <2>1. last \in 1..last
    OBVIOUS
  <2>2. p \in Nat /\ Holds(f, p, width, x[last], n[last]) /\ StartOf(f, last) = p
    BY <1>2, <1>4, <1>5, <2>1
  <2> HIDE DEF p
  <2>3. StringAt(f, p) = Text(x[last], n[last])
    BY <1>1, <2>1, <2>2, StringHere DEF Rows
  <2> QED
    BY <2>2, <2>3
<1> QED
  BY <1>6, Zenon DEF f, Walked

-----------------------------------------------------------------------------
(* The theorems.                                                           *)

LEMMA TypesHold == IInv => TypeOK
<1> SUFFICES ASSUME IInv PROVE TypeOK
  OBVIOUS
<1> USE Sizes
<1>1. request \in Requests /\ sent \in Nat
  BY DEF IInv, StageOK
<1>2. ASSUME NEW x, NEW n \in Nat, NEW max \in Nat \ {0}
      PROVE  Len(Received(x, n, max)) < max
  <2>1. Cut(n, max) \in Nat /\ Cut(n, max) < max /\ Received(x, n, max) = Text(x, Cut(n, max))
    BY Begins
  <2> QED
    BY <2>1, Texts
<1>3. Len(<<>>) = 0
  OBVIOUS
<1>4. /\ Len(method) < MaxMethod /\ Len(path) < MaxPath /\ Len(body) < MaxBody
  <2>1. Len(method) < MaxMethod
    BY <1>1, <1>2, Lengths DEF IInv, TextsOK
  <2>2. Len(path) < MaxPath
    BY <1>1, <1>2, <1>3 DEF IInv, TextsOK
  <2>3. Len(body) < MaxBody
    <3>1. CASE stage = "body"
      BY <1>1, <1>2, <3>1 DEF IInv, TextsOK
    <3>2. CASE stage = "complete"
      BY <1>1, <1>2, <3>2, Lengths DEF IInv, TextsOK
    <3>3. CASE stage \notin {"body", "complete"}
      BY <1>3, <3>3 DEF IInv, TextsOK
    <3> QED
      BY <3>1, <3>2, <3>3
  <2> QED
    BY <2>1, <2>2, <2>3
<1>5. ASSUME NEW k \in 1..MaxHeaders
      PROVE  Len(headers[k].name) < MaxName /\ Len(headers[k].value) < MaxValue
  <2>1. headers[k] = Row(k)
    BY DEF IInv, RowsOK
  <2>2. k \in DOMAIN request.headers => NameSent(k) \in Nat /\ ValueSent(k) \in Nat
    BY <1>1, Lengths DEF NameSent, ValueSent
  <2> QED
    BY <1>2, <1>3, <2>1, <2>2 DEF Row
<1>6. Len(url_parser.path) + Len(url_parser.query) < MaxPath - 1
  <2>1. CASE stage \in {"method", "url"}
    BY <1>3, <2>1 DEF IInv, TextsOK, Empty
  <2>2. CASE stage \notin {"method", "url"}
    BY <1>1, <2>2, ParsedAsAsked DEF IInv, TextsOK
  <2> QED
    BY <2>1, <2>2
<1>7. Len(headers) = MaxHeaders
  BY DEF IInv, RowsOK
<1>8. num_header_fields \in 0..MaxHeaders /\ num_header_values \in 0..MaxHeaders
  BY <1>1, Lengths DEF IInv, StageOK, RowsOK, Count
<1> QED
  BY <1>4, <1>5, <1>6, <1>7, <1>8 DEF IInv, StageOK, Stages, TypeOK

LEMMA PrefixesHold == IInv => BuffersHoldPrefixes
<1> SUFFICES ASSUME IInv PROVE BuffersHoldPrefixes
  OBVIOUS
<1>1. /\ stage = "method" => method = Received("method", sent, MaxMethod)
      /\ stage # "method" => method = Received("method", request.method, MaxMethod)
      /\ stage = "url" => path = Received("path", sent, MaxPath)
      /\ stage \notin {"method", "url"} => url_parser = Asked
      /\ stage = "body" => body = Received("body", sent, MaxBody)
      /\ stage = "complete" => body = Received("body", request.body, MaxBody)
  BY DEF IInv, TextsOK
<1>2. ASSUME NEW k \in 1..MaxHeaders, k <= Len(request.headers), k <= header
      PROVE  headers[k] = [name |-> Received(<<"name", k>>, NameSent(k), MaxName),
                           value |-> Received(<<"value", k>>, ValueSent(k), MaxValue)]
  <2>1. headers[k] = Row(k)
    BY DEF IInv, RowsOK
  <2>2. k \in DOMAIN request.headers
    BY <1>2, Lengths, Sizes DEF IInv, StageOK
  <2> QED
    BY <1>2, <2>1, <2>2 DEF Row
<1> QED
  BY <1>1, <1>2 DEF BuffersHoldPrefixes

\* strncpy of a text of n characters.
LEMMA Copied ==
    ASSUME NEW x, NEW n \in Nat, NEW w
    PROVE  CopyOf(Text(x, n), w) = Text(x, IF MaxName < n THEN MaxName ELSE n)
<1> DEFINE m == IF MaxName < n THEN MaxName ELSE n
<1>1. m \in Nat /\ m <= n
  BY Sizes
<1>2. CopyOf(Text(x, n), w) = SubSeq(Text(x, n), 1, m)
  BY Texts DEF CopyOf, Prefix
<1> HIDE DEF m
<1>3. SubSeq(Text(x, n), 1, m) = Text(x, m)
  BY <1>1 DEF Text
<1> QED
  BY <1>2, <1>3 DEF m

LEMMA HeadersReachHandler == IInv => HandlerGetsHeaders
<1> SUFFICES ASSUME IInv, stage = "complete"
             PROVE  /\ NumHeaders = Min({MaxHeaders, Len(request.headers)})
                    /\ \A k \in 1..NumHeaders :
                          /\ EventName(k) = Received(<<"name", k>>, request.headers[k].name, MaxName)
                          /\ Reached(k) /\ request.headers[k].value <= MaxName =>
                                EventValue(k) = Received(<<"value", k>>, request.headers[k].value, MaxValue)
  BY DEF HandlerGetsHeaders
<1> USE Sizes
<1> DEFINE L == Len(request.headers)
           sizes(k) == request.headers[k]
           nameLen(k) == Cut(sizes(k).name, MaxName)
           valueLen(k) == Cut(sizes(k).value, MaxValue)
           copied(k) == IF MaxName < valueLen(k) THEN MaxName ELSE valueLen(k)
<1>1. /\ L \in Nat /\ DOMAIN request.headers = 1..L /\ header = L + 1
      /\ \A k \in 1..L : sizes(k).name \in Nat \ {0} /\ sizes(k).value \in Nat
  BY Lengths DEF IInv, StageOK
<1> HIDE DEF L
<1>2. num_header_fields = Count(L) /\ num_header_values = Count(L)
  BY <1>1 DEF IInv, RowsOK
<1>3. NumHeaders = Count(L)
  BY <1>2 DEF NumHeaders
<1>4. NumHeaders \in 0..MaxHeaders /\ NumHeaders <= L /\ NumHeaders = Min({MaxHeaders, L})
  BY <1>1, <1>3, Smaller DEF Count
<1>5. ASSUME NEW k \in 1..NumHeaders
      PROVE  /\ headers[k].name = Received(<<"name", k>>, sizes(k).name, MaxName)
             /\ headers[k].value = Received(<<"value", k>>, sizes(k).value, MaxValue)
             /\ sizes(k).name \in Nat \ {0} /\ sizes(k).value \in Nat
  <2>1. k \in 1..L /\ k \in 1..MaxHeaders /\ k < header
    BY <1>1, <1>4
  <2>2. headers[k] = Row(k)
    BY <2>1 DEF IInv, RowsOK
  <2> QED
    BY <1>1, <2>1, <2>2 DEF Row, NameSent, ValueSent
<1>6. ASSUME NEW k \in 1..NumHeaders
      PROVE  /\ headers[k].name = Text(<<"name", k>>, nameLen(k))
             /\ nameLen(k) \in Nat \ {0} /\ nameLen(k) < MaxName
  <2> DEFINE a == sizes(k).name
  <2>1. headers[k].name = Received(<<"name", k>>, a, MaxName) /\ a \in Nat \ {0}
    BY <1>5, Zenon
  <2> HIDE DEF a
  <2>2. /\ Received(<<"name", k>>, a, MaxName) = Text(<<"name", k>>, Cut(a, MaxName))
        /\ Cut(a, MaxName) \in Nat /\ Cut(a, MaxName) < MaxName
    BY <2>1, Begins
  <2>3. Cut(a, MaxName) # 0
    BY <2>1 DEF Cut
  <2> QED
    BY <2>1, <2>2, <2>3 DEF a
<1>7. ASSUME NEW k \in 1..NumHeaders
      PROVE  /\ headers[k].value = Text(<<"value", k>>, valueLen(k))
             /\ valueLen(k) \in Nat /\ valueLen(k) < MaxValue
             /\ sizes(k).value # 0 => valueLen(k) # 0
             /\ sizes(k).value <= MaxName => valueLen(k) <= MaxName
  <2> DEFINE a == sizes(k).value
  <2>1. headers[k].value = Received(<<"value", k>>, a, MaxValue) /\ a \in Nat
    BY <1>5, Zenon
  <2> HIDE DEF a
  <2>2. /\ Received(<<"value", k>>, a, MaxValue) = Text(<<"value", k>>, Cut(a, MaxValue))
        /\ Cut(a, MaxValue) \in Nat /\ Cut(a, MaxValue) < MaxValue
    BY <2>1, Begins
  <2>3. (a # 0 => Cut(a, MaxValue) # 0) /\ (a <= MaxName => Cut(a, MaxValue) <= MaxName)
    BY <2>1 DEF Cut
  <2> QED
    BY <2>1, <2>2, <2>3 DEF a
<1>8. ASSUME NEW k \in 1..NumHeaders, Reached(k)
      PROVE  \A i \in 1..k : i # 1 => sizes(i).value # 0
  <2> SUFFICES ASSUME NEW i \in 1..k, i # 1 PROVE request.headers[i].value # 0
    BY Zenon
  <2>1. i \in 2..k
    OBVIOUS
  <2> QED
    BY <1>8, <2>1 DEF Reached
<1> HIDE DEF nameLen, valueLen, sizes
<1> DEFINE nameTexts == [k \in 1..MaxHeaders |-> headers[k].name]
           valueTexts == [k \in 1..MaxHeaders |-> headers[k].value]
<1>9. ASSUME NEW k \in 1..NumHeaders
      PROVE  EventName(k) = Text(<<"name", k>>, nameLen(k))
  <2> DEFINE x == [i \in 1..NumHeaders |-> <<"name", i>>]
             n == [i \in 1..NumHeaders |-> nameLen(i)]
  <2>1. ASSUME NEW i \in 1..k
        PROVE  /\ CopyOf(nameTexts[i], MaxName) = Text(x[i], n[i])
               /\ n[i] \in Nat /\ n[i] < MaxName /\ (i # 1 => n[i] # 0)
    <3>1. nameTexts[i] = Text(x[i], n[i]) /\ n[i] \in Nat \ {0} /\ n[i] < MaxName
      <4>1. i \in 1..MaxHeaders /\ i \in 1..NumHeaders
        BY <1>4
      <4>2. nameTexts[i] = headers[i].name
        BY <4>1
      <4>3. x[i] = <<"name", i>> /\ n[i] = nameLen(i)
        BY <4>1
      <4> HIDE DEF x, n, nameTexts
      <4> QED
        BY <1>6, <4>1, <4>2, <4>3
    <3>2. CopyOf(Text(x[i], n[i]), MaxName) = Text(x[i], IF MaxName < n[i] THEN MaxName ELSE n[i])
      BY <3>1, Copied
    <3> HIDE DEF x, n, nameTexts
    <3> QED
      BY <3>1, <3>2
  <2>2. x[k] = <<"name", k>> /\ n[k] = nameLen(k)
    OBVIOUS
  <2>3. EventName(k) = Walked(nameTexts, MaxName, k)
    BY Zenon DEF EventName
  <2> HIDE DEF x, n, nameTexts
  <2>4. Rows(nameTexts, MaxName, x, n, k)
    BY <2>1 DEF Rows
  <2>5. MaxName \in Nat \ {0} /\ MaxName >= 2 /\ NumHeaders \in 0..MaxHeaders
    BY <1>4
  <2> QED
    BY <2>2, <2>3, <2>4, <2>5, Walk
<1>10. ASSUME NEW k \in 1..NumHeaders, Reached(k)
       PROVE  EventValue(k) = Text(<<"value", k>>, copied(k))
  <2> DEFINE x == [i \in 1..NumHeaders |-> <<"value", i>>]
             n == [i \in 1..NumHeaders |-> copied(i)]
  <2>1. ASSUME NEW i \in 1..k
        PROVE  /\ CopyOf(valueTexts[i], MaxValue) = Text(x[i], n[i])
               /\ n[i] \in Nat /\ n[i] < MaxValue /\ (i # 1 => n[i] # 0)
    <3>0. i \in 1..MaxHeaders /\ i \in 1..NumHeaders
      BY <1>4
    <3>1. valueTexts[i] = Text(<<"value", i>>, valueLen(i))
      <4>1. valueTexts[i] = headers[i].value
        BY <3>0
      <4> HIDE DEF valueTexts
      <4> QED
        BY <1>7, <3>0, <4>1
    <3>2. valueLen(i) \in Nat /\ valueLen(i) < MaxValue /\ (i # 1 => valueLen(i) # 0)
      BY <1>7, <1>8, <1>10, <3>0
    <3>3. CopyOf(valueTexts[i], MaxValue) = Text(<<"value", i>>, copied(i))
      BY <3>1, <3>2, Copied, Zenon
    <3>4. copied(i) \in Nat /\ copied(i) < MaxValue /\ (i # 1 => copied(i) # 0)
      BY <3>2
    <3>5. x[i] = <<"value", i>> /\ n[i] = copied(i)
      BY <3>0
    <3> HIDE DEF x, n, valueTexts, copied
    <3> QED
      BY <3>3, <3>4, <3>5
  <2>2. x[k] = <<"value", k>> /\ n[k] = copied(k)
    OBVIOUS
  <2>3. EventValue(k) = Walked(valueTexts, MaxValue, k)
    BY Zenon DEF EventValue
  <2> HIDE DEF x, n, valueTexts, copied
  <2>4. Rows(valueTexts, MaxValue, x, n, k)
    BY <2>1 DEF Rows
  <2>5. MaxValue \in Nat \ {0} /\ MaxValue >= 2 /\ NumHeaders \in 0..MaxHeaders
    BY <1>4
  <2> QED
    BY <2>2, <2>3, <2>4, <2>5, Walk
<1>11. ASSUME NEW k \in 1..NumHeaders
       PROVE  Received(<<"name", k>>, sizes(k).name, MaxName) = Text(<<"name", k>>, nameLen(k))
  BY <1>5, <1>6, <1>11, Zenon
<1>12. ASSUME NEW k \in 1..NumHeaders, sizes(k).value <= MaxName
       PROVE  Received(<<"value", k>>, sizes(k).value, MaxValue) = Text(<<"value", k>>, copied(k))
  <2>1. Received(<<"value", k>>, sizes(k).value, MaxValue) = Text(<<"value", k>>, valueLen(k))
    BY <1>5, <1>7, Zenon
  <2>2. valueLen(k) \in Nat /\ valueLen(k) <= MaxName
    BY <1>7, <1>12
  <2>3. copied(k) = valueLen(k)
    BY <2>2
  <2> QED
    BY <2>1, <2>3
<1> HIDE DEF copied
<1>13. ASSUME NEW k \in 1..NumHeaders
       PROVE  /\ EventName(k) = Received(<<"name", k>>, sizes(k).name, MaxName)
              /\ Reached(k) /\ sizes(k).value <= MaxName =>
                    EventValue(k) = Received(<<"value", k>>, sizes(k).value, MaxValue)
  BY <1>9, <1>10, <1>11, <1>12
<1> QED
  BY <1>4, <1>13 DEF L, sizes

\* IInv in every state the parser's callbacks can reach, for any request and any buffers.
THEOREM Invariance == Spec => []IInv
BY InitIInv, NextIInv, PTL DEF Spec

\* No text outgrows its buffer, which keeps a place for the NUL, and the counters stay
\* within the array of headers.
THEOREM BuffersFit == Spec => []TypeOK
BY TypesHold, Invariance, PTL

\* For every request and every way recv() cuts it up, each buffer of httpd.c has the
\* beginning of its own text, as much as fits.
THEOREM NothingIsMixedUp == Spec => []BuffersHoldPrefixes
BY PrefixesHold, Invariance, PTL

\* The event object has the first headers of the request in order, for every number and
\* length of the headers: every one by its own name, and, up to the first empty value
\* (a first header's may be empty), with its own value if that is not longer than a
\* name may be. What __http_handler lays out flat, the walk takes apart again.
THEOREM HeadersArrive == Spec => []HandlerGetsHeaders
BY HeadersReachHandler, Invariance, PTL
=============================================================================
