------------------------------- MODULE Request -------------------------------
(***************************************************************************)
(* What becomes of a request between the parser and the handler. llhttp    *)
(* hands each text of the request (method, target, header names and        *)
(* values, body) to a callback of httpd.c piece by piece, as recv() and    *)
(* its 64 bytes cut it; the callback adds the piece to a buffer of fixed   *)
(* size. http_handler.c copies the headers into two flat arrays, which     *)
(* js_runtime_eval_handler walks from string to string.                    *)
(*                                                                         *)
(* A text is a sequence of characters other than NUL (a binary body is     *)
(* not supported, quickjs.c:168): what they are does not matter, so the    *)
(* k-th one of text x is <<x, k>>. NUL is NoChar. The target starts with   *)
(* '/' (any other is answered 404, see Httpd) and its character number     *)
(* query is the '?', if that is not 0; it has no fragment.                 *)
(***************************************************************************)
EXTENDS Integers, Sequences, FiniteSetsExt
CONSTANTS Requests,      \* what clients send: the lengths of the texts
          MaxMethod,     \* ISERE_HTTPD_MAX_HTTP_METHOD_LEN
          MaxPath,       \* ISERE_HTTPD_MAX_HTTP_PATH_LEN
          MaxHeaders,    \* ISERE_HTTPD_MAX_HTTP_HEADERS
          MaxName,       \* ISERE_HTTPD_MAX_HTTP_HEADER_NAME_LEN
          MaxValue,      \* ISERE_HTTPD_MAX_HTTP_HEADER_VALUE_LEN
          MaxBody        \* ISERE_HTTPD_MAX_HTTP_BODY_LEN

\* A target has room for its '/' and the NUL, a name for a character and the NUL.
ASSUME Sizes == /\ {MaxMethod, MaxHeaders, MaxBody} \subseteq Nat \ {0}
                /\ {MaxPath, MaxName, MaxValue} \subseteq Nat \ {0, 1} /\ MaxName <= MaxValue

\* A header has a name, whose length is not 0, and a value.
RequestType == [method : Nat \ {0}, path : Nat \ {0}, query : Nat, body : Nat,
                headers : Seq([name : Nat \ {0}, value : Nat])]

ASSUME RequestsTyped == /\ Requests \subseteq RequestType
                        /\ \A r \in Requests : r.query = 0 \/ r.query \in 2..r.path

NoChar == <<>>
Text(x, n) == [k \in 1..n |-> <<x, k>>]
Prefix(s, n) == SubSeq(s, 1, IF n < Len(s) THEN n ELSE Len(s))

VARIABLES
    request,            \* the lengths of the texts the client sends
    stage,              \* the callback llhttp has reached
    header,             \* the header it has reached
    sent,               \* how much of the text at hand it has handed over
    method, path, body, \* conn->method, path, body, up to the NUL
    url_parser,         \* conn->url_parser: the path and the query
    headers,            \* conn->headers
    num_header_fields, num_header_values
counts == <<num_header_fields, num_header_values>>
vars == <<request, stage, header, sent, method, path, body, url_parser, headers, num_header_fields, num_header_values>>

TypeOK ==
    /\ request \in Requests
    /\ stage \in {"method", "url", "field", "value", "body", "complete"}
    /\ header \in 1..(Len(request.headers) + 1) /\ sent \in Nat
    /\ Len(method) < MaxMethod /\ Len(path) < MaxPath /\ Len(body) < MaxBody
    /\ Len(headers) = MaxHeaders
    /\ \A k \in 1..MaxHeaders : Len(headers[k].name) < MaxName /\ Len(headers[k].value) < MaxValue
    /\ Len(url_parser.path) + Len(url_parser.query) < MaxPath - 1
    /\ num_header_fields \in 0..MaxHeaders /\ num_header_values \in 0..MaxHeaders

Init ==
    /\ request \in Requests
    /\ stage = "method" /\ header = 1 /\ sent = 0
    /\ method = <<>> /\ path = <<>> /\ body = <<>>
    /\ url_parser = [path |-> <<>>, query |-> <<>>]
    /\ headers = [k \in 1..MaxHeaders |-> [name |-> <<>>, value |-> <<>>]]
    /\ num_header_fields = 0 /\ num_header_values = 0

-----------------------------------------------------------------------------
(* The callbacks of the parser.                                            *)

\* Mutant of Fill: a piece that does not fit is left out.
Fill_WholeOnly(buffer, piece, max) ==
    IF Len(buffer) + Len(piece) > max - 1 THEN buffer ELSE buffer \o piece

\* Mutant of Fill: no place is left for the NUL.
Fill_NoNul(buffer, piece, max) == buffer \o Prefix(piece, max - Len(buffer))

\* "boundary check": what fits is added, and one place is left for the NUL.
Fill(buffer, piece, max) == buffer \o Prefix(piece, max - 1 - Len(buffer))

\* The next n characters of a text x of length size.
Piece(x, n) == SubSeq(Text(x, sent + n), sent + 1, sent + n)
Gets(size, n) == sent + n <= size /\ n > 0 /\ sent' = sent + n

OnMethod(n) ==
    /\ stage = "method" /\ Gets(request.method, n)
    /\ method' = Fill(method, Piece("method", n), MaxMethod)
    /\ UNCHANGED <<request, stage, header, path, body, url_parser, headers, counts>>

OnUrl(n) ==
    /\ stage = "url" /\ Gets(request.path, n)
    /\ path' = Fill(path, Piece("path", n), MaxPath)
    /\ UNCHANGED <<request, stage, header, method, body, url_parser, headers, counts>>

OnBody(n) ==
    /\ stage = "body" /\ Gets(request.body, n)
    /\ body' = Fill(body, Piece("body", n), MaxBody)
    /\ UNCHANGED <<request, stage, header, method, path, url_parser, headers, counts>>

OnHeaderField(n) ==
    /\ stage = "field" /\ Gets(request.headers[header].name, n)
    /\ headers' = IF num_header_fields < MaxHeaders
                  THEN [headers EXCEPT ![num_header_fields + 1].name =
                           Fill(@, Piece(<<"name", header>>, n), MaxName)]
                  ELSE headers
    /\ UNCHANGED <<request, stage, header, method, path, body, url_parser, counts>>

OnHeaderValue(n) ==
    /\ stage = "value" /\ Gets(request.headers[header].value, n)
    /\ headers' = IF num_header_values < MaxHeaders
                  THEN [headers EXCEPT ![num_header_values + 1].value =
                           Fill(@, Piece(<<"value", header>>, n), MaxValue)]
                  ELSE headers
    /\ UNCHANGED <<request, stage, header, method, path, body, url_parser, counts>>

\* The text at hand is complete.
Completes(here, size, there) == /\ stage = here /\ sent = size
                                /\ stage' = there /\ sent' = 0
                                /\ UNCHANGED <<request, method, body, headers>>

AfterHeader(h) == IF h > Len(request.headers) THEN "body" ELSE "field"

MethodComplete == /\ Completes("method", request.method, "url")
                  /\ UNCHANGED <<header, path, url_parser, counts>>

\* yuarel_parse on a target that starts with '/': the '/' and the '?' are
\* overwritten with NUL, what follows them is the path and the query.
Parsed(target) ==
    LET mark == IF request.query \in 1..Len(target) THEN request.query ELSE Len(target) + 1
    IN  [path |-> SubSeq(target, 2, mark - 1), query |-> SubSeq(target, mark + 1, Len(target))]

UrlComplete == /\ Completes("url", request.path, AfterHeader(1))
               /\ url_parser' = Parsed(path) /\ path' = <<>>
               /\ UNCHANGED <<header, counts>>

\* __on_message_complete, which passes the request to the handler.
BodyComplete == /\ Completes("body", request.body, "complete")
                /\ UNCHANGED <<header, path, url_parser, counts>>

Counted(n) == IF n < MaxHeaders THEN n + 1 ELSE n

FieldComplete ==
    /\ stage = "field" /\ Completes("field", request.headers[header].name, "value")
    /\ num_header_fields' = Counted(num_header_fields)
    /\ UNCHANGED <<header, path, url_parser, num_header_values>>

ValueComplete ==
    /\ stage = "value" /\ Completes("value", request.headers[header].value, AfterHeader(header + 1))
    /\ num_header_values' = Counted(num_header_values)
    /\ header' = header + 1
    /\ UNCHANGED <<path, url_parser, num_header_fields>>

Pieces == 1..Max({0, request.method, request.path, request.body} \cup
                 UNION {{request.headers[k].name, request.headers[k].value} :
                        k \in DOMAIN request.headers})

Next == \/ \E n \in Pieces : OnMethod(n) \/ OnUrl(n) \/ OnHeaderField(n) \/ OnHeaderValue(n) \/ OnBody(n)
        \/ MethodComplete \/ UrlComplete \/ FieldComplete \/ ValueComplete \/ BodyComplete

Spec == Init /\ [][Next]_vars

-----------------------------------------------------------------------------
(* The headers on their way to the handler.                                *)

NumHeaders == IF num_header_fields < num_header_values THEN num_header_fields
                                                       ELSE num_header_values

\* strncpy(row, text, ISERE_HTTPD_MAX_HTTP_HEADER_NAME_LEN), for both arrays.
CopyOf(text, width) == Prefix(text, MaxName)

\* MaxHeaders rows of width bytes, one behind the other, zero where not written.
Flat(texts, width) ==
    [p \in 0..(MaxHeaders * width - 1) |->
        LET row == (p \div width) + 1
            col == (p % width) + 1
        IN  IF row <= NumHeaders /\ col <= Len(CopyOf(texts[row], width))
            THEN CopyOf(texts[row], width)[col] ELSE NoChar]

\* Mutant of NextString: the zeros behind the string are not skipped.
NextString_OneZero(flat, p) == Min({q \in DOMAIN flat : q > p /\ flat[q] = NoChar}) + 1

\* Behind the string at p, or behind the zero there: the next non-zero byte.
NextString(flat, p) ==
    LET zero == Min({q \in DOMAIN flat : q > p /\ flat[q] = NoChar})
    IN  Min({q \in DOMAIN flat : q > zero /\ flat[q] # NoChar})

StringAt(flat, p) ==
    LET zero == Min({q \in DOMAIN flat : q >= p /\ flat[q] = NoChar})
    IN  [k \in 1..(zero - p) |-> flat[p + k - 1]]

\* Where the walk is when it has come to the k-th string.
StartOf(flat, k) ==
    LET at[i \in 1..k] == IF i = 1 THEN 0 ELSE NextString(flat, at[i - 1])
    IN  at[k]

Walked(texts, width, k) == LET flat == Flat(texts, width) IN StringAt(flat, StartOf(flat, k))

\* The k-th header of the event object.
EventName(k)  == Walked([i \in 1..MaxHeaders |-> headers[i].name], MaxName, k)
EventValue(k) == Walked([i \in 1..MaxHeaders |-> headers[i].value], MaxValue, k)

-----------------------------------------------------------------------------
\* The part of a text that was handed over, cut at max, whatever its pieces.
Received(x, size, max) == Prefix(Text(x, size), max - 1)

\* The path and the query of the target, as far as the buffer holds it.
Asked == LET end == Min({request.path, MaxPath - 1})
             path_end == IF request.query = 0 THEN end ELSE Min({end, request.query - 1})
         IN  [path |-> [k \in 1..(path_end - 1) |-> <<"path", k + 1>>],
              query |-> IF request.query = 0 \/ request.query > end THEN <<>>
                        ELSE [k \in 1..(end - request.query) |-> <<"path", k + request.query>>]]

\* What of header k was handed over so far.
NameSent(k) == IF k < header \/ stage \in {"value", "body", "complete"} THEN request.headers[k].name
               ELSE IF stage = "field" THEN sent ELSE 0
ValueSent(k) == IF k < header THEN request.headers[k].value
                ELSE IF stage = "value" THEN sent ELSE 0

\* However recv() cuts a request up, each buffer holds the beginning of its own
\* text, as much as fits: no piece is lost, doubled or added to another text, a
\* name and its value stay side by side, and headers beyond the limit spoil none.
BuffersHoldPrefixes ==
    /\ stage = "method" => method = Received("method", sent, MaxMethod)
    /\ stage # "method" => method = Received("method", request.method, MaxMethod)
    /\ stage = "url" => path = Received("path", sent, MaxPath)
    /\ stage \notin {"method", "url"} => url_parser = Asked
    /\ stage = "body" => body = Received("body", sent, MaxBody)
    /\ stage = "complete" => body = Received("body", request.body, MaxBody)
    /\ \A k \in 1..MaxHeaders :
          k <= Len(request.headers) /\ k <= header =>
             headers[k] = [name |-> Received(<<"name", k>>, NameSent(k), MaxName),
                           value |-> Received(<<"value", k>>, ValueSent(k), MaxValue)]

\* The walk takes a zero for the end of a string and cannot see an empty one
\* (quickjs.c:148): it comes to value k if none but the first before it is empty,
\* and if it is not empty itself.
Reached(k) == \A j \in 2..k : request.headers[j].value # 0

\* The handler gets the first headers of the request, every one by its name, and
\* with its own value, however long the others are: behind an empty value, which
\* shifts the later ones, and for a value longer than a name may be, which
\* http_handler.c:24 cuts (ValuesArrive), nothing is promised.
HandlerGetsHeaders ==
    stage = "complete" =>
        /\ NumHeaders = Min({MaxHeaders, Len(request.headers)})
        /\ \A k \in 1..NumHeaders :
              /\ EventName(k) = Received(<<"name", k>>, request.headers[k].name, MaxName)
              /\ Reached(k) /\ request.headers[k].value <= MaxName =>
                    EventValue(k) = Received(<<"value", k>>, request.headers[k].value, MaxValue)

\* httpd.h:34 has 512 as the length of a header's value, and http_handler.c:21 has
\* rows of that length: a value the walk comes to is the one httpd.c received.
ValuesArrive ==
    stage = "complete" =>
        \A k \in 1..NumHeaders :
            Reached(k) => EventValue(k) = Received(<<"value", k>>, request.headers[k].value, MaxValue)
=============================================================================
