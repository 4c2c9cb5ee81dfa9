------------------------------ MODULE MCRequest ------------------------------
(***************************************************************************)
(* An instance of the request for TLC.                                     *)
(***************************************************************************)
EXTENDS Request

\* With MaxName = 3 and MaxValue = 5: names that fit and that do not, values
\* that are empty, that fit, that the glue takes just whole, that it cuts, and
\* that the buffer cuts.
Header == [name : {1, 2, 4}, value : {0, 2, 3, 4, 5}]
SomeHeader == [name : {1, 4}, value : {0, 2, 4}]

\* Up to one header more than there is room for.
SomeRequests ==
    [method : {2}, path : {2}, query : {0}, body : {0, 3},
     headers : UNION {[1..n -> Header] : n \in 0..2} \cup UNION {[1..n -> SomeHeader] : n \in 3..4}]
    \cup {r \in [method : 1..4, path : 1..5, query : {0, 2, 3, 4}, body : 0..4, headers : {<<>>}] :
             r.query <= r.path}
=============================================================================
