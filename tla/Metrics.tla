------------------------------- MODULE Metrics -------------------------------
(***************************************************************************)
(* The metrics the exporter of Otel sends: two lists, of counters and of   *)
(* gauges, to which any task adds without a lock, and their encoding by    *)
(* nanopb. A submessage is written behind its size, so nanopb runs the     *)
(* callback that writes it once for the size and once for the bytes. The   *)
(* callback encode_metrics sits two submessages deep and goes through both *)
(* lists three times: for the size of the resource, for the size of the    *)
(* scope inside it, and for the bytes. nanopb fails when a size has        *)
(* changed. Otel has all this as one step; here it is one step per list,   *)
(* and other tasks run in between.                                         *)
(*                                                                         *)
(* A value takes eight bytes whatever it is (sfixed64, fixed64), so what   *)
(* isere_otel_counter_add and isere_otel_gauge_set do changes no size. The *)
(* program creates one counter (httpd.c:418); the client here creates any  *)
(* number of either kind, at any time. Reading the head and storing it     *)
(* (otel.c:134-135, 160-161) is one step: that is so for one creating task *)
(* at a time, as in the program. Two of them could lose a metric.          *)
(***************************************************************************)
EXTENDS Otel, Functions
CONSTANTS Counter, Gauge   \* the metrics; together they fit __tx_buf of 512 bytes

VARIABLES counters,  \* the list at __counters_head
          gauges,    \* the list at __gauges_head
          sized,     \* how much the walks that have ended found; three end a pb_encode
          walk,      \* what the walk that is under way has encoded
          at,        \* the list it goes through next
          begun      \* history: the metrics that existed when pb_encode was called
lists == <<counters, gauges>>
encoding == <<sized, walk, at, begun>>
allVars == <<vars, lists, encoding>>

MetricsInit == /\ Init
               /\ counters = <<>> /\ gauges = <<>>
               /\ sized = <<>> /\ walk = <<>> /\ at = "counters" /\ begun = {}

-----------------------------------------------------------------------------
(* The lists.                                                              *)

\* A metric in front of its list.
Linked(list, m) == <<m>> \o list

CreateCounter(m) == /\ m \notin Range(counters)
                    /\ counters' = Linked(counters, m)
                    /\ UNCHANGED <<vars, gauges, encoding>>

CreateGauge(m) == /\ m \notin Range(gauges)
                  /\ gauges' = Linked(gauges, m)
                  /\ UNCHANGED <<vars, counters, encoding>>

-----------------------------------------------------------------------------
(* One call of pb_encode.                                                  *)

\* The stream is a local variable of the block that encodes and writes a request.
StreamEnds == sized' = <<>> /\ walk' = <<>> /\ at' = "counters" /\ begun' = {}

EncodeBegins ==
    /\ IsDue
    /\ begun' = Range(counters) \cup Range(gauges)
    /\ UNCHANGED <<lists, sized, walk, at>>

\* encode_metrics goes through the counters, from the head it finds,
WalkCounters == /\ pc = "encode" /\ at = "counters"
                /\ walk' = counters /\ at' = "gauges"
                /\ UNCHANGED <<vars, lists, sized, begun>>

\* and through the gauges.
EndOfWalk == pc = "encode" /\ at = "gauges" /\ UNCHANGED lists
Found == walk \o gauges

\* A metric, with its strings and its data point, takes as many bytes every time.
Size(list) == Len(list)

\* pb_encode_submessage: what is written has room in the enclosing submessage
\* ("stream full") and is as long as it was said to be ("submsg size changed").
Fits == \A n \in DOMAIN sized : sized[n] = Size(Found)

Keeps == /\ walk' = Found /\ sized' = Append(sized, Size(Found))
         /\ at' = "counters" /\ UNCHANGED begun

WalkAgain    == EndOfWalk /\ Fits /\ Len(sized) < 2 /\ Keeps /\ UNCHANGED vars
PbEncodeEnds == EndOfWalk /\ Fits /\ Len(sized) = 2 /\ Keeps /\ Encodes

\* Mutants of PbEncodeFails: nobody looks at the result; the stream is static.
PbEncodeFails_Unnoticed == EndOfWalk /\ ~Fits /\ Keeps /\ Encodes
PbEncodeFails_KeepsStream ==
    EndOfWalk /\ ~Fits /\ EncodeFails /\ at' = "counters" /\ UNCHANGED <<sized, walk, begun>>

PbEncodeFails == EndOfWalk /\ ~Fits /\ StreamEnds /\ EncodeFails

-----------------------------------------------------------------------------
\* The steps of Otel's task outside pb_encode; one that leaves the block ends the stream.
Elsewhere == /\ pc # "encode" /\ Task /\ pc' # "encode"
             /\ IF pc = "write" /\ pc' # "write" THEN StreamEnds ELSE UNCHANGED encoding
             /\ UNCHANGED lists

Exports == \/ Elsewhere
           \/ EncodeBegins \/ WalkCounters \/ WalkAgain \/ PbEncodeEnds \/ PbEncodeFails

MetricsNext == \/ Exports
               \/ Environment /\ UNCHANGED <<lists, encoding>>
               \/ \E m \in Counter : CreateCounter(m)
               \/ \E m \in Gauge : CreateGauge(m)

\* The task is scheduled and time passes.
MetricsSpec == /\ MetricsInit /\ [][MetricsNext]_allVars
               /\ WF_allVars(Exports) /\ WF_allVars(Tick /\ UNCHANGED <<lists, encoding>>)

-----------------------------------------------------------------------------
\* A request is written only with a whole encoding: every metric that existed when
\* it began, once and newest first in its list, wherever tasks put new metrics in
\* front meanwhile; and each of the lengths in it is that of what follows, so that
\* the collector can read it.
ReportsWhole ==
    pc = "write" =>
        /\ begun \subseteq Range(walk)
        /\ \E k \in 1..Len(counters) + 1, n \in 1..Len(gauges) + 1 :
              walk = SubSeq(counters, k, Len(counters)) \o SubSeq(gauges, n, Len(gauges))
        /\ \A n \in DOMAIN sized : sized[n] = Size(walk)

\* The exporter with its encoding in steps implements Otel, whose fairness says that
\* encoding does not fail for ever: an encoding that fails is begun again in the next
\* turn, and metrics are created only so often.
ImplementsOtel == FairSpec
=============================================================================
