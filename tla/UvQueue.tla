------------------------------- MODULE UvQueue -------------------------------
(***************************************************************************)
(* The intrusive circular doubly linked list of include/libuv/queue.h.     *)
(*                                                                         *)
(* A heap q = [next, prev] holds the two pointers of every list node and   *)
(* of every list head (a head is a node that stands for the whole list).   *)
(* The operators are the functions of the header, one C assignment after   *)
(* the other: a node handled against the protocol (linked twice, or        *)
(* initialised while it is linked) corrupts q exactly as it does in C.     *)
(***************************************************************************)

\* Heaps over a set of nodes.
QueueHeap(Node) == [next : [Node -> Node], prev : [Node -> Node]]

\* A heap whose nodes are all freshly initialised.
NewQueueHeap(Node) == [next |-> [n \in Node |-> n], prev |-> [n \in Node |-> n]]

\* uv__queue_init: the node is alone.
QueueInit(q, n) == [next |-> [q.next EXCEPT ![n] = n], prev |-> [q.prev EXCEPT ![n] = n]]

\* uv__queue_empty: of a head, the list is empty; of a node, it is in no list.
QueueEmpty(q, n) == q.next[n] = n

\* uv__queue_head: the first node of the list of head h.
QueueHead(q, h) == q.next[h]

\* Mutant of QueueInsertTail: uv__queue_insert_head.
QueueInsertTail_AtHead(q, h, n) ==
    [next |-> [q.next EXCEPT ![n] = q.next[h], ![h] = n],
     prev |-> [q.prev EXCEPT ![n] = h, ![q.next[h]] = n]]

\* uv__queue_insert_tail(h, n).
QueueInsertTail(q, h, n) ==
    LET last == q.prev[h]
    IN  [next |-> [q.next EXCEPT ![n] = h, ![last] = n],
         prev |-> [q.prev EXCEPT ![n] = last, ![h] = n]]

\* Mutant of QueueRemove: the second assignment is missing.
QueueRemove_OneWay(q, n) == [q EXCEPT !.next = [@ EXCEPT ![q.prev[n]] = q.next[n]]]

\* uv__queue_remove(n): the neighbours skip n, whose own pointers stay.
QueueRemove(q, n) ==
    [next |-> [q.next EXCEPT ![q.prev[n]] = q.next[n]],
     prev |-> [q.prev EXCEPT ![q.next[n]] = q.prev[n]]]

\* The idiom of every caller: uv__queue_remove(n); uv__queue_init(n).
QueueUnlink(q, n) == QueueInit(QueueRemove(q, n), n)

\* The list is well formed: next and prev are inverse to each other.
QueueLinked(q, Node) == \A n \in Node : q.prev[q.next[n]] = n /\ q.next[q.prev[n]] = n
=============================================================================
