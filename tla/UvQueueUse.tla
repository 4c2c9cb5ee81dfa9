----------------------------- MODULE UvQueueUse ------------------------------
(***************************************************************************)
(* The queue of include/libuv/queue.h under the protocol its callers in    *)
(* uv_poll.c and httpd.c follow: a node is linked only when it is alone    *)
(* (uv__io_start tests it, the js loop has just initialised it) and is     *)
(* always unlinked with uv__queue_remove followed by uv__queue_init.       *)
(***************************************************************************)
EXTENDS Naturals, Sequences, FiniteSets, FiniteSetsExt, UvQueue
CONSTANTS Heads, Items

ASSUME HeadsNotItems == Heads \cap Items = {}
ASSUME ItemsFinite == IsFiniteSet(Items)

Node == Heads \cup Items

VARIABLE q

Init == q = NewQueueHeap(Node)

\* Mutant of Insert: the test that the node is alone is missing.
Insert_Linked(h, n) == q' = QueueInsertTail(q, h, n)

\* uv__io_start and uv__io_stop link a watcher that is in no list.
Insert(h, n) == /\ QueueEmpty(q, n)
                /\ q' = QueueInsertTail(q, h, n)

\* uv__io_poll and the js loop take the first node of a list that has one.
Pop(h) == /\ ~QueueEmpty(q, h)
          /\ q' = QueueUnlink(q, QueueHead(q, h))

\* uv__io_stop takes a watcher off its list, or does nothing to one that is alone.
Unlink(n) == q' = QueueUnlink(q, n)

Next == \/ \E h \in Heads, n \in Items : Insert(h, n)
        \/ \E h \in Heads : Pop(h)
        \/ \E n \in Items : Unlink(n)

Spec == Init /\ [][Next]_q

-----------------------------------------------------------------------------
\* next and prev stay inverse to each other, whatever the callers do: no
\* sequence of uv__queue_insert_tail and remove-then-init of two lists that
\* share nodes can make one list lead into the middle of another.
WellFormed == q \in QueueHeap(Node) /\ QueueLinked(q, Node)

\* Two heads never end up in one ring: what follows a head, up to the first
\* head, are nodes that lead back to that same head.
HeadsApart == \A h \in Heads : q.next[h] \in Heads => q.next[h] = h

-----------------------------------------------------------------------------
(* The lists of a heap r, read as sequences.                               *)

\* The nodes behind head h. The walk stays at the head it comes to.
Walk(r, h) ==
    LET at[k \in 1..Cardinality(Items)] ==
            IF k = 1 THEN r.next[h]
            ELSE IF at[k - 1] \in Heads THEN at[k - 1] ELSE r.next[at[k - 1]]
    IN  at

\* The nodes up to the first head: no list is longer than Items.
Following(r, h) ==
    LET len == Max({k \in 0..Cardinality(Items) : \A j \in 1..k : Walk(r, h)[j] \notin Heads})
    IN  [k \in 1..len |-> Walk(r, h)[k]]

ContentsOf(r) == [h \in Heads |-> Following(r, h)]
Contents == ContentsOf(q)

Fifo == INSTANCE FifoQueues WITH fifo <- Contents

\* The linked lists implement queues: every pointer update of queue.h is one
\* step of FifoQueues, or leaves all the sequences as they are, and what is
\* popped off a list is what has been in it longest.
RefinesFifo == /\ Fifo!FifoSpec
               /\ [][\A h \in Heads : Pop(h) => Fifo!TakeHead(h)]_q
=============================================================================
