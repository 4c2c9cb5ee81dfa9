----------------------------- MODULE FifoQueues ------------------------------
(***************************************************************************)
(* What include/libuv/queue.h promises: every head owns a sequence of      *)
(* distinct nodes, a node is in at most one of them, nodes enter at the    *)
(* tail and may leave from any place.                                      *)
(***************************************************************************)
EXTENDS Naturals, Sequences
CONSTANTS Heads, Items
VARIABLE fifo

Queued(n) == \E h \in Heads : \E i \in 1..Len(fifo[h]) : fifo[h][i] = n

FifoInit == fifo = [h \in Heads |-> <<>>]

\* A node that is in no queue becomes the last one of h.
Put(h, n) == ~Queued(n) /\ fifo' = [fifo EXCEPT ![h] = Append(@, n)]

\* The first node of h leaves.
TakeHead(h) == fifo[h] # <<>> /\ fifo' = [fifo EXCEPT ![h] = Tail(@)]

\* The i-th node of h leaves; the order of the others is kept.
Without(s, i) == SubSeq(s, 1, i - 1) \o SubSeq(s, i + 1, Len(s))
Withdraw(h, i) == fifo' = [fifo EXCEPT ![h] = Without(@, i)]

FifoNext == \/ \E h \in Heads, n \in Items : Put(h, n)
            \/ \E h \in Heads : TakeHead(h)
            \/ \E h \in Heads : \E i \in 1..Len(fifo[h]) : Withdraw(h, i)

FifoSpec == FifoInit /\ [][FifoNext]_fifo
=============================================================================
