------------------------------- MODULE Queue --------------------------------
(***************************************************************************)
(* The growing and shrinking ring buffer of internal/queue (messages of a  *)
(* connection) and internal/dissolve (jobs).  Every operation holds the    *)
(* queue's mutex, so it is one step.                                       *)
(***************************************************************************)
EXTENDS Integers, Sequences

CONSTANTS
    Items,     \* what is queued
    DataLen,   \* len(Item.Data)
    Empty,     \* the zero Item
    InitCap,   \* Queue.initCap
    MaxCnt     \* bound: items in the queue at which nothing is added

ASSUME QueueAssumption ==
    /\ DataLen \in [Items -> Nat]
    /\ Empty \notin Items
    /\ InitCap \in Nat \ {0}
    /\ MaxCnt \in Nat

VARIABLES
    nodes, nlen,             \* the slice and its length
    head, tail, cnt, size, closed,
    ret                      \* items the last operation returned

ring == <<nodes, nlen, head, tail, cnt, size, closed>>
qvars == <<ring, ret>>

Init ==
    /\ nlen = InitCap
    /\ nodes = [k \in 0..(InitCap - 1) |-> Empty]
    /\ head = 0 /\ tail = 0 /\ cnt = 0 /\ size = 0
    /\ closed = FALSE
    /\ ret = <<>>

\* The slice resize(n) copies to, when the head is h: the part from the head to
\* the tail, or to the end of the slice and then from its start to the tail.
Resized(h, n) ==
    [k \in 0..(n - 1) |->
        IF h < tail
        THEN IF k < tail - h THEN nodes[h + k] ELSE Empty
        ELSE IF k < nlen - h THEN nodes[h + k]
        ELSE IF k - (nlen - h) < tail THEN nodes[k - (nlen - h)]
        ELSE Empty]

\* Mutant of Add: the slice grows four times.
AddQuadruples(i) ==
    /\ ~closed
    /\ cnt < MaxCnt
    /\ LET grow == cnt = nlen
           n    == IF grow THEN cnt * 4 ELSE nlen
           base == IF grow THEN Resized(head, n) ELSE nodes
           t    == IF grow THEN cnt % n ELSE tail
       IN  /\ nlen' = n
           /\ nodes' = [base EXCEPT ![t] = i]
           /\ head' = IF grow THEN 0 ELSE head
           /\ tail' = (t + 1) % n
    /\ size' = size + DataLen[i]
    /\ cnt' = cnt + 1
    /\ ret' = <<>>
    /\ UNCHANGED closed

Add(i) ==
    /\ ~closed
    /\ cnt < MaxCnt
    /\ LET grow == cnt = nlen
           n    == IF grow THEN cnt * 2 ELSE nlen
           base == IF grow THEN Resized(head, n) ELSE nodes
           t    == IF grow THEN cnt % n ELSE tail
       IN  /\ nlen' = n
           /\ nodes' = [base EXCEPT ![t] = i]
           /\ head' = IF grow THEN 0 ELSE head
           /\ tail' = (t + 1) % n
    /\ size' = size + DataLen[i]
    /\ cnt' = cnt + 1
    /\ ret' = <<>>
    /\ UNCHANGED closed

\* Add returns false when closed, Remove when empty.
Refuse ==
    /\ closed \/ cnt = 0
    /\ ret' = <<>>
    /\ UNCHANGED ring

\* Mutant of Shrinks: one removal later.
ShrinksLate(n, c) == n >= InitCap /\ c < n

Shrinks(n, c) == n >= InitCap /\ c <= n

\* Mutant of Remove: the size is not reduced.
RemoveKeepsSize ==
    /\ cnt > 0
    /\ LET h == (head + 1) % nlen
           n == nlen \div 2
       IN  IF Shrinks(n, cnt - 1)
           THEN /\ nodes' = Resized(h, n) /\ nlen' = n
                /\ head' = 0 /\ tail' = (cnt - 1) % n
           ELSE head' = h /\ UNCHANGED <<nodes, nlen, tail>>
    /\ cnt' = cnt - 1
    /\ ret' = <<nodes[head]>>
    /\ UNCHANGED <<size, closed>>

Remove ==
    /\ cnt > 0
    /\ LET h == (head + 1) % nlen
           n == nlen \div 2
       IN  IF Shrinks(n, cnt - 1)
           THEN /\ nodes' = Resized(h, n) /\ nlen' = n
                /\ head' = 0 /\ tail' = (cnt - 1) % n
           ELSE head' = h /\ UNCHANGED <<nodes, nlen, tail>>
    /\ cnt' = cnt - 1
    /\ ret' = <<nodes[head]>>
    /\ size' = size - DataLen[nodes[head]]
    /\ UNCHANGED closed

Discard ==
    /\ closed' = TRUE
    /\ cnt' = 0 /\ nodes' = <<>> /\ nlen' = 0 /\ size' = 0
    /\ UNCHANGED tail

Close == Discard /\ ret' = <<>> /\ UNCHANGED head

\* What CloseRemaining's loop takes from the ring.
Remaining == [k \in 1..cnt |-> nodes[(head + k - 1) % nlen]]

\* Mutant of CloseRemaining: the last item is left behind.
CloseRemainingButLast ==
    /\ ~closed
    /\ ret' = [k \in 1..(cnt - 1) |-> Remaining[k]]
    /\ head' = (head + cnt) % nlen
    /\ Discard

CloseRemaining ==
    /\ ~closed
    /\ ret' = Remaining
    /\ head' = (head + cnt) % nlen
    /\ Discard

Next ==
    \/ \E i \in Items : Add(i)
    \/ Refuse \/ Remove \/ Close \/ CloseRemaining

Spec == Init /\ [][Next]_qvars

-----------------------------------------------------------------------------
TypeOK ==
    /\ nlen \in Nat
    /\ nodes \in [0..(nlen - 1) -> Items \cup {Empty}]
    /\ head \in Nat /\ tail \in Nat /\ cnt \in Nat /\ size \in Int
    /\ closed \in BOOLEAN
    /\ ret \in Seq(Items)

\* The queue keeps what was added in the order it was added and hands it over in
\* that order, whatever the ring does: growing, shrinking and wrapping around
\* change nothing a caller can see.
F == INSTANCE Fifo WITH items <- Remaining, isClosed <- closed
FifoSpec == F!Spec

\* resize never slices beyond the new buffer (copy(nodes[len(q.nodes)-q.head:]...)
\* would panic), and what the ring holds fits in it.
ResizeInBounds ==
    LET h == (head + 1) % nlen
        n == nlen \div 2
    IN  cnt > 0 /\ Shrinks(n, cnt - 1) =>
           /\ cnt - 1 <= n
           /\ h >= tail => nlen - h <= n

\* Size() is the sum of the sizes of the queued messages, which enqueue compares
\* with the limit of the connection.
SizeIsSum ==
    LET sum[k \in 0..cnt] ==
            IF k = 0 THEN 0 ELSE sum[k - 1] + DataLen[Remaining[k]]
    IN  size = sum[cnt]

\* Head, tail and count of an open queue agree; the slice is more than half full
\* unless it has nearly its initial capacity, below which it never shrinks.
RingInv ==
    IF closed THEN cnt = 0 /\ nlen = 0
    ELSE /\ nlen >= InitCap
         /\ head < nlen /\ tail < nlen /\ cnt <= nlen
         /\ tail = (head + cnt) % nlen
         /\ nlen \div 2 >= InitCap => cnt > nlen \div 2
         /\ \A k \in 0..(cnt - 1) : nodes[(head + k) % nlen] \in Items
=============================================================================
