---------------------------- MODULE WriterProofs ----------------------------
(***************************************************************************)
(* The ring buffer of a writer implements Fifo, for any items and initial  *)
(* capacity.  The inductive invariant is TypeOK and RingInv: head, tail    *)
(* and count agree and the slots in between hold items.  Size() is the sum *)
(* of what the ring holds: partial sums, which induction over sets shows   *)
(* unique.                                                                 *)
(*                                                                         *)
(* The writer of a connection writes what was accepted, in order and once, *)
(* and a queue above its limit is noticed, for any producers, frame size,  *)
(* write delay and limit.  The inductive invariant says who is where       *)
(* (WhoIsWhere), where what was accepted is (WhatIsWhere), that the queue  *)
(* is the ring of the first part and that its size is the sum (Sized).     *)
(***************************************************************************)
EXTENDS Writer, SequenceTheorems, WellFoundedInduction, TLAPS

\* Zenon proves what only takes logic and sets; the leaves that need more say SMT.
USE Zenon

-----------------------------------------------------------------------------
(* The ring buffer.                                                          *)

\* The slot k places after h in a ring of n slots.
Slot(h, k, n) == IF h + k < n THEN h + k ELSE h + k - n

\* A remainder below the divisor is the number itself.
LEMMA ModSmall ==
    ASSUME NEW a \in Nat, NEW n \in Nat \ {0}, a < n
    PROVE  a % n = a
  BY SMT

\* Past the end of the slice an index wraps once.
LEMMA ModOnce ==
    ASSUME NEW a \in Nat, NEW n \in Nat \ {0}, n <= a, a < n + n
    PROVE  a % n = a - n
  BY SMT

\* The code's remainders are slots.
LEMMA SlotMod ==
    ASSUME NEW n \in Nat \ {0}, NEW h \in 0..(n - 1), NEW k \in 0..n
    PROVE  (h + k) % n = Slot(h, k, n) /\ Slot(h, k, n) \in 0..(n - 1)
<1>1. CASE h + k < n
  BY <1>1, ModSmall, SMT DEF Slot
<1>2. CASE n <= h + k
  <2>1. h + k \in Nat /\ h + k < n + n
    BY SMT
  <2>2. (h + k) % n = h + k - n
    BY <1>2, <2>1, ModOnce, SMT
  <2>3. QED BY <1>2, <2>1, <2>2, SMT DEF Slot
<1>3. QED BY <1>1, <1>2, SMT

\* What integer halving, as Remove does before it shrinks, leaves.
LEMMA HalfOf ==
    ASSUME NEW n \in Nat
    PROVE  n \div 2 \in Nat /\ 2 * (n \div 2) <= n /\ n <= 2 * (n \div 2) + 1
<1>1. n \div 2 \in Nat BY SMT
<1>2. n = 2 * (n \div 2) + (n % 2) /\ n % 2 \in 0..1 BY SMT
<1>3. QED BY <1>1, <1>2, SMT

\* Half of what Add has doubled is what there was.
LEMMA HalfOfDouble ==
    ASSUME NEW m \in Nat
    PROVE  (m * 2) \div 2 = m
  BY SMT

\* A sequence that has one more element at its end.
LEMMA AppendEqual ==
    ASSUME NEW S, NEW s \in Seq(S), NEW t \in Seq(S), NEW i \in S,
           Len(t) = Len(s) + 1, t[Len(s) + 1] = i,
           \A k \in 1..Len(s) : t[k] = s[k]
    PROVE  t = Append(s, i)
<1>1. /\ Append(s, i) \in Seq(S) /\ Len(Append(s, i)) = Len(s) + 1
      /\ \A k \in 1..(Len(s) + 1) : Append(s, i)[k] = t[k]
  BY SMT
<1>2. QED BY <1>1, SeqEqual

\* A sequence that lacks the first element.
LEMMA TailEqual ==
    ASSUME NEW S, NEW s \in Seq(S), NEW t \in Seq(S), s # <<>>,
           Len(t) = Len(s) - 1, \A k \in 1..Len(t) : t[k] = s[k + 1]
    PROVE  t = Tail(s)
<1>1. /\ Tail(s) \in Seq(S) /\ Len(Tail(s)) = Len(t)
      /\ \A k \in 1..Len(t) : Tail(s)[k] = t[k]
  BY HeadTailProperties, SMT
<1>2. QED BY <1>1, SeqEqual

Inv == TypeOK /\ RingInv

\* An open ring, in slots.
Open ==
    /\ nlen \in Nat \ {0} /\ head \in 0..(nlen - 1) /\ tail \in 0..(nlen - 1)
    /\ cnt \in 0..nlen /\ tail = Slot(head, cnt, nlen)
    /\ \A k \in 0..(cnt - 1) : nodes[Slot(head, k, nlen)] \in Items
    /\ Remaining = [k \in 1..cnt |-> nodes[Slot(head, k - 1, nlen)]]
    /\ Remaining \in Seq(Items) /\ Len(Remaining) = cnt

\* The ring of the invariant is the ring in slots.
LEMMA OpenRing == Inv /\ ~closed => Open
<1> SUFFICES ASSUME Inv, ~closed PROVE Open
  OBVIOUS
<1>1. /\ nlen \in Nat \ {0} /\ head \in 0..(nlen - 1)
      /\ tail \in 0..(nlen - 1) /\ cnt \in 0..nlen
  BY QueueAssumption, SMT DEF Inv, TypeOK, RingInv
<1>2. \A k \in 0..nlen : (head + k) % nlen = Slot(head, k, nlen)
  BY <1>1, SlotMod
<1>3. tail = Slot(head, cnt, nlen)
  BY <1>1, <1>2 DEF Inv, RingInv
<1>4. \A k \in 0..(cnt - 1) : nodes[Slot(head, k, nlen)] \in Items
  BY <1>1, <1>2, SMT DEF Inv, RingInv
<1>5. ASSUME NEW k \in 1..cnt
      PROVE  (head + k - 1) % nlen = Slot(head, k - 1, nlen)
  BY <1>1, <1>2, SMT
<1>6. Remaining = [k \in 1..cnt |-> nodes[Slot(head, k - 1, nlen)]]
  BY <1>5 DEF Remaining
<1>7. \A k \in 1..cnt : Remaining[k] \in Items
  BY <1>1, <1>4, <1>6, SMT
<1>8. Remaining \in [1..cnt -> Items]
  BY <1>6, <1>7
<1>9. Remaining \in Seq(Items) /\ Len(Remaining) = cnt
  BY <1>1, <1>8, SMT
<1>10. QED BY <1>1, <1>3, <1>4, <1>6, <1>9 DEF Open

\* A closed ring holds nothing.
LEMMA ClosedRing ==
    ASSUME Inv, closed
    PROVE  Remaining = <<>>
  BY SMT DEF Inv, RingInv, Remaining

\* Open or closed, the ring holds a sequence of items.
LEMMA RemainingType ==
    ASSUME Inv
    PROVE  Remaining \in Seq(Items) /\ Len(Remaining) = cnt /\ cnt \in Nat
<1>1. CASE closed
  BY <1>1, ClosedRing, SMT DEF Inv, RingInv
<1>2. CASE ~closed
  BY <1>2, OpenRing, SMT DEF Open
<1> QED BY <1>1, <1>2

\* resize copies what the ring holds, in order, to the start of the new slice.
LEMMA ResizedKeeps ==
    ASSUME NEW h \in 0..(nlen - 1), NEW c \in 0..nlen, NEW n \in Nat,
           nlen \in Nat \ {0}, c <= n, tail = Slot(h, c, nlen), TypeOK
    PROVE  /\ Resized(h, n) \in [0..(n - 1) -> Items \cup {Empty}]
           /\ \A k \in 0..(c - 1) :
                 Resized(h, n)[k] = nodes[Slot(h, k, nlen)]
<1>1. \A k \in 0..(n - 1) : Resized(h, n)[k] \in Items \cup {Empty}
  BY SMT DEF Resized, TypeOK, Slot
<1>2. Resized(h, n) \in [0..(n - 1) -> Items \cup {Empty}]
  BY <1>1 DEF Resized
<1>3. ASSUME NEW k \in 0..(c - 1)
      PROVE  Resized(h, n)[k] = nodes[Slot(h, k, nlen)]
  BY <1>3, SMT DEF Resized, Slot
<1>4. QED BY <1>2, <1>3

\* A step to a ring whose slots fit together keeps the invariant.
LEMMA RingFrom ==
    ASSUME NEW N \in Nat \ {0}, NEW H \in 0..(N - 1), NEW C \in 0..N,
           nlen' = N, head' = H, cnt' = C, tail' = Slot(H, C, N),
           nodes' \in [0..(N - 1) -> Items \cup {Empty}],
           \A k \in 0..(C - 1) : nodes'[Slot(H, k, N)] \in Items,
           N >= InitCap, N \div 2 >= InitCap => C > N \div 2,
           closed' = FALSE, size' \in Int, ret' \in Seq(Items)
    PROVE  Inv' /\ Open'
<1>1. \A k \in 0..N : /\ (H + k) % N = Slot(H, k, N)
                      /\ Slot(H, k, N) \in 0..(N - 1)
  BY SlotMod
<1>2. tail' \in 0..(N - 1) /\ tail' = (H + C) % N
  BY <1>1
<1>3. TypeOK'
  <2>1. N \in Nat /\ H \in Nat /\ tail' \in Nat /\ C \in Nat
    BY <1>2, SMT
  <2>2. closed' \in BOOLEAN
    OBVIOUS
  <2>3. QED BY <2>1, <2>2 DEF TypeOK
<1>4. ASSUME NEW k \in 0..(C - 1) PROVE nodes'[(H + k) % N] \in Items
  <2>1. k \in 0..N
    BY SMT
  <2>2. (H + k) % N = Slot(H, k, N)
    BY <1>1, <2>1
  <2>3. QED BY <2>2
<1>5. H < N /\ tail' < N /\ C <= N
  BY <1>2, SMT
<1>6. RingInv'
  BY <1>2, <1>4, <1>5 DEF RingInv
<1>7. Inv' /\ ~closed'
  BY <1>3, <1>6 DEF Inv
<1>8. QED BY <1>7, OpenRing, PTL

\* What adding does to a ring, whether or not the slice grows first.
LEMMA AddStep ==
    ASSUME Inv, NEW i \in Items, Add(i)
    PROVE  Inv' /\ Remaining' = Append(Remaining, i)
<1> DEFINE grow == cnt = nlen
           n    == IF grow THEN cnt * 2 ELSE nlen
           base == IF grow THEN Resized(head, n) ELSE nodes
           t    == IF grow THEN cnt % n ELSE tail
           h    == IF grow THEN 0 ELSE head
<1>1. Open /\ ~closed
  BY OpenRing DEF Add
<1>4. /\ nlen' = n /\ nodes' = [base EXCEPT ![t] = i] /\ head' = h
      /\ tail' = (t + 1) % n /\ cnt' = cnt + 1 /\ ret' = <<>>
      /\ size' = size + DataLen[i] /\ closed' = closed
  BY DEF Add
<1>g. cnt = nlen => /\ n = cnt * 2 /\ base = Resized(head, n)
                    /\ t = cnt % n /\ h = 0
  OBVIOUS
<1>k. cnt # nlen => n = nlen /\ base = nodes /\ t = tail /\ h = head
  OBVIOUS
<1> HIDE DEF n, base, t, h
<1>2. /\ n \in Nat \ {0} /\ h \in 0..(n - 1) /\ cnt < n /\ cnt \in Nat
      /\ n >= InitCap /\ (n \div 2 >= InitCap => cnt + 1 > n \div 2)
  <2>1. CASE cnt = nlen
    <3>1. cnt \in Nat \ {0} /\ cnt >= InitCap /\ InitCap \in Nat
      BY <1>1, <2>1, QueueAssumption DEF Open, Inv, RingInv
    <3>2. n \div 2 = cnt
      BY <1>g, <2>1, <3>1, HalfOfDouble
    <3>3. QED BY <1>g, <2>1, <3>1, <3>2, SMT
  <2>2. CASE cnt # nlen
    <3>1. cnt < nlen /\ nlen >= InitCap /\ nlen \div 2 \in Nat
          /\ (nlen \div 2 >= InitCap => cnt > nlen \div 2)
      BY <1>1, <2>2, HalfOf, SMT DEF Open, Inv, RingInv
    <3>2. QED BY <1>1, <1>k, <2>2, <3>1, SMT DEF Open
  <2>3. QED BY <2>1, <2>2
<1>3. /\ base \in [0..(n - 1) -> Items \cup {Empty}]
      /\ t = Slot(h, cnt, n)
      /\ \A k \in 0..(cnt - 1) :
            base[Slot(h, k, n)] = nodes[Slot(head, k, nlen)]
  <2>1. CASE cnt = nlen
    <3>1. t = cnt
      BY <1>2, <1>g, <2>1, ModSmall
    <3>2. \A k \in 0..cnt : Slot(h, k, n) = k
      BY <1>2, <1>g, <2>1, SMT DEF Slot
    <3>3. /\ Resized(head, n) \in [0..(n - 1) -> Items \cup {Empty}]
          /\ \A k \in 0..(cnt - 1) :
                Resized(head, n)[k] = nodes[Slot(head, k, nlen)]
      BY <1>1, <1>2, ResizedKeeps, SMT DEF Open, Inv
    <3>4. QED BY <1>2, <1>g, <2>1, <3>1, <3>2, <3>3, SMT
  <2>2. CASE cnt # nlen
    BY <1>1, <1>k, <2>2 DEF Open, Inv, TypeOK
  <2>3. QED BY <2>1, <2>2
<1>5. t \in 0..(n - 1) /\ \A k \in 0..(cnt - 1) : Slot(h, k, n) # t
  BY <1>2, <1>3, SMT DEF Slot
<1>6. \A k \in 0..(cnt - 1) : Slot(h, k, n) \in 0..(n - 1)
  BY <1>2, SMT DEF Slot
<1>7. /\ nodes'[t] = i
      /\ \A k \in 0..(cnt - 1) :
            nodes'[Slot(h, k, n)] = nodes[Slot(head, k, nlen)]
  BY <1>3, <1>4, <1>5, <1>6
<1>8. tail' = Slot(h, cnt + 1, n) /\ tail' \in 0..(n - 1)
  <2>1. \A k \in 0..n : (t + k) % n = Slot(t, k, n)
                         /\ Slot(t, k, n) \in 0..(n - 1)
    BY <1>2, <1>5, SlotMod
  <2>2. Slot(t, 1, n) = Slot(h, cnt + 1, n)
    BY <1>2, <1>3, SMT DEF Slot
  <2>3. 1 \in 0..n
    BY <1>2, SMT
  <2>4. QED BY <1>4, <2>1, <2>2, <2>3
<1>9. ASSUME NEW k \in 0..cnt PROVE nodes'[Slot(h, k, n)] \in Items
  <2>1. CASE k = cnt
    BY <1>3, <1>7, <2>1
  <2>2. CASE k # cnt
    BY <1>1, <1>2, <1>7, <2>2, SMT DEF Open
  <2>3. QED BY <2>1, <2>2
<1>14. Inv' /\ Open'
  <2>1. cnt + 1 \in 0..n /\ (cnt + 1) - 1 = cnt
    BY <1>2, SMT
  <2>2. nodes' \in [0..(n - 1) -> Items \cup {Empty}]
    BY <1>3, <1>4, <1>5
  <2>3. size' \in Int /\ ret' \in Seq(Items) /\ closed' = FALSE
    BY <1>1, <1>4, QueueAssumption, SMT DEF Inv, TypeOK
  <2>4. QED BY <1>2, <1>4, <1>8, <1>9, <2>1, <2>2, <2>3, RingFrom
<1>15. /\ Remaining \in Seq(Items) /\ Len(Remaining) = cnt
       /\ Remaining' \in Seq(Items) /\ Len(Remaining') = cnt + 1
  BY <1>1, <1>4, <1>14 DEF Open
<1>16. Remaining'[cnt + 1] = i
  BY <1>2, <1>3, <1>4, <1>7, <1>14, SMT DEF Open
<1>17. ASSUME NEW k \in 1..cnt PROVE Remaining'[k] = Remaining[k]
  <2>1. Remaining[k] = nodes[Slot(head, k - 1, nlen)]
    BY <1>1 DEF Open
  <2>2. Remaining'[k] = nodes'[Slot(h, k - 1, n)]
    BY <1>2, <1>4, <1>14, SMT DEF Open
  <2>3. k - 1 \in 0..(cnt - 1)
    BY <1>2, SMT
  <2>4. QED BY <1>7, <2>1, <2>2, <2>3
<1>18. Remaining' = Append(Remaining, i)
  BY <1>15, <1>16, <1>17, AppendEqual
<1>19. QED BY <1>14, <1>18

\* What removing does to a ring, whether or not the slice shrinks after it.
LEMMA RemoveStep ==
    ASSUME Inv, Remove
    PROVE  /\ Inv' /\ Remaining # <<>> /\ Remaining' = Tail(Remaining)
           /\ ret' = <<Head(Remaining)>> /\ closed' = closed
<1> DEFINE h == (head + 1) % nlen
           n == nlen \div 2
<1>1. Open /\ ~closed /\ cnt > 0
  <2>1. cnt > 0 BY DEF Remove
  <2>2. ~closed BY <2>1, SMT DEF Inv, RingInv
  <2>3. QED BY <2>1, <2>2, OpenRing
<1>2. /\ cnt' = cnt - 1 /\ ret' = <<nodes[head]>> /\ closed' = closed
      /\ size' = size - DataLen[nodes[head]]
      /\ \/ /\ Shrinks(n, cnt - 1) /\ nodes' = Resized(h, n) /\ nlen' = n
            /\ head' = 0 /\ tail' = (cnt - 1) % n
         \/ /\ ~Shrinks(n, cnt - 1) /\ head' = h
            /\ nodes' = nodes /\ nlen' = nlen /\ tail' = tail
  BY DEF Remove
<1>3. h = Slot(head, 1, nlen) /\ h \in 0..(nlen - 1)
  <2>1. \A k \in 0..nlen : /\ (head + k) % nlen = Slot(head, k, nlen)
                           /\ Slot(head, k, nlen) \in 0..(nlen - 1)
    BY <1>1, SlotMod DEF Open
  <2>2. 1 \in 0..nlen
    BY <1>1, SMT DEF Open
  <2>3. QED BY <2>1, <2>2
<1>4. n \in Nat /\ 2 * n <= nlen
  BY <1>1, HalfOf DEF Open
<1> HIDE DEF h, n
<1>5. /\ tail = Slot(h, cnt - 1, nlen) /\ cnt - 1 \in 0..nlen
      /\ \A k \in 0..(cnt - 1) :
            Slot(h, k, nlen) = Slot(head, k + 1, nlen) \/ k = nlen - 1
  BY <1>1, <1>3, SMT DEF Open, Slot
<1>6. nodes[head] \in Items /\ Remaining[1] = nodes[head]
  BY <1>1, SMT DEF Open, Slot
<1>7. size' \in Int /\ ret' \in Seq(Items) /\ closed' = FALSE
  BY <1>1, <1>2, <1>6, QueueAssumption, SMT DEF Inv, TypeOK
<1>8. \A k \in 1..(cnt - 1) : nodes[Slot(head, k, nlen)] \in Items
  BY <1>1, SMT DEF Open
<1> DEFINE After ==
             /\ Inv' /\ Open'
             /\ \A k \in 0..(cnt - 2) :
                   nodes'[Slot(head', k, nlen')] = nodes[Slot(head, k + 1, nlen)]
<1>9. ASSUME Shrinks(n, cnt - 1) PROVE After
  <2>1. n >= InitCap /\ cnt - 1 <= n /\ n \in Nat \ {0}
    BY <1>4, <1>9, QueueAssumption, SMT DEF Shrinks
  <2>2. cnt - 1 = n
    BY <1>1, <1>4, <2>1, SMT DEF n, Inv, RingInv, Open
  <2>3. /\ Resized(h, n) \in [0..(n - 1) -> Items \cup {Empty}]
        /\ \A k \in 0..(n - 1) : Resized(h, n)[k] = nodes[Slot(h, k, nlen)]
    BY <1>1, <1>3, <1>4, <1>5, <2>2, ResizedKeeps, SMT DEF Open, Inv
  <2>4. n % n = 0
    BY <2>1, SMT
  <2>5. /\ nlen' = n /\ head' = 0 /\ nodes' = Resized(h, n)
        /\ cnt' = n /\ tail' = 0
    BY <1>2, <1>9, <2>2, <2>4
  <2>6. \A k \in 0..(n - 1) : Slot(0, k, n) = k
    BY <2>1, SMT DEF Slot
  <2>7. Slot(0, n, n) = 0 /\ 0 \in 0..(n - 1) /\ n \in 0..n
    BY <2>1, SMT DEF Slot
  <2>8. \A k \in 0..(n - 1) : Slot(h, k, nlen) = Slot(head, k + 1, nlen)
    BY <1>1, <1>4, <1>5, <2>1, <2>2, SMT DEF Open
  <2>9. n \div 2 < n
    BY <2>1, HalfOf, SMT
  <2>10. \A k \in 0..(n - 1) :
            nodes'[Slot(0, k, n)] = nodes[Slot(head, k + 1, nlen)]
    BY <2>3, <2>5, <2>6, <2>8
  <2>11. \A k \in 0..(n - 1) : nodes'[Slot(0, k, n)] \in Items
    BY <1>8, <2>2, <2>1, <2>10, SMT
  <2>12. Inv' /\ Open'
    BY <1>7, <2>1, <2>3, <2>5, <2>7, <2>9, <2>11, RingFrom
  <2>13. n - 1 = cnt - 2
    BY <1>1, <2>2, SMT DEF Open
  <2>14. QED BY <2>5, <2>10, <2>12, <2>13
<1>10. ASSUME ~Shrinks(n, cnt - 1) PROVE After
  <2>1. /\ nlen' = nlen /\ head' = h /\ nodes' = nodes /\ tail' = tail
        /\ cnt' = cnt - 1
    BY <1>2, <1>10
  <2>2. nlen >= InitCap
    BY <1>1 DEF Inv, RingInv
  <2>3. nlen \div 2 >= InitCap => cnt - 1 > nlen \div 2
    BY <1>1, <1>4, <1>10, QueueAssumption, SMT DEF Shrinks, Open, n
  <2>4. \A k \in 0..(cnt - 2) : Slot(h, k, nlen) = Slot(head, k + 1, nlen)
    BY <1>1, <1>5, SMT DEF Open
  <2>5. \A k \in 0..((cnt - 1) - 1) :
            nodes'[Slot(h, k, nlen)] = nodes[Slot(head, k + 1, nlen)]
    BY <1>1, <2>1, <2>4, SMT DEF Open
  <2>6. \A k \in 0..((cnt - 1) - 1) : nodes'[Slot(h, k, nlen)] \in Items
    <3>1. ASSUME NEW k \in 0..((cnt - 1) - 1)
          PROVE  nodes'[Slot(h, k, nlen)] \in Items
      <4>1. k + 1 \in 1..(cnt - 1)
        BY <1>1, SMT DEF Open
      <4>2. QED BY <1>8, <2>5, <4>1
    <3>2. QED BY <3>1
  <2>7. nlen \in Nat \ {0} /\ nodes' \in [0..(nlen - 1) -> Items \cup {Empty}]
    BY <1>1, <2>1 DEF Open, Inv, TypeOK
  <2>8. Inv' /\ Open'
    BY <1>3, <1>5, <1>7, <2>1, <2>2, <2>3, <2>6, <2>7, RingFrom
  <2>9. (cnt - 1) - 1 = cnt - 2
    BY <1>1, SMT DEF Open
  <2>10. QED BY <2>1, <2>5, <2>8, <2>9
<1>13. After
  BY <1>9, <1>10
<1> HIDE DEF After
<1>14. /\ Remaining \in Seq(Items) /\ Len(Remaining) = cnt
       /\ Remaining' \in Seq(Items) /\ Len(Remaining') = cnt - 1
       /\ Remaining # <<>>
  <2>1. Remaining \in Seq(Items) /\ Len(Remaining) = cnt
    BY <1>1 DEF Open
  <2>2. Remaining' \in Seq(Items) /\ Len(Remaining') = cnt - 1
    BY <1>2, <1>13 DEF Open, After
  <2>3. cnt \in Nat /\ cnt > 0
    BY <1>1, SMT DEF Open
  <2>4. QED BY <2>1, <2>2, <2>3, SMT
<1>15. ASSUME NEW k \in 1..(cnt - 1) PROVE Remaining'[k] = Remaining[k + 1]
  <2>1. Remaining[k + 1] = nodes[Slot(head, k, nlen)]
    BY <1>1, SMT DEF Open
  <2>2. Remaining'[k] = nodes'[Slot(head', k - 1, nlen')]
    BY <1>2, <1>13 DEF Open, After
  <2>3. k - 1 \in 0..(cnt - 2) /\ (k - 1) + 1 = k
    BY <1>1, <1>2, SMT DEF Open
  <2>4. QED BY <1>13, <2>1, <2>2, <2>3 DEF After
<1>16. Remaining' = Tail(Remaining)
  BY <1>14, <1>15, TailEqual
<1>17. Head(Remaining) = nodes[head]
  BY <1>6, <1>14, SMT
<1>18. QED BY <1>2, <1>13, <1>14, <1>16, <1>17 DEF After

\* Closing leaves an empty queue and returns nothing or everything it held.
LEMMA ClosingStep ==
    ASSUME Inv, Close \/ CloseRemaining
    PROVE  /\ Inv' /\ closed' = TRUE /\ Remaining' = <<>>
           /\ ret' \in {<<>>, Remaining}
<1>1. Discard /\ ret' \in {<<>>, Remaining}
  BY DEF Close, CloseRemaining
<1>2. Remaining \in Seq(Items)
  BY RemainingType
<1>3. head' \in Nat
  <2>1. CASE Close
    BY <2>1 DEF Close, Inv, TypeOK
  <2>2. CASE CloseRemaining
    <3>1. Open
      BY <2>2, OpenRing DEF CloseRemaining
    <3>2. (head + cnt) % nlen \in 0..(nlen - 1)
      BY <3>1, SlotMod DEF Open
    <3>3. QED BY <2>2, <3>1, <3>2, SMT DEF CloseRemaining, Open
  <2>3. QED BY <2>1, <2>2
<1>4. nodes' = <<>> /\ <<>> \in [0..(0 - 1) -> Items \cup {Empty}]
  BY <1>1, SMT DEF Discard
<1>5. Inv'
  <2>1. closed' = TRUE /\ cnt' = 0 /\ nlen' = 0 /\ size' = 0 /\ tail' = tail
    BY <1>1 DEF Discard
  <2>2. RingInv'
    BY <2>1 DEF RingInv
  <2>3. ret' \in Seq(Items)
    <3>1. <<>> \in Seq(Items) BY SMT
    <3>2. QED BY <1>1, <1>2, <3>1
  <2>4. tail' \in Nat
    BY <2>1 DEF Inv, TypeOK
  <2>5. TypeOK'
    BY <1>3, <1>4, <2>1, <2>3, <2>4, SMT DEF TypeOK
  <2>6. QED BY <2>2, <2>5 DEF Inv
<1>6. closed' /\ cnt' = 0
  BY <1>1 DEF Discard
<1>7. QED BY <1>1, <1>5, <1>6, SMT DEF Remaining

\* Every step of the ring buffer keeps the invariant and is a step of Fifo.
LEMMA QueueStep ==
    ASSUME Inv, [Next]_qvars
    PROVE  Inv' /\ [F!Next]_(F!vars)
<1>1. ASSUME NEW i \in Items, Add(i) PROVE Inv' /\ F!Add(i)
  <2>1. Inv' /\ Remaining' = Append(Remaining, i)
    BY <1>1, AddStep
  <2>2. ~closed /\ closed' = closed /\ ret' = <<>>
    BY <1>1 DEF Add
  <2>3. QED BY <2>1, <2>2 DEF F!Add
<1>2. CASE Refuse
  <2>1. Remaining' = Remaining
    BY <1>2 DEF Refuse, ring, Remaining
  <2>2. Inv'
    BY <1>2, SMT DEF Refuse, ring, Inv, TypeOK, RingInv
  <2>3. closed \/ Remaining = <<>>
    BY <1>2, SMT DEF Refuse, Remaining
  <2>4. F!Refuse
    BY <1>2, <2>1, <2>3 DEF Refuse, ring, F!Refuse
  <2>5. QED BY <2>2, <2>4 DEF F!Next
<1>3. CASE Remove
  <2>1. Inv' /\ F!Remove
    BY <1>3, RemoveStep DEF F!Remove
  <2>2. QED BY <2>1 DEF F!Next
<1>4. CASE Close \/ CloseRemaining
  <2>1. Inv' /\ F!Close
    BY <1>4, ClosingStep DEF F!Close
  <2>2. QED BY <2>1 DEF F!Next
<1>5. CASE UNCHANGED qvars
  <2>1. Remaining' = Remaining /\ closed' = closed /\ ret' = ret
    BY <1>5 DEF qvars, ring, Remaining
  <2>2. Inv'
    BY <1>5 DEF qvars, ring, Inv, TypeOK, RingInv
  <2>3. QED BY <2>1, <2>2 DEF F!vars
<1>6. QED BY <1>1, <1>2, <1>3, <1>4, <1>5 DEF Next, F!Next

\* A new queue is an empty Fifo.
LEMMA QueueInit == Init => Inv /\ F!Init
<1> SUFFICES ASSUME Init PROVE Inv /\ F!Init
  OBVIOUS
<1>1. TypeOK
  <2>1. nodes \in [0..(nlen - 1) -> Items \cup {Empty}]
    BY DEF Init
  <2>2. ret \in Seq(Items)
    BY SMT DEF Init
  <2>3. closed \in BOOLEAN
    BY DEF Init
  <2>4. nlen \in Nat /\ head \in Nat /\ tail \in Nat /\ cnt \in Nat
        /\ size \in Int
    BY QueueAssumption, SMT DEF Init
  <2>5. QED BY <2>1, <2>2, <2>3, <2>4 DEF TypeOK
<1>2. RingInv
  <2>1. (0 + 0) % InitCap = 0
    BY QueueAssumption, ModSmall, SMT
  <2>2. InitCap \div 2 < InitCap
    BY QueueAssumption, HalfOf, SMT
  <2>3. QED BY <2>1, <2>2, QueueAssumption, SMT DEF Init, RingInv
<1>3. F!Init
  BY SMT DEF Init, Remaining, F!Init
<1>4. QED BY <1>1, <1>2, <1>3 DEF Inv

\* For every initial capacity the ring keeps head, tail and count in agreement, is
\* more than half full above its initial capacity and never smaller than it.
THEOREM RingTheorem == Spec => []RingInv
<1>1. Init => Inv
  BY QueueInit
<1>2. Inv /\ [Next]_qvars => Inv'
  BY QueueStep
<1>3. Inv => RingInv
  BY DEF Inv
<1>4. QED BY <1>1, <1>2, <1>3, PTL DEF Spec

\* For every initial capacity and number of items the ring buffer of queue.go is
\* a first-in-first-out queue: it implements Fifo.
THEOREM FifoTheorem == Spec => FifoSpec
<1>1. Init => Inv /\ F!Init
  BY QueueInit
<1>2. Inv /\ [Next]_qvars => Inv' /\ [F!Next]_(F!vars)
  BY QueueStep
<1>3. QED BY <1>1, <1>2, PTL DEF Spec, FifoSpec, F!Spec

\* resize never slices beyond the buffer it has made.
THEOREM ResizeTheorem == Spec => []ResizeInBounds
<1>1. Inv => ResizeInBounds
  <2> SUFFICES ASSUME Inv, cnt > 0, Shrinks(nlen \div 2, cnt - 1)
               PROVE  /\ cnt - 1 <= nlen \div 2
                      /\ (head + 1) % nlen >= tail
                            => nlen - ((head + 1) % nlen) <= nlen \div 2
    BY DEF ResizeInBounds
  <2>1. Open
    <3>1. ~closed BY SMT DEF Inv, RingInv
    <3>2. QED BY <3>1, OpenRing
  <2>2. cnt - 1 <= nlen \div 2
    BY DEF Shrinks
  <2>3. \A k \in 0..nlen : (head + k) % nlen = Slot(head, k, nlen)
    BY <2>1, SlotMod DEF Open
  <2>4. (head + 1) % nlen = Slot(head, 1, nlen)
    BY <2>1, <2>3, SMT DEF Open
  <2>5. nlen \div 2 \in Nat /\ cnt > nlen \div 2 /\ nlen \div 2 > 0
    BY <2>1, HalfOf, QueueAssumption, SMT DEF Inv, RingInv, Shrinks, Open
  <2>6. QED BY <2>1, <2>2, <2>4, <2>5, SMT DEF Open, Slot
<1>2. Init => Inv
  BY QueueInit
<1>3. Inv /\ [Next]_qvars => Inv'
  BY QueueStep
<1>4. QED BY <1>1, <1>2, <1>3, PTL DEF Spec

-----------------------------------------------------------------------------
(* Size: the sum of what is queued.  SizeIsSum adds up recursively; the     *)
(* proofs speak of partial sums, whose uniqueness needs induction.          *)

\* Induction over the natural numbers, for sets.
LEMMA SetInduction ==
    ASSUME NEW S, 0 \in S, \A n \in Nat : n \in S => n + 1 \in S
    PROVE  Nat \subseteq S
<1> DEFINE R == {ss \in Nat \X Nat : ss[1] < ss[2]}
           T == Nat \ S
<1> SUFFICES ASSUME T # {} PROVE FALSE
  OBVIOUS
<1>1. IsWellFoundedOn(R, Nat)
  BY NatLessThanWellFounded DEF OpToRel
<1> HIDE DEF R
<1>2. PICK x \in T : \A y \in T : ~ (<<y, x>> \in R)
  BY <1>1, WFMin
<1>3. x # 0 /\ x - 1 \in Nat /\ <<x - 1, x>> \in R
  BY SMT DEF R
<1>4. x - 1 \in S
  BY <1>2, <1>3
<1> QED BY <1>3, <1>4, SMT

\* f has the partial sums of the sizes of what s holds.
PartialSums(f, s) ==
    /\ f \in [0..Len(s) -> Int] /\ f[0] = 0
    /\ \A k \in 1..Len(s) : f[k] = f[k - 1] + DataLen[s[k]]

SumsTo(s, n) == \E f : PartialSums(f, s) /\ f[Len(s)] = n

\* There is only one sum.
LEMMA SumUnique ==
    ASSUME NEW s \in Seq(Items), NEW f, NEW g, PartialSums(f, s), PartialSums(g, s)
    PROVE  f[Len(s)] = g[Len(s)]
<1> DEFINE S == {n \in Nat : n <= Len(s) => f[n] = g[n]}
<1>1. 0 \in S
  BY DEF PartialSums
<1>2. ASSUME NEW n \in Nat, n \in S PROVE n + 1 \in S
  <2>1. CASE n + 1 <= Len(s)
    <3>1. n + 1 \in 1..Len(s) /\ (n + 1) - 1 = n /\ Len(s) \in Nat
      BY <2>1, SMT
    <3>2. f[n] = g[n]
      BY <1>2, <2>1, <3>1, SMT
    <3> QED BY <3>1, <3>2, SMT DEF PartialSums
  <2>2. CASE ~ (n + 1 <= Len(s))
    BY <2>2, SMT
  <2> QED BY <2>1, <2>2
<1> HIDE DEF S
<1>3. Nat \subseteq S
  BY <1>1, <1>2, SetInduction
<1> QED BY <1>3, SMT DEF S

\* An empty queue has size 0.
LEMMA SumEmpty == SumsTo(<<>>, 0)
<1> DEFINE f == [k \in 0..0 |-> 0]
<1>1. PartialSums(f, <<>>) /\ f[Len(<<>>)] = 0
  BY SMT DEF PartialSums
<1> HIDE DEF f
<1> QED BY <1>1, SMT DEF SumsTo

\* Add adds the size of the item.
LEMMA SumAppend ==
    ASSUME NEW s \in Seq(Items), NEW n \in Int, SumsTo(s, n), NEW i \in Items
    PROVE  SumsTo(Append(s, i), n + DataLen[i])
<1>1. PICK f : PartialSums(f, s) /\ f[Len(s)] = n
  BY DEF SumsTo
<1> DEFINE m == Len(s)
           t == Append(s, i)
           g == [k \in 0..(m + 1) |-> IF k = m + 1 THEN n + DataLen[i] ELSE f[k]]
<1>2. m \in Nat /\ Len(t) = m + 1 /\ t[m + 1] = i /\ \A k \in 1..m : t[k] = s[k]
  BY SMT
<1>3. DataLen[i] \in Nat
  BY QueueAssumption
<1> HIDE DEF m, t
<1>4. /\ \A k \in 0..m : f[k] \in Int
      /\ f[0] = 0 /\ f[m] = n
      /\ \A k \in 1..m : f[k] = f[k - 1] + DataLen[s[k]]
  BY <1>1 DEF PartialSums, m
<1>5. /\ g[m + 1] = n + DataLen[i]
      /\ \A k \in 0..m : g[k] = f[k]
  BY <1>2, SMT
<1>6. g \in [0..(m + 1) -> Int]
  BY <1>2, <1>3, <1>4, SMT
<1> HIDE DEF g
<1>7. g[0] = 0 /\ g[m] = n
  BY <1>2, <1>4, <1>5, SMT
<1>8. ASSUME NEW k \in 1..(m + 1) PROVE g[k] = g[k - 1] + DataLen[t[k]]
  <2>1. CASE k = m + 1
    BY <2>1, <1>2, <1>5, <1>7, SMT
  <2>2. CASE k # m + 1
    <3>1. k \in 1..m /\ k \in 0..m /\ k - 1 \in 0..m
      BY <2>2, <1>2, SMT
    <3> QED BY <3>1, <1>2, <1>4, <1>5
  <2> QED BY <2>1, <2>2
<1>9. PartialSums(g, t)
  BY <1>2, <1>6, <1>7, <1>8 DEF PartialSums
<1> QED BY <1>2, <1>5, <1>9 DEF SumsTo, t

\* Remove takes the size of the first item away.
LEMMA SumTail ==
    ASSUME NEW s \in Seq(Items), s # <<>>, NEW n \in Int, SumsTo(s, n)
    PROVE  SumsTo(Tail(s), n - DataLen[Head(s)])
<1>1. PICK f : PartialSums(f, s) /\ f[Len(s)] = n
  BY DEF SumsTo
<1> DEFINE m == Len(s) - 1
           t == Tail(s)
           d == DataLen[Head(s)]
           g == [k \in 0..m |-> f[k + 1] - d]
<1>2. /\ m \in Nat /\ Len(s) = m + 1 /\ Len(t) = m /\ \A k \in 1..m : t[k] = s[k + 1]
      /\ Head(s) = s[1] /\ Head(s) \in Items
  BY HeadTailProperties, SMT
<1>3. d \in Nat /\ d = DataLen[s[1]]
  BY <1>2, QueueAssumption
<1> HIDE DEF m, t, d
<1>4. /\ \A k \in 0..m : f[k + 1] \in Int
      /\ f[1] = d /\ f[m + 1] = n
      /\ \A k \in 1..m : f[k + 1] = f[k] + DataLen[s[k + 1]]
  <2>1. \A k \in 0..(m + 1) : f[k] \in Int
    BY <1>1, <1>2 DEF PartialSums
  <2>2. \A k \in 1..(m + 1) : f[k] = f[k - 1] + DataLen[s[k]]
    BY <1>1, <1>2 DEF PartialSums
  <2>3. f[0] = 0 /\ f[m + 1] = n
    BY <1>1, <1>2 DEF PartialSums
  <2>4. f[1] = d
    BY <1>2, <1>3, <2>2, <2>3, SMT
  <2>5. ASSUME NEW k \in 1..m PROVE f[k + 1] = f[k] + DataLen[s[k + 1]]
    BY <1>2, <2>2, SMT
  <2>6. \A k \in 0..m : f[k + 1] \in Int
    BY <1>2, <2>1, SMT
  <2> QED BY <2>3, <2>4, <2>5, <2>6
<1>5. g \in [0..m -> Int] /\ \A k \in 0..m : g[k] = f[k + 1] - d
  BY <1>3, <1>4, SMT
<1> HIDE DEF g
<1>6. g[0] = 0 /\ g[m] = n - d
  BY <1>2, <1>3, <1>4, <1>5, SMT
<1>7. ASSUME NEW k \in 1..m PROVE g[k] = g[k - 1] + DataLen[t[k]]
  <2>1. k \in 0..m /\ k - 1 \in 0..m /\ (k - 1) + 1 = k
    BY <1>2, SMT
  <2>2. g[k] = f[k + 1] - d /\ g[k - 1] = f[k] - d
    BY <1>5, <2>1
  <2>3. f[k] \in Int /\ f[k + 1] \in Int
    BY <1>4, <2>1
  <2>4. f[k + 1] = f[k] + DataLen[t[k]]
    BY <1>2, <1>4
  <2>5. f[k + 1] - f[k] \in Int /\ DataLen[t[k]] = f[k + 1] - f[k]
    <3>1. t[k] \in Items
      BY <1>2, SMT DEF t
    <3> QED BY <2>3, <2>4, <3>1, QueueAssumption, SMT
  <2> QED BY <1>3, <2>2, <2>3, <2>5, SMT
<1>8. PartialSums(g, t)
  BY <1>2, <1>5, <1>6, <1>7 DEF PartialSums
<1> QED BY <1>2, <1>6, <1>8 DEF SumsTo, t, d

\* The size the queue keeps is the sum of what it holds.
Sized == SumsTo(Remaining, size)

\* The recursive function of SizeIsSum computes this sum.
LEMMA SizedIsSum == Inv /\ Sized => SizeIsSum
<1> SUFFICES ASSUME Inv, Sized PROVE SizeIsSum
  OBVIOUS
<1> DEFINE Step(f) == [k \in 0..cnt |->
               IF k = 0 THEN 0 ELSE f[k - 1] + DataLen[Remaining[k]]]
           sum == CHOOSE f : f = Step(f)
<1>1. Remaining \in Seq(Items) /\ Len(Remaining) = cnt /\ cnt \in Nat
  BY RemainingType
<1>2. \A k \in 1..cnt : DataLen[Remaining[k]] \in Nat
  BY <1>1, QueueAssumption, SMT
<1>3. PICK f : PartialSums(f, Remaining) /\ f[cnt] = size
  BY <1>1 DEF Sized, SumsTo
<1>4. f = Step(f)
  <2>1. f \in [0..cnt -> Int] /\ \A k \in 0..cnt : f[k] = Step(f)[k]
    BY <1>1, <1>3, SMT DEF PartialSums
  <2> QED BY <2>1
<1>5. sum = Step(sum)
  BY <1>4
<1> HIDE DEF sum
<1>6. PartialSums(sum, Remaining)
  <2>1. /\ DOMAIN sum = 0..cnt /\ sum[0] = 0
        /\ \A k \in 1..cnt : sum[k] = sum[k - 1] + DataLen[Remaining[k]]
    BY <1>1, <1>5, SMT
  <2> DEFINE S == {n \in Nat : n <= cnt => sum[n] \in Int}
  <2>2. 0 \in S
    BY <2>1, SMT
  <2>3. ASSUME NEW n \in Nat, n \in S PROVE n + 1 \in S
    <3>1. CASE n + 1 <= cnt
      <4>1. n + 1 \in 1..cnt /\ (n + 1) - 1 = n /\ sum[n] \in Int
        BY <1>1, <2>3, <3>1, SMT
      <4> QED BY <1>2, <2>1, <4>1, SMT
    <3>2. CASE ~ (n + 1 <= cnt)
      BY <3>2, SMT
    <3> QED BY <3>1, <3>2
  <2> HIDE DEF S
  <2>4. Nat \subseteq S
    BY <2>2, <2>3, SetInduction
  <2>5. \A k \in 0..cnt : sum[k] \in Int
    BY <1>1, <2>4, SMT DEF S
  <2>6. sum = [k \in 0..cnt |-> sum[k]]
    BY <1>5
  <2>7. sum \in [0..cnt -> Int]
    BY <2>5, <2>6
  <2> QED BY <1>1, <2>1, <2>7 DEF PartialSums
<1>7. sum[cnt] = size
  BY <1>1, <1>3, <1>6, SumUnique
<1> QED BY <1>7 DEF SizeIsSum, sum

\* Add, Remove and the two ways to close keep the size.
LEMMA SizedAdd ==
    ASSUME Inv, Sized, NEW i \in Items, Add(i)
    PROVE  Sized'
<1>1. Remaining \in Seq(Items) /\ size \in Int
  BY RemainingType DEF Inv, TypeOK
<1>2. Remaining' = Append(Remaining, i) /\ size' = size + DataLen[i]
  BY AddStep DEF Add
<1> QED BY <1>1, <1>2, SumAppend DEF Sized

LEMMA SizedRemove ==
    ASSUME Inv, Sized, Remove
    PROVE  Sized' /\ size' <= size
<1>1. Remaining \in Seq(Items) /\ size \in Int
  BY RemainingType DEF Inv, TypeOK
<1>2. /\ Remaining # <<>> /\ Remaining' = Tail(Remaining)
      /\ <<nodes[head]>> = <<Head(Remaining)>>
  BY RemoveStep DEF Remove
<1>3. size' = size - DataLen[Head(Remaining)]
  BY <1>2 DEF Remove
<1>4. DataLen[Head(Remaining)] \in Nat
  BY <1>1, <1>2, HeadTailProperties, QueueAssumption
<1>5. size' <= size
  BY <1>1, <1>3, <1>4, SMT
<1> QED BY <1>1, <1>2, <1>3, <1>5, SumTail DEF Sized

LEMMA SizedClose ==
    ASSUME Inv, Close \/ CloseRemaining
    PROVE  Sized' /\ size' = 0
<1>1. Remaining' = <<>> /\ size' = 0
  BY ClosingStep DEF Close, CloseRemaining, Discard
<1> QED BY <1>1, SumEmpty DEF Sized

LEMMA SizedUnchanged ==
    ASSUME Sized, UNCHANGED ring
    PROVE  Sized'
<1>1. Remaining' = Remaining /\ size' = size
  BY DEF ring, Remaining
<1> QED BY <1>1 DEF Sized

\* Size() is the sum of the sizes of the queued messages, for messages of any
\* sizes and however often the slice was moved.
THEOREM SizeTheorem == Spec => []SizeIsSum
<1>1. Init => Inv /\ Sized
  <2> SUFFICES ASSUME Init PROVE Sized
    BY QueueInit
  <2>1. Remaining = <<>> /\ size = 0
    BY SMT DEF Init, Remaining
  <2> QED BY <2>1, SumEmpty DEF Sized
<1>2. Inv /\ Sized /\ [Next]_qvars => Inv' /\ Sized'
  <2> SUFFICES ASSUME Inv, Sized, [Next]_qvars PROVE Inv' /\ Sized'
    OBVIOUS
  <2>1. Inv'
    BY QueueStep
  <2>2. Sized'
    BY SizedAdd, SizedRemove, SizedClose, SizedUnchanged DEF Next, Refuse, qvars
  <2> QED BY <2>1, <2>2
<1>3. Inv /\ Sized => SizeIsSum
  BY SizedIsSum
<1> QED BY <1>1, <1>2, <1>3, PTL DEF Spec

-----------------------------------------------------------------------------
(* Sequences.                                                                *)

\* Appending commutes with prepending a sequence.
LEMMA ConcatAppend ==
    ASSUME NEW S, NEW s \in Seq(S), NEW t \in Seq(S), NEW i \in S
    PROVE  s \o Append(t, i) = Append(s \o t, i)
<1>1. s \o Append(t, i) \in Seq(S) /\ Append(s \o t, i) \in Seq(S)
  BY SMT
<1>2. /\ Len(s \o Append(t, i)) = Len(Append(s \o t, i))
      /\ \A k \in 1..Len(s \o Append(t, i)) :
            (s \o Append(t, i))[k] = Append(s \o t, i)[k]
  BY SMT
<1>3. QED BY <1>1, <1>2, SeqEqual

\* The first of the second part may be counted to the first part.
LEMMA ConcatHead ==
    ASSUME NEW S, NEW s \in Seq(S), NEW t \in Seq(S), t # <<>>
    PROVE  s \o t = Append(s, Head(t)) \o Tail(t)
<1>1. /\ Head(t) \in S /\ Head(t) = t[1] /\ Tail(t) \in Seq(S)
      /\ Len(Tail(t)) = Len(t) - 1
      /\ \A k \in 1..Len(Tail(t)) : Tail(t)[k] = t[k + 1]
  BY HeadTailProperties, SMT
<1>2. /\ Append(s, Head(t)) \in Seq(S) /\ Len(Append(s, Head(t))) = Len(s) + 1
      /\ Append(s, Head(t))[Len(s) + 1] = t[1]
      /\ \A k \in 1..Len(s) : Append(s, Head(t))[k] = s[k]
  BY <1>1, SMT
<1> DEFINE a == Append(s, Head(t))
           u == Tail(t)
<1>3. a \o u \in Seq(S) /\ s \o t \in Seq(S)
  BY <1>1, <1>2, SMT
<1> HIDE DEF a, u
<1>4. Len(s \o t) = Len(a \o u)
  BY <1>1, <1>2, SMT DEF a, u
<1>5. ASSUME NEW k \in 1..Len(s \o t) PROVE (s \o t)[k] = (a \o u)[k]
  BY <1>1, <1>2, SMT DEF a, u
<1>6. QED BY <1>3, <1>4, <1>5, SeqEqual DEF a, u

LEMMA PrefixOfConcat ==
    ASSUME NEW S, NEW s \in Seq(S), NEW t \in Seq(S)
    PROVE  IsPrefix(s, s \o t)
<1>1. /\ SubSeq(s \o t, 1, Len(s)) \in Seq(S) /\ Len(s) <= Len(s \o t)
      /\ Len(SubSeq(s \o t, 1, Len(s))) = Len(s)
      /\ \A k \in 1..Len(s) : SubSeq(s \o t, 1, Len(s))[k] = s[k]
  BY SMT
<1>2. QED BY <1>1, SeqEqual DEF IsPrefix

LEMMA PrefixOfAppend ==
    ASSUME NEW S, NEW s \in Seq(S), NEW t \in Seq(S), NEW i \in S, IsPrefix(s, t)
    PROVE  IsPrefix(s, Append(t, i))
<1>1. Len(s) <= Len(t) /\ SubSeq(t, 1, Len(s)) = s
  BY DEF IsPrefix
<1>2. \A k \in 1..Len(s) : t[k] = s[k]
  BY <1>1, SMT
<1>3. /\ SubSeq(Append(t, i), 1, Len(s)) \in Seq(S)
      /\ Len(s) <= Len(Append(t, i))
      /\ Len(SubSeq(Append(t, i), 1, Len(s))) = Len(s)
      /\ \A k \in 1..Len(s) : SubSeq(Append(t, i), 1, Len(s))[k] = s[k]
  BY <1>1, <1>2, SMT
<1>4. QED BY <1>3, SeqEqual DEF IsPrefix

-----------------------------------------------------------------------------
(* What the steps of the writer do to the queue.                             *)

QueueMove ==
    \/ UNCHANGED qvars
    \/ \E i \in Items : Add(i)
    \/ Remove \/ Close \/ CloseRemaining

\* Every step of producers, writer goroutine and close does one operation of the
\* queue or leaves it alone.
LEMMA QueueMoves == [WNext]_wvars => QueueMove
<1> SUFFICES ASSUME [WNext]_wvars PROVE QueueMove
  OBVIOUS
<1>1. CASE ProducerStep
  <2>1. PICK p \in Producers :
          (\E m \in Messages : Enqueue(p, m)) \/ EnqueueClosed(p)
    BY <1>1 DEF ProducerStep
  <2>2. QED BY <2>1 DEF Enqueue, EnqueueClosed, QueueMove, Messages
<1>2. CASE SizeStep \/ \E r \in Reasons : Disconnect(r)
  BY <1>2 DEF SizeStep, CheckSize, Disconnect, QueueMove
<1>3. CASE WriterStep
  BY <1>3 DEF WriterStep, Wait, Delay, Lock, TakeFirst, CountMore, TakeMore,
              Write, QueueMove
<1>4. CASE CloseStep
  <2>1. CASE PushDisconnect
    BY <2>1, WriterAssumption DEF PushDisconnect, QueueMove
  <2>2. CASE \E r \in closing : BeginClose(r)
    BY <2>2 DEF BeginClose, QueueMove
  <2>3. CASE CloseLock \/ CloseQueue \/ Flush \/ CloseTransport
    BY <2>3 DEF CloseLock, CloseQueue, Flush, CloseTransport, QueueMove
  <2>4. QED BY <1>4, <2>1, <2>2, <2>3 DEF CloseStep
<1>5. CASE UNCHANGED wvars
  BY <1>5 DEF wvars, QueueMove
<1>6. QED BY <1>1, <1>2, <1>3, <1>4, <1>5 DEF WNext

LEMMA QueueMoveIsStep == QueueMove => [Next]_qvars
BY DEF QueueMove, Next

\* The queue keeps its invariant and its size whatever the writer does.
LEMMA QueueKeeps ==
    ASSUME Inv, Sized, QueueMove
    PROVE  Inv' /\ Sized'
<1>1. Inv'
  BY QueueStep, QueueMoveIsStep
<1>2. Sized'
  BY SizedAdd, SizedRemove, SizedClose, SizedUnchanged DEF QueueMove, qvars
<1>3. QED BY <1>1, <1>2

\* What a caller sees of the operations.
LEMMA AddEffect ==
    ASSUME Inv, NEW i \in Items, Add(i)
    PROVE  ~closed /\ ~closed' /\ Remaining' = Append(Remaining, i)
BY AddStep DEF Add

LEMMA RemoveEffect ==
    ASSUME Inv, Remove
    PROVE  /\ ~closed /\ ~closed' /\ Remaining # <<>>
           /\ nodes[head] = Head(Remaining) /\ Remaining' = Tail(Remaining)
<1>1. /\ Remaining # <<>> /\ Remaining' = Tail(Remaining)
      /\ ret' = <<Head(Remaining)>> /\ closed' = closed
  BY RemoveStep
<1>2. ret' = <<nodes[head]>> /\ cnt > 0
  BY DEF Remove
<1>3. ~closed
  BY <1>2, SMT DEF Inv, RingInv
<1>4. QED BY <1>1, <1>2, <1>3, SMT

LEMMA CloseEffect ==
    ASSUME Close \/ CloseRemaining
    PROVE  closed'
BY DEF Close, CloseRemaining, Discard

LEMMA QueueAlone ==
    ASSUME UNCHANGED qvars
    PROVE  closed' = closed /\ Remaining' = Remaining
BY DEF qvars, ring, Remaining

\* A closed queue is empty.
LEMMA ClosedIsEmpty ==
    ASSUME Inv, closed
    PROVE  cnt = 0
BY DEF Inv, RingInv

-----------------------------------------------------------------------------
(* Who is where.                                                             *)

\* The variables of the writer, apart from those of its queue.
WTypes ==
    /\ wpc \in {"wait", "asleep", "delay", "lock", "take", "count", "more",
                "write", "done"}
    /\ left \in Nat
    /\ mu \in {"free", "writer", "closer"}
    /\ status \in {"open", "closed"}
    /\ cpc \in {"idle", "push", "lock", "queue", "flush", "transport", "done"}
    /\ tclosed \in BOOLEAN /\ broken \in BOOLEAN
    /\ ppc \in [Producers -> {"idle", "size"}]

\* Every step keeps the types and WhoIsWhere.
LEMMA ProducerWho ==
    ASSUME Inv, WTypes, WhoIsWhere, ProducerStep \/ SizeStep
    PROVE  WTypes' /\ WhoIsWhere'
<1> USE DEF WTypes, WhoIsWhere, Taken, writer, closer
<1>1. ASSUME NEW p \in Producers, NEW m \in Messages, Enqueue(p, m)
      PROVE  WTypes' /\ WhoIsWhere'
  <2>1. ~closed /\ ~closed'
    BY <1>1, AddEffect DEF Enqueue, Messages
  <2>2. QED BY <1>1, <2>1 DEF Enqueue, Wake
<1>2. ASSUME NEW p \in Producers, EnqueueClosed(p) \/ CheckSize(p)
      PROVE  WTypes' /\ WhoIsWhere'
  <2>1. closed' = closed
    BY <1>2, QueueAlone DEF EnqueueClosed, CheckSize
  <2>2. QED BY <1>2, <2>1, SMT DEF EnqueueClosed, CheckSize
<1>3. QED BY <1>1, <1>2 DEF ProducerStep, SizeStep

LEMMA WriterWho ==
    ASSUME Inv, WTypes, WhoIsWhere, WriterStep
    PROVE  WTypes' /\ WhoIsWhere'
<1> USE DEF WTypes, WhoIsWhere, Taken, closer
<1>t. cnt \in Nat /\ (closed => cnt = 0)
  BY ClosedIsEmpty DEF Inv, TypeOK
<1>1. CASE Wait \/ Delay \/ Lock
  <2>1. closed' = closed
    BY <1>1, QueueAlone DEF Wait, Delay, Lock
  <2>2. QED BY <1>1, <2>1, SMT DEF Wait, Delay, Lock
<1>2. CASE TakeFirst
  <2>1. CASE cnt = 0
    <3>1. closed' = closed
      BY <1>2, <2>1, QueueAlone DEF TakeFirst
    <3>2. QED BY <1>2, <2>1, <3>1, SMT DEF TakeFirst, WLeave
  <2>2. CASE cnt # 0
    <3>1. ~closed /\ ~closed'
      BY <1>2, <2>2, RemoveEffect DEF TakeFirst
    <3>2. QED BY <1>2, <2>2, <3>1 DEF TakeFirst
  <2>3. QED BY <2>1, <2>2
<1>3. CASE CountMore
  <2>1. closed' = closed
    BY <1>3, QueueAlone DEF CountMore
  <2>2. QED BY <1>3, <1>t, <2>1 DEF CountMore
<1>4. CASE TakeMore
  <2>1. CASE UNCHANGED qvars
    <3>1. closed' = closed
      BY <2>1, QueueAlone
    <3>2. wpc = "more" /\ ~closed
      BY <1>4 DEF TakeMore
    <3>3. left' \in Nat /\ \/ wpc' = "write" /\ UNCHANGED <<batch, mu>>
                           \/ WLeave("done")
                           \/ wpc' = "more" /\ UNCHANGED mu
      BY <1>4, SMT DEF TakeMore, WLeave
    <3>4. QED BY <1>4, <3>1, <3>2, <3>3 DEF TakeMore, WLeave
  <2>2. CASE Remove
    <3>1. ~closed /\ ~closed'
      BY <2>2, RemoveEffect
    <3>2. QED BY <1>4, <3>1, SMT DEF TakeMore
  <2>3. QED BY <1>4, <2>1, <2>2 DEF TakeMore
<1>5. CASE Write
  <2>1. closed' = closed
    BY <1>5, QueueAlone DEF Write
  <2>2. broken' \in BOOLEAN
    BY <1>5 DEF Write
  <2>3. /\ wpc = "write" /\ WLeave(wpc') /\ wpc' \in {"wait", "done"}
        /\ UNCHANGED <<ppc, closer>>
    BY <1>5 DEF Write, WLeave
  <2>4. QED BY <2>1, <2>2, <2>3 DEF WLeave
<1> HIDE DEF WTypes, WhoIsWhere
<1>6. QED BY <1>1, <1>2, <1>3, <1>4, <1>5 DEF WriterStep

LEMMA CloseWho ==
    ASSUME Inv, WTypes, WhoIsWhere,
           CloseStep \/ (\E r \in Reasons : Disconnect(r)) \/ UNCHANGED wvars
    PROVE  WTypes' /\ WhoIsWhere'
<1> USE DEF WTypes, WhoIsWhere, Taken, writer
<1>1. ASSUME NEW r, BeginClose(r) \/ Disconnect(r)
      PROVE  WTypes' /\ WhoIsWhere'
  <2>1. closed' = closed
    BY <1>1, QueueAlone DEF BeginClose, Disconnect
  <2>2. QED BY <1>1, <2>1, SMT DEF BeginClose, Disconnect, closer
<1>2. CASE PushDisconnect
  <2>1. closed' <=> closed
    <3>1. CASE UNCHANGED qvars
      BY <3>1, QueueAlone, SMT
    <3>2. CASE Add(Bye)
      BY <3>2, AddEffect, WriterAssumption
    <3>3. QED BY <1>2, <3>1, <3>2 DEF PushDisconnect
  <2>2. QED BY <1>2, <2>1 DEF PushDisconnect, Wake
<1>3. CASE CloseLock \/ Flush \/ CloseTransport
  <2>1. closed' = closed
    BY <1>3, QueueAlone DEF CloseLock, Flush, CloseTransport
  <2>2. broken' \in BOOLEAN /\ tclosed' \in BOOLEAN
    BY <1>3 DEF CloseLock, Flush, CloseTransport
  <2>3. CASE Flush
    BY <2>1, <2>2, <2>3 DEF Flush
  <2>4. CASE CloseLock \/ CloseTransport
    BY <2>1, <2>2, <2>4 DEF CloseLock, CloseTransport
  <2>5. QED BY <1>3, <2>3, <2>4
<1>4. CASE CloseQueue
  <2>1. closed'
    BY <1>4, CloseEffect DEF CloseQueue
  <2>2. QED BY <1>4, <2>1 DEF CloseQueue, Wake
<1>5. CASE UNCHANGED wvars
  <2>1. closed' = closed
    BY <1>5, QueueAlone DEF wvars
  <2>2. QED BY <1>5, <2>1 DEF wvars, closer
<1> HIDE DEF WTypes, WhoIsWhere
<1>6. QED BY <1>1, <1>2, <1>3, <1>4, <1>5 DEF CloseStep

LEMMA WhoStep ==
    ASSUME Inv, WTypes, WhoIsWhere, [WNext]_wvars
    PROVE  WTypes' /\ WhoIsWhere'
BY ProducerWho, WriterWho, CloseWho DEF WNext

-----------------------------------------------------------------------------
(* Where what was accepted is.                                               *)

WData ==
    /\ batch \in Seq(Items) /\ remaining \in Seq(Items)
    /\ accepted \in Seq(Items) /\ written \in Seq(Items)

\* What a step that moves no message keeps.
LEMMA WhatFrame ==
    ASSUME WData, WhatIsWhere, UNCHANGED qvars,
           UNCHANGED <<accepted, written, batch, remaining, broken>>,
           closed => reason' = reason, (cpc' = "flush") = (cpc = "flush"),
           cpc = "flush" => closed
    PROVE  WData' /\ WhatIsWhere'
<1>1. closed' = closed /\ Remaining' = Remaining
  BY QueueAlone
<1>2. WData'
  BY DEF WData
<1>3. WhatIsWhere'
  BY <1>1 DEF WhatIsWhere, Flushes, IsPrefix
<1>4. QED BY <1>2, <1>3

\* A message that is accepted is the last of the queue.
LEMMA Accepts ==
    ASSUME Inv, WData, WhatIsWhere, WhoIsWhere', NEW i \in Items, Add(i),
           accepted' = Append(accepted, i),
           UNCHANGED <<written, batch, remaining, broken>>
    PROVE  WData' /\ WhatIsWhere'
<1>1. ~closed /\ ~closed' /\ Remaining' = Append(Remaining, i)
  BY AddEffect
<1>2. WData'
  BY SMT DEF WData
<1>3. Remaining \in Seq(Items) /\ written \o batch \in Seq(Items)
  BY RemainingType, SMT DEF WData
<1>4. IsPrefix(written, accepted)'
  <2>1. IsPrefix(written, Append(accepted, i))
    BY PrefixOfAppend DEF WData, WhatIsWhere
  <2>2. QED BY <2>1
<1>5. ~broken => accepted' = (written \o batch \o Remaining)'
  <2>1. (written \o batch) \o Append(Remaining, i)
           = Append(written \o batch \o Remaining, i)
    BY <1>3, ConcatAppend, SMT
  <2>2. QED BY <1>1, <2>1 DEF WhatIsWhere
<1>6. cpc' # "flush"
  BY <1>1 DEF WhoIsWhere
<1>7. QED BY <1>1, <1>2, <1>4, <1>5, <1>6 DEF WhatIsWhere

\* A message the goroutine takes is the first of the queue and becomes the last
\* of its batch.
LEMMA Takes ==
    ASSUME Inv, WData, WhatIsWhere, WhoIsWhere', Remove,
           batch' = Append(batch, nodes[head]),
           UNCHANGED <<accepted, written, remaining, broken>>
    PROVE  WData' /\ WhatIsWhere'
<1> DEFINE x == Head(Remaining)
           u == Tail(Remaining)
<1>1. /\ ~closed /\ ~closed' /\ Remaining # <<>>
      /\ nodes[head] = x /\ Remaining' = u
  BY RemoveEffect
<1>2. Remaining \in Seq(Items) /\ x \in Items /\ u \in Seq(Items)
  BY <1>1, RemainingType, HeadTailProperties
<1>3. WData'
  BY <1>1, <1>2, SMT DEF WData
<1>4. (written \o batch) \o Remaining = (written \o Append(batch, x)) \o u
  <2>1. written \o batch \in Seq(Items)
    BY SMT DEF WData
  <2>2. (written \o batch) \o Remaining = Append(written \o batch, x) \o u
    BY <1>1, <1>2, <2>1, ConcatHead
  <2>3. written \o Append(batch, x) = Append(written \o batch, x)
    BY <1>2, ConcatAppend, SMT DEF WData
  <2>4. QED BY <2>2, <2>3
<1> HIDE DEF x, u
<1>5. cpc' # "flush"
  BY <1>1 DEF WhoIsWhere
<1>6. QED BY <1>1, <1>3, <1>4, <1>5 DEF WhatIsWhere

\* The goroutine writes its batch.
LEMMA Writes ==
    ASSUME Inv, WData, WhoIsWhere, WhatIsWhere, WhoIsWhere', Write
    PROVE  WData' /\ WhatIsWhere'
<1>1. closed' = closed /\ Remaining' = Remaining /\ ~closed /\ cpc' # "flush"
  BY QueueAlone DEF Write, WhoIsWhere, Taken, closer
<1>2. batch' = <<>> /\ UNCHANGED <<accepted, remaining>>
  BY DEF Write, WLeave, closer
<1>3. CASE ~broken /\ written' = written \o batch /\ UNCHANGED broken
  <2>1. accepted = (written \o batch) \o Remaining
    BY <1>1, <1>3 DEF WhatIsWhere
  <2>2. Remaining \in Seq(Items) /\ written' \in Seq(Items)
    BY <1>3, RemainingType, SMT DEF WData
  <2>3. IsPrefix(written', accepted') /\ written' \o <<>> = written'
    BY <1>2, <1>3, <2>1, <2>2, PrefixOfConcat, ConcatEmptySeq
  <2>4. WData'
    BY <1>2, <2>2, SMT DEF WData
  <2>5. QED BY <1>1, <1>2, <1>3, <2>1, <2>3, <2>4 DEF WhatIsWhere
<1>4. CASE broken' /\ UNCHANGED written
  BY <1>1, <1>2, <1>4, SMT DEF WhatIsWhere, WData
<1>5. QED BY <1>3, <1>4 DEF Write

\* The queue is closed: what it held is flushed, or dropped.
LEMMA Closes ==
    ASSUME Inv, WData, WhoIsWhere, WhatIsWhere, CloseQueue
    PROVE  WData' /\ WhatIsWhere'
<1>1. /\ closed' /\ ~closed /\ cpc' = "flush" /\ batch = <<>>
      /\ UNCHANGED <<accepted, written, batch, broken, reason>>
  <2>1. closed'
    BY CloseEffect DEF CloseQueue
  <2>2. ~closed /\ batch = <<>>
    BY DEF CloseQueue, WhoIsWhere, Taken
  <2>3. QED BY <2>1, <2>2 DEF CloseQueue
<1>2. remaining' = IF Flushes(reason) THEN Remaining ELSE <<>>
  BY DEF CloseQueue
<1>3. Remaining \in Seq(Items) /\ written \o <<>> = written
  BY RemainingType, ConcatEmptySeq DEF WData
<1>4. WData'
  BY <1>1, <1>2, <1>3 DEF WData
<1>5. QED BY <1>1, <1>2, <1>3, <1>4 DEF WhatIsWhere, Flushes

\* What remained is written, or the write fails.
LEMMA Flushed ==
    ASSUME Inv, WData, WhoIsWhere, WhatIsWhere, Flush
    PROVE  WData' /\ WhatIsWhere'
<1>1. /\ closed /\ closed' = closed /\ cpc = "flush" /\ cpc' = "transport"
      /\ UNCHANGED <<accepted, batch, reason, remaining>>
  BY QueueAlone DEF Flush, WhoIsWhere, writer
<1>2. written \o <<>> = written
  BY ConcatEmptySeq DEF WData
<1>3. CASE /\ remaining = <<>> \/ ~broken
           /\ written' = written \o remaining /\ UNCHANGED broken
  <2>1. WData'
    BY <1>1, <1>3, SMT DEF WData
  <2>2. CASE remaining = <<>>
    BY <1>1, <1>2, <1>3, <2>1, <2>2 DEF WhatIsWhere, Flushes
  <2>3. CASE remaining # <<>>
    <3>1. ~broken /\ accepted = written \o remaining
      BY <1>1, <1>3, <2>3 DEF WhatIsWhere
    <3>2. IsPrefix(written', accepted')
      <4>1. IsPrefix(accepted, accepted \o <<>>) /\ accepted \o <<>> = accepted
        <5>1. accepted \in Seq(Items) /\ <<>> \in Seq(Items)
          BY SMT DEF WData
        <5>2. QED BY <5>1, PrefixOfConcat, ConcatEmptySeq
      <4>2. QED BY <1>1, <1>3, <3>1, <4>1
    <3>3. QED BY <1>1, <1>3, <2>1, <3>1, <3>2 DEF WhatIsWhere, Flushes
  <2>4. QED BY <2>2, <2>3
<1>4. CASE broken' /\ UNCHANGED written
  BY <1>1, <1>4 DEF WhatIsWhere, WData, Flushes
<1>5. QED BY <1>3, <1>4 DEF Flush

LEMMA WhatStep ==
    ASSUME Inv, WTypes, WData, WhoIsWhere, WhatIsWhere, WhoIsWhere',
           [WNext]_wvars
    PROVE  WData' /\ WhatIsWhere'
<1>f. ASSUME UNCHANGED qvars,
             UNCHANGED <<accepted, written, batch, remaining, broken>>,
             \/ UNCHANGED <<cpc, reason>>
             \/ cpc # "flush" /\ cpc' # "flush" /\ (closed => reason' = reason)
      PROVE  WData' /\ WhatIsWhere'
  BY <1>f, WhatFrame DEF WhoIsWhere
<1>1. ASSUME NEW p \in Producers, NEW m \in Messages, Enqueue(p, m)
      PROVE  WData' /\ WhatIsWhere'
  BY <1>1, Accepts DEF Enqueue, closer, Messages
<1>2. ASSUME NEW p \in Producers, EnqueueClosed(p) \/ CheckSize(p)
      PROVE  WData' /\ WhatIsWhere'
  BY <1>2, <1>f DEF EnqueueClosed, CheckSize, writer, closer
<1>3. CASE Wait \/ Delay \/ Lock \/ CountMore
  BY <1>3, <1>f DEF Wait, Delay, Lock, CountMore, writer, closer
<1>4. CASE TakeFirst
  <2>1. batch = <<>> /\ UNCHANGED <<accepted, written, closer, broken>>
    BY <1>4 DEF TakeFirst, WhoIsWhere, Taken
  <2>2. CASE cnt = 0
    BY <1>4, <2>1, <2>2, <1>f DEF TakeFirst, WLeave, closer
  <2>3. CASE cnt # 0
    <3>1. Remove /\ batch' = Append(batch, nodes[head])
      BY <1>4, <2>1, <2>3, SMT DEF TakeFirst
    <3>2. QED BY <2>1, <3>1, Takes DEF closer
  <2>4. QED BY <2>2, <2>3
<1>5. CASE TakeMore
  <2>1. ~closed /\ UNCHANGED <<accepted, written, closer, broken>>
    BY <1>5 DEF TakeMore, WhoIsWhere, Taken
  <2>2. CASE UNCHANGED qvars /\ UNCHANGED batch
    BY <2>1, <2>2, <1>f DEF closer
  <2>3. CASE Remove /\ batch' = Append(batch, nodes[head])
    BY <2>1, <2>3, Takes DEF closer
  <2>4. QED BY <1>5, <2>1, <2>2, <2>3 DEF TakeMore
<1>6. CASE Write
  BY <1>6, Writes
<1>7. ASSUME NEW r, BeginClose(r) \/ Disconnect(r)
      PROVE  WData' /\ WhatIsWhere'
  <2>1. /\ UNCHANGED qvars
        /\ UNCHANGED <<accepted, written, batch, remaining, broken>>
    BY <1>7 DEF BeginClose, Disconnect, writer, closer
  <2>2. \/ UNCHANGED <<cpc, reason>>
        \/ status = "open" /\ cpc # "flush" /\ cpc' = "push"
    BY <1>7 DEF BeginClose, Disconnect, closer, WhoIsWhere, WTypes
  <2>3. status = "open" => ~closed
    BY DEF WhoIsWhere
  <2>4. QED BY <2>1, <2>2, <2>3, <1>f
<1>8. CASE PushDisconnect
  <2>1. /\ cpc = "push" /\ cpc' = "lock"
        /\ UNCHANGED <<written, batch, remaining, broken, reason>>
    BY <1>8 DEF PushDisconnect
  <2>2. CASE UNCHANGED qvars /\ UNCHANGED accepted
    BY <2>1, <2>2, <1>f
  <2>3. CASE Add(Bye) /\ accepted' = Append(accepted, Bye)
    BY <2>1, <2>3, Accepts, WriterAssumption
  <2>4. QED BY <1>8, <2>2, <2>3 DEF PushDisconnect
<1>9. CASE CloseLock \/ CloseTransport
  BY <1>9, <1>f DEF CloseLock, CloseTransport, writer
<1>10. CASE CloseQueue \/ Flush
  BY <1>10, Closes, Flushed
<1>11. CASE UNCHANGED wvars
  BY <1>11, <1>f DEF wvars, writer, closer
<1>12. QED
  BY <1>1, <1>2, <1>3, <1>4, <1>5, <1>6, <1>7, <1>8, <1>9, <1>10, <1>11
  DEF WNext, ProducerStep, SizeStep, WriterStep, CloseStep

-----------------------------------------------------------------------------
(* A queue above its limit is noticed.                                       *)

Noticed ==
    MaxQueueSize > 0 /\ size > MaxQueueSize =>
       \/ \E p \in Producers : ppc[p] = "size"
       \/ "slow" \in closing
       \/ status = "closed"

LEMMA NoticedStep ==
    ASSUME Inv, Sized, WTypes, WhoIsWhere, Noticed, [WNext]_wvars
    PROVE  Noticed'
<1>t. size \in Int /\ MaxQueueSize \in Int
  BY WriterAssumption DEF Inv, TypeOK
<1>f. ASSUME size' \in Int, size' <= size,
             UNCHANGED ppc, closing \subseteq closing', UNCHANGED status
      PROVE  Noticed'
  BY <1>f, <1>t, SMT DEF Noticed
<1>s. ASSUME UNCHANGED qvars PROVE size' = size
  BY <1>s DEF qvars, ring
<1>1. ASSUME NEW p \in Producers, NEW m \in Messages, Enqueue(p, m)
      PROVE  Noticed'
  BY <1>1 DEF Enqueue, Noticed, WTypes
<1>2. ASSUME NEW p \in Producers, EnqueueClosed(p) PROVE Noticed'
  BY <1>2, <1>f, <1>s, <1>t, SMT DEF EnqueueClosed, closer
<1>3. ASSUME NEW p \in Producers, CheckSize(p) PROVE Noticed'
  BY <1>3, <1>s DEF CheckSize, Noticed, TooBig
<1>4. CASE WriterStep
  <2>1. UNCHANGED <<ppc, status>> /\ closing \subseteq closing'
    BY <1>4 DEF WriterStep, Wait, Delay, Lock, TakeFirst, CountMore, TakeMore,
                Write, closer
  <2>2. UNCHANGED qvars \/ Remove
    BY <1>4 DEF WriterStep, Wait, Delay, Lock, TakeFirst, CountMore, TakeMore,
                Write
  <2>3. CASE UNCHANGED qvars
    BY <2>1, <2>3, <1>f, <1>s, <1>t, SMT
  <2>4. CASE Remove
    <3>1. size' <= size
      BY <2>4, SizedRemove
    <3>2. size' \in Int
      BY <2>4, RemoveStep DEF Inv, TypeOK
    <3>3. QED BY <2>1, <3>1, <3>2, <1>f
  <2>5. QED BY <2>2, <2>3, <2>4
<1>5. CASE CloseStep \/ \E r \in Reasons : Disconnect(r)
  <2>1. ASSUME NEW r \in Reasons, Disconnect(r) PROVE Noticed'
    BY <2>1, <1>f, <1>s, <1>t, SMT DEF Disconnect, closer
  <2>2. ASSUME NEW r, BeginClose(r) PROVE Noticed'
    BY <2>2, <1>s DEF BeginClose, Noticed
  <2>3. CASE PushDisconnect \/ CloseLock \/ CloseQueue \/ Flush
             \/ CloseTransport
    <3>1. status' = status /\ cpc # "idle"
      BY <2>3 DEF PushDisconnect, CloseLock, CloseQueue, Flush, CloseTransport
    <3>2. status' = "closed"
      BY <3>1 DEF WhoIsWhere, WTypes
    <3>3. QED BY <3>2 DEF Noticed
  <2>4. QED BY <1>5, <2>1, <2>2, <2>3 DEF CloseStep
<1>6. CASE UNCHANGED wvars
  BY <1>6, <1>f, <1>s, <1>t, SMT DEF wvars, closer
<1>7. QED BY <1>1, <1>2, <1>3, <1>4, <1>5, <1>6
      DEF WNext, ProducerStep, SizeStep

-----------------------------------------------------------------------------
WInv ==
    Inv /\ Sized /\ WTypes /\ WData /\ WhoIsWhere /\ WhatIsWhere /\ Noticed

LEMMA WriterInit == WInit => WInv
<1> SUFFICES ASSUME WInit PROVE WInv
  OBVIOUS
<1>1. Inv
  BY QueueInit DEF WInit
<1>2. Remaining = <<>> /\ size = 0 /\ closed = FALSE
  BY SMT DEF WInit, Init, Remaining
<1>3. Sized
  BY <1>2, SumEmpty DEF Sized
<1>4. broken \in BOOLEAN /\ tclosed \in BOOLEAN
  BY DEF WInit
<1>5. WTypes /\ WData
  BY <1>4, SMT DEF WInit, WTypes, WData
<1>6. WhoIsWhere
  BY <1>2 DEF WInit, WhoIsWhere, Taken
<1>7. WhatIsWhere
  <2>1. <<>> \o <<>> = <<>> /\ IsPrefix(<<>>, <<>> \o <<>>)
    <3>1. <<>> \in Seq(Items)
      BY SMT
    <3>2. QED BY <3>1, ConcatEmptySeq, PrefixOfConcat
  <2>2. QED BY <1>2, <2>1 DEF WInit, WhatIsWhere
<1>8. Noticed
  BY <1>2, WriterAssumption, SMT DEF Noticed
<1>9. QED BY <1>1, <1>3, <1>5, <1>6, <1>7, <1>8 DEF WInv

LEMMA WriterInvStep ==
    ASSUME WInv, [WNext]_wvars
    PROVE  WInv'
<1>1. Inv' /\ Sized'
  BY QueueMoves, QueueKeeps DEF WInv
<1>2. WTypes' /\ WhoIsWhere'
  BY WhoStep DEF WInv
<1>3. WData' /\ WhatIsWhere'
  BY <1>2, WhatStep DEF WInv
<1>4. Noticed'
  BY NoticedStep DEF WInv
<1>5. QED BY <1>1, <1>2, <1>3, <1>4 DEF WInv

\* The inductive invariant, and with it the types, holds throughout.
THEOREM WriterTheorem == WSpec => [](WInv /\ WTypeOK)
<1>1. WInv => WTypeOK
  BY DEF WInv, WTypeOK, Inv, WTypes, WData
<1>2. WInv /\ [WNext]_wvars => WInv'
  BY WriterInvStep
<1>3. QED BY <1>1, <1>2, WriterInit, PTL DEF WSpec

\* The transport gets what was enqueued in order, nothing twice and nothing left
\* out in between, and after a close that flushes everything: for any number of
\* producers, frame size, write delay and limit (writer.go, Client.close).
THEOREM WrittenTheorem == WSpec => []WrittenInOrder
<1>1. WInv => WrittenInOrder
  <2> SUFFICES ASSUME WInv PROVE WrittenInOrder
    OBVIOUS
  <2>1. status = "open" => ~closed
    BY DEF WInv, WhoIsWhere
  <2>2. tclosed => closed /\ cpc # "flush"
    BY DEF WInv, WhoIsWhere
  <2>3. QED BY <2>1, <2>2 DEF WInv, WhatIsWhere, WrittenInOrder
<1>2. QED BY <1>1, WriterTheorem, PTL

\* A queue above MaxQueueSize is about to be noticed by the size check of
\* enqueue, or the client is to be disconnected; the size it compares is the sum
\* of what is queued.
THEOREM OverflowTheorem == WSpec => []OverflowIsNoticed
<1>1. WInv => OverflowIsNoticed
  BY SizedIsSum DEF WInv, Noticed, OverflowIsNoticed
<1>2. QED BY <1>1, WriterTheorem, PTL

\* What producers, writer goroutine and close do to the queue is what Fifo
\* allows, in any interleaving.
THEOREM WriterFifoTheorem == WSpec => FifoSpec
<1>1. WInit => F!Init
  BY QueueInit DEF WInit
<1>2. WInv /\ [WNext]_wvars => [F!Next]_(F!vars)
  BY QueueMoves, QueueMoveIsStep, QueueStep DEF WInv
<1>3. QED BY <1>1, <1>2, WriterTheorem, PTL DEF WSpec, FifoSpec, F!Spec

=============================================================================
