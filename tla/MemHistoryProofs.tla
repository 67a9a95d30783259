------------------------- MODULE MemHistoryProofs -------------------------
(***************************************************************************)
(* The memory broker keeps a broker's promises about history, and its      *)
(* cleanup goroutines will look at whatever has a deadline, for any        *)
(* channels, publishers, locks, sizes and times.  The inductive invariant  *)
(* MemInv says of each queue that it has one item for each deadline        *)
(* (Awaited), of each stream that it is the last one created (Latest), who *)
(* holds which lock (Held), and that the last publication of a stream was  *)
(* handed on or is the next one to be (InOrder).                           *)
(***************************************************************************)
EXTENDS MemHistory, FiniteSetTheorems, WellFoundedInduction, TLAPS

\* Zenon proves what only takes logic and sets; the leaves that need more say SMT.
USE Zenon

-----------------------------------------------------------------------------
(* The memory broker: its queues of deadlines                               *)

\* The configuration's numbers, taken apart.
LEMMA MemConstants ==
    /\ HistorySize \in Nat \ {0} /\ MetaTTL \in Nat \ {0} /\ ResultTTL \in Nat \ {0}
    /\ \A t \in HistoryTTLs : t \in Nat \ {0}
    /\ MaxNow \in Nat /\ "free" \notin Publishers /\ Retries \in BOOLEAN
  BY MemHistoryAssumption

\* One of the queues, with deadlines d, items i and the time c of its next check: every
\* deadline has one item, and none is looked at too late.
Awaited(d, i, c) ==
    /\ d \in [Channels -> Nat] /\ i \in SUBSET (Channels \X Nat) /\ c \in Nat
    /\ \A x \in i : /\ x[2] # 0 /\ d[x[1]] # 0
                    /\ c # 0 /\ c <= x[2]
    /\ \A x, y \in i : x[1] = y[1] => x = y
    /\ \A ch \in Channels : d[ch] # 0 => \E x \in i : x[1] = ch

QueuesInv ==
    /\ {DOMAIN deadline, DOMAIN items, DOMAIN check} = {Queues}
    /\ \A q \in Queues : Awaited(deadline[q], items[q], check[q])

\* The earliest of some times.
LEMMA Earliest ==
    ASSUME NEW S \in SUBSET Nat, S # {}
    PROVE  Min(S) \in S /\ \A y \in S : Min(S) <= y
<1>1. PICK x \in S : \A y \in S : ~(<<y, x>> \in OpToRel(<, Nat))
  BY NatLessThanWellFounded, WFMin
<1>2. \A y \in S : ~(y < x)
  BY <1>1 DEF OpToRel
<1>3. \A y \in S : x <= y
  BY <1>2, SMT
<1> QED BY <1>3 DEF Min

\* A deadline that is set or moved still has its one item.
LEMMA TouchedAwaited ==
    ASSUME NEW q \in Queues, Awaited(deadline[q], items[q], check[q]),
           NEW ch \in Channels, NEW t \in Nat \ {0}
    PROVE  /\ Awaited(Touched(q, ch, t).dl, Touched(q, ch, t).it, Touched(q, ch, t).ck)
           /\ Touched(q, ch, t).dl[ch] = t
           /\ \A c \in Channels : c # ch => Touched(q, ch, t).dl[c] = deadline[q][c]
<1> DEFINE d == deadline[q]
           i == items[q]
           c == check[q]
           d2 == Touched(q, ch, t).dl
           i2 == Touched(q, ch, t).it
           c2 == Touched(q, ch, t).ck
<1>1. /\ d2 = [d EXCEPT ![ch] = t]
      /\ i2 = IF d[ch] = 0 THEN i \cup {<<ch, t>>} ELSE i
      /\ c2 = IF c = 0 \/ c > t THEN t ELSE c
  BY DEF Touched
<1>2. Awaited(d, i, c)
  OBVIOUS
<1> HIDE DEF d, i, c, d2, i2, c2
<1>3. /\ d2 \in [Channels -> Nat] /\ d2[ch] = t /\ \A e \in Channels : e # ch => d2[e] = d[e]
  BY <1>1, <1>2 DEF Awaited
<1>4. i2 \in SUBSET (Channels \X Nat)
  BY <1>1, <1>2, SMT DEF Awaited
<1>5. c2 \in Nat /\ c2 # 0 /\ c2 <= t /\ (c # 0 => c2 <= c) /\ c \in Nat
  BY <1>1, <1>2, SMT DEF Awaited
<1>6. ASSUME NEW x \in i2 PROVE x[2] # 0 /\ d2[x[1]] # 0 /\ c2 # 0 /\ c2 <= x[2]
  <2>1. CASE x \in i
    <3>1. x[2] # 0 /\ d[x[1]] # 0 /\ c # 0 /\ c <= x[2] /\ x[1] \in Channels /\ x[2] \in Nat
      BY <1>2, <2>1 DEF Awaited
    <3>2. c2 <= x[2]
      BY <1>5, <3>1, SMT
    <3> QED BY <1>3, <1>5, <3>1, <3>2
  <2>2. CASE x = <<ch, t>>
    BY <1>3, <1>5, <2>2
  <2> QED BY <1>1, <2>1, <2>2
<1>7. ASSUME NEW x \in i2, NEW y \in i2, x[1] = y[1] PROVE x = y
  <2>1. CASE d[ch] # 0
    BY <1>1, <1>2, <1>7, <2>1 DEF Awaited
  <2>2. CASE d[ch] = 0
    <3>1. \A z \in i : z[1] # ch
      BY <1>2, <2>2 DEF Awaited
    <3> QED BY <1>1, <1>2, <1>7, <2>2, <3>1, SMT DEF Awaited
  <2> QED BY <2>1, <2>2
<1>8. ASSUME NEW e \in Channels, d2[e] # 0 PROVE \E x \in i2 : x[1] = e
  <2>1. CASE d[e] # 0
    <3>1. PICK x \in i : x[1] = e
      BY <1>2, <2>1 DEF Awaited
    <3> QED BY <1>1, <3>1
  <2>2. CASE d[e] = 0
    <3>1. e = ch
      BY <1>3, <1>8, <2>2
    <3>2. <<ch, t>> \in i2
      BY <1>1, <2>2, <3>1
    <3> QED BY <3>1, <3>2
  <2> QED BY <2>1, <2>2
<1>9. Awaited(d2, i2, c2)
  BY <1>3, <1>4, <1>5, <1>6, <1>7, <1>8 DEF Awaited
<1> QED BY <1>3, <1>9 DEF d, d2, i2, c2

\* A round of the cleanup goroutine takes the items of the deadlines it is done with,
\* and no others.
LEMMA SweptAwaited ==
    ASSUME NEW q \in Queues, Awaited(deadline[q], items[q], check[q]), now \in Nat
    PROVE  /\ Awaited(Swept(q).dl, Swept(q).it, Swept(q).ck)
           /\ Swept(q).dl = [ch \in Channels |->
                                 IF ch \in Done(q) THEN 0 ELSE deadline[q][ch]]
<1> DEFINE d == deadline[q]
           i == items[q]
           again == {<<x[1], d[x[1]]>> : x \in {y \in Due(q) : y[1] \notin Done(q)}}
           left == (i \ Due(q)) \cup again
           d2 == Swept(q).dl
           c2 == Swept(q).ck
<1>1. /\ d2 = [ch \in Channels |-> IF ch \in Done(q) THEN 0 ELSE d[ch]]
      /\ Swept(q).it = left
      /\ c2 = IF left = {} THEN 0 ELSE Min({x[2] : x \in left})
  BY DEF Swept
<1>2. Awaited(d, i, check[q])
  OBVIOUS
<1>3. Due(q) = {x \in i : x[2] <= now}
  BY DEF Due
<1>4. \A ch \in Done(q) : \E x \in Due(q) : x[1] = ch
  BY DEF Done
<1>5. \A x \in Due(q) : x[1] \notin Done(q) => ~(d[x[1]] <= now)
  BY DEF Done
<1> HIDE DEF d, i, d2, c2
<1>6. d2 \in [Channels -> Nat]
  <2>1. \A ch \in Channels : d[ch] \in Nat
    BY <1>2 DEF Awaited
  <2>2. 0 \in Nat
    BY SMT
  <2> QED BY <1>1, <2>1, <2>2
<1>7. ASSUME NEW x \in left
      PROVE  /\ x \in Channels \X Nat /\ x[2] # 0 /\ x[1] \notin Done(q) /\ d2[x[1]] # 0
             /\ x[1] \in Channels /\ x[2] \in Nat
  <2>1. CASE x \in i \ Due(q)
    <3>1. x[1] \notin Done(q)
      BY <1>2, <1>3, <1>4, <2>1, SMT DEF Awaited
    <3> QED BY <1>1, <1>2, <2>1, <3>1 DEF Awaited
  <2>2. CASE x \in again
    <3>1. PICK y \in Due(q) : y[1] \notin Done(q) /\ x = <<y[1], d[y[1]]>>
      BY <2>2
    <3>2. y[1] \in Channels /\ d[y[1]] \in Nat /\ d[y[1]] # 0
      BY <1>2, <1>3 DEF Awaited
    <3> QED BY <1>1, <3>1, <3>2
  <2> QED BY <2>1, <2>2
<1>8. ASSUME NEW x \in left, NEW y \in left, x[1] = y[1] PROVE x = y
  <2>1. CASE x \in i \ Due(q) /\ y \in i \ Due(q)
    BY <1>2, <1>8, <2>1 DEF Awaited
  <2>2. CASE x \in again /\ y \in again
    <3>1. PICK u \in Due(q) : x = <<u[1], d[u[1]]>>
      BY <2>2
    <3>2. PICK v \in Due(q) : y = <<v[1], d[v[1]]>>
      BY <2>2
    <3> QED BY <1>8, <3>1, <3>2
  <2>3. ASSUME NEW u \in i \ Due(q), NEW v \in again PROVE u[1] # v[1]
    <3>1. PICK w \in Due(q) : v = <<w[1], d[w[1]]>>
      OBVIOUS
    <3>2. w \in i /\ w # u /\ v[1] = w[1]
      BY <1>3, <3>1
    <3> QED BY <1>2, <3>2, SMT DEF Awaited
  <2> QED BY <1>8, <2>1, <2>2, <2>3
<1>9. ASSUME NEW ch \in Channels, d2[ch] # 0 PROVE \E x \in left : x[1] = ch
  <2>1. ch \notin Done(q) /\ d[ch] # 0
    BY <1>1, <1>9
  <2>2. PICK x \in i : x[1] = ch
    BY <1>2, <2>1 DEF Awaited
  <2>3. CASE x \in Due(q)
    <3>1. <<x[1], d[x[1]]>> \in left
      BY <2>1, <2>2, <2>3
    <3> QED BY <2>2, <3>1
  <2>4. CASE x \notin Due(q)
    BY <2>2, <2>4
  <2> QED BY <2>3, <2>4
<1> HIDE DEF left
<1>10. c2 \in Nat /\ \A x \in left : c2 # 0 /\ c2 <= x[2]
  <2>1. CASE left = {}
    <3>1. c2 = 0
      BY <1>1, <2>1
    <3> QED BY <2>1, <3>1, SMT
  <2>2. CASE left # {}
    <3> DEFINE S == {x[2] : x \in left}
    <3>1. S \in SUBSET Nat /\ S # {} /\ 0 \notin S
      BY <1>7, <2>2
    <3>2. c2 = Min(S)
      BY <1>1, <2>2
    <3> HIDE DEF c2
    <3>3. c2 \in S /\ \A y \in S : c2 <= y
      BY <3>1, <3>2, Earliest
    <3> QED BY <3>1, <3>3
  <2> QED BY <2>1, <2>2
<1>11. Awaited(d2, left, c2)
  <2>1. left \in SUBSET (Channels \X Nat)
    BY <1>7
  <2> QED BY <1>6, <1>7, <1>8, <1>9, <1>10, <2>1 DEF Awaited
<1> QED BY <1>1, <1>11 DEF d, d2, c2

\* Setting some of the queues leaves the others alone.
LEMMA QueuesSet ==
    ASSUME QueuesInv, NEW qs, SetQueues(qs),
           \A q \in DOMAIN qs : q \in Queues => Awaited(qs[q].dl, qs[q].it, qs[q].ck)
    PROVE  /\ QueuesInv'
           /\ \A q \in Queues : deadline'[q] = IF q \in DOMAIN qs THEN qs[q].dl ELSE deadline[q]
<1>1. /\ {DOMAIN deadline', DOMAIN items', DOMAIN check'} = {Queues}
      /\ \A q \in Queues : deadline'[q] = IF q \in DOMAIN qs THEN qs[q].dl ELSE deadline[q]
  BY DEF SetQueues
<1>2. ASSUME NEW q \in Queues PROVE Awaited(deadline'[q], items'[q], check'[q])
  <2>1. CASE q \in DOMAIN qs
    <3>1. deadline'[q] = qs[q].dl /\ items'[q] = qs[q].it /\ check'[q] = qs[q].ck
      BY <2>1 DEF SetQueues
    <3> QED BY <2>1, <3>1
  <2>2. CASE q \notin DOMAIN qs
    <3>1. deadline'[q] = deadline[q] /\ items'[q] = items[q] /\ check'[q] = check[q]
      BY <2>2 DEF SetQueues
    <3> QED BY <3>1 DEF QueuesInv
  <2> QED BY <2>1, <2>2
<1> QED BY <1>1, <1>2 DEF QueuesInv

-----------------------------------------------------------------------------
(* The memory broker: streams, locks and publications underway              *)

\* The types that the argument needs.
Stamp == [epoch : Nat, top : Nat]
MemTyped ==
    /\ now \in Nat
    /\ streams \in [Channels -> [epoch : Nat, top : Nat, list : Seq(Nat)]]
    /\ created \in [Channels -> Nat] /\ handled \in [Channels -> Stamp]
    /\ pubLock \in [{LockOf(ch) : ch \in Channels} -> Publishers \cup {"free"}]
    /\ pub \in [Publishers -> {Idle} \cup [pc : {"add", "save", "handle"}, ch : Channels,
                                           key : BOOLEAN, pos : Stamp]]

\* A stream is the last one that was created, and will be removed.
Latest ==
    \A ch \in Channels :
        IF streams[ch].epoch = 0 THEN streams[ch].top = 0 /\ streams[ch].list = <<>>
        ELSE streams[ch].epoch = created[ch] /\ deadline["remove"][ch] # 0

\* Who publishes has the channel's lock, and a position once there is one.
Held ==
    \A p \in Publishers :
        /\ At(p, "idle") \/ pubLock[LockOf(pub[p].ch)] = p
        /\ At(p, "add") => pub[p].pos = NoPos

\* Added to the history and not yet handed on.
Underway(p, ch) == pub[p].pc \in {"save", "handle"} /\ pub[p].ch = ch /\ pub[p].pos # NoPos

Follows(pos, last) ==
    \/ pos.epoch = last.epoch /\ pos.top = last.top + 1
    \/ pos.epoch > last.epoch /\ pos.top = 1

\* There is nothing in the stream after this position.
Newest(ch, pos) ==
    /\ pos.epoch <= created[ch]
    /\ streams[ch].epoch # 0 =>
           streams[ch].top = IF pos.epoch = streams[ch].epoch THEN pos.top ELSE 0

\* Nothing was left out: the last publication of the stream was handed on, or is
\* underway and the next one to be.
InOrder ==
    \A ch \in Channels :
        \/ Newest(ch, handled[ch]) /\ \A p \in Publishers : ~Underway(p, ch)
        \/ \E p \in Publishers : /\ Underway(p, ch) /\ Newest(ch, pub[p].pos)
                                 /\ Follows(pub[p].pos, handled[ch])

MemInv == MemTyped /\ QueuesInv /\ Latest /\ Held /\ AddedOnce /\ InOrder

\* What a step does for the event handlers.
Handles == \A ch \in Channels : handled'[ch] # handled[ch] => Follows(handled'[ch], handled[ch])
MemKept == MemInv' /\ [H!HNext]_H!hvars /\ Handles

\* What the steps of HistorySpec are, channel by channel.
Live(ch) == streams[ch].epoch # 0

\* Streams are emptied, as Expire has it.
LEMMA MemExpires ==
    ASSUME NEW chs \in SUBSET Channels, UNCHANGED created,
           \A ch \in Channels :
               /\ Live(ch)' <=> Live(ch)
               /\ streams'[ch].top = streams[ch].top
               /\ streams'[ch].list = IF ch \in chs THEN <<>> ELSE streams[ch].list
    PROVE  H!HNext
<1>1. [ch \in Channels |-> streams'[ch].list]
          = [ch \in Channels |->
                 IF ch \in chs THEN <<>> ELSE [c \in Channels |-> streams[c].list][ch]]
  OBVIOUS
<1>2. [ch \in Channels |-> streams'[ch].top] = [ch \in Channels |-> streams[ch].top]
  OBVIOUS
<1>3. [ch \in Channels |-> streams'[ch].epoch # 0] = [ch \in Channels |-> streams[ch].epoch # 0]
  BY DEF Live
<1>4. H!Expire(chs)
  BY <1>1, <1>2, <1>3 DEF H!Expire
<1> QED BY <1>4 DEF H!HNext

\* Streams are removed, as Forget has it.
LEMMA MemForgets ==
    ASSUME NEW chs \in SUBSET Channels, UNCHANGED created,
           \A ch \in Channels :
               /\ Live(ch)' <=> Live(ch) /\ ch \notin chs
               /\ streams'[ch].top = IF ch \in chs THEN 0 ELSE streams[ch].top
               /\ streams'[ch].list = IF ch \in chs THEN <<>> ELSE streams[ch].list
    PROVE  H!HNext
<1>1. [ch \in Channels |-> streams'[ch].list]
          = [ch \in Channels |->
                 IF ch \in chs THEN <<>> ELSE [c \in Channels |-> streams[c].list][ch]]
  OBVIOUS
<1>2. [ch \in Channels |-> streams'[ch].top]
          = [ch \in Channels |->
                 IF ch \in chs THEN 0 ELSE [c \in Channels |-> streams[c].top][ch]]
  OBVIOUS
<1>3. [ch \in Channels |-> streams'[ch].epoch # 0]
          = [ch \in Channels |->
                 [c \in Channels |-> streams[c].epoch # 0][ch] /\ ch \notin chs]
  BY DEF Live
<1>4. H!Forget(chs)
  BY <1>1, <1>2, <1>3 DEF H!Forget
<1> QED BY <1>4 DEF H!HNext

\* A stream is created with n publications, of which l is kept.
Begins(ch, n, l) ==
    /\ created \in [Channels -> Nat] /\ created' = [created EXCEPT ![ch] = created[ch] + 1]
    /\ ~Live(ch) /\ Live(ch)'
    /\ streams'[ch].top = n /\ streams'[ch].list = l
    /\ \A c \in Channels : c # ch => streams'[c] = streams[c]

\* Which is a step Begin.
LEMMA MemBegins ==
    ASSUME NEW ch \in Channels, NEW first \in {<<>>, << 1 >>}, NEW s \in {<<>>, << 1 >>},
           Len(s) <= Len(first), Begins(ch, Len(first), s)
    PROVE  H!HNext
<1> DEFINE live == [c \in Channels |-> streams[c].epoch # 0]
           top == [c \in Channels |-> streams[c].top]
           kept == [c \in Channels |-> streams[c].list]
<1>1. [c \in Channels |-> streams'[c].list] = [kept EXCEPT ![ch] = s]
  BY DEF Begins
<1>2. [c \in Channels |-> streams'[c].top] = [top EXCEPT ![ch] = Len(first)]
  BY DEF Begins
<1>3. [c \in Channels |-> streams'[c].epoch # 0] = [live EXCEPT ![ch] = TRUE] /\ ~live[ch]
  BY DEF Begins, Live
<1>4. H!Begin(ch)
  BY <1>1, <1>2, <1>3 DEF H!Begin, Begins
<1> QED BY <1>4 DEF H!HNext

\* A stream gets the next publication, l is kept.
Adds(ch, l) ==
    /\ created' = created /\ Live(ch) /\ Live(ch)'
    /\ streams'[ch].top = streams[ch].top + 1 /\ streams'[ch].list = l
    /\ \A c \in Channels : c # ch => streams'[c] = streams[c]

\* Which is a step Add.
LEMMA MemAdds ==
    ASSUME NEW ch \in Channels,
           NEW k \in 1..Len(Append(streams[ch].list, streams[ch].top + 1)) + 1,
           Adds(ch, SubSeq(Append(streams[ch].list, streams[ch].top + 1), k,
                           Len(Append(streams[ch].list, streams[ch].top + 1))))
    PROVE  H!HNext
<1> DEFINE live == [c \in Channels |-> streams[c].epoch # 0]
           top == [c \in Channels |-> streams[c].top]
           kept == [c \in Channels |-> streams[c].list]
<1>1. [c \in Channels |-> streams'[c].list] = [kept EXCEPT ![ch] = streams'[ch].list]
  BY DEF Adds
<1>2. [c \in Channels |-> streams'[c].top] = [top EXCEPT ![ch] = top[ch] + 1]
  BY DEF Adds
<1>3. [c \in Channels |-> streams'[c].epoch # 0] = live /\ live[ch]
  BY DEF Adds, Live
<1>4. streams'[ch].list \in H!Tails(Append(kept[ch], top[ch] + 1))
  BY DEF H!Tails, Adds
<1>5. H!Add(ch)
  BY <1>1, <1>2, <1>3, <1>4 DEF H!Add, Adds
<1> QED BY <1>5 DEF H!HNext

\* A stream whose list is replaced.
LEMMA NewList ==
    ASSUME NEW s \in [epoch : Nat, top : Nat, list : Seq(Nat)], NEW l \in Seq(Nat)
    PROVE  /\ [s EXCEPT !.list = l] \in [epoch : Nat, top : Nat, list : Seq(Nat)]
           /\ [s EXCEPT !.list = l].epoch = s.epoch /\ [s EXCEPT !.list = l].top = s.top
           /\ [s EXCEPT !.list = l].list = l
  OBVIOUS

\* A publisher at work has a channel, and its lock; no other has.
LEMMA AtWork ==
    ASSUME MemTyped, Held, NEW p \in Publishers, ~At(p, "idle")
    PROVE  /\ pub[p] \in [pc : {"add", "save", "handle"}, ch : Channels,
                          key : BOOLEAN, pos : Stamp]
           /\ pub[p].ch \in Channels /\ pub[p].pos \in Stamp /\ pub[p].key \in BOOLEAN
           /\ pub[p].pc \in {"add", "save", "handle"}
           /\ \A r \in Publishers : ~At(r, "idle") /\ pub[r].ch = pub[p].ch => r = p
<1>1. pub[p] \in [pc : {"add", "save", "handle"}, ch : Channels, key : BOOLEAN, pos : Stamp]
  BY SMT DEF MemTyped, At, Idle
<1> QED BY <1>1 DEF Held

\* Steps that only expire streams, or leave them alone, change nothing in the order.
LEMMA OrderFrame ==
    ASSUME InOrder, UNCHANGED <<created, handled, pub>>,
           \A ch \in Channels : \/ streams'[ch].epoch = 0
                                \/ /\ streams'[ch].epoch = streams[ch].epoch
                                   /\ streams'[ch].top = streams[ch].top
    PROVE  InOrder'
<1>1. ASSUME NEW ch \in Channels, NEW pos, Newest(ch, pos) PROVE Newest(ch, pos)'
  BY <1>1 DEF Newest
<1> SUFFICES ASSUME NEW ch \in Channels
             PROVE \/ Newest(ch, handled[ch])' /\ \A p \in Publishers : ~Underway(p, ch)'
                   \/ \E p \in Publishers : /\ Underway(p, ch)' /\ Newest(ch, pub[p].pos)'
                                            /\ Follows(pub[p].pos, handled[ch])'
  BY DEF InOrder
<1>2. CASE Newest(ch, handled[ch]) /\ \A p \in Publishers : ~Underway(p, ch)
  <2>1. Newest(ch, handled[ch])'
    BY <1>1, <1>2 DEF Newest
  <2> QED BY <1>2, <2>1 DEF Underway
<1>3. ASSUME NEW p \in Publishers, Underway(p, ch), Newest(ch, pub[p].pos),
             Follows(pub[p].pos, handled[ch])
      PROVE  Underway(p, ch)' /\ Newest(ch, pub[p].pos)' /\ Follows(pub[p].pos, handled[ch])'
  BY <1>3 DEF Underway, Newest, Follows
<1> QED BY <1>2, <1>3 DEF InOrder

\* Time passes, and what changes nothing.
LEMMA MemStutters ==
    ASSUME MemInv, now' \in Nat,
           UNCHANGED <<hist, queues, pubLock, pub, handled>>
    PROVE  MemKept
<1>1. UNCHANGED <<streams, created, deadline, items, check, pubLock, pub, handled>>
  BY DEF hist, queues
<1>2. MemTyped' /\ QueuesInv' /\ Latest' /\ Held' /\ AddedOnce'
  BY <1>1 DEF MemInv, MemTyped, QueuesInv, Latest, Held, AddedOnce, At
<1>3. InOrder'
  BY <1>1, OrderFrame DEF MemInv
<1>4. UNCHANGED H!hvars
  BY <1>1 DEF H!hvars
<1> QED BY <1>1, <1>2, <1>3, <1>4 DEF MemKept, MemInv, Handles

\* A round of a goroutine sets the deadlines it is done with to 0.
LEMMA SweepEffect ==
    ASSUME MemInv, NEW q \in Queues, Sweep(q)
    PROVE  /\ QueuesInv' /\ UNCHANGED <<now, created, pubLock, pub, handled>>
           /\ \A r \in Queues, ch \in Channels :
                  deadline'[r][ch] = IF r = q /\ ch \in Done(q) THEN 0 ELSE deadline[r][ch]
           /\ Done(q) \in SUBSET Channels /\ Held'
<1> DEFINE qs == [x \in {q} |-> Swept(q)]
<1>1. DOMAIN qs = {q} /\ qs[q] = Swept(q) /\ SetQueues(qs)
  BY DEF Sweep
<1>2. /\ Awaited(Swept(q).dl, Swept(q).it, Swept(q).ck)
      /\ Swept(q).dl = [ch \in Channels |-> IF ch \in Done(q) THEN 0 ELSE deadline[q][ch]]
  BY SweptAwaited DEF MemInv, MemTyped, QueuesInv
<1> HIDE DEF qs
<1>3. /\ QueuesInv'
      /\ \A r \in Queues : deadline'[r] = IF r \in DOMAIN qs THEN qs[r].dl ELSE deadline[r]
  BY <1>1, <1>2, QueuesSet DEF MemInv
<1>4. UNCHANGED <<now, created, pubLock, pub, handled>>
  BY DEF Sweep
<1>5. Held'
  BY <1>4 DEF MemInv, Held, At
<1>6. Done(q) \in SUBSET Channels
  <2>1. items[q] \in SUBSET (Channels \X Nat)
    BY DEF MemInv, QueuesInv, Awaited
  <2> QED BY <2>1 DEF Done, Due
<1> QED BY <1>1, <1>2, <1>3, <1>4, <1>5, <1>6, SMT

\* expireStreams empties streams, removeStreams forgets them.
LEMMA SweepKept ==
    ASSUME MemInv, ExpireStreams \/ RemoveStreams \/ ExpireResultCache
    PROVE  MemKept
<1>q. "expire" \in Queues /\ "remove" \in Queues /\ "result" \in Queues
  BY DEF Queues
<1>t. /\ streams \in [Channels -> [epoch : Nat, top : Nat, list : Seq(Nat)]]
      /\ <<>> \in Seq(Nat) /\ 0 \in Nat
  BY SMT DEF MemInv, MemTyped
<1>1. CASE ExpireStreams
  <2> DEFINE done == Done("expire")
  <2>1. /\ QueuesInv' /\ UNCHANGED <<now, created, pubLock, pub, handled>>
        /\ \A r \in Queues, ch \in Channels :
               deadline'[r][ch] = IF r = "expire" /\ ch \in done THEN 0 ELSE deadline[r][ch]
        /\ done \in SUBSET Channels /\ Held'
    BY <1>1, <1>q, SweepEffect DEF ExpireStreams
  <2>2. streams' = [ch \in Channels |-> IF ch \in done THEN [streams[ch] EXCEPT !.list = <<>>]
                                        ELSE streams[ch]]
    BY <1>1 DEF ExpireStreams
  <2> HIDE DEF done
  <2>3. \A ch \in Channels :
            /\ streams'[ch] \in [epoch : Nat, top : Nat, list : Seq(Nat)]
            /\ streams'[ch].epoch = streams[ch].epoch /\ streams'[ch].top = streams[ch].top
            /\ streams'[ch].list = IF ch \in done THEN <<>> ELSE streams[ch].list
    <3> TAKE ch \in Channels
    <3>1. CASE ch \in done
      <4>1. streams'[ch] = [streams[ch] EXCEPT !.list = <<>>]
        BY <2>2, <3>1
      <4> QED BY <1>t, <3>1, <4>1, NewList
    <3>2. CASE ch \notin done
      BY <1>t, <2>2, <3>2
    <3> QED BY <3>1, <3>2
  <2>4. MemTyped'
    BY <2>1, <2>2, <2>3 DEF MemInv, MemTyped
  <2>5. Latest' /\ AddedOnce'
    <3>1. \A ch \in Channels : /\ deadline'["remove"][ch] = deadline["remove"][ch]
                               /\ deadline'["result"][ch] = deadline["result"][ch]
      BY <1>q, <2>1
    <3>2. Latest'
      BY <2>1, <2>3, <3>1, SMT DEF MemInv, Latest
    <3>3. \A p \in Publishers : ~At(p, "idle") => pub[p].ch \in Channels
      BY AtWork DEF MemInv
    <3> QED BY <2>1, <3>1, <3>2, <3>3 DEF MemInv, AddedOnce, At
  <2>6. InOrder'
    BY <2>1, <2>3, OrderFrame DEF MemInv
  <2>8. H!HNext
    <3>1. \A ch \in Channels :
              /\ Live(ch)' <=> Live(ch)
              /\ streams'[ch].top = streams[ch].top
              /\ streams'[ch].list = IF ch \in done THEN <<>> ELSE streams[ch].list
      BY <2>3 DEF Live
    <3> QED BY <2>1, <3>1, MemExpires
  <2> QED BY <2>1, <2>4, <2>5, <2>6, <2>8 DEF MemKept, MemInv, Handles
<1>2. CASE RemoveStreams
  <2> DEFINE done == Done("remove")
  <2>1. /\ QueuesInv' /\ UNCHANGED <<now, created, pubLock, pub, handled>>
        /\ \A r \in Queues, ch \in Channels :
               deadline'[r][ch] = IF r = "remove" /\ ch \in done THEN 0 ELSE deadline[r][ch]
        /\ done \in SUBSET Channels /\ Held'
    BY <1>2, <1>q, SweepEffect DEF RemoveStreams
  <2>2. streams' = [ch \in Channels |-> IF ch \in done THEN None ELSE streams[ch]]
    BY <1>2 DEF RemoveStreams
  <2> HIDE DEF done
  <2>n. None \in [epoch : Nat, top : Nat, list : Seq(Nat)]
        /\ None.epoch = 0 /\ None.top = 0 /\ None.list = <<>>
    BY <1>t DEF None
  <2>3. \A ch \in Channels :
            /\ streams'[ch] \in [epoch : Nat, top : Nat, list : Seq(Nat)]
            /\ streams'[ch] = IF ch \in done THEN None ELSE streams[ch]
    BY <1>t, <2>n, <2>2
  <2>4. MemTyped'
    BY <2>1, <2>2, <2>3 DEF MemInv, MemTyped
  <2>5. Latest' /\ AddedOnce'
    <3>1. \A ch \in Channels :
              /\ ch \notin done => deadline'["remove"][ch] = deadline["remove"][ch]
              /\ deadline'["result"][ch] = deadline["result"][ch]
      BY <1>q, <2>1
    <3>2. Latest'
      BY <2>1, <2>3, <2>n, <3>1, SMT DEF MemInv, Latest
    <3>3. \A p \in Publishers : ~At(p, "idle") => pub[p].ch \in Channels
      BY AtWork DEF MemInv
    <3> QED BY <2>1, <3>1, <3>2, <3>3 DEF MemInv, AddedOnce, At
  <2>6. InOrder'
    BY <2>1, <2>3, <2>n, OrderFrame DEF MemInv
  <2>8. H!HNext
    <3>1. \A ch \in Channels :
              /\ Live(ch)' <=> Live(ch) /\ ch \notin done
              /\ streams'[ch].top = IF ch \in done THEN 0 ELSE streams[ch].top
              /\ streams'[ch].list = IF ch \in done THEN <<>> ELSE streams[ch].list
      BY <2>3, <2>n DEF Live
    <3> QED BY <2>1, <3>1, MemForgets
  <2> QED BY <2>1, <2>4, <2>5, <2>6, <2>8 DEF MemKept, MemInv, Handles
<1>3. CASE ExpireResultCache
  <2>1. /\ QueuesInv' /\ UNCHANGED <<now, created, pubLock, pub, handled>>
        /\ \A r \in Queues, ch \in Channels :
               deadline'[r][ch] = IF r = "result" /\ ch \in Done("result") THEN 0
                                  ELSE deadline[r][ch]
        /\ Held'
    BY <1>3, <1>q, SweepEffect DEF ExpireResultCache
  <2>2. UNCHANGED streams
    BY <1>3 DEF ExpireResultCache
  <2>3. MemTyped' /\ Latest'
    <3>1. \A ch \in Channels : deadline'["remove"][ch] = deadline["remove"][ch]
      BY <1>q, <2>1
    <3> QED BY <2>1, <2>2, <3>1 DEF MemInv, MemTyped, Latest
  <2>4. AddedOnce'
    <3>1. \A ch \in Channels : deadline'["result"][ch] \in {0, deadline["result"][ch]}
      BY <1>q, <2>1
    <3>2. \A p \in Publishers : ~At(p, "idle") => pub[p].ch \in Channels
      BY AtWork DEF MemInv
    <3> QED BY <2>1, <3>1, <3>2 DEF MemInv, AddedOnce, At
  <2>5. InOrder'
    BY <2>1, <2>2, OrderFrame DEF MemInv
  <2>6. UNCHANGED H!hvars
    BY <2>1, <2>2 DEF H!hvars
  <2> QED BY <2>1, <2>3, <2>4, <2>5, <2>6 DEF MemKept, MemInv, Handles
<1> QED BY <1>1, <1>2, <1>3

\* Publish takes the channel's lock, and goes on only without a cached result.
LEMMA LockKept ==
    ASSUME MemInv, NEW p \in Publishers, NEW ch \in Channels, NEW key \in {FALSE, Retries},
           PublishLock(p, ch, key)
    PROVE  MemKept
<1> DEFINE new == [pc |-> "add", ch |-> ch, key |-> key, pos |-> NoPos]
<1>1. /\ At(p, "idle") /\ pubLock[LockOf(ch)] = "free"
      /\ key => deadline["result"][ch] = 0
      /\ pubLock' = [pubLock EXCEPT ![LockOf(ch)] = p]
      /\ pub' = [pub EXCEPT ![p] = new]
      /\ UNCHANGED <<now, streams, created, deadline, items, check, handled>>
  BY DEF PublishLock, hist, queues
<1>2. /\ new.pc = "add" /\ new.ch = ch /\ new.key = key /\ new.pos = NoPos
      /\ new \in [pc : {"add", "save", "handle"}, ch : Channels, key : BOOLEAN, pos : Stamp]
  <2>1. key \in BOOLEAN
    BY MemConstants
  <2>2. NoPos \in Stamp
    BY SMT DEF NoPos, Stamp
  <2> QED BY <2>1, <2>2
<1> HIDE DEF new
<1>3. /\ LockOf(ch) \in {LockOf(c) : c \in Channels} /\ pub'[p] = new
      /\ \A r \in Publishers : r # p => pub'[r] = pub[r]
      /\ pubLock'[LockOf(ch)] = p
      /\ \A c \in Channels : LockOf(c) # LockOf(ch) => pubLock'[LockOf(c)] = pubLock[LockOf(c)]
  BY <1>1 DEF MemInv, MemTyped
<1>4. MemTyped' /\ QueuesInv' /\ Latest'
  BY <1>1, <1>2 DEF MemInv, MemTyped, QueuesInv, Latest
<1>5. ASSUME NEW r \in Publishers, r # p, ~At(r, "idle")
      PROVE  pub[r].ch \in Channels /\ pubLock'[LockOf(pub[r].ch)] = r
  <2>1. pub[r].ch \in Channels /\ pubLock[LockOf(pub[r].ch)] = r
    BY <1>5, AtWork DEF MemInv, Held
  <2> QED BY <1>1, <1>3, <2>1, MemConstants
<1>6. Held'
  BY <1>2, <1>3, <1>5, SMT DEF MemInv, Held, At
<1>7. AddedOnce'
  BY <1>1, <1>2, <1>3, SMT DEF MemInv, AddedOnce
<1>8. InOrder'
  <2>1. \A r \in Publishers, c \in Channels :
            /\ Underway(r, c)' <=> Underway(r, c)
            /\ Underway(r, c) => r # p /\ pub'[r] = pub[r]
    BY <1>1, <1>2, <1>3 DEF Underway, At
  <2> QED BY <1>1, <2>1, SMT DEF MemInv, InOrder, Newest, Follows
<1>9. UNCHANGED H!hvars
  BY <1>1 DEF H!hvars
<1> QED BY <1>1, <1>4, <1>6, <1>7, <1>8, <1>9, SMT DEF MemKept, MemInv, Handles

\* Between the lock and the broadcast: a publication without history, or one whose
\* result is being saved.
LEMMA GoesOn ==
    ASSUME MemInv, NEW p \in Publishers, NEW pc \in {"save", "handle"},
           ~At(p, "idle"), pc = "save" => At(p, "add"), pc = "handle" => ~At(p, "handle"),
           pub' = [pub EXCEPT ![p].pc = pc],
           UNCHANGED <<now, streams, created, pubLock, handled>>, QueuesInv',
           \A ch \in Channels : deadline'["remove"][ch] = deadline["remove"][ch],
           \A ch \in Channels : \/ deadline'["result"][ch] = deadline["result"][ch]
                                \/ pc = "handle" /\ ch = pub[p].ch
    PROVE  MemKept
<1>1. /\ pub[p] \in [pc : {"add", "save", "handle"}, ch : Channels, key : BOOLEAN, pos : Stamp]
      /\ pub[p].pc \in {"add", "save", "handle"} /\ pub[p].ch \in Channels
      /\ \A r \in Publishers : ~At(r, "idle") /\ pub[r].ch = pub[p].ch => r = p
  BY AtWork DEF MemInv
<1>2. /\ pub'[p].pc = pc /\ pub'[p].ch = pub[p].ch /\ pub'[p].key = pub[p].key
      /\ pub'[p].pos = pub[p].pos
      /\ pub'[p] \in [pc : {"add", "save", "handle"}, ch : Channels, key : BOOLEAN, pos : Stamp]
      /\ \A r \in Publishers : r # p => pub'[r] = pub[r]
  <2>1. pub'[p] = [pub[p] EXCEPT !.pc = pc] /\ \A r \in Publishers : r # p => pub'[r] = pub[r]
    BY DEF MemInv, MemTyped
  <2>2. pc \in {"add", "save", "handle"}
    OBVIOUS
  <2> QED BY <1>1, <2>1, <2>2, SMT
<1>3. MemTyped' /\ Latest'
  <2>1. pub' \in [Publishers -> {Idle} \cup [pc : {"add", "save", "handle"}, ch : Channels,
                                            key : BOOLEAN, pos : Stamp]]
    BY <1>2 DEF MemInv, MemTyped
  <2> QED BY <2>1 DEF MemInv, MemTyped, Latest
<1>4. Held'
  BY <1>1, <1>2, SMT DEF MemInv, Held, At
<1>5. AddedOnce'
  <2>1. ASSUME NEW r \in Publishers, pub'[r].pc \in {"add", "save"}, pub'[r].key
        PROVE  deadline'["result"][pub'[r].ch] = 0
    <3>1. CASE r = p
      <4>1. pc = "save"
        BY <1>2, <2>1, <3>1
      <4>2. deadline["result"][pub[p].ch] = 0
        BY <1>2, <2>1, <3>1, <4>1 DEF MemInv, AddedOnce, At
      <4> QED BY <1>1, <1>2, <3>1, <4>1, <4>2, SMT
    <3>2. CASE r # p
      <4>1. pub'[r] = pub[r] /\ ~At(r, "idle")
        BY <1>2, <2>1, <3>2 DEF At
      <4>2. pub[r].ch \in Channels /\ pub[r].ch # pub[p].ch
        BY <1>1, <3>2, <4>1, AtWork DEF MemInv
      <4>3. deadline["result"][pub[r].ch] = 0
        BY <2>1, <4>1 DEF MemInv, AddedOnce
      <4> QED BY <4>1, <4>2, <4>3
    <3> QED BY <3>1, <3>2
  <2> QED BY <2>1 DEF AddedOnce
<1>6. InOrder'
  <2>1. \A r \in Publishers, c \in Channels : Underway(r, c)' <=> Underway(r, c)
    BY <1>1, <1>2, SMT DEF MemInv, Held, Underway, At
  <2>2. \A r \in Publishers : pub'[r].pos = pub[r].pos
    BY <1>2
  <2> QED BY <2>1, <2>2, SMT DEF MemInv, InOrder, Newest, Follows
<1>7. UNCHANGED H!hvars
  BY DEF H!hvars
<1> QED BY <1>3, <1>4, <1>5, <1>6, <1>7 DEF MemKept, MemInv, Handles

\* Publish without history.
LEMMA SkipKept ==
    ASSUME MemInv, NEW p \in Publishers, SkipHistory(p)
    PROVE  MemKept
<1> DEFINE pc == IF pub[p].key THEN "save" ELSE "handle"
<1>1. /\ At(p, "add") /\ pub' = [pub EXCEPT ![p].pc = pc]
      /\ UNCHANGED <<now, streams, created, deadline, items, check, pubLock, handled>>
  BY DEF SkipHistory, hist, queues
<1>2. pc \in {"save", "handle"}
  OBVIOUS
<1> HIDE DEF pc
<1>3. ~At(p, "idle") /\ ~At(p, "handle")
  BY <1>1 DEF At
<1>4. QueuesInv'
  BY <1>1 DEF MemInv, QueuesInv
<1> QED BY <1>1, <1>2, <1>3, <1>4, GoesOn

\* saveResultToCache: no other publisher is waiting for this result.
LEMMA SaveKept ==
    ASSUME MemInv, NEW p \in Publishers, SaveResultToCache(p)
    PROVE  MemKept
<1> DEFINE ch == pub[p].ch
           t == now + ResultTTL
           qs == [q \in {"result"} |-> Touched(q, ch, t)]
<1>1. /\ At(p, "save") /\ pub' = [pub EXCEPT ![p].pc = "handle"] /\ SetQueues(qs)
      /\ UNCHANGED <<now, streams, created, pubLock, handled>>
  BY DEF SaveResultToCache, hist
<1>2. ~At(p, "idle") /\ ~At(p, "handle")
  BY <1>1 DEF At
<1>3. ch \in Channels
  BY <1>2, AtWork DEF MemInv
<1>4. t \in Nat \ {0}
  BY MemConstants, SMT DEF MemInv, MemTyped
<1>5. DOMAIN qs = {"result"} /\ qs["result"] = Touched("result", ch, t)
  OBVIOUS
<1>q. "remove" \in Queues /\ "result" \in Queues
  BY DEF Queues
<1> HIDE DEF t, qs
<1>6. /\ Awaited(qs["result"].dl, qs["result"].it, qs["result"].ck)
      /\ \A c \in Channels : c # ch => qs["result"].dl[c] = deadline["result"][c]
  BY <1>3, <1>4, <1>5, <1>q, TouchedAwaited, SMT DEF MemInv, QueuesInv
<1>7. /\ QueuesInv'
      /\ \A q \in Queues : deadline'[q] = IF q \in DOMAIN qs THEN qs[q].dl ELSE deadline[q]
  BY <1>1, <1>5, <1>6, QueuesSet DEF MemInv
<1>8. /\ \A c \in Channels : deadline'["remove"][c] = deadline["remove"][c]
      /\ \A c \in Channels : c # ch => deadline'["result"][c] = deadline["result"][c]
  BY <1>5, <1>6, <1>7, <1>q
<1> QED BY <1>1, <1>2, <1>7, <1>8, GoesOn

\* The publication is handed on: it was underway, so it is the next one; then the lock
\* is free.
LEMMA HandleKept ==
    ASSUME MemInv, NEW p \in Publishers, HandlePublication(p)
    PROVE  MemKept
<1>0. PICK ch, pos : ch = pub[p].ch /\ pos = pub[p].pos
  OBVIOUS
<1>1. /\ At(p, "handle")
      /\ handled' = [handled EXCEPT ![ch] = IF pos = NoPos THEN handled[ch] ELSE pos]
      /\ pubLock' = [pubLock EXCEPT ![LockOf(ch)] = "free"]
      /\ pub' = [pub EXCEPT ![p] = Idle]
      /\ UNCHANGED <<now, streams, created, deadline, items, check>>
  BY <1>0 DEF HandlePublication, hist, queues
<1>2. ~At(p, "idle") /\ Idle.pc = "idle"
  BY <1>1 DEF At, Idle
<1>3. /\ ch \in Channels /\ pos \in Stamp
      /\ \A r \in Publishers : ~At(r, "idle") /\ pub[r].ch = ch => r = p
  BY <1>0, <1>2, AtWork DEF MemInv
<1>4. pubLock[LockOf(ch)] = p
  BY <1>0, <1>2 DEF MemInv, Held
<1>5. /\ LockOf(ch) \in {LockOf(c) : c \in Channels} /\ pub'[p] = Idle
      /\ \A r \in Publishers : r # p => pub'[r] = pub[r]
      /\ \A c \in Channels : LockOf(c) # LockOf(ch) => pubLock'[LockOf(c)] = pubLock[LockOf(c)]
      /\ handled'[ch] = IF pos = NoPos THEN handled[ch] ELSE pos
      /\ \A c \in Channels : c # ch => handled'[c] = handled[c]
  BY <1>1, <1>3 DEF MemInv, MemTyped
<1>6. MemTyped' /\ QueuesInv' /\ Latest'
  <2>1. handled' \in [Channels -> Stamp]
    BY <1>1, <1>3 DEF MemInv, MemTyped
  <2> QED BY <1>1, <2>1 DEF MemInv, MemTyped, QueuesInv, Latest
<1>7. Held'
  <2>1. ASSUME NEW r \in Publishers, r # p, ~At(r, "idle")
        PROVE  pubLock'[LockOf(pub[r].ch)] = r
    <3>1. pub[r].ch \in Channels /\ pubLock[LockOf(pub[r].ch)] = r
      BY <2>1, AtWork DEF MemInv, Held
    <3> QED BY <1>4, <1>5, <2>1, <3>1
  <2> QED BY <1>2, <1>5, <2>1, SMT DEF MemInv, Held, At
<1>8. AddedOnce'
  BY <1>1, <1>2, <1>5 DEF MemInv, AddedOnce
<1>9. \A r \in Publishers, c \in Channels :
          /\ Underway(r, c) /\ r # p => Underway(r, c)' /\ pub'[r] = pub[r]
          /\ Underway(r, c)' => Underway(r, c) /\ r # p
  BY <1>2, <1>5 DEF Underway
<1>10. ~At(p, "idle") /\ \A c \in Channels : Underway(p, c) => c = ch /\ pos # NoPos
  BY <1>0, <1>2 DEF Underway
<1>11. InOrder' /\ Handles
  <2>1. CASE pos = NoPos
    <3>1. handled' = handled
      BY <1>1, <1>3, <1>5, <2>1 DEF MemInv, MemTyped
    <3>2. \A r \in Publishers, c \in Channels : Underway(r, c) => r # p
      BY <1>10, <2>1
    <3> QED BY <1>1, <1>9, <3>1, <3>2, SMT DEF MemInv, InOrder, Newest, Follows, Handles
  <2>2. CASE pos # NoPos
    <3>1. Underway(p, ch)
      BY <1>0, <1>1, <2>2 DEF Underway, At
    <3>2. \A r \in Publishers : Underway(r, ch) => r = p
      BY <1>3 DEF Underway, At
    <3>3. Newest(ch, pos) /\ Follows(pos, handled[ch])
      BY <1>0, <1>3, <3>1, <3>2 DEF MemInv, InOrder
    <3>4. handled'[ch] = pos
      BY <1>5, <2>2
    <3>5. Handles
      BY <1>5, <3>3, <3>4 DEF Handles
    <3>6. Newest(ch, handled[ch])' /\ \A r \in Publishers : ~Underway(r, ch)'
      <4>1. Newest(ch, handled[ch])'
        BY <1>1, <3>3, <3>4 DEF Newest
      <4> QED BY <1>3, <1>9, <3>2, <4>1
    <3>7. ASSUME NEW c \in Channels, c # ch
          PROVE  \/ Newest(c, handled[c])' /\ \A r \in Publishers : ~Underway(r, c)'
                 \/ \E r \in Publishers : /\ Underway(r, c)' /\ Newest(c, pub[r].pos)'
                                          /\ Follows(pub[r].pos, handled[c])'
      <4>1. handled'[c] = handled[c]
        BY <1>5, <3>7
      <4>2. CASE Newest(c, handled[c]) /\ \A r \in Publishers : ~Underway(r, c)
        BY <1>1, <1>9, <4>1, <4>2, SMT DEF Newest
      <4>3. ASSUME NEW r \in Publishers, Underway(r, c), Newest(c, pub[r].pos),
                   Follows(pub[r].pos, handled[c])
            PROVE  /\ Underway(r, c)' /\ Newest(c, pub[r].pos)'
                   /\ Follows(pub[r].pos, handled[c])'
        <5>1. r # p
          BY <1>10, <3>7, <4>3
        <5> QED BY <1>1, <1>9, <4>1, <4>3, <5>1, SMT DEF Newest, Follows
      <4> QED BY <4>2, <4>3 DEF MemInv, InOrder
    <3> QED BY <3>5, <3>6, <3>7 DEF InOrder
  <2> QED BY <2>1, <2>2, SMT
<1>12. UNCHANGED H!hvars
  BY <1>1 DEF H!hvars
<1> QED BY <1>6, <1>7, <1>8, <1>11, <1>12 DEF MemKept, MemInv

\* A stream of one publication.
LEMMA OneOnly == SubSeq(<< 1 >>, 1, 1) = << 1 >>
<1>1. /\ SubSeq(<< 1 >>, 1, 1) \in Seq(Nat) /\ Len(SubSeq(<< 1 >>, 1, 1)) = 1
      /\ SubSeq(<< 1 >>, 1, 1)[1] = 1
  BY SMT
<1>2. \A s \in Seq(Nat) : Len(s) = 1 /\ s[1] = 1 => s = << 1 >>
  BY SMT
<1> QED BY <1>1, <1>2

\* Stream.Add: the next offset, and a tail of the stream.
LEMMA AddedStream ==
    ASSUME NEW s \in [epoch : Nat, top : Nat, list : Seq(Nat)]
    PROVE  /\ StreamAdd(s) \in [epoch : Nat, top : Nat, list : Seq(Nat)]
           /\ StreamAdd(s).epoch = s.epoch /\ StreamAdd(s).top = s.top + 1
           /\ \E k \in 1..Len(Append(s.list, s.top + 1)) + 1 :
                  StreamAdd(s).list = SubSeq(Append(s.list, s.top + 1), k,
                                             Len(Append(s.list, s.top + 1)))
           /\ s.top = 0 /\ s.list = <<>> => StreamAdd(s).list = << 1 >>
<1> DEFINE a == Append(s.list, s.top + 1)
           k == IF Len(a) > HistorySize THEN Len(a) - HistorySize + 1 ELSE 1
<1>1. s.list \in Seq(Nat) /\ s.top \in Nat /\ s.top + 1 \in Nat /\ s.epoch \in Nat
  BY SMT
<1>2. a \in Seq(Nat) /\ Len(a) = Len(s.list) + 1 /\ Len(s.list) \in Nat
  BY <1>1, SMT
<1>3. StreamAdd(s) = [epoch |-> s.epoch, top |-> s.top + 1, list |-> SubSeq(a, k, Len(a))]
  BY DEF StreamAdd
<1>5. s.top = 0 /\ s.list = <<>> => SubSeq(a, k, Len(a)) = << 1 >>
  <2> SUFFICES ASSUME s.top = 0, s.list = <<>> PROVE SubSeq(a, k, Len(a)) = << 1 >>
    OBVIOUS
  <2>1. Append(<<>>, 1) = << 1 >> /\ Len(<< 1 >>) = 1 /\ 0 + 1 = 1 /\ ~(1 > HistorySize)
    BY MemConstants, SMT
  <2>2. a = << 1 >> /\ k = 1
    BY <2>1
  <2> QED BY <2>1, <2>2, OneOnly
<1> HIDE DEF a
<1>4. k \in 1..Len(a) + 1
  BY <1>2, MemConstants, SMT
<1> HIDE DEF k
<1>6. SubSeq(a, k, Len(a)) \in Seq(Nat)
  BY <1>2, <1>4, SMT
<1>7. /\ StreamAdd(s).epoch = s.epoch /\ StreamAdd(s).top = s.top + 1
      /\ StreamAdd(s).list = SubSeq(a, k, Len(a))
      /\ StreamAdd(s) \in [epoch : Nat, top : Nat, list : Seq(Nat)]
  <2>1. PICK l \in Seq(Nat) : l = SubSeq(a, k, Len(a))
    BY <1>6
  <2>2. PICK e \in Nat, n \in Nat : e = s.epoch /\ n = s.top + 1
    BY <1>1
  <2>3. StreamAdd(s) = [epoch |-> e, top |-> n, list |-> l]
    BY <1>3, <2>1, <2>2
  <2>4. /\ StreamAdd(s) \in [epoch : Nat, top : Nat, list : Seq(Nat)]
        /\ StreamAdd(s).epoch = e /\ StreamAdd(s).top = n /\ StreamAdd(s).list = l
    BY <2>3, SMT
  <2> QED BY <2>1, <2>2, <2>4
<1> QED BY <1>4, <1>5, <1>7 DEF a

\* historyHub.add: the stream is the next publication longer, or begins with it.
LEMMA AddKept ==
    ASSUME MemInv, NEW p \in Publishers, NEW ttl \in HistoryTTLs, AddToHistory(p, ttl)
    PROVE  MemKept
<1>0. PICK ch : ch = pub[p].ch
  OBVIOUS
<1> DEFINE old == IF streams[ch].epoch = 0 THEN [None EXCEPT !.epoch = created[ch] + 1]
                  ELSE streams[ch]
           till(q) == now + IF q = "expire" THEN ttl ELSE MetaTTL
           qs == [q \in {"expire", "remove"} |-> Touched(q, ch, till(q))]
           pc == IF pub[p].key THEN "save" ELSE "handle"
<1>1. PICK s : s = StreamAdd(old)
  OBVIOUS
<1>2. PICK pos : pos = [epoch |-> s.epoch, top |-> s.top]
  OBVIOUS
<1>3. /\ At(p, "add")
      /\ streams' = [streams EXCEPT ![ch] = s]
      /\ created' = [created EXCEPT ![ch] = s.epoch]
      /\ SetQueues(qs)
      /\ pub' = [pub EXCEPT ![p].pc = pc, ![p].pos = pos]
      /\ UNCHANGED <<now, pubLock, handled>>
  BY <1>0, <1>1, <1>2 DEF AddToHistory
<1>4. ~At(p, "idle")
  BY <1>3 DEF At
<1>5. /\ pub[p] \in [pc : {"add", "save", "handle"}, ch : Channels, key : BOOLEAN, pos : Stamp]
      /\ ch \in Channels
      /\ \A r \in Publishers : ~At(r, "idle") /\ pub[r].ch = ch => r = p
  BY <1>0, <1>4, AtWork DEF MemInv
<1>6. /\ streams[ch] \in [epoch : Nat, top : Nat, list : Seq(Nat)] /\ created[ch] \in Nat
      /\ streams[ch].epoch \in Nat /\ streams[ch].top \in Nat /\ created[ch] + 1 \in Nat \ {0}
  <2>1. streams[ch] \in [epoch : Nat, top : Nat, list : Seq(Nat)] /\ created[ch] \in Nat
    BY <1>5 DEF MemInv, MemTyped
  <2> QED BY <2>1, SMT
\* The stream that is added to.
<1>7. /\ old \in [epoch : Nat, top : Nat, list : Seq(Nat)]
      /\ old.epoch = IF streams[ch].epoch = 0 THEN created[ch] + 1 ELSE created[ch]
      /\ old.epoch # 0 /\ old.top = streams[ch].top /\ old.list = streams[ch].list
  <2>1. CASE streams[ch].epoch = 0
    <3>1. streams[ch].top = 0 /\ streams[ch].list = <<>>
      BY <1>5, <2>1 DEF MemInv, Latest
    <3>2. old = [epoch |-> created[ch] + 1, top |-> 0, list |-> <<>>]
      BY <2>1 DEF None
    <3>3. <<>> \in Seq(Nat) /\ 0 \in Nat
      BY SMT
    <3> QED BY <1>6, <2>1, <3>1, <3>2, <3>3, SMT
  <2>2. CASE streams[ch].epoch # 0
    BY <1>5, <1>6, <2>2 DEF MemInv, Latest
  <2> QED BY <2>1, <2>2
<1> HIDE DEF old
<1>8. /\ s \in [epoch : Nat, top : Nat, list : Seq(Nat)]
      /\ s.epoch = old.epoch /\ s.top = streams[ch].top + 1
  BY <1>1, <1>7, AddedStream
<1>9. /\ pos \in Stamp /\ pos.epoch = s.epoch /\ pos.top = s.top /\ pos # NoPos
  <2>1. s.epoch \in Nat /\ s.top \in Nat /\ s.epoch # 0
    BY <1>7, <1>8
  <2>2. pos.epoch = s.epoch /\ pos.top = s.top /\ pos \in Stamp
    BY <1>2, <2>1 DEF Stamp
  <2> QED BY <2>1, <2>2, SMT DEF NoPos
<1>10. /\ pub'[p].pc = pc /\ pub'[p].ch = ch /\ pub'[p].key = pub[p].key /\ pub'[p].pos = pos
       /\ pub'[p] \in [pc : {"add", "save", "handle"}, ch : Channels, key : BOOLEAN, pos : Stamp]
       /\ \A r \in Publishers : r # p => pub'[r] = pub[r]
       /\ pc \in {"save", "handle"} /\ (pc = "save" <=> pub[p].key)
  <2>1. /\ pub'[p] = [[pub[p] EXCEPT !.pc = pc] EXCEPT !.pos = pos]
        /\ \A r \in Publishers : r # p => pub'[r] = pub[r]
    BY <1>3 DEF MemInv, MemTyped
  <2>2. /\ pc \in {"add", "save", "handle"} /\ pc \in {"save", "handle"}
        /\ pc = "save" <=> pub[p].key
    BY <1>5
  <2> HIDE DEF pc
  <2> QED BY <1>0, <1>5, <1>9, <2>1, <2>2
<1> HIDE DEF pc
\* Its deadlines.
<1>q. /\ DOMAIN qs = {"expire", "remove"} /\ "remove" \in Queues /\ "result" \in Queues
      /\ \A q \in DOMAIN qs : q \in Queues /\ qs[q] = Touched(q, ch, till(q))
  BY DEF Queues
<1>11. \A q \in DOMAIN qs : till(q) \in Nat \ {0}
  <2>1. now \in Nat /\ ttl \in Nat \ {0} /\ MetaTTL \in Nat \ {0}
    BY MemConstants DEF MemInv, MemTyped
  <2> QED BY <2>1, SMT
<1> HIDE DEF qs, till
<1>12. \A q \in DOMAIN qs : /\ Awaited(qs[q].dl, qs[q].it, qs[q].ck)
                            /\ qs[q].dl[ch] # 0
                            /\ \A c \in Channels : c # ch => qs[q].dl[c] = deadline[q][c]
  BY <1>5, <1>q, <1>11, TouchedAwaited, SMT DEF MemInv, QueuesInv
<1>13. /\ QueuesInv'
       /\ \A q \in Queues : deadline'[q] = IF q \in DOMAIN qs THEN qs[q].dl ELSE deadline[q]
  BY <1>3, <1>12, QueuesSet DEF MemInv
<1>14. /\ deadline'["remove"][ch] # 0
       /\ \A c \in Channels : c # ch => deadline'["remove"][c] = deadline["remove"][c]
       /\ \A c \in Channels : deadline'["result"][c] = deadline["result"][c]
  BY <1>q, <1>12, <1>13, SMT
<1>15. /\ streams'[ch] = s /\ created'[ch] = s.epoch
       /\ \A c \in Channels : c # ch => streams'[c] = streams[c] /\ created'[c] = created[c]
  BY <1>3, <1>5 DEF MemInv, MemTyped
<1>16. MemTyped'
  <2>1. /\ streams' \in [Channels -> [epoch : Nat, top : Nat, list : Seq(Nat)]]
        /\ created' \in [Channels -> Nat]
    BY <1>3, <1>8 DEF MemInv, MemTyped
  <2>2. pub' \in [Publishers -> {Idle} \cup [pc : {"add", "save", "handle"}, ch : Channels,
                                            key : BOOLEAN, pos : Stamp]]
    BY <1>3, <1>10 DEF MemInv, MemTyped
  <2> QED BY <1>3, <2>1, <2>2 DEF MemInv, MemTyped
<1>17. Latest'
  <2>1. streams'[ch].epoch # 0 /\ streams'[ch].epoch = created'[ch]
    BY <1>7, <1>8, <1>15
  <2>2. \A c \in Channels : c # ch =>
            /\ streams'[c] = streams[c] /\ created'[c] = created[c]
            /\ deadline'["remove"][c] = deadline["remove"][c]
    BY <1>14, <1>15
  <2> QED BY <1>14, <2>1, <2>2, SMT DEF MemInv, Latest
<1>18. Held'
  <2>1. pubLock'[LockOf(pub'[p].ch)] = p
    BY <1>0, <1>3, <1>4, <1>10, SMT DEF MemInv, Held
  <2>2. pub'[p].pc # "add"
    BY <1>10
  <2> QED BY <1>3, <1>10, <2>1, <2>2 DEF MemInv, Held, At
<1>19. AddedOnce'
  <2>1. \A r \in Publishers : ~At(r, "idle") => pub[r].ch \in Channels
    BY AtWork DEF MemInv
  <2>2. ASSUME NEW r \in Publishers, pub'[r].pc \in {"add", "save"}, pub'[r].key
        PROVE  deadline'["result"][pub'[r].ch] = 0
    <3>1. CASE r = p
      <4>1. deadline["result"][ch] = 0
        BY <1>0, <1>3, <1>10, <2>2, <3>1 DEF MemInv, AddedOnce, At
      <4> QED BY <1>5, <1>10, <1>14, <3>1, <4>1
    <3>2. CASE r # p
      BY <1>10, <1>14, <2>1, <2>2, <3>2, SMT DEF MemInv, AddedOnce, At
    <3> QED BY <3>1, <3>2
  <2> QED BY <2>2 DEF AddedOnce
<1>20. InOrder'
  <2>1. \A r \in Publishers : ~Underway(r, ch)
    BY <1>3, <1>5 DEF Underway, At
  <2>2. Newest(ch, handled[ch])
    BY <1>5, <2>1 DEF MemInv, InOrder
  <2>3. handled[ch] \in Stamp /\ handled[ch].epoch \in Nat /\ handled[ch].top \in Nat
    BY <1>5 DEF MemInv, MemTyped, Stamp
  <2>4. Follows(pos, handled[ch])
    <3>1. CASE streams[ch].epoch = 0
      <4>1. pos.epoch = created[ch] + 1 /\ pos.top = 0 + 1 /\ handled[ch].epoch <= created[ch]
        BY <1>5, <1>7, <1>8, <1>9, <2>2, <3>1, SMT DEF MemInv, Latest, Newest
      <4> QED BY <1>6, <2>3, <4>1, SMT DEF Follows
    <3>2. CASE streams[ch].epoch # 0
      <4>1. /\ pos.epoch = created[ch] /\ pos.top = streams[ch].top + 1
            /\ handled[ch].epoch <= created[ch]
            /\ streams[ch].top = IF handled[ch].epoch = created[ch] THEN handled[ch].top ELSE 0
        BY <1>5, <1>7, <1>8, <1>9, <2>2, <3>2, SMT DEF MemInv, Latest, Newest
      <4> QED BY <1>6, <2>3, <4>1, SMT DEF Follows
    <3> QED BY <3>1, <3>2
  <2>5. Underway(p, ch)' /\ Newest(ch, pub[p].pos)' /\ Follows(pub[p].pos, handled[ch])'
    <3>1. s.epoch <= s.epoch
      BY <1>8, SMT
    <3>2. Follows(pub[p].pos, handled[ch])'
      BY <1>3, <1>10, <2>4
    <3> QED BY <1>9, <1>10, <1>15, <3>1, <3>2, SMT DEF Underway, Newest
  <2>6. ASSUME NEW c \in Channels, c # ch
        PROVE  \/ Newest(c, handled[c])' /\ \A r \in Publishers : ~Underway(r, c)'
               \/ \E r \in Publishers : /\ Underway(r, c)' /\ Newest(c, pub[r].pos)'
                                        /\ Follows(pub[r].pos, handled[c])'
    <3>1. \A r \in Publishers : Underway(r, c)' <=> Underway(r, c)
      BY <1>0, <1>10, <2>6 DEF Underway
    <3>2. \A r \in Publishers : Underway(r, c) => pub'[r] = pub[r]
      BY <1>0, <1>10, <2>6 DEF Underway
    <3>3. streams'[c] = streams[c] /\ created'[c] = created[c] /\ handled' = handled
      BY <1>3, <1>15, <2>6
    <3>4. CASE Newest(c, handled[c]) /\ \A r \in Publishers : ~Underway(r, c)
      BY <3>1, <3>3, <3>4 DEF Newest
    <3>5. ASSUME NEW r \in Publishers, Underway(r, c), Newest(c, pub[r].pos),
                 Follows(pub[r].pos, handled[c])
          PROVE  /\ Underway(r, c)' /\ Newest(c, pub[r].pos)'
                 /\ Follows(pub[r].pos, handled[c])'
      BY <3>1, <3>2, <3>3, <3>5 DEF Newest, Follows
    <3> QED BY <3>4, <3>5 DEF MemInv, InOrder
  <2> QED BY <1>5, <2>5, <2>6 DEF InOrder
<1>21. H!HNext
  <2>1. CASE streams[ch].epoch = 0
    <3>1. streams[ch].top = 0 /\ streams[ch].list = <<>>
      BY <1>5, <2>1 DEF MemInv, Latest
    <3>2. s.list = << 1 >>
      <4>1. old.top = 0 /\ old.list = <<>>
        BY <1>7, <3>1
      <4> QED BY <1>1, <1>7, <4>1, AddedStream
    <3>3. Len(<< 1 >>) = 1 /\ 0 + 1 = 1 /\ Len(<< 1 >>) <= Len(<< 1 >>)
      BY SMT
    <3>4. /\ created \in [Channels -> Nat] /\ created' = [created EXCEPT ![ch] = created[ch] + 1]
          /\ ~Live(ch) /\ streams'[ch].epoch # 0 /\ streams'[ch].top = Len(<< 1 >>)
          /\ streams'[ch].list = << 1 >>
      BY <1>3, <1>7, <1>8, <1>15, <2>1, <3>1, <3>2, <3>3, SMT DEF MemInv, MemTyped, Live
    <3>5. Live(ch)' /\ << 1 >> \in {<<>>, << 1 >>}
      BY <3>4 DEF Live
    <3>6. Begins(ch, Len(<< 1 >>), << 1 >>)
      BY <1>15, <3>4, <3>5 DEF Begins
    <3> QED BY <1>5, <3>3, <3>5, <3>6, MemBegins, SMT
  <2>2. CASE streams[ch].epoch # 0
    <3> DEFINE a == Append(streams[ch].list, streams[ch].top + 1)
    <3>1. PICK k \in 1..Len(a) + 1 : s.list = SubSeq(a, k, Len(a))
      <4>1. \E k \in 1..Len(Append(old.list, old.top + 1)) + 1 :
                s.list = SubSeq(Append(old.list, old.top + 1), k,
                                Len(Append(old.list, old.top + 1)))
        BY <1>1, <1>7, AddedStream
      <4> QED BY <1>7, <4>1
    <3>2. created' = created
      <4>1. s.epoch = created[ch]
        BY <1>7, <1>8, <2>2
      <4> QED BY <1>3, <4>1 DEF MemInv, MemTyped
    <3>3. /\ streams[ch].epoch # 0 /\ streams'[ch].epoch # 0
          /\ streams'[ch].top = streams[ch].top + 1
          /\ streams'[ch].list = SubSeq(a, k, Len(a))
      BY <1>7, <1>8, <1>15, <2>2, <3>1, SMT
    <3>4. Live(ch) /\ Live(ch)'
      BY <3>3 DEF Live
    <3>5. Adds(ch, SubSeq(a, k, Len(a)))
      BY <1>15, <3>2, <3>3, <3>4 DEF Adds
    <3> QED BY <1>5, <3>1, <3>5, MemAdds
  <2> QED BY <2>1, <2>2
<1> QED BY <1>3, <1>13, <1>16, <1>17, <1>18, <1>19, <1>20, <1>21, SMT
           DEF MemKept, MemInv, Handles

\* historyHub.get: a stream that is not there is created empty.
LEMMA GetKept ==
    ASSUME MemInv, NEW ch \in Channels, Get(ch)
    PROVE  MemKept
<1> DEFINE t == now + MetaTTL
           qs == [q \in {"remove"} |-> Touched(q, ch, t)]
<1>1. /\ SetQueues(qs) /\ UNCHANGED <<now, pubLock, pub, handled>>
      /\ IF streams[ch].epoch # 0 THEN UNCHANGED <<streams, created>>
         ELSE /\ created' = [created EXCEPT ![ch] = created[ch] + 1]
              /\ streams' = [streams EXCEPT ![ch].epoch = created[ch] + 1]
  BY DEF Get, hist
<1>2. t \in Nat \ {0}
  BY MemConstants, SMT DEF MemInv, MemTyped
<1>q. /\ DOMAIN qs = {"remove"} /\ qs["remove"] = Touched("remove", ch, t)
      /\ "remove" \in Queues /\ "result" \in Queues
  BY DEF Queues
<1> HIDE DEF t, qs
<1>3. /\ Awaited(qs["remove"].dl, qs["remove"].it, qs["remove"].ck)
      /\ qs["remove"].dl[ch] # 0
      /\ \A c \in Channels : c # ch => qs["remove"].dl[c] = deadline["remove"][c]
  BY <1>2, <1>q, TouchedAwaited, SMT DEF MemInv, QueuesInv
<1>4. /\ QueuesInv'
      /\ \A q \in Queues : deadline'[q] = IF q \in DOMAIN qs THEN qs[q].dl ELSE deadline[q]
  BY <1>1, <1>q, <1>3, QueuesSet DEF MemInv
<1>5. /\ deadline'["remove"][ch] # 0
      /\ \A c \in Channels : c # ch => deadline'["remove"][c] = deadline["remove"][c]
      /\ \A c \in Channels : deadline'["result"][c] = deadline["result"][c]
  BY <1>q, <1>3, <1>4
<1>6. Held' /\ AddedOnce'
  <2>1. \A r \in Publishers : ~At(r, "idle") => pub[r].ch \in Channels
    BY AtWork DEF MemInv
  <2>2. AddedOnce'
    BY <1>1, <1>5, <2>1, SMT DEF MemInv, AddedOnce, At
  <2> QED BY <1>1, <2>2 DEF MemInv, Held, At
<1>7. CASE streams[ch].epoch # 0
  <2>1. UNCHANGED <<streams, created>>
    BY <1>1, <1>7
  <2>2. MemTyped' /\ InOrder'
    BY <1>1, <2>1, OrderFrame DEF MemInv, MemTyped
  <2>3. Latest'
    BY <1>5, <2>1 DEF MemInv, Latest
  <2>4. UNCHANGED H!hvars
    BY <2>1 DEF H!hvars
  <2> QED BY <1>1, <1>4, <1>6, <2>2, <2>3, <2>4 DEF MemKept, MemInv, Handles
<1>8. CASE streams[ch].epoch = 0
  <2>1. /\ created' = [created EXCEPT ![ch] = created[ch] + 1]
        /\ streams' = [streams EXCEPT ![ch].epoch = created[ch] + 1]
    BY <1>1, <1>8
  <2>2. /\ created[ch] \in Nat /\ created[ch] + 1 \in Nat /\ created[ch] + 1 # 0
        /\ handled[ch].epoch \in Nat /\ created \in [Channels -> Nat]
    <3>1. created[ch] \in Nat /\ handled[ch].epoch \in Nat /\ created \in [Channels -> Nat]
      BY DEF MemInv, MemTyped, Stamp
    <3> QED BY <3>1, SMT
  <2>3. streams[ch].top = 0 /\ streams[ch].list = <<>>
    BY <1>8 DEF MemInv, Latest
  <2>4. /\ streams'[ch].epoch = created[ch] + 1 /\ streams'[ch].top = 0
        /\ streams'[ch].list = <<>>
        /\ streams'[ch] \in [epoch : Nat, top : Nat, list : Seq(Nat)]
    <3>1. /\ streams'[ch] = [streams[ch] EXCEPT !.epoch = created[ch] + 1]
          /\ streams[ch] \in [epoch : Nat, top : Nat, list : Seq(Nat)]
      BY <2>1 DEF MemInv, MemTyped
    <3> QED BY <2>2, <2>3, <3>1
  <2>5. /\ created'[ch] = created[ch] + 1
        /\ \A c \in Channels : c # ch => streams'[c] = streams[c] /\ created'[c] = created[c]
    BY <2>1 DEF MemInv, MemTyped
  <2>6. MemTyped'
    <3>1. created' \in [Channels -> Nat]
      BY <2>1, <2>2
    <3>2. streams' \in [Channels -> [epoch : Nat, top : Nat, list : Seq(Nat)]]
      BY <2>1, <2>4, <2>5 DEF MemInv, MemTyped
    <3> QED BY <1>1, <3>1, <3>2 DEF MemInv, MemTyped
  <2>7. Latest'
    <3>1. streams'[ch].epoch # 0 /\ streams'[ch].epoch = created'[ch]
      BY <2>2, <2>4, <2>5
    <3> QED BY <1>5, <2>5, <3>1, SMT DEF MemInv, Latest
  <2>8. InOrder'
    <3>1. ASSUME NEW pos, pos.epoch \in Nat, Newest(ch, pos) PROVE Newest(ch, pos)'
      <4>1. pos.epoch <= created[ch]
        BY <3>1 DEF Newest
      <4>2. pos.epoch <= created[ch] + 1 /\ pos.epoch # created[ch] + 1
        BY <2>2, <3>1, <4>1, SMT
      <4> QED BY <2>4, <2>5, <4>2 DEF Newest
    <3>2. ASSUME NEW c \in Channels, c # ch, NEW pos, Newest(c, pos) PROVE Newest(c, pos)'
      BY <2>5, <3>2 DEF Newest
    <3>3. \A r \in Publishers, c \in Channels : Underway(r, c)' <=> Underway(r, c)
      BY <1>1 DEF Underway
    <3>4. ASSUME NEW c \in Channels
          PROVE  \/ Newest(c, handled[c])' /\ \A r \in Publishers : ~Underway(r, c)'
                 \/ \E r \in Publishers : /\ Underway(r, c)' /\ Newest(c, pub[r].pos)'
                                          /\ Follows(pub[r].pos, handled[c])'
      <4>1. handled' = handled /\ pub' = pub /\ handled[c].epoch \in Nat
        BY <1>1 DEF MemInv, MemTyped, Stamp
      <4>2. CASE Newest(c, handled[c]) /\ \A r \in Publishers : ~Underway(r, c)
        <5>1. PICK pos : pos = handled[c]
          OBVIOUS
        <5>2. Newest(c, pos)'
          BY <3>1, <3>2, <4>1, <4>2, <5>1, SMT
        <5>3. Newest(c, handled[c])'
          BY <4>1, <5>1, <5>2
        <5> QED BY <3>3, <4>2, <5>3
      <4>3. ASSUME NEW r \in Publishers, Underway(r, c), Newest(c, pub[r].pos),
                   Follows(pub[r].pos, handled[c])
            PROVE  /\ Underway(r, c)' /\ Newest(c, pub[r].pos)'
                   /\ Follows(pub[r].pos, handled[c])'
        <5>1. PICK pos : pos = pub[r].pos
          OBVIOUS
        <5>2. pos.epoch \in Nat
          <6>1. ~At(r, "idle")
            BY <4>3 DEF Underway, At
          <6>2. pub[r].pos \in Stamp
            BY <6>1, AtWork DEF MemInv
          <6> QED BY <5>1, <6>2 DEF Stamp
        <5>3. Newest(c, pos)'
          BY <3>1, <3>2, <4>3, <5>1, <5>2, SMT
        <5>4. Newest(c, pub[r].pos)'
          BY <4>1, <5>1, <5>3, SMT
        <5>5. Follows(pub[r].pos, handled[c])'
          BY <4>1, <4>3
        <5> QED BY <3>3, <4>3, <5>4, <5>5, SMT
      <4> QED BY <4>2, <4>3 DEF MemInv, InOrder
    <3> QED BY <3>4 DEF InOrder
  <2>9. H!HNext
    <3>1. Len(<<>>) = 0 /\ Len(<<>>) <= Len(<<>>)
      BY SMT
    <3>2. ~Live(ch) /\ Live(ch)' /\ <<>> \in {<<>>, << 1 >>} /\ streams'[ch].top = Len(<<>>)
      BY <1>8, <2>2, <2>4, <3>1, SMT DEF Live
    <3>3. Begins(ch, Len(<<>>), <<>>)
      BY <2>1, <2>2, <2>4, <2>5, <3>2 DEF Begins
    <3> QED BY <3>1, <3>2, <3>3, MemBegins
  <2> QED BY <1>1, <1>4, <1>6, <2>6, <2>7, <2>8, <2>9 DEF MemKept, MemInv, Handles
<1> QED BY <1>7, <1>8

\* historyHub.remove empties the stream.
LEMMA RemoveKept ==
    ASSUME MemInv, NEW ch \in Channels, RemoveHistory(ch)
    PROVE  MemKept
<1>1. /\ streams' = [streams EXCEPT ![ch].list = <<>>]
      /\ UNCHANGED <<now, created, deadline, items, check, pubLock, pub, handled>>
  BY DEF RemoveHistory, queues
<1>2. /\ streams'[ch] \in [epoch : Nat, top : Nat, list : Seq(Nat)]
      /\ streams'[ch].epoch = streams[ch].epoch /\ streams'[ch].top = streams[ch].top
      /\ streams'[ch].list = <<>>
      /\ \A c \in Channels : c # ch => streams'[c] = streams[c]
  <2>1. /\ streams'[ch] = [streams[ch] EXCEPT !.list = <<>>]
        /\ \A c \in Channels : c # ch => streams'[c] = streams[c]
        /\ streams[ch] \in [epoch : Nat, top : Nat, list : Seq(Nat)]
    BY <1>1 DEF MemInv, MemTyped
  <2>2. <<>> \in Seq(Nat)
    BY SMT
  <2>3. /\ streams'[ch] \in [epoch : Nat, top : Nat, list : Seq(Nat)]
        /\ streams'[ch].epoch = streams[ch].epoch /\ streams'[ch].top = streams[ch].top
        /\ streams'[ch].list = <<>>
    <3>1. streams'[ch] = [streams[ch] EXCEPT !.list = <<>>]
      BY <2>1
    <3>2. streams[ch] \in [epoch : Nat, top : Nat, list : Seq(Nat)]
      BY <2>1
    <3> QED BY <2>2, <3>1, <3>2, NewList
  <2> QED BY <2>1, <2>3
<1>3. MemTyped'
  <2>1. streams' \in [Channels -> [epoch : Nat, top : Nat, list : Seq(Nat)]]
    BY <1>1, <1>2 DEF MemInv, MemTyped
  <2> QED BY <1>1, <2>1 DEF MemInv, MemTyped
<1>4. QueuesInv' /\ Held' /\ AddedOnce'
  BY <1>1 DEF MemInv, QueuesInv, Held, AddedOnce, At
<1>5. Latest'
  BY <1>1, <1>2, SMT DEF MemInv, Latest
<1>6. InOrder'
  BY <1>1, <1>2, OrderFrame DEF MemInv
<1>7. H!HNext
  <2>1. \A c \in Channels : /\ Live(c)' <=> Live(c)
                            /\ streams'[c].top = streams[c].top
                            /\ streams'[c].list = IF c \in {ch} THEN <<>> ELSE streams[c].list
    BY <1>2 DEF Live
  <2> QED BY <1>1, <2>1, MemExpires
<1> QED BY <1>1, <1>3, <1>4, <1>5, <1>6, <1>7, SMT DEF MemKept, MemInv, Handles

\* Every step of the memory broker.
LEMMA MemStep ==
    ASSUME MemInv, [Next]_vars
    PROVE  MemKept
<1>1. ASSUME Tick \/ UNCHANGED vars PROVE MemKept
  <2>1. now \in Nat /\ UNCHANGED <<hist, queues, pubLock, pub, handled>>
    BY <1>1 DEF Tick, vars, MemInv, MemTyped
  <2>2. now' \in Nat
    <3>1. now' = now + 1 \/ now' = now
      BY <1>1 DEF Tick, vars
    <3> QED BY <2>1, <3>1, SMT
  <2> QED BY <2>1, <2>2, MemStutters
<1>2. ASSUME NEW p \in Publishers, Publish(p) PROVE MemKept
  BY <1>2, LockKept, AddKept, SkipKept, SaveKept, HandleKept DEF Publish
<1>3. ASSUME NEW ch \in Channels, Get(ch) \/ RemoveHistory(ch) PROVE MemKept
  BY <1>3, GetKept, RemoveKept
<1> QED BY <1>1, <1>2, <1>3, SweepKept DEF Next

\* Nothing yet.
Fresh ==
    /\ now \in Nat
    /\ streams = [ch \in Channels |-> None]
    /\ created = [ch \in Channels |-> 0]
    /\ deadline = [q \in Queues |-> [ch \in Channels |-> 0]]
    /\ items = [q \in Queues |-> {}]
    /\ check = [q \in Queues |-> 0]
    /\ pubLock = [l \in {LockOf(ch) : ch \in Channels} |-> "free"]
    /\ pub = [p \in Publishers |-> Idle]
    /\ handled = [ch \in Channels |-> NoPos]

\* A new broker.
LEMMA MemInit ==
    ASSUME Fresh
    PROVE  MemInv /\ H!HInit
<1>2. /\ 0 \in Nat /\ 1 \in Nat /\ <<>> \in Seq(Nat) /\ 0 <= 0
      /\ None.epoch = 0 /\ None.top = 0 /\ None.list = <<>>
      /\ NoPos.epoch = 0 /\ NoPos.top = 0 /\ Idle.pc = "idle"
  BY SMT DEF None, NoPos, Idle
<1>3. None \in [epoch : Nat, top : Nat, list : Seq(Nat)] /\ NoPos \in Stamp
  BY <1>2 DEF None, NoPos, Stamp
<1>4. MemTyped
  BY <1>2, <1>3, MemConstants, SMT DEF Fresh, MemTyped
<1>5. QueuesInv
  BY <1>2 DEF Fresh, QueuesInv, Awaited
<1>6. Latest /\ Held /\ AddedOnce
  BY <1>2 DEF Fresh, Latest, Held, AddedOnce, At
<1>7. InOrder
  BY <1>2 DEF Fresh, InOrder, Newest, Underway
<1>8. H!HInit
  BY <1>2 DEF Fresh, H!HInit
<1> QED BY <1>4, <1>5, <1>6, <1>7, <1>8, SMT DEF MemInv

\* From one item for each deadline to the number of items.
LEMMA MemAwaits ==
    ASSUME MemInv
    PROVE  DeadlinesAwaited
<1>1. ASSUME NEW q \in Queues, NEW ch \in Channels
      PROVE  Cardinality({x \in items[q] : x[1] = ch}) = IF deadline[q][ch] = 0 THEN 0 ELSE 1
  <2>1. Awaited(deadline[q], items[q], check[q])
    BY DEF MemInv, QueuesInv
  <2>2. CASE deadline[q][ch] = 0
    <3>1. {x \in items[q] : x[1] = ch} = {}
      BY <2>1, <2>2, SMT DEF Awaited
    <3> QED BY <2>2, <3>1, FS_EmptySet
  <2>3. CASE deadline[q][ch] # 0
    <3>1. PICK x \in items[q] : x[1] = ch
      BY <2>1, <2>3 DEF Awaited
    <3>2. {y \in items[q] : y[1] = ch} = {x}
      BY <2>1, <3>1, SMT DEF Awaited
    <3> QED BY <2>3, <3>2, FS_Singleton
  <2> QED BY <2>2, <2>3
<1>2. \A q \in Queues : \A x \in items[q] : check[q] # 0 /\ check[q] <= x[2]
  BY DEF MemInv, QueuesInv, Awaited
<1>3. \A ch \in Channels : streams[ch].epoch # 0 => deadline["remove"][ch] # 0
  BY DEF MemInv, Latest
<1> QED BY <1>1, <1>2, <1>3 DEF DeadlinesAwaited

\* In the words of HandledInOrder.
LEMMA HandlesInOrder ==
    ASSUME MemKept
    PROVE  [\A ch \in Channels : handled'[ch] # handled[ch] =>
               \/ handled'[ch].epoch = handled[ch].epoch /\ handled'[ch].top = handled[ch].top + 1
               \/ handled'[ch].epoch > handled[ch].epoch /\ handled'[ch].top = 1]_vars
  BY DEF MemKept, Handles, Follows

\* What is held in memory is in step with the cleanup goroutines, each key is added once
\* and the broker keeps its promises: for any channels, locks, sizes and times.
THEOREM MemoryTheorem == Spec => []DeadlinesAwaited /\ []AddedOnce /\ KeepsHistory
<1>1. Init => Fresh
  BY SMT DEF Init, Fresh
<1>2. MemInv => AddedOnce /\ DeadlinesAwaited
  BY MemAwaits DEF MemInv
<1> QED BY <1>1, <1>2, MemInit, MemStep, HandlesInOrder, PTL
        DEF Spec, KeepsHistory, HandledInOrder, H!HSpec, MemKept
=============================================================================
