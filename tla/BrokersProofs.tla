--------------------------- MODULE BrokersProofs ---------------------------
(***************************************************************************)
(* The Redis broker keeps a broker's promises about history too, and its   *)
(* scripts publish once per idempotency key.  Its inductive invariant is   *)
(* RedisInv.  Then what holds of behaviours of either broker.              *)
(***************************************************************************)
EXTENDS MemHistoryProofs, Brokers

\* Zenon proves what only takes logic and sets; the leaves that need more say SMT.
USE Zenon

-----------------------------------------------------------------------------
(* The Redis broker                                                         *)

\* The list expires no later than the meta hash, whose epoch is the last one; its
\* offset is the last that was published in this epoch.
RedisInv ==
    /\ meta \in [e : Nat, s : Nat, ttl : Nat] /\ epochs \in Nat
    /\ pubs \in [list : Seq(Nat), ttl : Nat] /\ pubs.ttl <= meta.ttl
    /\ \A metaTTL \in RedisMetaTTLs : pubs.ttl <= metaTTL
    /\ res.ttl \in Nat /\ pushed \in [e : Nat, s : Nat]
    /\ IF meta.ttl = 0 THEN meta = R!NoMeta
       ELSE /\ meta.e = epochs
            /\ meta.s = IF pushed.e = epochs THEN pushed.s ELSE 0
    /\ pubs.ttl = 0 => pubs = R!NoPubs
    /\ \A i \in 1..Len(pubs.list) : pubs.list[i] <= meta.s
    /\ pushed.e <= epochs
    /\ repeated \in {0, 1} /\ (repeated = 1 => res.ttl # 0)

\* The configuration's numbers, taken apart.
LEMMA RedisConstants ==
    /\ RedisSize \in Nat \ {0} /\ RedisResultTTL \in Nat \ {0}
    /\ \A m \in RedisMetaTTLs : m \in Nat \ {0}
    /\ \A t \in RedisTTLs : t \in Nat
    /\ \A t \in RedisTTLs, m \in RedisMetaTTLs : t <= m
  BY BrokersAssumption DEF R!Configured

\* Trimming leaves a tail, and of a new publication at least that.
LEMMA TrimmedList ==
    ASSUME NEW l \in Seq(Nat), NEW n \in Nat, \A i \in 1..Len(l) : l[i] <= n
    PROVE  LET t == R!Trimmed(Append(l, n + 1))
           IN  /\ t \in Seq(Nat) /\ \A i \in 1..Len(t) : t[i] <= n + 1
               /\ \E k \in 1..Len(Append(l, n + 1)) + 1 :
                      t = SubSeq(Append(l, n + 1), k, Len(Append(l, n + 1)))
<1> DEFINE a == Append(l, n + 1)
           k == IF Len(a) > RedisSize THEN Len(a) - RedisSize + 1 ELSE 1
           t == SubSeq(a, k, Len(a))
<1>1. a \in Seq(Nat) /\ Len(a) = Len(l) + 1 /\ Len(l) \in Nat
  BY SMT
<1>2. \A i \in 1..Len(a) : a[i] <= n + 1
  BY SMT
<1> HIDE DEF a
<1>3. k \in 1..Len(a)
  BY <1>1, RedisConstants, SMT
<1> HIDE DEF k
<1>4. /\ t \in Seq(Nat) /\ Len(t) = Len(a) - k + 1
      /\ \A i \in 1..Len(t) : t[i] = a[k + i - 1]
  <2>1. a \in Seq(Nat) /\ k \in 1..Len(a)
    BY <1>1, <1>3
  <2> QED BY <2>1, SMT
<1>5. \A i \in 1..Len(t) : t[i] <= n + 1
  BY <1>1, <1>2, <1>3, <1>4, SMT
<1>6. k \in 1..Len(a) + 1
  BY <1>1, <1>3, SMT
<1>7. R!Trimmed(Append(l, n + 1)) = t
  BY DEF R!Trimmed, a, k
<1> QED BY <1>4, <1>5, <1>6, <1>7 DEF a

\* Redis never refuses an addition: the scripts give it an offset larger than all.
LEMMA AddEffect ==
    ASSUME RedisInv, NEW c, NEW ttl \in RedisTTLs, NEW metaTTL \in RedisMetaTTLs,
           R!AddHistory(c, ttl, metaTTL)
    PROVE  /\ meta' = [e |-> R!CurrentEpoch, s |-> meta.s + 1, ttl |-> metaTTL]
           /\ epochs' = R!CurrentEpoch
           /\ pubs' = IF ttl = 0 THEN R!NoPubs
                      ELSE [list |-> R!Trimmed(Append(pubs.list, meta.s + 1)), ttl |-> ttl]
           /\ pushed' = [e |-> R!CurrentEpoch, s |-> meta.s + 1]
           /\ IF c.key THEN ~R!Exists(res) /\ res'.ttl = RedisResultTTL /\ repeated' = repeated + 1
              ELSE res' = res /\ repeated' = repeated
           /\ R!CurrentEpoch \in Nat
           /\ IF meta.ttl = 0 THEN R!CurrentEpoch = epochs + 1 ELSE R!CurrentEpoch = epochs
<1>1. /\ R!CurrentEpoch \in Nat
      /\ IF meta.ttl = 0 THEN R!CurrentEpoch = epochs + 1 ELSE R!CurrentEpoch = epochs
  BY SMT DEF R!CurrentEpoch, R!Exists, RedisInv
<1>2. ~(~useLists /\ pubs.list # <<>> /\ meta.s + 1 <= pubs.list[Len(pubs.list)])
  <2>1. ASSUME pubs.list # <<>>
        PROVE  pubs.list[Len(pubs.list)] <= meta.s /\ pubs.list[Len(pubs.list)] \in Nat
    <3>1. Len(pubs.list) \in 1..Len(pubs.list) /\ pubs.list[Len(pubs.list)] \in Nat
      BY <2>1, SMT DEF RedisInv
    <3> QED BY <3>1 DEF RedisInv
  <2>2. meta.s \in Nat
    BY DEF RedisInv
  <2> QED BY <2>1, <2>2, SMT
<1>3. IF R!CurrentEpoch > epochs THEN epochs' = R!CurrentEpoch ELSE epochs' = epochs
  BY DEF R!AddHistory
<1>4. epochs' = R!CurrentEpoch
  BY <1>1, <1>3, SMT DEF RedisInv
<1>5. c.key => ~R!Exists(res)
  BY DEF R!AddHistory, R!Cached
<1>6. c.key => res'.ttl = RedisResultTTL
  BY <1>2, SMT DEF R!AddHistory
<1> QED BY <1>1, <1>2, <1>4, <1>5, <1>6 DEF R!AddHistory

\* What the steps of HistorySpec are for the one channel.

\* Publications go, as Expire has it.
LEMMA RedisExpires ==
    ASSUME epochs' = epochs, meta'.s = meta.s, meta'.ttl # 0 <=> meta.ttl # 0,
           pubs'.list = <<>>
    PROVE  R!H!HNext
<1>1. R!H!Expire({"ch"})
  BY DEF R!H!Expire, R!Exists
<1>2. {"ch"} \in SUBSET {"ch"}
  OBVIOUS
<1> QED BY <1>1, <1>2 DEF R!H!HNext

\* The stream goes, as Forget has it.
LEMMA RedisForgets ==
    ASSUME epochs' = epochs, meta'.s = 0, meta'.ttl = 0, pubs'.list = <<>>
    PROVE  R!H!HNext
<1>1. R!H!Forget({"ch"})
  BY DEF R!H!Forget, R!Exists
<1>2. {"ch"} \in SUBSET {"ch"}
  OBVIOUS
<1> QED BY <1>1, <1>2 DEF R!H!HNext

\* A stream is created, as Begin has it.
LEMMA RedisBegins ==
    ASSUME meta.ttl = 0, meta'.ttl # 0, epochs' = epochs + 1,
           NEW first \in {<<>>, << 1 >>}, NEW s \in {<<>>, << 1 >>}, Len(s) <= Len(first),
           meta'.s = Len(first), pubs'.list = s
    PROVE  R!H!HNext
<1>1. R!H!Begin("ch")
  BY DEF R!H!Begin, R!Exists
<1>2. "ch" \in {"ch"}
  OBVIOUS
<1> QED BY <1>1, <1>2 DEF R!H!HNext

\* The next publication, as Add has it.
LEMMA RedisAdds ==
    ASSUME meta.ttl # 0, meta'.ttl # 0, epochs' = epochs, meta'.s = meta.s + 1,
           NEW k \in 1..Len(Append(pubs.list, meta.s + 1)) + 1,
           pubs'.list = SubSeq(Append(pubs.list, meta.s + 1), k,
                               Len(Append(pubs.list, meta.s + 1)))
    PROVE  R!H!HNext
<1>1. pubs'.list \in R!H!Tails(Append(pubs.list, meta.s + 1))
  BY DEF R!H!Tails
<1>2. R!H!Add("ch")
  BY <1>1 DEF R!H!Add, R!Exists
<1>3. "ch" \in {"ch"}
  OBVIOUS
<1> QED BY <1>2, <1>3 DEF R!H!HNext

\* Nothing HistorySpec speaks of.
LEMMA RedisStutters ==
    ASSUME epochs' = epochs, meta'.s = meta.s, meta'.ttl # 0 <=> meta.ttl # 0,
           pubs'.list = pubs.list
    PROVE  UNCHANGED R!H!hvars
  BY DEF R!H!hvars, R!Exists

\* Publications are handed on in order.
Pushes ==
    pushed' # pushed => \/ pushed'.e = pushed.e /\ pushed'.s = pushed.s + 1
                        \/ pushed'.e > pushed.e /\ pushed'.s = 1
Kept == RedisInv' /\ [R!H!HNext]_R!H!hvars /\ Pushes

\* Redis removes keys whose time has come: the list goes with the meta hash or before.
LEMMA RedisTick ==
    ASSUME RedisInv, R!Tick
    PROVE  Kept
<1>t. /\ meta \in [e : Nat, s : Nat, ttl : Nat] /\ epochs \in Nat
      /\ pubs \in [list : Seq(Nat), ttl : Nat] /\ pubs.ttl <= meta.ttl
      /\ res.ttl \in Nat /\ meta.ttl \in Nat /\ pubs.ttl \in Nat
  BY DEF RedisInv
<1>c. UNCHANGED <<epochs, pushed>>
  BY DEF R!Tick
<1>n. R!NoMeta.ttl = 0 /\ R!NoMeta.s = 0 /\ R!NoPubs.ttl = 0 /\ R!NoPubs.list = <<>>
  BY DEF R!NoMeta, R!NoPubs
<1>p. \A metaTTL \in RedisMetaTTLs : pubs'.ttl <= metaTTL
  <2>1. pubs'.ttl = IF pubs.ttl <= 1 THEN 0 ELSE pubs.ttl - 1
    BY <1>t, <1>n DEF R!Tick
  <2> QED BY <1>t, <2>1, RedisConstants, SMT DEF RedisInv
<1>r. repeated' \in {0, 1} /\ res'.ttl \in Nat /\ (repeated' = 1 => res'.ttl # 0)
  <2>1. CASE res.ttl <= 1
    BY <2>1, <1>n, SMT DEF R!Tick
  <2>2. CASE ~(res.ttl <= 1)
    <3>1. res' = [res EXCEPT !.ttl = res.ttl - 1] /\ repeated' = repeated
      BY <2>2 DEF R!Tick
    <3> QED BY <1>t, <2>2, <3>1, SMT DEF RedisInv
  <2> QED BY <2>1, <2>2
<1>m. CASE meta.ttl <= 1
  <2>1. meta' = R!NoMeta /\ pubs' = R!NoPubs
    BY <1>t, <1>m, SMT DEF R!Tick
  <2>2. RedisInv'
    BY <1>c, <1>n, <1>p, <1>r, <2>1, SMTT(20) DEF RedisInv, R!NoMeta, R!NoPubs
  <2> QED BY <1>c, <1>n, <2>1, <2>2, RedisForgets DEF Kept, Pushes
<1>l. CASE ~(meta.ttl <= 1)
  <2>1. meta' = [meta EXCEPT !.ttl = meta.ttl - 1]
    BY <1>l DEF R!Tick
  <2>2. meta'.ttl # 0 /\ meta'.ttl = meta.ttl - 1 /\ meta'.s = meta.s /\ meta'.e = meta.e
        /\ meta' \in [e : Nat, s : Nat, ttl : Nat] /\ meta.ttl # 0
    BY <1>t, <1>l, <2>1, SMTT(20)
  <2>3. CASE pubs.ttl <= 1
    <3>1. pubs' = R!NoPubs
      BY <2>3 DEF R!Tick
    <3>2. RedisInv'
      BY <1>t, <1>c, <1>n, <1>p, <1>r, <2>2, <3>1, SMTT(20) DEF RedisInv, R!NoPubs
    <3> QED BY <1>c, <1>n, <2>2, <3>1, <3>2, RedisExpires DEF Kept, Pushes
  <2>4. CASE ~(pubs.ttl <= 1)
    <3>1. pubs' = [pubs EXCEPT !.ttl = pubs.ttl - 1]
      BY <2>4 DEF R!Tick
    <3>2. /\ pubs'.ttl = pubs.ttl - 1 /\ pubs'.list = pubs.list
          /\ pubs' \in [list : Seq(Nat), ttl : Nat] /\ pubs'.ttl <= meta'.ttl /\ pubs'.ttl # 0
      <4>1. PICK n : n = pubs.ttl - 1
        OBVIOUS
      <4>2. n \in Nat /\ n # 0 /\ n <= meta'.ttl
        <5>1. pubs.ttl \in Nat /\ meta.ttl \in Nat /\ pubs.ttl <= meta.ttl
              /\ meta'.ttl = meta.ttl - 1
          BY <1>t, <2>2
        <5> QED BY <2>4, <4>1, <5>1, SMT
      <4>3. pubs' = [pubs EXCEPT !.ttl = n] /\ pubs \in [list : Seq(Nat), ttl : Nat]
        BY <1>t, <3>1, <4>1
      <4>4. pubs'.ttl = n /\ pubs'.list = pubs.list /\ pubs' \in [list : Seq(Nat), ttl : Nat]
        BY <4>2, <4>3
      <4> QED BY <4>1, <4>2, <4>4
    <3>3. RedisInv'
      BY <1>c, <1>p, <1>r, <2>2, <3>2 DEF RedisInv
    <3> QED BY <1>c, <2>2, <3>2, <3>3, RedisStutters DEF Kept, Pushes
  <2> QED BY <2>3, <2>4
<1> QED BY <1>m, <1>l

\* The scripts that add to the history: the next offset of the epoch, or a new epoch
\* from 1.
LEMMA RedisAdd ==
    ASSUME RedisInv, NEW c, NEW ttl \in RedisTTLs, NEW metaTTL \in RedisMetaTTLs,
           R!AddHistory(c, ttl, metaTTL)
    PROVE  Kept
<1> DEFINE e == R!CurrentEpoch
           l == R!Trimmed(Append(pubs.list, meta.s + 1))
           a == Append(pubs.list, meta.s + 1)
<1>t. /\ meta \in [e : Nat, s : Nat, ttl : Nat] /\ epochs \in Nat
      /\ pubs \in [list : Seq(Nat), ttl : Nat] /\ pubs.ttl <= meta.ttl
      /\ res.ttl \in Nat /\ meta.ttl \in Nat /\ pubs.ttl \in Nat /\ meta.s \in Nat
      /\ pubs.list \in Seq(Nat) /\ pushed.e \in Nat /\ pushed.s \in Nat
      /\ metaTTL \in Nat \ {0} /\ ttl \in Nat /\ \A m \in RedisMetaTTLs : ttl <= m
  BY RedisConstants DEF RedisInv
<1>1. /\ meta' = [e |-> e, s |-> meta.s + 1, ttl |-> metaTTL]
      /\ epochs' = e /\ e \in Nat
      /\ pubs' = IF ttl = 0 THEN R!NoPubs ELSE [list |-> l, ttl |-> ttl]
      /\ pushed' = [e |-> e, s |-> meta.s + 1]
      /\ IF meta.ttl = 0 THEN e = epochs + 1 ELSE e = epochs
  BY AddEffect
<1>2. /\ l \in Seq(Nat) /\ \A i \in 1..Len(l) : l[i] <= meta.s + 1
      /\ \E k \in 1..Len(a) + 1 : l = SubSeq(a, k, Len(a))
  BY <1>t, TrimmedList DEF RedisInv
<1>3. repeated' \in {0, 1} /\ res'.ttl \in Nat /\ (repeated' = 1 => res'.ttl # 0)
  <2>1. IF c.key THEN ~R!Exists(res) /\ res'.ttl = RedisResultTTL /\ repeated' = repeated + 1
        ELSE res' = res /\ repeated' = repeated
    BY AddEffect
  <2>2. CASE c.key
    <3>1. repeated = 0 /\ repeated' = repeated + 1 /\ res'.ttl = RedisResultTTL
      BY <2>1, <2>2 DEF RedisInv, R!Exists
    <3> QED BY <3>1, RedisConstants, SMT
  <2>3. CASE ~c.key
    BY <1>t, <2>1, <2>3 DEF RedisInv
  <2> QED BY <2>2, <2>3
<1> HIDE DEF e, l
<1>4. /\ meta'.ttl = metaTTL /\ meta'.s = meta.s + 1 /\ meta'.e = e
      /\ meta' \in [e : Nat, s : Nat, ttl : Nat]
      /\ pushed' \in [e : Nat, s : Nat] /\ pushed'.e = e /\ pushed'.s = meta.s + 1
  BY <1>t, <1>1, SMT
<1>5. /\ pubs' \in [list : Seq(Nat), ttl : Nat] /\ pubs'.ttl <= meta'.ttl
      /\ \A m \in RedisMetaTTLs : pubs'.ttl <= m
      /\ pubs'.ttl = 0 => pubs' = R!NoPubs
      /\ pubs'.list = IF ttl = 0 THEN <<>> ELSE l
      /\ \A i \in 1..Len(pubs'.list) : pubs'.list[i] <= meta'.s
  <2>1. CASE ttl = 0
    <3>1. pubs' = R!NoPubs
      BY <1>1, <2>1
    <3> QED BY <1>t, <1>4, <2>1, <3>1, RedisConstants, SMTT(20) DEF R!NoPubs
  <2>2. CASE ttl # 0
    <3>1. pubs' = [list |-> l, ttl |-> ttl]
      BY <1>1, <2>2
    <3>2. /\ pubs'.list = l /\ pubs'.ttl = ttl
          /\ pubs' \in [list : Seq(Nat), ttl : Nat]
      <4>1. l \in Seq(Nat) /\ ttl \in Nat
        BY <1>t, <1>2
      <4> QED BY <3>1, <4>1
    <3> QED BY <1>t, <1>2, <1>4, <2>2, <3>2
  <2> QED BY <2>1, <2>2
<1>6. RedisInv'
  BY <1>t, <1>1, <1>3, <1>4, <1>5, SMT DEF RedisInv
<1>7. Pushes
  <2>1. CASE meta.ttl = 0
    <3>1. e = epochs + 1 /\ pushed.e <= epochs /\ meta.s = 0
      BY <1>1, <2>1, SMT DEF RedisInv, R!NoMeta
    <3> QED BY <1>t, <1>4, <3>1, SMTT(20) DEF Pushes
  <2>2. CASE meta.ttl # 0
    <3>1. /\ e = epochs /\ pushed.e <= epochs
          /\ meta.s = IF pushed.e = epochs THEN pushed.s ELSE 0
      BY <1>1, <2>2 DEF RedisInv
    <3> QED BY <1>t, <1>4, <3>1, SMT DEF Pushes
  <2> QED BY <2>1, <2>2
<1>8. R!H!HNext
  <2>1. CASE meta.ttl = 0
    <3>1. pubs.list = <<>> /\ meta.s = 0
      <4>1. pubs.ttl = 0
        BY <1>t, <2>1, SMT
      <4> QED BY <2>1, <4>1, SMT DEF RedisInv, R!NoMeta, R!NoPubs
    <3>2. /\ Append(<<>>, 1) = << 1 >> /\ Len(<< 1 >>) = 1 /\ Len(<<>>) = 0
          /\ 0 + 1 = 1 /\ 0 <= 1 /\ 1 <= 1
      BY SMT
    <3>3. l = << 1 >>
      <4>1. ~(1 > RedisSize)
        BY RedisConstants, SMT
      <4>2. l = SubSeq(<< 1 >>, 1, 1)
        BY <3>1, <3>2, <4>1 DEF l, R!Trimmed
      <4> QED BY <4>2, OneOnly
    <3>4. pubs'.list \in {<<>>, << 1 >>} /\ meta'.s = Len(<< 1 >>)
      BY <1>4, <1>5, <3>1, <3>2, <3>3
    <3>5. Len(pubs'.list) <= Len(<< 1 >>)
      BY <3>2, <3>4
    <3> QED BY <1>t, <1>1, <1>4, <2>1, <3>4, <3>5, RedisBegins
  <2>2. CASE meta.ttl # 0
    <3>1. \E k \in 1..Len(a) + 1 : pubs'.list = SubSeq(a, k, Len(a))
      <4>1. CASE ttl # 0
        BY <1>2, <1>5, <4>1
      <4>2. CASE ttl = 0
        <5>1. a \in Seq(Nat) /\ Len(a) \in Nat /\ Len(a) + 1 \in 1..Len(a) + 1
          BY <1>t, SMTT(20)
        <5>2. SubSeq(a, Len(a) + 1, Len(a)) = <<>>
          BY <5>1, SMT
        <5> QED BY <1>5, <4>2, <5>1, <5>2
      <4> QED BY <4>1, <4>2
    <3>2. PICK k \in 1..Len(a) + 1 : pubs'.list = SubSeq(a, k, Len(a))
      BY <3>1
    <3>3. meta'.ttl # 0 /\ epochs' = epochs /\ meta'.s = meta.s + 1
      BY <1>t, <1>1, <1>4, <2>2
    <3> QED BY <2>2, <3>2, <3>3, RedisAdds
  <2> QED BY <2>1, <2>2
<1> QED BY <1>6, <1>7, <1>8 DEF Kept

\* The other steps: calls, and what leaves the history alone.
LEMMA RedisOther ==
    ASSUME RedisInv,
           \/ R!RemoveHistory \/ \E metaTTL \in RedisMetaTTLs : R!History(metaTTL)
           \/ \E key, history \in BOOLEAN : R!Publish(key, history)
           \/ \E c \in wire : R!PublishOnly(c) \/ R!ReturnCached(c) \/ R!Lose(c)
           \/ UNCHANGED R!vars
    PROVE  Kept
<1>t. /\ meta \in [e : Nat, s : Nat, ttl : Nat] /\ epochs \in Nat
      /\ pubs \in [list : Seq(Nat), ttl : Nat] /\ pubs.ttl <= meta.ttl
      /\ res.ttl \in Nat /\ meta.ttl \in Nat /\ pubs.ttl \in Nat /\ meta.s \in Nat
  BY DEF RedisInv
<1>1. CASE R!RemoveHistory
  <2>1. pubs' = R!NoPubs /\ UNCHANGED <<meta, epochs, res, pushed, repeated>>
    BY <1>1 DEF R!RemoveHistory
  <2>2. RedisInv'
    <3>1. /\ R!NoPubs \in [list : Seq(Nat), ttl : Nat] /\ R!NoPubs.ttl <= meta.ttl
          /\ \A m \in RedisMetaTTLs : R!NoPubs.ttl <= m
          /\ \A i \in 1..Len(R!NoPubs.list) : R!NoPubs.list[i] <= meta.s
      BY <1>t, RedisConstants, SMT DEF R!NoPubs
    <3> QED BY <2>1, <3>1 DEF RedisInv
  <2>3. pubs'.list = <<>>
    BY <2>1 DEF R!NoPubs
  <2> QED BY <2>1, <2>2, <2>3, RedisExpires DEF Kept, Pushes
<1>2. ASSUME NEW metaTTL \in RedisMetaTTLs, R!History(metaTTL) PROVE Kept
  <2>1. /\ meta' = [e |-> R!CurrentEpoch, s |-> meta.s, ttl |-> metaTTL]
        /\ epochs' = IF R!CurrentEpoch > epochs THEN R!CurrentEpoch ELSE epochs
        /\ UNCHANGED <<pubs, res, pushed, repeated>>
        /\ metaTTL \in Nat \ {0}
    BY <1>2, RedisConstants DEF R!History
  <2>2. CASE meta.ttl = 0
    <3>1. /\ meta.s = 0 /\ pubs.list = <<>> /\ R!CurrentEpoch = epochs + 1 /\ pubs.ttl = 0
      <4>1. pubs.ttl = 0
        BY <1>t, <2>2, SMT
      <4> QED BY <2>2, <4>1, SMT DEF RedisInv, R!NoMeta, R!NoPubs, R!CurrentEpoch, R!Exists
    <3>2. epochs' = epochs + 1
      BY <1>t, <2>1, <3>1, SMT
    <3>3. /\ meta'.ttl # 0 /\ meta'.s = 0 /\ meta'.e = epochs'
          /\ meta' \in [e : Nat, s : Nat, ttl : Nat] /\ pubs'.ttl <= meta'.ttl
      BY <1>t, <2>1, <3>1, <3>2, SMT
    <3>4. RedisInv'
      <4>1. pushed'.e <= epochs' /\ pushed'.e # epochs' /\ epochs' \in Nat
        BY <1>t, <2>1, <3>2, SMT DEF RedisInv
      <4> QED BY <2>1, <3>1, <3>3, <4>1 DEF RedisInv
    <3>5. Len(<<>>) = 0 /\ 0 <= 0
      BY SMT
    <3> QED BY <2>1, <2>2, <3>1, <3>2, <3>3, <3>4, <3>5, RedisBegins DEF Kept, Pushes
  <2>3. CASE meta.ttl # 0
    <3>1. R!CurrentEpoch = epochs /\ meta.e = epochs
      BY <2>3 DEF RedisInv, R!CurrentEpoch, R!Exists
    <3>2. epochs' = epochs
      BY <2>1, <3>1
    <3>3. pubs.ttl <= metaTTL
      BY DEF RedisInv
    <3>4. /\ meta'.ttl = metaTTL /\ meta'.ttl # 0 /\ meta'.s = meta.s /\ meta'.e = epochs
          /\ meta' \in [e : Nat, s : Nat, ttl : Nat] /\ pubs'.ttl <= meta'.ttl
      BY <1>t, <2>1, <3>1, <3>3, SMT
    <3>5. RedisInv'
      BY <2>1, <2>3, <3>2, <3>4 DEF RedisInv
    <3> QED BY <2>1, <2>3, <3>2, <3>4, <3>5, RedisStutters DEF Kept, Pushes
  <2> QED BY <2>2, <2>3
<1>3. ASSUME NEW c \in wire, R!PublishOnly(c) PROVE Kept
  <2>1. UNCHANGED <<meta, pubs, epochs, pushed>>
    BY <1>3 DEF R!PublishOnly
  <2>2. repeated' \in {0, 1} /\ res'.ttl \in Nat /\ (repeated' = 1 => res'.ttl # 0)
    <3>1. CASE c.key
      <4>1. repeated = 0 /\ repeated' = repeated + 1 /\ res'.ttl = RedisResultTTL
        BY <1>3, <3>1 DEF RedisInv, R!PublishOnly, R!Cached, R!Exists
      <4> QED BY <4>1, RedisConstants, SMT
    <3>2. CASE ~c.key
      BY <1>3, <3>2 DEF RedisInv, R!PublishOnly
    <3> QED BY <3>1, <3>2
  <2>3. RedisInv'
    BY <2>1, <2>2 DEF RedisInv
  <2> QED BY <2>1, <2>3, RedisStutters DEF Kept, Pushes
<1>4. CASE UNCHANGED <<meta, pubs, res, epochs, pushed, repeated>>
  <2>1. RedisInv'
    BY <1>4 DEF RedisInv
  <2> QED BY <1>4, <2>1, RedisStutters DEF Kept, Pushes
<1> QED BY <1>1, <1>2, <1>3, <1>4 DEF R!Publish, R!ReturnCached, R!Lose, R!keys, R!vars

\* Every step of the scripts.
LEMMA RedisStep ==
    ASSUME RedisInv, [R!Next]_R!vars
    PROVE  Kept
  BY RedisTick, RedisAdd, RedisOther DEF R!Next, R!Execute

\* An empty Redis.
LEMMA RedisInit ==
    ASSUME R!Init \/ RedisIdle
    PROVE  RedisInv /\ R!H!HInit
<1>1. /\ meta = R!NoMeta /\ pubs = R!NoPubs /\ res = R!NoMeta /\ epochs = 0
      /\ pushed = [e |-> 0, s |-> 0] /\ repeated = 0
  BY DEF R!Init, RedisIdle
<1>2. RedisInv
  BY <1>1, RedisConstants, SMT DEF RedisInv, R!NoMeta, R!NoPubs
<1>3. meta.ttl = 0 /\ meta.s = 0 /\ pubs.list = <<>> /\ epochs = 0
  BY <1>1 DEF R!NoMeta, R!NoPubs
<1> QED BY <1>2, <1>3 DEF R!H!HInit, R!Exists

\* The Redis broker publishes once per key, keeps what HistorySpec promises, and hands
\* publications on in order: for all times to live and sizes of the configuration.
THEOREM RedisTheorem == R!Spec => []R!PublishedOnce /\ R!KeepsHistory
<1>1. RedisInv => R!PublishedOnce
  BY SMT DEF RedisInv, R!PublishedOnce
<1> QED BY <1>1, RedisInit, RedisStep, PTL
        DEF R!Spec, R!KeepsHistory, R!H!HSpec, Kept, Pushes

-----------------------------------------------------------------------------
(* Both                                                                     *)

\* One of the brokers is at work, the other has nothing to do.
LEMMA BrokersInit ==
    ASSUME BInit
    PROVE  MemInv /\ H!HInit /\ RedisInv /\ R!H!HInit
<1>1. Fresh
  <2>1. 1 \in Nat
    BY SMT
  <2> QED BY <2>1, MemConstants, SMT DEF BInit, Init, MemIdle, Fresh
<1> QED BY <1>1, MemInit, RedisInit, SMT DEF BInit

\* A step of one is a step of that one and nothing for the other.
LEMMA BrokersStep ==
    ASSUME MemInv, RedisInv, [BNext]_<<vars, rvars>>
    PROVE  MemKept /\ Kept
<1>1. [Next]_vars
  BY DEF BNext
<1>2. [R!Next]_R!vars
  BY DEF BNext, rvars, R!vars, R!keys
<1> QED BY <1>1, <1>2, MemStep, RedisStep, SMT

\* Whatever has a deadline will be looked at by the goroutine of its queue.
THEOREM DeadlinesTheorem == BSpec => []DeadlinesAwaited
  BY BrokersInit, BrokersStep, MemAwaits, PTL DEF BSpec, MemKept, Kept

\* A publication repeated with its idempotency key is added and published once while its
\* result is kept, whichever the broker.
THEOREM OncePerKeyTheorem == BSpec => []OncePerKey
<1>1. MemInv /\ RedisInv => OncePerKey
  <2>1. RedisInv => R!PublishedOnce
    BY SMT DEF RedisInv, R!PublishedOnce
  <2> QED BY <2>1 DEF MemInv, OncePerKey
<1> QED BY <1>1, BrokersInit, BrokersStep, PTL DEF BSpec, MemKept, Kept

\* Both brokers implement HistorySpec and hand publications on in the order of their
\* offsets, none left out.
THEOREM BrokersTheorem == BSpec => BrokersKeepHistory
  BY BrokersInit, BrokersStep, HandlesInOrder, PTL
     DEF BSpec, MemKept, Kept, BrokersKeepHistory, KeepsHistory, HandledInOrder,
         H!HSpec, R!KeepsHistory, R!H!HSpec, Pushes
=============================================================================
