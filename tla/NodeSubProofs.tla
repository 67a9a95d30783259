--------------------------- MODULE NodeSubProofs ---------------------------
(***************************************************************************)
(* Hub and broker stay together for any number of channels, clients,       *)
(* goroutines, workers and locks (NodeSub); so do the broker and its       *)
(* PUB/SUB connection (RedisPubSub).  And whoever subscribes is told so    *)
(* before it sees publications, and misses none of them on the way         *)
(* (ServerSubs).                                                           *)
(***************************************************************************)
EXTENDS RedisPubSub, ServerSubs, TLAPS

\* Zenon proves what only takes logic and sets; the leaves that need more say SMT.
USE Zenon

\* What does not depend on the broker: types and locks.
LInv == TypeOK /\ LockInv

\* The broker has the channel if somebody has subscribed to it, or is about to.
Held(ch) == subs[ch] # {} => ch \in bsub \/ Subscribing(ch)
KeepsHeld == \A ch \in Channels : Held(ch) => Held(ch)'

\* What every step of the node does, whatever the broker has forgotten before.
Kept == LInv' /\ KeepsHeld /\ (AwaitedInv => AwaitedInv')

\* Add puts ch last and loses nothing; it wakes at most one worker.
LEMMA QueueAddEffect ==
    ASSUME TypeOK, NEW ch \in Channels, NEW at, QueueAdd(ch, at),
           at \in [Workers -> {"wait", "asleep", "remove", "job",
                               "unsubscribe", "retry", "done"}]
    PROVE  /\ jobs' \in Seq(Channels)
           /\ wpc' \in [Workers -> {"wait", "asleep", "remove", "job",
                                    "unsubscribe", "retry", "done"}]
           /\ \A w \in Workers : \/ wpc'[w] = at[w]
                                 \/ at[w] = "asleep" /\ wpc'[w] = "remove"
           /\ \A c \in Channels : Queued(c) => Queued(c)'
           /\ dclosed \/ Queued(ch)'
<1>1. CASE dclosed
  BY <1>1 DEF QueueAdd, TypeOK, Queued
<1>2. CASE ~dclosed
  <2>1. jobs' = Append(jobs, ch) /\ jobs \in Seq(Channels)
    BY <1>2 DEF QueueAdd, TypeOK
  <2>2. /\ Len(jobs') = Len(jobs) + 1 /\ Len(jobs) \in Nat
        /\ jobs'[Len(jobs) + 1] = ch
        /\ \A k \in 1..Len(jobs) : jobs'[k] = jobs[k]
    BY <2>1, SMT
  <2>3. jobs' \in Seq(Channels)
    BY <2>1, SMT
  <2>4. (\A c \in Channels : Queued(c) => Queued(c)') /\ Queued(ch)'
    BY <2>2, SMT DEF Queued
  <2>5. /\ wpc' \in [Workers -> {"wait", "asleep", "remove", "job",
                                 "unsubscribe", "retry", "done"}]
        /\ \A w \in Workers : \/ wpc'[w] = at[w]
                              \/ at[w] = "asleep" /\ wpc'[w] = "remove"
    <3>1. CASE \E w \in Workers : at[w] = "asleep"
      <4>1. PICK v \in Workers : /\ at[v] = "asleep"
                                 /\ wpc' = [at EXCEPT ![v] = "remove"]
        BY <1>2, <3>1 DEF QueueAdd
      <4> QED BY <4>1
    <3>2. CASE ~ \E w \in Workers : at[w] = "asleep"
      BY <1>2, <3>2 DEF QueueAdd
    <3> QED BY <3>1, <3>2
  <2> QED BY <2>3, <2>4, <2>5
<1> QED BY <1>1, <1>2

\* Init, of any constants, satisfies the invariant.
LEMMA SubInit == Init => SubInv
<1> SUFFICES ASSUME Init PROVE SubInv
  OBVIOUS
<1>1. /\ (CHOOSE ch \in Channels : TRUE) \in Channels
      /\ (CHOOSE c \in Clients : TRUE) \in Clients
  BY NodeSubAssumption
<1>2. <<>> \in Seq(Channels)
  BY SMT
<1>3. TypeOK
  BY <1>1, <1>2 DEF Init, TypeOK
<1> QED BY <1>3 DEF Init, SubInv, LockInv, SubscribedInBroker, AwaitedInv

\* addSub: the first subscriber of a channel takes the lock on to the broker.
LEMMA AddSubStep ==
    ASSUME LInv, NEW g \in Goroutines, NEW ch \in Channels, NEW c \in Clients,
           AddSub(g, ch, c)
    PROVE  Kept
<1> USE NodeSubAssumption
<1>2. CASE subs[ch] = {}
  <2>1. /\ lock[LockOf[ch]] = Free /\ gpc[g] = "idle"
        /\ subs' = [subs EXCEPT ![ch] = {c}]
        /\ gpc' = [gpc EXCEPT ![g] = "subscribe"]
        /\ gch' = [gch EXCEPT ![g] = ch]
        /\ gcl' = [gcl EXCEPT ![g] = c]
        /\ lock' = [lock EXCEPT ![LockOf[ch]] = g]
        /\ UNCHANGED <<bsub, jobs, dclosed, wpc, wch>>
    BY <1>2 DEF AddSub, Acquire, dissolver, LInv, TypeOK
  <2>5. TypeOK'
    BY <2>1 DEF LInv, TypeOK
  <2>2. LockInv'
    BY <2>1, SMT DEF LInv, LockInv, TypeOK
  <2>3. KeepsHeld
    BY <2>1 DEF LInv, KeepsHeld, Held, Subscribing, TypeOK
  <2>4. AwaitedInv => AwaitedInv'
    BY <2>1, <1>2, SMT DEF LInv, AwaitedInv, Subscribing, Awaited, Queued, TypeOK
  <2> QED BY <2>5, <2>2, <2>3, <2>4 DEF Kept, LInv
<1>3. CASE subs[ch] # {}
  <2>1. /\ lock[LockOf[ch]] = Free
        /\ subs' = [subs EXCEPT ![ch] = @ \cup {c}]
        /\ UNCHANGED <<bsub, lock, gpc, gch, gcl, jobs, dclosed, wpc, wch>>
    BY <1>3 DEF AddSub, calls, dissolver
  <2>5. TypeOK'
    BY <2>1 DEF LInv, TypeOK
  <2>2. LockInv'
    BY <2>1, SMT DEF LInv, LockInv, TypeOK
  <2>3. KeepsHeld
    BY <2>1, <1>3 DEF LInv, KeepsHeld, Held, Subscribing, TypeOK
  <2>4. AwaitedInv => AwaitedInv'
    BY <2>1, SMT DEF LInv, AwaitedInv, Subscribing, Awaited, Queued, TypeOK
  <2> QED BY <2>5, <2>2, <2>3, <2>4 DEF Kept, LInv
<1> QED BY <1>2, <1>3

\* broker.Subscribe: the goroutine's channel is subscribed to, or is left as it
\* was before the goroutine came.
LEMMA SubscribeStep ==
    ASSUME LInv, NEW g \in Goroutines,
           BrokerSubscribe(g) \/ BrokerSubscribeFails(g)
    PROVE  Kept
<1> USE NodeSubAssumption
<1> DEFINE ch == gch[g]
<1>0. /\ ch \in Channels /\ gpc[g] = "subscribe"
      /\ lock[LockOf[ch]] = g /\ subs[ch] = {gcl[g]}
  BY DEF LInv, TypeOK, LockInv, BrokerSubscribe, BrokerSubscribeFails
<1>1. CASE BrokerSubscribe(g)
  <2>1. /\ bsub' = bsub \cup {ch}
        /\ gpc' = [gpc EXCEPT ![g] = "idle"]
        /\ lock' = [lock EXCEPT ![LockOf[ch]] = Free]
        /\ UNCHANGED <<subs, gch, gcl, jobs, dclosed, wpc, wch>>
    BY <1>1 DEF BrokerSubscribe, Release, dissolver
  <2>2. TypeOK'
    BY <2>1, <1>0 DEF LInv, TypeOK
  <2>3. LockInv'
    BY <2>1, <1>0, SMT DEF LInv, LockInv, TypeOK
  <2>4. KeepsHeld
    BY <2>1, <1>0 DEF LInv, KeepsHeld, Held, Subscribing, TypeOK
  <2>5. AwaitedInv => AwaitedInv'
    <3> SUFFICES ASSUME AwaitedInv, NEW d \in Channels, d \in bsub',
                        subs'[d] = {} \/ Subscribing(d)'
                 PROVE  Awaited(d)' \/ dclosed'
      BY DEF AwaitedInv
    <3>1. Awaited(d) => Awaited(d)'
      BY <2>1, <1>0 DEF Awaited, Queued, LInv, TypeOK
    <3>2. CASE d = ch
      <4>1. PICK h \in Goroutines : gpc'[h] = "subscribe" /\ gch'[h] = d
        BY <3>2, <2>1, <1>0 DEF Subscribing
      <4>2. h # g /\ gpc[h] = "subscribe" /\ gch[h] = ch
        BY <4>1, <3>2, <2>1 DEF LInv, TypeOK
      <4> QED BY <4>2, <1>0 DEF LInv, LockInv
    <3>3. CASE d # ch
      <4>1. d \in bsub /\ (subs[d] = {} \/ Subscribing(d))
        BY <3>3, <2>1 DEF Subscribing, LInv, TypeOK
      <4> QED BY <4>1, <3>1, <2>1 DEF LInv, AwaitedInv
    <3> QED BY <3>2, <3>3
  <2> QED BY <2>2, <2>3, <2>4, <2>5 DEF Kept, LInv
<1>2. CASE BrokerSubscribeFails(g)
  <2>1. /\ subs' = [subs EXCEPT ![ch] = {}]
        /\ gpc' = [gpc EXCEPT ![g] = "idle"]
        /\ lock' = [lock EXCEPT ![LockOf[ch]] = Free]
        /\ UNCHANGED <<bsub, gch, gcl, jobs, dclosed, wpc, wch>>
    BY <1>2, <1>0 DEF BrokerSubscribeFails, Release, dissolver, LInv, TypeOK
  <2>2. TypeOK'
    BY <2>1, <1>0 DEF LInv, TypeOK
  <2>3. LockInv'
    BY <2>1, <1>0, SMT DEF LInv, LockInv, TypeOK
  <2>4. KeepsHeld
    BY <2>1, <1>0 DEF LInv, KeepsHeld, Held, Subscribing, TypeOK
  <2>5. AwaitedInv => AwaitedInv'
    <3> SUFFICES ASSUME AwaitedInv, NEW d \in Channels, d \in bsub',
                        subs'[d] = {} \/ Subscribing(d)'
                 PROVE  Awaited(d)' \/ dclosed'
      BY DEF AwaitedInv
    <3>1. Awaited(d) => Awaited(d)'
      BY <2>1, <1>0 DEF Awaited, Queued, LInv, TypeOK
    <3>2. d \in bsub /\ (subs[d] = {} \/ Subscribing(d))
      BY <2>1, <1>0 DEF Subscribing, LInv, TypeOK
    <3> QED BY <3>1, <3>2, <2>1 DEF LInv, AwaitedInv
  <2> QED BY <2>2, <2>3, <2>4, <2>5 DEF Kept, LInv
<1> QED BY <1>1, <1>2

\* removeSub: who empties a channel keeps the lock until the job is submitted.
LEMMA RemoveSubStep ==
    ASSUME LInv, NEW g \in Goroutines, NEW ch \in Channels, NEW c \in Clients,
           RemoveSub(g, ch, c)
    PROVE  Kept
<1> USE NodeSubAssumption
<1>0. /\ lock[LockOf[ch]] = Free /\ gpc[g] = "idle"
      /\ subs' = [subs EXCEPT ![ch] = @ \ {c}]
      /\ UNCHANGED <<bsub, gcl, jobs, dclosed, wpc, wch>>
  BY DEF RemoveSub, dissolver
<1>1. subs' \in [Channels -> SUBSET Clients]
  BY <1>0 DEF LInv, TypeOK
<1>2. ~Subscribing(ch)
  BY <1>0, SMT DEF LInv, LockInv, Subscribing, TypeOK
<1>3. CASE Empties(ch, c)
  <2>1. /\ gpc' = [gpc EXCEPT ![g] = "submit"]
        /\ gch' = [gch EXCEPT ![g] = ch]
        /\ lock' = [lock EXCEPT ![LockOf[ch]] = g]
    BY <1>3 DEF RemoveSub, Acquire
  <2>2. LockInv'
    BY <2>1, <1>0, SMT DEF LInv, LockInv, TypeOK
  <2>3. KeepsHeld
    BY <2>1, <1>0, <1>2 DEF LInv, KeepsHeld, Held, Subscribing, TypeOK
  <2>4. AwaitedInv => AwaitedInv'
    BY <2>1, <1>0, SMT DEF LInv, AwaitedInv, Subscribing, Awaited, Queued, TypeOK
  <2>5. TypeOK'
    BY <2>1, <1>0, <1>1 DEF LInv, TypeOK
  <2> QED BY <2>5, <2>2, <2>3, <2>4 DEF Kept, LInv
<1>4. CASE ~Empties(ch, c)
  <2>1. UNCHANGED <<gpc, gch, lock>> /\ subs[ch] \ {c} # {}
    BY <1>4, SMT DEF RemoveSub, Empties, LInv, TypeOK
  <2>2. LockInv'
    BY <2>1, <1>0, SMT DEF LInv, LockInv, TypeOK
  <2>3. KeepsHeld
    BY <2>1, <1>0, <1>2 DEF LInv, KeepsHeld, Held, Subscribing, TypeOK
  <2>4. AwaitedInv => AwaitedInv'
    BY <2>1, <1>0, SMT DEF LInv, AwaitedInv, Subscribing, Awaited, Queued, TypeOK
  <2>5. TypeOK'
    BY <2>1, <1>0, <1>1 DEF LInv, TypeOK
  <2> QED BY <2>5, <2>2, <2>3, <2>4 DEF Kept, LInv
<1> QED BY <1>3, <1>4

\* Submit: the queue awaits the channel in the goroutine's stead.
LEMMA SubmitStep ==
    ASSUME LInv, NEW g \in Goroutines, Submit(g)
    PROVE  Kept
<1> USE NodeSubAssumption
<1> DEFINE ch == gch[g]
<1>0. /\ ch \in Channels /\ gpc[g] = "submit" /\ lock[LockOf[ch]] = g
      /\ gpc' = [gpc EXCEPT ![g] = "idle"]
      /\ lock' = [lock EXCEPT ![LockOf[ch]] = Free]
      /\ UNCHANGED <<subs, bsub, gch, gcl, dclosed, wch>>
  BY DEF LInv, TypeOK, LockInv, Submit, Release
<1>1. /\ jobs' \in Seq(Channels)
      /\ wpc' \in [Workers -> {"wait", "asleep", "remove", "job",
                               "unsubscribe", "retry", "done"}]
      /\ \A w \in Workers : \/ wpc'[w] = wpc[w]
                            \/ wpc[w] = "asleep" /\ wpc'[w] = "remove"
      /\ \A c \in Channels : Queued(c) => Queued(c)'
      /\ dclosed \/ Queued(ch)'
  BY <1>0, QueueAddEffect DEF Submit, LInv, TypeOK
<1>2. TypeOK'
  BY <1>0, <1>1 DEF LInv, TypeOK
<1>3. LockInv'
  BY <1>0, <1>1, SMT DEF LInv, LockInv, TypeOK
<1>4. KeepsHeld
  BY <1>0 DEF LInv, KeepsHeld, Held, Subscribing, TypeOK
<1>5. AwaitedInv => AwaitedInv'
  <2> SUFFICES ASSUME AwaitedInv, NEW d \in Channels, d \in bsub',
                      subs'[d] = {} \/ Subscribing(d)'
               PROVE  Awaited(d)' \/ dclosed'
    BY DEF AwaitedInv
  <2>1. d \in bsub /\ (subs[d] = {} \/ Subscribing(d))
    BY <1>0 DEF Subscribing, LInv, TypeOK
  <2>2. Awaited(d) \/ dclosed
    BY <2>1 DEF LInv, AwaitedInv
  <2> QED BY <2>2, <1>0, <1>1 DEF Awaited, LInv, TypeOK
<1> QED BY <1>2, <1>3, <1>4, <1>5 DEF Kept, LInv

\* Steps that leave hub, broker, locks and calls alone keep the invariant when no
\* job gets lost on the way and no worker comes to the broker.
LEMMA WorkerFrame ==
    ASSUME LInv, TypeOK', UNCHANGED <<subs, bsub, lock, gpc, gch, gcl>>,
           \A w \in Workers : wpc'[w] = "unsubscribe" =>
                              wpc[w] = "unsubscribe" /\ wch'[w] = wch[w],
           dclosed => dclosed',
           \A ch \in Channels : Awaited(ch) => Awaited(ch)' \/ dclosed'
    PROVE  Kept
<1>1. LockInv'
  BY DEF LInv, LockInv
<1>2. KeepsHeld
  BY DEF LInv, KeepsHeld, Held, Subscribing
<1>3. AwaitedInv => AwaitedInv'
  BY DEF LInv, AwaitedInv, Subscribing
<1> QED BY <1>1, <1>2, <1>3 DEF Kept, LInv

\* Wait and Remove hand a job from the queue to a worker; Retry gives it back.
LEMMA QueueStep ==
    ASSUME LInv, NEW w \in Workers, Wait(w) \/ Remove(w) \/ Retry(w)
    PROVE  Kept
<1>1. CASE Wait(w)
  <2>1. TypeOK'
    BY <1>1 DEF LInv, TypeOK, Wait, calls
  <2>2. \A ch \in Channels : Awaited(ch) => Awaited(ch)'
    BY <1>1 DEF Wait, calls, Awaited, Queued, LInv, TypeOK
  <2> QED BY <1>1, <2>1, <2>2, WorkerFrame DEF Wait, calls, LInv, TypeOK
<1>2. CASE Remove(w) /\ jobs = <<>>
  <2>1. TypeOK'
    BY <1>2 DEF LInv, TypeOK, Remove, calls
  <2>2. \A ch \in Channels : Awaited(ch) => Awaited(ch)'
    BY <1>2 DEF Remove, calls, Awaited, Queued, LInv, TypeOK
  <2> QED BY <1>2, <2>1, <2>2, WorkerFrame DEF Remove, calls, LInv, TypeOK
<1>3. CASE Remove(w) /\ jobs # <<>>
  <2>1. /\ wpc[w] = "remove"
        /\ wpc' = [wpc EXCEPT ![w] = "job"]
        /\ wch' = [wch EXCEPT ![w] = Head(jobs)]
        /\ jobs' = Tail(jobs)
        /\ UNCHANGED <<subs, bsub, lock, gpc, gch, gcl, dclosed>>
    BY <1>3 DEF Remove, calls
  <2>2. /\ jobs \in Seq(Channels) /\ Len(jobs) \in Nat \ {0}
        /\ Head(jobs) = jobs[1] /\ Head(jobs) \in Channels
        /\ Tail(jobs) \in Seq(Channels) /\ Len(Tail(jobs)) = Len(jobs) - 1
        /\ \A k \in 1..(Len(jobs) - 1) : Tail(jobs)[k] = jobs[k + 1]
    BY <1>3, SMT DEF LInv, TypeOK
  <2>3. TypeOK'
    BY <2>1, <2>2 DEF LInv, TypeOK
  <2>4. ASSUME NEW ch \in Channels, Awaited(ch)
        PROVE  Awaited(ch)'
    <3>1. CASE Queued(ch)
      <4>1. PICK k \in 1..Len(jobs) : jobs[k] = ch
        BY <3>1 DEF Queued
      <4>2. CASE k = 1
        BY <4>1, <4>2, <2>1, <2>2 DEF Awaited, LInv, TypeOK
      <4>3. CASE k # 1
        <5>1. k - 1 \in 1..(Len(jobs) - 1) /\ jobs'[k - 1] = ch
          BY <4>1, <4>3, <2>1, <2>2, SMT
        <5> QED BY <5>1, <2>1, <2>2 DEF Awaited, Queued
      <4> QED BY <4>2, <4>3
    <3>2. CASE ~Queued(ch)
      BY <2>4, <3>2, <2>1 DEF Awaited, LInv, TypeOK
    <3> QED BY <3>1, <3>2
  <2> QED BY <2>1, <2>3, <2>4, WorkerFrame DEF LInv, TypeOK
<1>4. CASE Retry(w)
  <2> DEFINE at == [wpc EXCEPT ![w] = "wait"]
  <2>1. /\ wpc[w] = "retry" /\ wch[w] \in Channels /\ QueueAdd(wch[w], at)
        /\ UNCHANGED <<subs, bsub, lock, gpc, gch, gcl, dclosed, wch>>
        /\ at \in [Workers -> {"wait", "asleep", "remove", "job",
                               "unsubscribe", "retry", "done"}]
    BY <1>4 DEF Retry, calls, LInv, TypeOK
  <2>2. \A v \in Workers : at[v] = IF v = w THEN "wait" ELSE wpc[v]
    BY DEF LInv, TypeOK
  <2> HIDE DEF at
  <2>3. /\ jobs' \in Seq(Channels)
        /\ wpc' \in [Workers -> {"wait", "asleep", "remove", "job",
                                 "unsubscribe", "retry", "done"}]
        /\ \A v \in Workers : \/ wpc'[v] = at[v]
                              \/ at[v] = "asleep" /\ wpc'[v] = "remove"
        /\ \A c \in Channels : Queued(c) => Queued(c)'
        /\ dclosed \/ Queued(wch[w])'
    BY <2>1, QueueAddEffect DEF LInv
  <2>4. TypeOK'
    BY <2>1, <2>3 DEF LInv, TypeOK
  <2>5. \A v \in Workers :
            \/ v = w /\ wpc'[v] = "wait"
            \/ v # w /\ wpc'[v] = wpc[v]
            \/ v # w /\ wpc[v] = "asleep" /\ wpc'[v] = "remove"
    BY <2>2, <2>3
  <2>6. \A ch \in Channels : Awaited(ch) => Awaited(ch)' \/ dclosed'
    BY <2>1, <2>3, <2>5, SMT DEF Awaited
  <2>7. \A v \in Workers : wpc'[v] = "unsubscribe" =>
                           wpc[v] = "unsubscribe" /\ wch'[v] = wch[v]
    BY <2>1, <2>5
  <2> QED BY <2>1, <2>4, <2>6, <2>7, WorkerFrame
<1> QED BY <1>1, <1>2, <1>3, <1>4

\* A job that finds subscribers is over: the channel needs no job any more.  One
\* that finds none keeps the lock while it unsubscribes.
LEMMA JobStep ==
    ASSUME LInv, NEW w \in Workers, JobLock(w)
    PROVE  Kept
<1> USE NodeSubAssumption
<1> DEFINE ch == wch[w]
<1>0. /\ ch \in Channels /\ wpc[w] = "job" /\ lock[LockOf[ch]] = Free
      /\ UNCHANGED <<subs, bsub, gpc, gch, gcl, jobs, dclosed, wch>>
  BY DEF LInv, TypeOK, JobLock, calls
<1>1. ~Subscribing(ch)
  BY <1>0, SMT DEF LInv, LockInv, Subscribing, TypeOK
<1>2. TypeOK'
  BY <1>0, SMT DEF LInv, TypeOK, JobLock, Acquire
<1>3. KeepsHeld
  BY <1>0 DEF LInv, KeepsHeld, Held, Subscribing
<1>4. CASE subs[ch] = {}
  <2>1. /\ lock' = [lock EXCEPT ![LockOf[ch]] = w]
        /\ wpc' = [wpc EXCEPT ![w] = "unsubscribe"]
    BY <1>4 DEF JobLock, Acquire
  <2>2. LockInv'
    BY <2>1, <1>0, <1>4, SMT DEF LInv, LockInv, TypeOK
  <2>3. AwaitedInv => AwaitedInv'
    BY <2>1, <1>0, SMT DEF LInv, AwaitedInv, Subscribing, Awaited, Queued, TypeOK
  <2> QED BY <1>2, <1>3, <2>2, <2>3 DEF Kept, LInv
<1>5. CASE subs[ch] # {}
  <2>1. UNCHANGED lock /\ wpc' = [wpc EXCEPT ![w] = "wait"]
    BY <1>5 DEF JobLock
  <2>2. LockInv'
    BY <2>1, <1>0, SMT DEF LInv, LockInv, TypeOK
  <2>3. AwaitedInv => AwaitedInv'
    <3> SUFFICES ASSUME AwaitedInv, NEW d \in Channels, d \in bsub',
                        subs'[d] = {} \/ Subscribing(d)'
                 PROVE  Awaited(d)' \/ dclosed'
      BY DEF AwaitedInv
    <3>1. d \in bsub /\ (subs[d] = {} \/ Subscribing(d)) /\ d # ch
      BY <1>0, <1>1, <1>5 DEF Subscribing
    <3>2. Awaited(d) \/ dclosed
      BY <3>1 DEF LInv, AwaitedInv
    <3> QED BY <3>1, <3>2, <2>1, <1>0 DEF Awaited, Queued, LInv, TypeOK
  <2> QED BY <1>2, <1>3, <2>2, <2>3 DEF Kept, LInv
<1> QED BY <1>4, <1>5

\* broker.Unsubscribe takes away a channel that has no subscribers, as the lock
\* has been held since that was found; when it fails the job goes on.
LEMMA UnsubscribeStep ==
    ASSUME LInv, NEW w \in Workers,
           BrokerUnsubscribe(w) \/ BrokerUnsubscribeFails(w)
    PROVE  Kept
<1> USE NodeSubAssumption
<1> DEFINE ch == wch[w]
<1>0. /\ ch \in Channels /\ wpc[w] = "unsubscribe"
      /\ lock[LockOf[ch]] = w /\ subs[ch] = {}
      /\ lock' = [lock EXCEPT ![LockOf[ch]] = Free]
      /\ UNCHANGED <<subs, gpc, gch, gcl, jobs, dclosed, wch>>
  BY DEF LInv, TypeOK, LockInv, BrokerUnsubscribe, BrokerUnsubscribeFails,
         Release, calls
<1>1. CASE BrokerUnsubscribe(w)
  <2>1. bsub' = bsub \ {ch} /\ wpc' = [wpc EXCEPT ![w] = "wait"]
    BY <1>1 DEF BrokerUnsubscribe
  <2>2. TypeOK'
    BY <2>1, <1>0 DEF LInv, TypeOK
  <2>3. LockInv'
    BY <2>1, <1>0, SMT DEF LInv, LockInv, TypeOK
  <2>4. KeepsHeld
    BY <2>1, <1>0 DEF LInv, KeepsHeld, Held, Subscribing, TypeOK
  <2>5. AwaitedInv => AwaitedInv'
    BY <2>1, <1>0, SMT DEF LInv, AwaitedInv, Subscribing, Awaited, Queued, TypeOK
  <2> QED BY <2>2, <2>3, <2>4, <2>5 DEF Kept, LInv
<1>2. CASE BrokerUnsubscribeFails(w)
  <2>1. UNCHANGED bsub /\ wpc' = [wpc EXCEPT ![w] = "retry"]
    BY <1>2 DEF BrokerUnsubscribeFails
  <2>2. TypeOK'
    BY <2>1, <1>0 DEF LInv, TypeOK
  <2>3. LockInv'
    BY <2>1, <1>0, SMT DEF LInv, LockInv, TypeOK
  <2>4. KeepsHeld
    BY <2>1, <1>0 DEF LInv, KeepsHeld, Held, Subscribing, TypeOK
  <2>5. AwaitedInv => AwaitedInv'
    BY <2>1, <1>0, SMT DEF LInv, AwaitedInv, Subscribing, Awaited, Queued, TypeOK
  <2> QED BY <2>2, <2>3, <2>4, <2>5 DEF Kept, LInv
<1> QED BY <1>1, <1>2

\* Closing the dissolver discards the jobs, which then nobody is promised.
LEMMA CloseStep ==
    ASSUME LInv, CloseDissolver
    PROVE  Kept
<1>1. TypeOK'
  <2>1. <<>> \in Seq(Channels)
    BY SMT
  <2> QED BY <2>1 DEF LInv, TypeOK, CloseDissolver, calls
<1> QED BY <1>1, WorkerFrame DEF CloseDissolver, calls, LInv, TypeOK

\* Every step of the node keeps what it should.
LEMMA NodeKeeps == LInv /\ [Next]_vars => Kept
<1> SUFFICES ASSUME LInv, [Next]_vars PROVE Kept
  OBVIOUS
<1>1. CASE Call
  BY <1>1, AddSubStep, RemoveSubStep DEF Call
<1>2. CASE CloseDissolver
  BY <1>2, CloseStep
<1>3. ASSUME NEW g \in Goroutines, CallEnds(g) PROVE Kept
  BY <1>3, SubscribeStep, SubmitStep DEF CallEnds
<1>4. ASSUME NEW w \in Workers, WorkerStep(w) PROVE Kept
  BY <1>4, QueueStep, JobStep, UnsubscribeStep DEF WorkerStep
<1>5. CASE UNCHANGED vars
  BY <1>5, SMT DEF vars, calls, dissolver, Kept, LInv, TypeOK, LockInv, KeepsHeld,
     Held, AwaitedInv, Subscribing, Awaited, Queued
<1> QED BY <1>1, <1>2, <1>3, <1>4, <1>5 DEF Next

\* Every step keeps the invariant.
LEMMA SubStep == SubInv /\ [Next]_vars => SubInv'
<1> SUFFICES ASSUME SubInv, [Next]_vars PROVE SubInv'
  OBVIOUS
<1>1. Kept
  BY NodeKeeps DEF SubInv, LInv
<1>2. SubscribedInBroker'
  BY <1>1 DEF Kept, KeepsHeld, Held, SubInv, SubscribedInBroker
<1> QED BY <1>1, <1>2 DEF Kept, LInv, SubInv

\* The inductive invariant: locks, hub, broker and jobs fit together always.
THEOREM SubTheorem == Spec => []SubInv
  BY SubInit, SubStep, PTL DEF Spec

\* Whatever goroutines, workers and a failing broker do, a channel that has
\* subscribers in the hub is subscribed to in the broker, or about to be by the
\* goroutine that holds its lock (addSubscription, removeSubscription).
THEOREM SubscribedTheorem == Spec => []SubscribedInBroker
<1>1. SubInv => SubscribedInBroker
  BY DEF SubInv
<1> QED BY <1>1, SubTheorem, PTL

\* No subscription is forgotten in the broker: removeSubscription's job, or its
\* repetition, is on its way until the broker has unsubscribed.
THEOREM LeftoverTheorem == Spec => []LeftoverIsAwaited
<1>1. SubInv => LeftoverIsAwaited
  BY DEF SubInv, AwaitedInv, LeftoverIsAwaited
<1> QED BY <1>1, SubTheorem, PTL

-----------------------------------------------------------------------------
(* The PUB/SUB connection of the Redis broker under the node's steps        *)

\* At the start runPubSub has not run.
LEMMA PubSubInit == RInit => PubSubInv
<1> SUFFICES ASSUME RInit PROVE PubSubInv
  OBVIOUS
<1>1. TypeOK /\ LockInv
  BY SubInit DEF RInit, SubInv
<1>2. RTypeOK
  BY <1>1 DEF RInit, RTypeOK
<1> QED BY <1>1, <1>2 DEF RInit, PubSubInv, Phases, Resubscribes

\* A step of the node changes nothing of the connection, and no channel is lost.
LEMMA NodeStepKeeps ==
    ASSUME PubSubInv, NodeStep, UNCHANGED pubsub
    PROVE  PubSubInv'
<1>1. Next
  BY DEF NodeStep, Next, CallEnds, WorkerStep
<1>2. Kept
  BY <1>1, NodeKeeps DEF PubSubInv, RTypeOK, LInv
<1>3. RTypeOK' /\ Phases'
  BY <1>2 DEF Kept, LInv, PubSubInv, RTypeOK, Phases, pubsub, given
<1>4. LockInv'
  BY <1>2 DEF Kept, LInv
<1>5. Resubscribes'
  <2> SUFFICES ASSUME alive', ~done', hpc' # "none", NEW ch \in Channels,
                      subs'[ch] # {}
               PROVE  \/ ch \in bsub' \/ Subscribing(ch)'
                      \/ hpc' = "subscribing" /\ ch \in todo'
    BY DEF Resubscribes
  <2>1. alive /\ ~done /\ hpc # "none" /\ hpc' = hpc /\ todo' = todo
    BY DEF pubsub
  <2>2. Held(ch) \/ (hpc = "subscribing" /\ ch \in todo)
    BY <2>1 DEF PubSubInv, Resubscribes, Held
  <2>3. Held(ch) => Held(ch)'
    BY <1>2 DEF Kept, KeepsHeld
  <2> QED BY <2>1, <2>2, <2>3 DEF Held
<1> QED BY <1>3, <1>4, <1>5 DEF PubSubInv

\* Connect, the snapshot of the hub's channels and the resubscription.
LEMMA PubSubStepKeeps ==
    ASSUME PubSubInv, PubSubStep \/ ConnectionLost \/ SlotMigrates
    PROVE  PubSubInv'
<1>0. /\ UNCHANGED <<subs, lock, gpc, gch, gcl, jobs, dclosed, wpc, wch>>
      /\ bsub' \in SUBSET Channels
  BY DEF PubSubStep, Connect, Snapshot, ResubscribeFails, Resubscribed, Store,
     Unstore, Return, Resubscribe, ConnectionLost, SlotMigrates, vars, calls,
     dissolver, PubSubInv, RTypeOK, TypeOK
<1>1. TypeOK'
  BY <1>0 DEF PubSubInv, RTypeOK, TypeOK
<1>2. LockInv'
  BY <1>0 DEF PubSubInv, LockInv
<1>3. \A ch \in Channels : Subscribing(ch)' = Subscribing(ch)
  BY <1>0 DEF Subscribing
<1>4. QED
  <2> SUFFICES RTypeOK' /\ Phases' /\ Resubscribes'
    BY <1>2 DEF PubSubInv
  <2> USE <1>1 DEF PubSubInv, given
  <2>1. CASE Connect
    BY <2>1 DEF Connect, RTypeOK, Phases, Resubscribes
  <2>2. CASE Snapshot
    <3>1. todo' \in SUBSET Channels /\ \A ch \in Channels : subs[ch] # {} => ch \in todo'
      BY <2>2 DEF Snapshot
    <3>2. RTypeOK' /\ Phases'
      BY <2>2, <3>1 DEF Snapshot, RTypeOK, Phases
    <3>3. Resubscribes'
      BY <1>0, <2>2, <3>1 DEF Snapshot, Resubscribes
    <3> QED BY <3>2, <3>3
  <2>3. ASSUME NEW c \in Channels, Resubscribe(c)
        PROVE  RTypeOK' /\ Phases' /\ Resubscribes'
    <3>1. RTypeOK' /\ Phases'
      BY <2>3 DEF Resubscribe, RTypeOK, Phases
    <3>2. Resubscribes'
      BY <1>0, <1>3, <2>3 DEF Resubscribe, Resubscribes
    <3> QED BY <3>1, <3>2
  <2>4. CASE ResubscribeFails
    BY <2>4 DEF ResubscribeFails, RTypeOK, Phases, Resubscribes
  <2>5. CASE Resubscribed \/ Store
    <3>1. RTypeOK' /\ Phases'
      BY <2>5 DEF Resubscribed, Store, RTypeOK, Phases
    <3>2. Resubscribes'
      BY <1>0, <1>3, <2>5 DEF Resubscribed, Store, vars, Resubscribes
    <3> QED BY <3>1, <3>2
  <2>6. CASE Unstore
    BY <2>6 DEF Unstore, RTypeOK, Phases, Resubscribes
  <2>7. CASE Return
    BY <2>7 DEF Return, RTypeOK, Phases, Resubscribes
  <2>8. CASE ConnectionLost
    BY <2>8 DEF ConnectionLost, RTypeOK, Phases, Resubscribes
  <2>9. CASE SlotMigrates
    BY <2>9 DEF SlotMigrates, RTypeOK, Phases, Resubscribes
  <2> QED BY <2>1, <2>2, <2>3, <2>4, <2>5, <2>6, <2>7, <2>8, <2>9
          DEF PubSubStep

\* Whenever runPubSub's connection is handed to Subscribe and Unsubscribe and
\* works, it has every channel of the hub, although the node subscribed to and left
\* channels while it was being resubscribed from a list taken before.
THEOREM ConnectionTheorem == RSpec => []ConnectionHasChannels
<1>1. PubSubInv /\ [RNext]_rvars => PubSubInv'
  <2> SUFFICES ASSUME PubSubInv, [RNext]_rvars PROVE PubSubInv'
    OBVIOUS
  <2>1. CASE UNCHANGED rvars
    BY <2>1, SMT DEF rvars, vars, calls, dissolver, pubsub, given, PubSubInv, RTypeOK, TypeOK,
       LockInv, Phases, Resubscribes, Subscribing
  <2> QED BY <2>1, NodeStepKeeps, PubSubStepKeeps DEF RNext
<1>2. PubSubInv => ConnectionHasChannels
  BY DEF PubSubInv, Phases, Resubscribes, ConnectionHasChannels, Usable
<1> QED BY <1>1, <1>2, PubSubInit, PTL DEF RSpec



-----------------------------------------------------------------------------
(* The subscriptions of connect and subscribe commands                     *)

FlowStates == {"start", "addsub", "history", "lock", "ready", "failed"}

SubsTypes ==
    /\ request \in Requests
    /\ cpc \in [Subscribers -> {"subscribing", "replied", "unlocking", "failing", "done",
                                "failed"}]
    /\ fpc \in [Subscribers -> [SubChannels -> FlowStates]]
    /\ bpc \in [Subscribers -> [SubChannels -> {"idle", "lock", "update", "write"}]]
    /\ hub \in [Subscribers -> SUBSET SubChannels]
    /\ context \in [Subscribers -> SUBSET SubChannels]
    /\ reserved \in [Subscribers -> SUBSET SubChannels]
    /\ insub \in [Subscribers -> SUBSET SubChannels]
    /\ bufMu \in [Subscribers -> SUBSET SubChannels]
    /\ pubBuffer \in [Subscribers -> SUBSET SubChannels]
    /\ dropped \in [Subscribers -> SUBSET SubChannels]
    /\ btodo \in [SubChannels -> SUBSET Subscribers]
    /\ written \in [Subscribers -> SUBSET {"reply", "synced", "plain"}]

\* The reply is written before the contexts are stored; what is synced has a context.
ReplyThenContexts(c) ==
    /\ "synced" \in written[c] => "reply" \in written[c]
    /\ cpc[c] = "replied" => "reply" \in written[c]
    /\ IF cpc[c] \in {"unlocking", "done"} THEN context[c] = request.wants[c] ELSE context[c] = {}
    /\ context[c] # {} => "reply" \in written[c]
    /\ \A ch \in SubChannels : bpc[c][ch] = "write" => ch \in context[c]

\* Whoever finds the client in the hub finds the channel buffering, from before it is there
\* until the contexts are stored, unless the command fails; and from the moment the buffer
\* is read on, nothing more is put into it.
BufferedUntilStored(c) ==
    /\ cpc[c] # "subscribing" => AllDone(c)
    /\ \A ch \in SubChannels :
          /\ ch \in insub[c] => ch \in request.wants[c]
          /\ ch \in hub[c] \/ c \in btodo[ch] \/ bpc[c][ch] # "idle" =>
                ch \in request.wants[c] /\ fpc[c][ch] \notin {"start", "addsub"}
    /\ ~Fails(c) =>
          /\ dropped[c] \cap Positioned = {}
          /\ \A ch \in SubChannels \cap Positioned :
                /\ fpc[c][ch] # "start" /\ cpc[c] \in {"subscribing", "replied"} => ch \in insub[c]
                /\ fpc[c][ch] = "ready" =>
                      ch \notin pubBuffer[c] /\ (ch \in insub[c] => ch \in bufMu[c])
                /\ bpc[c][ch] = "update" => ch \in context[c]

ClientInv(c) == ReplyThenContexts(c) /\ BufferedUntilStored(c)
SubsInv == SubsTypes /\ \A c \in Subscribers : ClientInv(c)

\* A step leaves x alone.
Spared(x) ==
    /\ request' = request /\ cpc'[x] = cpc[x] /\ fpc'[x] = fpc[x] /\ bpc'[x] = bpc[x]
    /\ hub'[x] = hub[x] /\ context'[x] = context[x] /\ insub'[x] = insub[x]
    /\ bufMu'[x] = bufMu[x] /\ pubBuffer'[x] = pubBuffer[x]
    /\ written'[x] = written[x] /\ dropped'[x] = dropped[x]
    /\ \A ch \in SubChannels : x \in btodo'[ch] => x \in btodo[ch] \/ ch \in hub[x]

LEMMA SparedKeeps ==
    ASSUME NEW x \in Subscribers, ClientInv(x), Spared(x)
    PROVE  ClientInv(x)'
<1>1. ReplyThenContexts(x)'
  BY DEF ClientInv, Spared, ReplyThenContexts
<1>2. /\ AllDone(x)' <=> AllDone(x)
      /\ Fails(x)' <=> Fails(x)
  BY DEF Spared, AllDone, Fails, Failed
<1>3. BufferedUntilStored(x)'
  BY <1>2 DEF ClientInv, Spared, BufferedUntilStored
<1> QED BY <1>1, <1>3 DEF ClientInv

\* The goroutine of one channel: it buffers before it enters the hub.
LEMMA FlowKeeps ==
    ASSUME SubsInv, NEW c \in Subscribers, NEW ch \in SubChannels, FlowStep(c, ch)
    PROVE  SubsInv'
<1> USE DEF Goto, broadcast, sync
<1>1. /\ UNCHANGED <<request, cpc, context, reserved, bpc, btodo, written, dropped>>
      /\ \E p \in FlowStates : fpc' = [fpc EXCEPT ![c][ch] = p]
      /\ hub' = hub \/ (hub' = With(hub, c, ch) /\ fpc'[c][ch] = "history")
      /\ \/ insub' = insub
         \/ insub' = With(insub, c, ch) /\ fpc[c][ch] = "start" /\ ch \in Positioned
         \/ insub' = Without(insub, c, ch) /\ fpc'[c][ch] = "failed"
      /\ bufMu' = bufMu \/ bufMu' = With(bufMu, c, ch)
      /\ pubBuffer' = pubBuffer \/ pubBuffer' = Without(pubBuffer, c, ch)
      /\ fpc[c][ch] \notin {"ready", "failed"} /\ fpc'[c][ch] # "start"
      /\ ch \in request.wants[c]
      /\ fpc'[c][ch] = "addsub" => fpc[c][ch] = "start" /\ (ch \in Positioned => insub' = With(insub, c, ch))
      /\ fpc'[c][ch] = "ready" /\ ch \in Positioned =>
            bufMu' = With(bufMu, c, ch) /\ pubBuffer' = Without(pubBuffer, c, ch)
      /\ fpc'[c][ch] \notin {"addsub", "failed"} => fpc[c][ch] # "start" /\ insub' = insub
  <2>1. \A p \in FlowStates : [fpc EXCEPT ![c][ch] = p][c][ch] = p
    BY SMT DEF SubsInv, SubsTypes
  <2> USE DEF FlowStates
  <2>2. CASE StartBuffering(c, ch)
    BY <2>1, <2>2 DEF FlowStep, StartBuffering
  <2>3. CASE AddSubscription(c, ch)
    BY <2>1, <2>3 DEF FlowStep, AddSubscription
  <2>4. CASE ReadHistory(c, ch)
    BY <2>1, <2>4 DEF FlowStep, ReadHistory
  <2>5. CASE LockBufferAndReadBuffered(c, ch)
    BY <2>1, <2>5 DEF FlowStep, LockBufferAndReadBuffered
  <2>6. CASE SubscribeFails(c, ch)
    BY <2>1, <2>6 DEF FlowStep, SubscribeFails
  <2> QED BY <2>2, <2>3, <2>4, <2>5, <2>6 DEF FlowStep
<1>2. /\ \A x \in Subscribers \ {c} : fpc'[x] = fpc[x]
      /\ \A y \in SubChannels \ {ch} : fpc'[c][y] = fpc[c][y]
      /\ fpc' \in [Subscribers -> [SubChannels -> FlowStates]]
  BY <1>1, SMT DEF SubsInv, SubsTypes
<1>3. /\ hub' \in [Subscribers -> SUBSET SubChannels] /\ insub' \in [Subscribers -> SUBSET SubChannels]
      /\ bufMu' \in [Subscribers -> SUBSET SubChannels]
      /\ pubBuffer' \in [Subscribers -> SUBSET SubChannels]
      /\ \A x \in Subscribers \ {c} : /\ hub'[x] = hub[x] /\ insub'[x] = insub[x]
                                      /\ bufMu'[x] = bufMu[x] /\ pubBuffer'[x] = pubBuffer[x]
  <2>1. /\ hub' \in [Subscribers -> SUBSET SubChannels]
        /\ \A x \in Subscribers \ {c} : hub'[x] = hub[x]
    <3>1. /\ hub \in [Subscribers -> SUBSET SubChannels]
          /\ hub' = hub \/ hub' = [hub EXCEPT ![c] = @ \cup {ch}] \/ hub' = [hub EXCEPT ![c] = @ \ {ch}]
      BY <1>1 DEF SubsInv, SubsTypes, With, Without
    <3> QED BY <3>1, SMT
  <2>2. /\ insub' \in [Subscribers -> SUBSET SubChannels]
        /\ \A x \in Subscribers \ {c} : insub'[x] = insub[x]
    <3>1. /\ insub \in [Subscribers -> SUBSET SubChannels]
          /\ insub' = insub \/ insub' = [insub EXCEPT ![c] = @ \cup {ch}] \/ insub' = [insub EXCEPT ![c] = @ \ {ch}]
      BY <1>1 DEF SubsInv, SubsTypes, With, Without
    <3> QED BY <3>1, SMT
  <2>3. /\ bufMu' \in [Subscribers -> SUBSET SubChannels]
        /\ \A x \in Subscribers \ {c} : bufMu'[x] = bufMu[x]
    <3>1. /\ bufMu \in [Subscribers -> SUBSET SubChannels]
          /\ bufMu' = bufMu \/ bufMu' = [bufMu EXCEPT ![c] = @ \cup {ch}] \/ bufMu' = [bufMu EXCEPT ![c] = @ \ {ch}]
      BY <1>1 DEF SubsInv, SubsTypes, With, Without
    <3> QED BY <3>1, SMT
  <2>4. /\ pubBuffer' \in [Subscribers -> SUBSET SubChannels]
        /\ \A x \in Subscribers \ {c} : pubBuffer'[x] = pubBuffer[x]
    <3>1. /\ pubBuffer \in [Subscribers -> SUBSET SubChannels]
          /\ pubBuffer' = pubBuffer \/ pubBuffer' = [pubBuffer EXCEPT ![c] = @ \cup {ch}] \/ pubBuffer' = [pubBuffer EXCEPT ![c] = @ \ {ch}]
      BY <1>1 DEF SubsInv, SubsTypes, With, Without
    <3> QED BY <3>1, SMT
  <2> QED BY <2>1, <2>2, <2>3, <2>4
<1>4. SubsTypes'
  BY <1>1, <1>2, <1>3 DEF SubsInv, SubsTypes
<1>5. ASSUME NEW x \in Subscribers \ {c} PROVE ClientInv(x)'
  BY <1>1, <1>2, <1>3, SparedKeeps DEF SubsInv, Spared
<1>6. ReplyThenContexts(c)'
  BY <1>1 DEF SubsInv, ClientInv, ReplyThenContexts
<1>7. BufferedUntilStored(c)'
  <2> USE DEF SubsInv, ClientInv, BufferedUntilStored
  <2>0. cpc[c] = "subscribing"
    BY <1>1 DEF AllDone
  <2>1. /\ hub'[c] = hub[c] \/ (hub'[c] = hub[c] \cup {ch} /\ fpc'[c][ch] = "history")
        /\ \/ insub'[c] = insub[c]
           \/ insub'[c] = insub[c] \cup {ch}
           \/ insub'[c] = insub[c] \ {ch} /\ fpc'[c][ch] = "failed"
        /\ fpc'[c][ch] = "addsub" => (ch \in Positioned => insub'[c] = insub[c] \cup {ch})
        /\ bufMu'[c] = bufMu[c] \/ bufMu'[c] = bufMu[c] \cup {ch}
        /\ pubBuffer'[c] = pubBuffer[c] \/ pubBuffer'[c] = pubBuffer[c] \ {ch}
        /\ fpc'[c][ch] = "ready" /\ ch \in Positioned =>
              ch \in bufMu'[c] /\ ch \notin pubBuffer'[c]
    <3>1. /\ With(hub, c, ch)[c] = hub[c] \cup {ch} /\ With(insub, c, ch)[c] = insub[c] \cup {ch}
          /\ Without(insub, c, ch)[c] = insub[c] \ {ch} /\ With(bufMu, c, ch)[c] = bufMu[c] \cup {ch}
          /\ Without(pubBuffer, c, ch)[c] = pubBuffer[c] \ {ch}
      <4>1. With(hub, c, ch)[c] = hub[c] \cup {ch}
        BY DEF SubsTypes, With, Without
      <4>2. With(insub, c, ch)[c] = insub[c] \cup {ch} /\ Without(insub, c, ch)[c] = insub[c] \ {ch}
        BY DEF SubsTypes, With, Without
      <4>3. With(bufMu, c, ch)[c] = bufMu[c] \cup {ch}
        BY DEF SubsTypes, With, Without
      <4>4. Without(pubBuffer, c, ch)[c] = pubBuffer[c] \ {ch}
        BY DEF SubsTypes, With, Without
      <4> QED BY <4>1, <4>2, <4>3, <4>4
    <3> QED BY <1>1, <3>1
  <2>2. Fails(c) => Fails(c)'
    <3>0. request.wants[c] \subseteq SubChannels
      BY ServerSubsAssumption, SMT DEF SubsTypes
    <3>1. \A y \in request.wants[c] : fpc[c][y] = "failed" => y # ch /\ fpc'[c][y] = "failed"
      BY <1>1, <1>2, <3>0
    <3> QED BY <1>1, <3>1 DEF Fails, Failed
  <2>3. \A y \in SubChannels :
          /\ y \in insub'[c] => y \in request'.wants[c]
          /\ y \in hub'[c] \/ c \in btodo'[y] \/ bpc'[c][y] # "idle" =>
                y \in request'.wants[c] /\ fpc'[c][y] \notin {"start", "addsub"}
    <3> TAKE y \in SubChannels
    <3>1. CASE y = ch
      BY <1>1, <2>1, <3>1
    <3>2. CASE y # ch
      BY <1>1, <1>2, <2>1, <3>2
    <3> QED BY <3>1, <3>2
  <2>4. ASSUME ~Fails(c)', NEW y \in SubChannels \cap Positioned
        PROVE  /\ fpc'[c][y] # "start" => y \in insub'[c]
               /\ fpc'[c][y] = "ready" =>
                     y \notin pubBuffer'[c] /\ (y \in insub'[c] => y \in bufMu'[c])
               /\ bpc'[c][y] = "update" => y \in context'[c]
    <3>1. fpc'[c][ch] # "failed"
      BY <1>1, <2>4 DEF Fails, Failed
    <3>2. CASE y = ch
      BY <1>1, <2>0, <2>1, <2>2, <2>4, <3>1, <3>2
    <3>3. CASE y # ch
      BY <1>1, <1>2, <2>0, <2>1, <2>2, <2>4, <3>1, <3>3
    <3> QED BY <3>2, <3>3
  <2>5. dropped'[c] = dropped[c] /\ cpc'[c] = cpc[c]
    BY <1>1
  <2> QED BY <2>0, <2>2, <2>3, <2>4, <2>5
<1> QED BY <1>4, <1>5, <1>6, <1>7 DEF SubsInv, ClientInv

\* The command itself: it replies, stores the contexts and then unlocks the buffers.
LEMMA CommandKeeps ==
    ASSUME SubsInv, NEW c \in Subscribers, CommandStep(c)
    PROVE  SubsInv'
<1> USE DEF broadcast, sync, flow, CGoto
<1>1. CASE WriteReply(c) \/ SetContexts(c) \/ Finish(c) \/ Fail(c) \/ OnSubscribeError(c)
  <2>0. cpc \in [Subscribers -> {"subscribing", "replied", "unlocking", "failing", "done",
                                "failed"}]
    BY DEF SubsInv, SubsTypes
  <2>1. /\ UNCHANGED <<request, fpc, bpc, btodo, insub, bufMu, pubBuffer, dropped>>
        /\ \/ cpc[c] = "subscribing" /\ AllDone(c) /\ cpc'[c] = "failing"
           \/ cpc[c] = "failing" /\ cpc'[c] = "failed"
           \/ cpc[c] = "unlocking" /\ cpc'[c] = "done"
           \/ cpc[c] = "replied" /\ cpc'[c] = "unlocking"
           \/ cpc[c] = "subscribing" /\ AllDone(c) /\ cpc'[c] = "replied"
        /\ cpc' \in [Subscribers -> {"subscribing", "replied", "unlocking", "failing", "done",
                                     "failed"}]
        /\ \A x \in Subscribers \ {c} : cpc'[x] = cpc[x]
    BY <1>1, <2>0 DEF WriteReply, SetContexts, Finish, Fail, OnSubscribeError
  <2>2. /\ hub' \in [Subscribers -> SUBSET SubChannels] /\ hub'[c] \subseteq hub[c]
        /\ \A x \in Subscribers \ {c} : hub'[x] = hub[x]
    <3>1. hub' = hub \/ hub' = [hub EXCEPT ![c] = @ \ reserved[c]]
      BY <1>1 DEF WriteReply, SetContexts, Finish, Fail, OnSubscribeError
    <3>2. hub \in [Subscribers -> SUBSET SubChannels]
      BY DEF SubsInv, SubsTypes
    <3> QED BY <3>1, <3>2, SMT
  <2>3. /\ context' \in [Subscribers -> SUBSET SubChannels]
        /\ reserved' \in [Subscribers -> SUBSET SubChannels]
        /\ \A x \in Subscribers \ {c} : context'[x] = context[x]
        /\ IF cpc'[c] = "unlocking" THEN context'[c] = request.wants[c]
           ELSE context'[c] = context[c]
    <3>1. request.wants[c] \in SUBSET SubChannels
      BY ServerSubsAssumption, SMT DEF SubsInv, SubsTypes
    <3> QED BY <1>1, <2>1, <3>1
            DEF SubsInv, SubsTypes, WriteReply, SetContexts, Finish, Fail, OnSubscribeError
  <2>4. /\ written' \in [Subscribers -> SUBSET {"reply", "synced", "plain"}]
        /\ \A x \in Subscribers \ {c} : written'[x] = written[x]
        /\ IF cpc'[c] = "replied" THEN written'[c] = written[c] \cup {"reply"}
           ELSE written'[c] = written[c]
    <3>1. \/ cpc'[c] = "replied" /\ written' = [written EXCEPT ![c] = @ \cup {"reply"}]
          \/ cpc'[c] # "replied" /\ written' = written
      BY <1>1, <2>1
         DEF SubsInv, SubsTypes, WriteReply, SetContexts, Finish, Fail, OnSubscribeError, With
    <3>2. written \in [Subscribers -> SUBSET {"reply", "synced", "plain"}]
      BY DEF SubsInv, SubsTypes
    <3> QED BY <3>1, <3>2, SMT
  <2>5. SubsTypes'
    BY <2>1, <2>2, <2>3, <2>4 DEF SubsInv, SubsTypes
  <2>6. ASSUME NEW x \in Subscribers \ {c} PROVE ClientInv(x)'
    BY <2>1, <2>2, <2>3, <2>4, SparedKeeps DEF SubsInv, Spared
  <2>7. ReplyThenContexts(c)'
    BY <2>1, <2>3, <2>4 DEF SubsInv, ClientInv, ReplyThenContexts
  <2>8. BufferedUntilStored(c)'
    <3>1. (AllDone(c)' <=> AllDone(c)) /\ (Fails(c) => Fails(c)')
      BY <2>1 DEF AllDone, Fails, Failed
    <3>2. context[c] \subseteq context'[c]
      BY <2>1, <2>3 DEF SubsInv, ClientInv, ReplyThenContexts
    <3> QED BY <2>1, <2>2, <2>3, <3>1, <3>2 DEF SubsInv, ClientInv, BufferedUntilStored, Fails
  <2> QED BY <2>5, <2>6, <2>7, <2>8 DEF SubsInv, ClientInv
<1>2. ASSUME NEW ch \in SubChannels, StopBuffering(c, ch) PROVE SubsInv'
  <2>1. /\ UNCHANGED <<request, cpc, fpc, hub, context, reserved, bpc, btodo, written>>
        /\ cpc[c] \in {"unlocking", "failing"} /\ ch \in insub[c]
        /\ insub' = [insub EXCEPT ![c] = @ \ {ch}] /\ bufMu' = [bufMu EXCEPT ![c] = @ \ {ch}]
        /\ pubBuffer' = [pubBuffer EXCEPT ![c] = @ \ {ch}]
        /\ \/ dropped' = dropped
           \/ dropped' = [dropped EXCEPT ![c] = @ \cup {ch}] /\ ch \in pubBuffer[c]
    BY <1>2 DEF StopBuffering, Stop, With, Without
  <2>2. /\ insub' \in [Subscribers -> SUBSET SubChannels] /\ insub'[c] = insub[c] \ {ch}
        /\ \A x \in Subscribers \ {c} : insub'[x] = insub[x]
    BY <2>1 DEF SubsInv, SubsTypes
  <2>3. /\ bufMu' \in [Subscribers -> SUBSET SubChannels] /\ bufMu'[c] = bufMu[c] \ {ch}
        /\ \A x \in Subscribers \ {c} : bufMu'[x] = bufMu[x]
    BY <2>1 DEF SubsInv, SubsTypes
  <2>4. /\ pubBuffer' \in [Subscribers -> SUBSET SubChannels]
        /\ pubBuffer'[c] = pubBuffer[c] \ {ch}
        /\ \A x \in Subscribers \ {c} : pubBuffer'[x] = pubBuffer[x]
    BY <2>1 DEF SubsInv, SubsTypes
  <2>5. /\ dropped' \in [Subscribers -> SUBSET SubChannels]
        /\ \A x \in Subscribers \ {c} : dropped'[x] = dropped[x]
        /\ dropped'[c] = dropped[c] \/ (dropped'[c] = dropped[c] \cup {ch} /\ ch \in pubBuffer[c])
    <3>1. dropped \in [Subscribers -> SUBSET SubChannels]
      BY DEF SubsInv, SubsTypes
    <3> QED BY <2>1, <3>1, SMT
  <2>6. SubsTypes'
    BY <2>1, <2>2, <2>3, <2>4, <2>5 DEF SubsInv, SubsTypes
  <2>7. ASSUME NEW x \in Subscribers \ {c} PROVE ClientInv(x)'
    BY <2>1, <2>2, <2>3, <2>4, <2>5, SparedKeeps DEF SubsInv, Spared
  <2>8. ReplyThenContexts(c)'
    BY <2>1 DEF SubsInv, ClientInv, ReplyThenContexts
  <2>9. BufferedUntilStored(c)'
    <3>1. (AllDone(c)' <=> AllDone(c)) /\ (Fails(c)' <=> Fails(c))
      BY <2>1 DEF AllDone, Fails, Failed
    <3>2. ~Fails(c) => fpc[c][ch] = "ready"
      BY <2>1 DEF SubsInv, ClientInv, BufferedUntilStored, AllDone, Fails, Failed
    <3>3. ~Fails(c) => dropped'[c] \cap Positioned = {}
      BY <2>5, <3>2 DEF SubsInv, ClientInv, BufferedUntilStored
    <3> QED BY <2>1, <2>2, <2>3, <2>4, <3>1, <3>3 DEF SubsInv, ClientInv, BufferedUntilStored
  <2> QED BY <2>6, <2>7, <2>8, <2>9 DEF SubsInv, ClientInv
<1> QED BY <1>1, <1>2 DEF CommandStep

\* A broadcast at a client: what it does not buffer it drops, unless the context is there.
LEMMA SyncKeeps ==
    ASSUME SubsInv, NEW c \in Subscribers, NEW ch \in SubChannels, SyncStep(c, ch)
    PROVE  SubsInv'
<1> USE DEF BGoto, flow, sync
<1>1. /\ UNCHANGED <<request, cpc, fpc, hub, context, reserved, insub, bufMu>>
      /\ \E p \in {"idle", "lock", "update", "write"} :
            /\ bpc' = [bpc EXCEPT ![c][ch] = p]
            /\ p = "update" => ch \notin insub[c]
            /\ p = "write" => ch \in context[c]
      /\ c \in btodo[ch] \/ bpc[c][ch] # "idle"
      /\ btodo' = btodo \/ btodo' = [btodo EXCEPT ![ch] = @ \ {c}]
      /\ \/ pubBuffer' = pubBuffer
         \/ /\ pubBuffer' = [pubBuffer EXCEPT ![c] = @ \cup {ch}]
            /\ ch \in insub[c] /\ ch \notin bufMu[c]
      /\ \/ written' = written
         \/ written' = [written EXCEPT ![c] = @ \cup {"plain"}]
         \/ written' = [written EXCEPT ![c] = @ \cup {"synced"}] /\ bpc[c][ch] = "write"
      /\ \/ dropped' = dropped
         \/ /\ dropped' = [dropped EXCEPT ![c] = @ \cup {ch}]
            /\ bpc[c][ch] = "update" /\ ch \notin context[c]
  <2>1. CASE Visit(c, ch)
    BY <2>1 DEF Visit, With
  <2>2. CASE SyncPublication(c, ch)
    BY <2>2 DEF SyncPublication, With
  <2>3. CASE UpdatePosition(c, ch)
    BY <2>3 DEF UpdatePosition, With
  <2>4. CASE WritePublication(c, ch)
    BY <2>4 DEF WritePublication, With
  <2> QED BY <2>1, <2>2, <2>3, <2>4 DEF SyncStep
<1>2. /\ bpc' \in [Subscribers -> [SubChannels -> {"idle", "lock", "update", "write"}]]
      /\ \A x \in Subscribers \ {c} : bpc'[x] = bpc[x]
      /\ \A y \in SubChannels \ {ch} : bpc'[c][y] = bpc[c][y]
      /\ bpc'[c][ch] = "update" => ch \notin insub[c]
      /\ bpc'[c][ch] = "write" => ch \in context[c]
  <2>1. bpc \in [Subscribers -> [SubChannels -> {"idle", "lock", "update", "write"}]]
    BY DEF SubsInv, SubsTypes
  <2> QED BY <1>1, <2>1, SMT
<1>3. /\ btodo' \in [SubChannels -> SUBSET Subscribers]
      /\ \A y \in SubChannels : btodo'[y] \subseteq btodo[y]
  <2>1. btodo \in [SubChannels -> SUBSET Subscribers]
    BY DEF SubsInv, SubsTypes
  <2> QED BY <1>1, <2>1, SMT
<1>4. /\ pubBuffer' \in [Subscribers -> SUBSET SubChannels]
      /\ \A x \in Subscribers \ {c} : pubBuffer'[x] = pubBuffer[x]
      /\ \/ pubBuffer'[c] = pubBuffer[c]
         \/ pubBuffer'[c] = pubBuffer[c] \cup {ch} /\ ch \in insub[c] /\ ch \notin bufMu[c]
  <2>1. pubBuffer \in [Subscribers -> SUBSET SubChannels]
    BY DEF SubsInv, SubsTypes
  <2> QED BY <1>1, <2>1, SMT
<1>5. /\ written' \in [Subscribers -> SUBSET {"reply", "synced", "plain"}]
      /\ \A x \in Subscribers \ {c} : written'[x] = written[x]
      /\ written[c] \subseteq written'[c]
      /\ "synced" \in written'[c] => "synced" \in written[c] \/ bpc[c][ch] = "write"
  <2>1. written \in [Subscribers -> SUBSET {"reply", "synced", "plain"}]
    BY DEF SubsInv, SubsTypes
  <2> QED BY <1>1, <2>1, SMT
<1>6. /\ dropped' \in [Subscribers -> SUBSET SubChannels]
      /\ \A x \in Subscribers \ {c} : dropped'[x] = dropped[x]
      /\ \/ dropped'[c] = dropped[c]
         \/ dropped'[c] = dropped[c] \cup {ch} /\ bpc[c][ch] = "update" /\ ch \notin context[c]
  <2>1. dropped \in [Subscribers -> SUBSET SubChannels]
    BY DEF SubsInv, SubsTypes
  <2> QED BY <1>1, <2>1, SMT
<1>7. SubsTypes'
  BY <1>1, <1>2, <1>3, <1>4, <1>5, <1>6 DEF SubsInv, SubsTypes
<1>8. ASSUME NEW x \in Subscribers \ {c} PROVE ClientInv(x)'
  BY <1>1, <1>2, <1>3, <1>4, <1>5, <1>6, SparedKeeps DEF SubsInv, Spared
<1>9. ReplyThenContexts(c)'
  <2>1. \A y \in SubChannels : bpc'[c][y] = "write" => y \in context[c]
    BY <1>2 DEF SubsInv, ClientInv, ReplyThenContexts
  <2> QED BY <1>1, <1>5, <2>1 DEF SubsInv, ClientInv, ReplyThenContexts
<1>10. BufferedUntilStored(c)'
  <2> USE DEF SubsInv, ClientInv, BufferedUntilStored
  <2>1. (AllDone(c)' <=> AllDone(c)) /\ (Fails(c)' <=> Fails(c))
    BY <1>1 DEF AllDone, Fails, Failed
  <2>2. ch \in request.wants[c] /\ fpc[c][ch] \notin {"start", "addsub"}
    BY <1>1
  <2>3. \A y \in SubChannels :
          y \in hub'[c] \/ c \in btodo'[y] \/ bpc'[c][y] # "idle" =>
             y \in request.wants[c] /\ fpc[c][y] \notin {"start", "addsub"}
    BY <1>1, <1>2, <1>3, <2>2
  <2>4. ASSUME ~Fails(c) PROVE dropped'[c] \cap Positioned = {}
    BY <1>6, <2>4
  <2>5. ASSUME ~Fails(c), NEW y \in SubChannels \cap Positioned, fpc[c][y] = "ready"
        PROVE  y \notin pubBuffer'[c]
    <3>1. y \notin pubBuffer[c] /\ (y \in insub[c] => y \in bufMu[c])
      BY <2>5
    <3> QED BY <1>4, <3>1
  <2>6. ASSUME ~Fails(c), NEW y \in SubChannels \cap Positioned, bpc'[c][y] = "update"
        PROVE  y \in context[c]
    <3>1. CASE y # ch
      BY <1>2, <2>6, <3>1
    <3>2. CASE y = ch
      <4>1. cpc[c] \in {"unlocking", "done"}
        <5>1. cpc[c] \in {"subscribing", "replied", "unlocking", "failing", "done", "failed"}
          BY DEF SubsTypes
        <5>2. cpc[c] \notin {"subscribing", "replied", "failing", "failed"}
          BY <1>2, <2>2, <2>6, <3>2 DEF Fails
        <5> QED BY <5>1, <5>2
      <4> QED BY <2>2, <3>2, <4>1 DEF ReplyThenContexts
    <3> QED BY <3>1, <3>2
  <2> QED BY <1>1, <2>1, <2>3, <2>4, <2>5, <2>6
<1> QED BY <1>7, <1>8, <1>9, <1>10 DEF SubsInv, ClientInv

\* A broadcast begins or ends: it will visit clients that are in the hub.
LEMMA BroadcastKeeps ==
    ASSUME SubsInv, NEW ch \in SubChannels, BroadcastStart(ch) \/ BroadcastEnds(ch)
    PROVE  SubsInv'
<1>1. /\ UNCHANGED <<request, cpc, fpc, hub, context, reserved, insub, bufMu, pubBuffer, bpc,
                     written, dropped>>
      /\ \/ btodo' = btodo
         \/ btodo' = [btodo EXCEPT ![ch] = {c \in Subscribers : ch \in hub[c]}]
  BY DEF BroadcastStart, BroadcastEnds, flow, sync
<1>2. /\ btodo' \in [SubChannels -> SUBSET Subscribers]
      /\ \A x \in Subscribers, y \in SubChannels : x \in btodo'[y] => x \in btodo[y] \/ y \in hub[x]
  <2>1. btodo \in [SubChannels -> SUBSET Subscribers]
    BY DEF SubsInv, SubsTypes
  <2>2. CASE btodo' = btodo
    BY <2>1, <2>2
  <2>3. CASE btodo' = [btodo EXCEPT ![ch] = {c \in Subscribers : ch \in hub[c]}]
    <3>1. btodo'[ch] = {c \in Subscribers : ch \in hub[c]}
      BY <2>1, <2>3
    <3>2. \A y \in SubChannels \ {ch} : btodo'[y] = btodo[y]
      BY <2>1, <2>3
    <3> QED BY <2>1, <2>3, <3>1, <3>2
  <2> QED BY <1>1, <2>2, <2>3
<1>3. SubsTypes'
  BY <1>1, <1>2 DEF SubsInv, SubsTypes
<1>4. ASSUME NEW x \in Subscribers PROVE ClientInv(x)'
  BY <1>1, <1>2, SparedKeeps DEF SubsInv, Spared
<1> QED BY <1>3, <1>4 DEF SubsInv

\* The reply to a connect or subscribe command comes before every publication with an
\* offset, and none of a positioned channel is lost between entering the hub and storing
\* its context, however the goroutines of any number of clients, the commands and the
\* broadcasts interleave.
THEOREM ReplyFirstTheorem == SSpec => []ReplyFirst
<1>1. SInit => SubsInv
  <2> SUFFICES ASSUME SInit PROVE SubsInv
    OBVIOUS
  <2>1. request.wants \in [Subscribers -> SUBSET SubChannels]
    BY ServerSubsAssumption DEF SInit
  <2>2. SubsTypes
    BY <2>1 DEF SInit, SubsTypes, FlowStates, None
  <2>3. ASSUME NEW c \in Subscribers PROVE ClientInv(c)
    BY <2>1 DEF SInit, ClientInv, ReplyThenContexts, BufferedUntilStored, AllDone, None
  <2> QED BY <2>2, <2>3 DEF SubsInv
<1>2. SubsInv /\ [SNext]_svars => SubsInv'
  <2> SUFFICES ASSUME SubsInv, [SNext]_svars PROVE SubsInv'
    OBVIOUS
  <2>1. CASE UNCHANGED svars
    <3>1. SubsTypes'
      BY <2>1 DEF svars, flow, sync, broadcast, SubsInv, SubsTypes
    <3>2. ASSUME NEW x \in Subscribers PROVE ClientInv(x)'
      BY <2>1, SparedKeeps DEF svars, flow, sync, broadcast, SubsInv, Spared
    <3> QED BY <3>1, <3>2 DEF SubsInv
  <2> QED BY <2>1, FlowKeeps, CommandKeeps, SyncKeeps, BroadcastKeeps DEF SNext, CommandsRun
<1>3. SubsInv => ReplyFirst
  BY DEF SubsInv, ClientInv, ReplyThenContexts, BufferedUntilStored, ReplyFirst
<1> QED BY <1>1, <1>2, <1>3, PTL DEF SSpec

=============================================================================
