------------------------------ MODULE NodeSub ------------------------------
(***************************************************************************)
(* How a node keeps its subscriptions in the hub and in the broker         *)
(* together: Node.addSubscription and Node.removeSubscription under the    *)
(* striped subLocks, and the dissolver, whose workers unsubscribe from the *)
(* broker later and retry until it succeeds.  The broker is external: a    *)
(* call of it succeeds, or fails and has no effect.                        *)
(***************************************************************************)
EXTENDS Naturals, Sequences

CONSTANTS
    Channels, Clients,
    Goroutines,   \* that call addSubscription or removeSubscription
    Workers,      \* goroutines of the dissolver
    Locks, LockOf,\* subLocks, and the index of a channel's lock
    Free,         \* the holder of a free lock
    MaxJobs       \* bound: calls of removeSubscription wait when so many jobs are queued

ASSUME NodeSubAssumption ==
    /\ Channels # {} /\ Clients # {}
    /\ LockOf \in [Channels -> Locks]
    /\ Goroutines \cap Workers = {}
    /\ Free \notin Goroutines \cup Workers
    /\ MaxJobs \in Nat

VARIABLES
    subs,     \* hub: channel -> clients
    bsub,     \* channels the node is subscribed to in the broker
    lock,     \* holder of each subLock
    gpc, gch, gcl,   \* goroutine: step, channel, client
    jobs,     \* the dissolver's queue, a job is its channel
    dclosed,  \* the dissolver is closed
    wpc, wch  \* worker: step, channel of its job

calls == <<gpc, gch, gcl>>
dissolver == <<jobs, dclosed, wpc, wch>>
vars == <<subs, bsub, lock, calls, dissolver>>

Init ==
    /\ subs = [ch \in Channels |-> {}]
    /\ bsub = {}
    /\ lock = [l \in Locks |-> Free]
    /\ gpc = [g \in Goroutines |-> "idle"]
    /\ gch = [g \in Goroutines |-> CHOOSE ch \in Channels : TRUE]
    /\ gcl = [g \in Goroutines |-> CHOOSE c \in Clients : TRUE]
    /\ jobs = <<>> /\ dclosed = FALSE
    /\ wpc = [w \in Workers |-> "wait"]
    /\ wch = [w \in Workers |-> CHOOSE ch \in Channels : TRUE]

Acquire(x, ch) ==
    /\ lock[LockOf[ch]] = Free
    /\ lock' = [lock EXCEPT ![LockOf[ch]] = x]

Release(ch) == lock' = [lock EXCEPT ![LockOf[ch]] = Free]

-----------------------------------------------------------------------------
(* addSubscription                                                          *)

\* hub.addSub; only the first subscriber goes on to the broker, with the lock.
AddSub(g, ch, c) ==
    /\ gpc[g] = "idle"
    /\ lock[LockOf[ch]] = Free
    /\ subs' = [subs EXCEPT ![ch] = @ \cup {c}]
    /\ IF subs[ch] = {}
       THEN /\ gpc' = [gpc EXCEPT ![g] = "subscribe"]
            /\ gch' = [gch EXCEPT ![g] = ch]
            /\ gcl' = [gcl EXCEPT ![g] = c]
            /\ Acquire(g, ch)
       ELSE UNCHANGED <<calls, lock>>
    /\ UNCHANGED <<bsub, dissolver>>

BrokerSubscribe(g) ==
    /\ gpc[g] = "subscribe"
    /\ bsub' = bsub \cup {gch[g]}
    /\ gpc' = [gpc EXCEPT ![g] = "idle"]
    /\ Release(gch[g])
    /\ UNCHANGED <<subs, gch, gcl, dissolver>>

\* broker.Subscribe returns an error: the subscription leaves the hub again.
BrokerSubscribeFails(g) ==
    /\ gpc[g] = "subscribe"
    /\ subs' = [subs EXCEPT ![gch[g]] = @ \ {gcl[g]}]
    /\ gpc' = [gpc EXCEPT ![g] = "idle"]
    /\ Release(gch[g])
    /\ UNCHANGED <<bsub, gch, gcl, dissolver>>

-----------------------------------------------------------------------------
(* removeSubscription                                                       *)

\* What hub.removeSub returns: the last client left, or c was not found.
Empties(ch, c) == subs[ch] = {c} \/ c \notin subs[ch]

RemoveSub(g, ch, c) ==
    /\ gpc[g] = "idle"
    /\ lock[LockOf[ch]] = Free
    /\ Len(jobs) < MaxJobs
    /\ subs' = [subs EXCEPT ![ch] = @ \ {c}]
    /\ IF Empties(ch, c)
       THEN /\ gpc' = [gpc EXCEPT ![g] = "submit"]
            /\ gch' = [gch EXCEPT ![g] = ch]
            /\ Acquire(g, ch)
       ELSE UNCHANGED <<gpc, gch, lock>>
    /\ UNCHANGED <<bsub, gcl, dissolver>>

\* Mutant of QueueAdd: no worker is woken.
QueueAddSilent(ch, at) ==
    wpc' = at /\ jobs' = IF dclosed THEN jobs ELSE Append(jobs, ch)

\* The dissolver's Add: dropped when closed, else cond.Signal wakes one worker.
\* The workers are at `at' otherwise.
QueueAdd(ch, at) ==
    IF dclosed THEN wpc' = at /\ UNCHANGED jobs
    ELSE /\ jobs' = Append(jobs, ch)
         /\ IF \E w \in Workers : at[w] = "asleep"
            THEN \E w \in Workers : /\ at[w] = "asleep"
                                    /\ wpc' = [at EXCEPT ![w] = "remove"]
            ELSE wpc' = at

Submit(g) ==
    /\ gpc[g] = "submit"
    /\ QueueAdd(gch[g], wpc)
    /\ gpc' = [gpc EXCEPT ![g] = "idle"]
    /\ Release(gch[g])
    /\ UNCHANGED <<subs, bsub, gch, gcl, dclosed, wch>>

-----------------------------------------------------------------------------
(* The dissolver's workers.  The queue's Wait gives up the mutex before it  *)
(* removes, so another worker may have taken the job meanwhile.             *)

Wait(w) ==
    /\ wpc[w] = "wait"
    /\ wpc' = [wpc EXCEPT ![w] = IF dclosed THEN "done"
                                 ELSE IF jobs # <<>> THEN "remove" ELSE "asleep"]
    /\ UNCHANGED <<subs, bsub, lock, calls, jobs, dclosed, wch>>

Remove(w) ==
    /\ wpc[w] = "remove"
    /\ IF jobs = <<>>
       THEN /\ wpc' = [wpc EXCEPT ![w] = IF dclosed THEN "done" ELSE "wait"]
            /\ UNCHANGED <<jobs, wch>>
       ELSE /\ wpc' = [wpc EXCEPT ![w] = "job"]
            /\ wch' = [wch EXCEPT ![w] = Head(jobs)]
            /\ jobs' = Tail(jobs)
    /\ UNCHANGED <<subs, bsub, lock, calls, dclosed>>

\* Mutant of JobLock: the job trusts the moment it was submitted.
JobLockUnchecked(w) ==
    /\ wpc[w] = "job"
    /\ Acquire(w, wch[w])
    /\ wpc' = [wpc EXCEPT ![w] = "unsubscribe"]
    /\ UNCHANGED <<subs, bsub, calls, jobs, dclosed, wch>>

\* After its sleep the job looks again whether the channel is without subscribers.
JobLock(w) ==
    /\ wpc[w] = "job"
    /\ lock[LockOf[wch[w]]] = Free
    /\ IF subs[wch[w]] = {}
       THEN /\ Acquire(w, wch[w])
            /\ wpc' = [wpc EXCEPT ![w] = "unsubscribe"]
       ELSE /\ wpc' = [wpc EXCEPT ![w] = "wait"]
            /\ UNCHANGED lock
    /\ UNCHANGED <<subs, bsub, calls, jobs, dclosed, wch>>

BrokerUnsubscribe(w) ==
    /\ wpc[w] = "unsubscribe"
    /\ bsub' = bsub \ {wch[w]}
    /\ wpc' = [wpc EXCEPT ![w] = "wait"]
    /\ Release(wch[w])
    /\ UNCHANGED <<subs, calls, jobs, dclosed, wch>>

\* Mutant of BrokerUnsubscribeFails: the job is not repeated.
BrokerUnsubscribeGivesUp(w) ==
    /\ wpc[w] = "unsubscribe"
    /\ wpc' = [wpc EXCEPT ![w] = "wait"]
    /\ Release(wch[w])
    /\ UNCHANGED <<subs, bsub, calls, jobs, dclosed, wch>>

BrokerUnsubscribeFails(w) ==
    /\ wpc[w] = "unsubscribe"
    /\ wpc' = [wpc EXCEPT ![w] = "retry"]
    /\ Release(wch[w])
    /\ UNCHANGED <<subs, bsub, calls, jobs, dclosed, wch>>

\* runWorker puts the job at the end of the queue.
Retry(w) ==
    /\ wpc[w] = "retry"
    /\ QueueAdd(wch[w], [wpc EXCEPT ![w] = "wait"])
    /\ UNCHANGED <<subs, bsub, lock, calls, dclosed, wch>>

\* Node.Shutdown: the queue is discarded, everybody in Wait goes on.
CloseDissolver ==
    /\ ~dclosed
    /\ dclosed' = TRUE
    /\ jobs' = <<>>
    /\ wpc' = [w \in Workers |-> IF wpc[w] = "asleep" THEN "remove" ELSE wpc[w]]
    /\ UNCHANGED <<subs, bsub, lock, calls, wch>>

-----------------------------------------------------------------------------
Call == \E g \in Goroutines, ch \in Channels, c \in Clients :
            AddSub(g, ch, c) \/ RemoveSub(g, ch, c)

CallEnds(g) == BrokerSubscribe(g) \/ BrokerSubscribeFails(g) \/ Submit(g)

WorkerStep(w) == \/ Wait(w) \/ Remove(w) \/ JobLock(w)
                 \/ BrokerUnsubscribe(w) \/ BrokerUnsubscribeFails(w) \/ Retry(w)

Next == \/ Call \/ CloseDissolver
        \/ \E g \in Goroutines : CallEnds(g)
        \/ \E w \in Workers : WorkerStep(w)

Spec == Init /\ [][Next]_vars

\* Goroutines run, a mutex is granted to whoever waits for it long enough (Go's
\* mutexes have a starvation mode), and the broker does not refuse a channel for ever.
NodeFairness ==
    /\ \A g \in Goroutines : WF_vars(CallEnds(g))
    /\ \A w \in Workers : WF_vars(WorkerStep(w)) /\ SF_vars(JobLock(w))
    /\ \A ch \in Channels :
           SF_vars(\E w \in Workers : wch[w] = ch /\ BrokerUnsubscribe(w))

FairSpec == Spec /\ NodeFairness

-----------------------------------------------------------------------------
TypeOK ==
    /\ subs \in [Channels -> SUBSET Clients]
    /\ bsub \in SUBSET Channels
    /\ lock \in [Locks -> Goroutines \cup Workers \cup {Free}]
    /\ gpc \in [Goroutines -> {"idle", "subscribe", "submit"}]
    /\ gch \in [Goroutines -> Channels]
    /\ gcl \in [Goroutines -> Clients]
    /\ jobs \in Seq(Channels)
    /\ dclosed \in BOOLEAN
    /\ wpc \in [Workers -> {"wait", "asleep", "remove", "job", "unsubscribe",
                           "retry", "done"}]
    /\ wch \in [Workers -> Channels]

Subscribing(ch) == \E g \in Goroutines : gpc[g] = "subscribe" /\ gch[g] = ch

\* A channel with subscribers in the hub is subscribed to in the broker, or the
\* goroutine that added the first one holds the lock and is about to: a delayed
\* unsubscribe never takes the channel away from a client that came meanwhile.
SubscribedInBroker ==
    \A ch \in Channels : subs[ch] # {} => ch \in bsub \/ Subscribing(ch)

Queued(ch) == \E k \in 1..Len(jobs) : jobs[k] = ch

\* Somebody will still look whether ch has subscribers, and unsubscribe.
Awaited(ch) ==
    \/ Queued(ch)
    \/ \E g \in Goroutines :
           gpc[g] = "submit" /\ gch[g] = ch
    \/ \E w \in Workers :
           wpc[w] \in {"job", "unsubscribe", "retry"} /\ wch[w] = ch

\* The broker never keeps a subscription nobody needs and nobody will remove,
\* as long as the dissolver is open.
LeftoverIsAwaited ==
    \A ch \in Channels :
        ch \in bsub /\ subs[ch] = {} => Awaited(ch) \/ dclosed

\* Who is between two steps holds the channel's lock, and knows its subscribers.
LockInv ==
    /\ \A g \in Goroutines :
          /\ gpc[g] # "idle" => lock[LockOf[gch[g]]] = g
          /\ gpc[g] = "subscribe" => subs[gch[g]] = {gcl[g]}
    /\ \A w \in Workers :
          wpc[w] = "unsubscribe" =>
              lock[LockOf[wch[w]]] = w /\ subs[wch[w]] = {}

\* A failing broker.Subscribe leaves the channel without subscribers, so a
\* subscription the broker had before is awaited all the while.
AwaitedInv ==
    \A ch \in Channels :
        ch \in bsub /\ (subs[ch] = {} \/ Subscribing(ch)) =>
            Awaited(ch) \/ dclosed

\* The inductive invariant.
SubInv == TypeOK /\ LockInv /\ SubscribedInBroker /\ AwaitedInv

\* A channel without subscribers is unsubscribed from in the broker in the end,
\* unless a client comes back or the node shuts down.
Dissolved ==
    \A ch \in Channels :
        ch \in bsub /\ subs[ch] = {} ~> ch \notin bsub \/ subs[ch] # {} \/ dclosed

=============================================================================
