---------------------------- MODULE RedisPubSub ----------------------------
(***************************************************************************)
(* The Redis broker's PUB/SUB connection under the subscriptions of        *)
(* NodeSub: runPubSub connects, takes the hub's channels, resubscribes to  *)
(* them and hands the connection to Subscribe and Unsubscribe until the    *)
(* connection is lost, and runForever starts it again.                     *)
(***************************************************************************)
EXTENDS NodeSub

CONSTANT Sharded   \* is sharded PUB/SUB used

VARIABLES
    rpc,      \* runPubSub
    alive,    \* its connection
    todo,     \* channels still to resubscribe to
    done,     \* channel done is closed
    hpc,      \* the goroutine that waits for the subscribers (wg.Wait)
    sclient,  \* subClients[..][..] is not nil
    moved,    \* the slot of the connection has migrated
    refused   \* a batch was answered with an error on the connection

given == <<moved, refused>>
pubsub == <<rpc, alive, todo, done, hpc, sclient, given>>
rvars == <<vars, pubsub>>

RInit ==
    /\ Init
    /\ rpc = "stopped" /\ alive = FALSE /\ todo = {} /\ done = TRUE
    /\ hpc = "none" /\ sclient = FALSE /\ moved = FALSE /\ refused = FALSE

\* Dedicate, SetPubSubHooks and the subscription to the shard's own channel.
\* The goroutine of the call before has ended within runForever's 250 ms.
Connect ==
    /\ rpc = "stopped" /\ hpc = "none"
    /\ rpc' = "connected" /\ alive' = TRUE /\ done' = FALSE
    /\ bsub' = {} /\ moved' = FALSE /\ refused' = FALSE
    /\ UNCHANGED <<subs, lock, calls, dissolver, todo, hpc, sclient>>

\* Mutant of Snapshot: the channels of the last connection.
SnapshotBroker ==
    /\ rpc = "connected"
    /\ todo' = bsub
    /\ rpc' = "waiting" /\ hpc' = "subscribing"
    /\ UNCHANGED <<vars, alive, done, sclient, given>>

\* Hub().Channels() and the start of the subscriber goroutines.
Snapshot ==
    /\ rpc = "connected"
    /\ todo' = {ch \in Channels : subs[ch] # {}}
    /\ rpc' = "waiting" /\ hpc' = "subscribing"
    /\ UNCHANGED <<vars, alive, done, sclient, given>>

\* A batch of one of the subscriber goroutines.
Resubscribe(ch) ==
    /\ hpc = "subscribing" /\ ch \in todo
    /\ alive
    /\ bsub' = bsub \cup {ch}
    /\ todo' = todo \ {ch}
    /\ UNCHANGED <<subs, lock, calls, dissolver, rpc, alive, done, hpc,
                   sclient, given>>

\* The batch returns an error, of the connection or one Redis answers with: its
\* subscriber goroutine closes done and returns, with its other batches undone.
ResubscribeFails ==
    /\ hpc = "subscribing"
    /\ \E left \in SUBSET todo \ {{}} : todo' = todo \ left
    /\ done' = TRUE /\ refused' = (refused \/ alive)
    /\ UNCHANGED <<vars, rpc, alive, hpc, sclient, moved>>

\* Mutant of Resubscribed: the connection is not stored.
ResubscribedForgets ==
    /\ hpc = "subscribing" /\ todo = {}
    /\ hpc' = IF done THEN "none" ELSE "serving"
    /\ UNCHANGED <<vars, rpc, alive, todo, done, sclient, given>>

\* wg.Wait has returned: done is looked at, and only then the connection stored.
Resubscribed ==
    /\ hpc = "subscribing" /\ todo = {}
    /\ hpc' = IF done THEN "none" ELSE "store"
    /\ UNCHANGED <<vars, rpc, alive, todo, done, sclient, given>>

Store ==
    /\ hpc = "store"
    /\ sclient' = TRUE /\ hpc' = "serving"
    /\ UNCHANGED <<vars, rpc, alive, todo, done, given>>

Unstore ==
    /\ hpc = "serving" /\ done
    /\ sclient' = FALSE /\ hpc' = "none"
    /\ UNCHANGED <<vars, rpc, alive, todo, done, given>>

ConnectionLost ==
    /\ alive
    /\ alive' = FALSE /\ bsub' = {}
    /\ UNCHANGED <<subs, lock, calls, dissolver, rpc, todo, done, hpc, sclient, given>>

\* wait delivers the connection's error; the deferred closeDoneOnce runs.
Return ==
    /\ rpc \in {"connected", "waiting"}
    /\ ~alive
    /\ rpc' = "stopped" /\ done' = TRUE
    /\ UNCHANGED <<vars, alive, todo, hpc, sclient, given>>

\* The server unsubscribes the shard's channels from a moved slot: OnSubscription
\* closes done.
SlotMigrates ==
    /\ Sharded /\ ~moved
    /\ alive /\ rpc = "waiting"
    /\ moved' = TRUE /\ done' = TRUE /\ bsub' = {}
    /\ UNCHANGED <<subs, lock, calls, dissolver, rpc, alive, todo, hpc, sclient, refused>>

\* Subscribe and Unsubscribe succeed on a stored connection that works.  They may
\* have read nil just before it was stored, so an error is always possible.
Usable == sclient /\ alive

PubSubStep ==
    \/ Connect \/ Snapshot \/ ResubscribeFails \/ Resubscribed \/ Store
    \/ Unstore \/ Return
    \/ \E ch \in Channels : Resubscribe(ch)

NodeStep ==
    \/ Call \/ CloseDissolver
    \/ \E g \in Goroutines : \/ Usable /\ BrokerSubscribe(g)
                             \/ BrokerSubscribeFails(g) \/ Submit(g)
    \/ \E w \in Workers : \/ Wait(w) \/ Remove(w) \/ JobLock(w) \/ Retry(w)
                          \/ Usable /\ BrokerUnsubscribe(w)
                          \/ BrokerUnsubscribeFails(w)

RNext == \/ PubSubStep \/ ConnectionLost \/ SlotMigrates
         \/ NodeStep /\ UNCHANGED pubsub

RSpec == RInit /\ [][RNext]_rvars

\* Goroutines run; the connection may stay up or be lost at any time.
RFairness == WF_rvars(PubSubStep)

-----------------------------------------------------------------------------
RTypeOK ==
    /\ TypeOK
    /\ rpc \in {"stopped", "connected", "waiting"}
    /\ hpc \in {"none", "subscribing", "store", "serving"}
    /\ alive \in BOOLEAN /\ done \in BOOLEAN /\ sclient \in BOOLEAN
    /\ moved \in BOOLEAN /\ refused \in BOOLEAN
    /\ todo \in SUBSET Channels

\* A stored connection that works is subscribed to every channel that has
\* subscribers in the hub: what is subscribed and unsubscribed while runPubSub
\* resubscribes, from a list that is old by then, is not missed.
ConnectionHasChannels ==
    Usable /\ ~done =>
        \A ch \in Channels : subs[ch] # {} => ch \in bsub \/ Subscribing(ch)

\* Where runPubSub and its goroutine are together.
Phases ==
    /\ sclient = (hpc = "serving")
    /\ rpc = "connected" => hpc = "none"
    /\ rpc = "stopped" => done

\* From the snapshot on, a connection that works lacks only channels that are
\* still to be resubscribed to: Subscribe fails until the connection is stored, so
\* that no channel gets a first subscriber behind the snapshot's back.
Resubscribes ==
    alive /\ ~done /\ hpc # "none" =>
        \A ch \in Channels : subs[ch] # {} =>
            ch \in bsub \/ Subscribing(ch) \/ (hpc = "subscribing" /\ ch \in todo)

\* The inductive invariant.
PubSubInv == RTypeOK /\ LockInv /\ Phases /\ Resubscribes

\* A connection that stays up is handed to Subscribe and Unsubscribe for good, unless
\* runPubSub has given up on it: its slot has moved or Redis has refused a batch, so
\* that done is closed, which runPubSub does not wait for.
ServedUnlessGivenUp ==
    <>[](alive /\ ~moved /\ ~refused) => <>[](Usable /\ ~done)
=============================================================================
