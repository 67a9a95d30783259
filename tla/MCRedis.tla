------------------------------ MODULE MCRedis ------------------------------
(***************************************************************************)
(* Behaviours of two kinds: a node's subscriptions are kept over a PUB/SUB *)
(* connection that comes and goes (RedisPubSub), or clients come and go in *)
(* a channel with presence (Presence). The other part is idle all the      *)
(* while.                                                                  *)
(***************************************************************************)
EXTENDS RedisPubSub, Presence, TLC

CONSTANTS c1, c2, c3, u1, u2

VARIABLE part   \* the part that runs

OwnLock == [ch \in Channels |-> ch]

\* Two clients of a user, and one of another
MCUserOf == (c1 :> u1) @@ (c2 :> u1) @@ (c3 :> u2)

\* A connection serves a node without subscriptions.
PubSubIdle ==
    /\ Init
    /\ rpc = "waiting" /\ alive = TRUE /\ todo = {} /\ done = FALSE
    /\ hpc = "serving" /\ sclient = TRUE /\ moved = FALSE /\ refused = FALSE

\* Nobody is in the channel.
PresenceIdle == PInit /\ mapping = FALSE

MCInit == \/ part = "pubsub" /\ RInit /\ PresenceIdle
          \/ part = "presence" /\ PInit /\ PubSubIdle

MCNext == /\ \/ part = "pubsub" /\ RNext /\ UNCHANGED pvars
             \/ part = "presence" /\ PNext /\ UNCHANGED rvars
          /\ UNCHANGED part

MCSpec == /\ MCInit /\ [][MCNext]_<<part, rvars, pvars>>
          /\ RFairness /\ PFairness
=============================================================================
