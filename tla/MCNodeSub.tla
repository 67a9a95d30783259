----------------------------- MODULE MCNodeSub -----------------------------
(***************************************************************************)
(* Behaviours of two kinds: clients subscribe with a connect or subscribe  *)
(* command while broadcasts go on (ServerSubs), or goroutines add and      *)
(* remove a node's subscriptions (NodeSub). The other part is idle all the *)
(* while.                                                                  *)
(***************************************************************************)
EXTENDS NodeSub, ServerSubs, TLC

CONSTANTS c, d

OneLock == [ch \in Channels |-> "l1"]

\* x and y share a hub shard, z has another.
TwoShards == [ch \in SubChannels |-> IF ch = "z" THEN "t" ELSE "s"]

Request(server, forC, forD, offsets, fails) ==
    [server |-> server, wants |-> (c :> forC) @@ (d :> forD), offsets |-> offsets,
     fails |-> fails, pubs |-> 2]

\* One client, two of its channels in a shard; two clients with the same two channels
\* in different shards; commands of the clients themselves.
ClientRequests == {Request(FALSE, {"x"}, {"x"}, BOOLEAN, TRUE)}
MCRequests == ClientRequests \cup {Request(TRUE, {"x", "y", "z"}, {}, BOOLEAN, TRUE),
                                  Request(TRUE, {"x", "z"}, {"x", "z"}, {TRUE}, FALSE)}

NoRequest == Request(TRUE, {}, {}, {TRUE}, FALSE)

\* The commands are over and the channels have had their publications.
CommandIdle ==
    /\ request = NoRequest
    /\ cpc = [x \in Subscribers |-> "done"]
    /\ fpc = [x \in Subscribers |-> [ch \in SubChannels |-> "ready"]]
    /\ hub = None /\ context = None /\ reserved = None
    /\ insub = None /\ bufMu = None /\ pubBuffer = None
    /\ bpc = [x \in Subscribers |-> [ch \in SubChannels |-> "idle"]]
    /\ btodo = [ch \in SubChannels |-> {}] /\ boffset = {}
    /\ readers = [s \in Shards |-> {}]
    /\ npub = request.pubs
    /\ written = [x \in Subscribers |-> {"reply"}] /\ dropped = None

\* The node has no subscriptions and its dissolver is closed.
NodeIdle ==
    /\ subs = [ch \in Channels |-> {}] /\ bsub = {}
    /\ lock = [l \in Locks |-> Free]
    /\ gpc = [g \in Goroutines |-> "idle"]
    /\ gch = [g \in Goroutines |-> "x"] /\ gcl = [g \in Goroutines |-> c]
    /\ jobs = <<>> /\ dclosed = TRUE
    /\ wpc = [w \in Workers |-> "done"] /\ wch = [w \in Workers |-> "x"]

MCInit == (SInit /\ NodeIdle) \/ (Init /\ CommandIdle)
MCNext == \/ request # NoRequest /\ SNext /\ UNCHANGED vars
          \/ request = NoRequest /\ Next /\ UNCHANGED svars

MCSpec == MCInit /\ [][MCNext]_<<svars, vars>> /\ SFairness /\ NodeFairness
=============================================================================
