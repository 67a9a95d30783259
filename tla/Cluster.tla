------------------------------ MODULE Cluster ------------------------------
(***************************************************************************)
(* The nodes of a cluster and their control messages: the registry each    *)
(* node keeps of the others, surveys (emulation's redirection of a frame   *)
(* is one) and a node's shutdown.  The control messages of one node are    *)
(* handled by several goroutines of another, in any order.                 *)
(***************************************************************************)
EXTENDS Naturals, FiniteSets

CONSTANTS
    Nodes,       \* node ids: a node that starts again has another one
    Surveyors,   \* the nodes that make surveys
    Older,       \* the nodes that run at first, and know each other
    Bounds       \* how many surveys, losses and leaving nodes a behaviour has, and
                 \* whether nodes ping: a behaviour keeps to one of these

ASSUME ClusterAssumption ==
    /\ IsFiniteSet(Nodes) /\ Surveyors \subseteq Nodes /\ Older \subseteq Nodes
    /\ Bounds \subseteq [surveys : Nat, lost : Nat, gone : Nat, pings : BOOLEAN]

VARIABLES
    bound,     \* the bounds of this behaviour
    status,    \* of each node: "new", "up", "stopping", "down"
    nodes,     \* n.nodes: the nodes in each registry
    missed,    \* how many pings in a row of one node another has missed
    msgs,      \* control messages on their way
    lost,
    survey,    \* of each node: the survey it makes
    asked      \* requests that handlers have not answered yet

members == <<status, nodes, missed>>
cluster == <<bound, members, msgs, lost, survey, asked>>

NoSurvey == [id |-> 0, stage |-> "idle", num |-> 0, known |-> {}, to |-> {},
             chan |-> {}, results |-> {}, local |-> FALSE, err |-> FALSE]

ClusterInit ==
    /\ bound \in Bounds
    /\ status = [n \in Nodes |-> IF n \in Older THEN "up" ELSE "new"]
    /\ nodes = [n \in Nodes |-> IF n \in Older THEN Older ELSE {}]
    /\ missed = [n \in Nodes |-> [m \in Nodes |-> 0]]
    /\ msgs = {} /\ lost = 0 /\ asked = {}
    /\ survey = [n \in Nodes |-> NoSurvey]

\* A node is subscribed to control messages from Run until the broker is closed.
Listening == {n \in Nodes : status[n] \in {"up", "stopping"}}

\* publishControl to everyone (a node ignores its own) or to one node.
Control(kind, n, to, id) ==
    {[kind |-> kind, from |-> n, to |-> m, id |-> id] : m \in (to \cap Listening) \ {n}}

\* pubNode
PubNode(n, to) == Control("node", n, to, 0)

-----------------------------------------------------------------------------
(* Members                                                                  *)

\* Run: the broker first, then pubNode("").
Run(n) ==
    /\ status[n] = "new"
    /\ status' = [status EXCEPT ![n] = "up"]
    /\ nodes' = [nodes EXCEPT ![n] = {n}]
    /\ msgs' = msgs \cup PubNode(n, Nodes)
    /\ UNCHANGED <<bound, missed, lost, survey, asked>>

Pinged(n) == \A m \in msgs : ~(m.kind = "node" /\ m.from = n)

SendNodePingKnown(n) ==
    /\ status[n] = "up" /\ bound.pings /\ Pinged(n)
    /\ nodes' = [nodes EXCEPT ![n] = @ \cup {n}]
    /\ msgs' = msgs \cup PubNode(n, nodes[n])
    /\ UNCHANGED <<bound, status, missed, lost, survey, asked>>

\* sendNodePing and pubNode.  Pings are seconds apart: the last has been handled.
SendNodePing(n) ==
    /\ status[n] = "up" /\ bound.pings /\ Pinged(n)
    /\ nodes' = [nodes EXCEPT ![n] = @ \cup {n}]
    /\ msgs' = msgs \cup PubNode(n, Nodes)
    /\ UNCHANGED <<bound, status, missed, lost, survey, asked>>

\* nodeRegistry.add and remove; updates[m] is now, or deleted.
RegistryAdd(n, m) ==
    /\ nodes' = [nodes EXCEPT ![n] = @ \cup {m}]
    /\ missed' = [missed EXCEPT ![n][m] = 0]

RegistryRemove(n, m) ==
    /\ nodes' = [nodes EXCEPT ![n] = @ \ {m}]
    /\ missed' = [missed EXCEPT ![n][m] = 0]

\* nodeCmd: a new node is told about this one.
NodeCmd(m) ==
    /\ m \in msgs /\ m.kind = "node"
    /\ RegistryAdd(m.to, m.from)
    /\ msgs' = (msgs \ {m}) \cup
               IF m.from \in nodes[m.to] THEN {} ELSE PubNode(m.to, {m.from})
    /\ UNCHANGED <<bound, status, lost, survey, asked>>

\* shutdownCmd
ShutdownCmd(m) ==
    /\ m \in msgs /\ m.kind = "shutdown"
    /\ RegistryRemove(m.to, m.from)
    /\ msgs' = msgs \ {m}
    /\ UNCHANGED <<bound, status, lost, survey, asked>>

\* clean: nothing heard for nodeInfoMaxDelay, which is two pings and a second.
Silent(n, m) ==
    \/ status[m] # "up" /\ \A x \in msgs : ~(x.kind = "node" /\ x.from = m /\ x.to = n)
    \/ missed[n][m] >= 2

CleanNodeInfo(n) ==
    LET silent == {m \in nodes[n] \ {n} : Silent(n, m)}
    IN  /\ status[n] = "up" /\ silent # {}
        /\ nodes' = [nodes EXCEPT ![n] = @ \ silent]
        /\ missed' = [missed EXCEPT ![n] = [m \in Nodes |-> IF m \in silent THEN 0 ELSE @[m]]]
        /\ UNCHANGED <<bound, status, msgs, lost, survey, asked>>

\* A message is lost, while the control connection is down.
Lose(m) ==
    /\ m \in msgs /\ lost < bound.lost
    /\ lost' = lost + 1
    /\ msgs' = msgs \ {m}
    /\ missed' = IF m.kind = "node" THEN [missed EXCEPT ![m.to][m.from] = @ + 1] ELSE missed
    /\ UNCHANGED <<bound, status, nodes, survey, asked>>

Leaving == {n \in Nodes : status[n] \in {"stopping", "down"}}
MayLeave(n) == n \in Leaving \/ Cardinality(Leaving) < bound.gone

Gone(n) ==
    /\ status' = [status EXCEPT ![n] = "down"]
    /\ nodes' = [nodes EXCEPT ![n] = {}]
    /\ missed' = [missed EXCEPT ![n] = [m \in Nodes |-> 0]]
    /\ msgs' = {m \in msgs : m.to # n}
    /\ survey' = [survey EXCEPT ![n] = NoSurvey]
    /\ asked' = {r \in asked : r.to # n}
    /\ UNCHANGED <<bound, lost>>

\* Shutdown: the flag ends the loops of pings and of cleaning, the others are told.
Shutdown(n) ==
    /\ status[n] = "up" /\ MayLeave(n)
    /\ status' = [status EXCEPT ![n] = "stopping"]
    /\ msgs' = msgs \cup Control("shutdown", n, Nodes, 0)
    /\ UNCHANGED <<bound, nodes, missed, lost, survey, asked>>

\* The broker is closed once connections and dissolver are, or the node dies.
Stop(n) ==
    /\ status[n] \in {"up", "stopping"} /\ MayLeave(n)
    /\ Gone(n)

-----------------------------------------------------------------------------
(* Surveys                                                                  *)

\* Survey begins: how many answers to wait for.  to is {} for all nodes.
SurveyCount(n, to) ==
    /\ n \in Surveyors /\ status[n] = "up" /\ survey[n].stage = "idle"
    /\ survey[n].id < bound.surveys
    /\ LET known == IF to = {} THEN nodes[n] ELSE to
       IN  survey' = [survey EXCEPT ![n] = [NoSurvey EXCEPT
               !.id = survey[n].id, !.stage = "counted", !.known = known,
               !.num = Cardinality(known), !.to = IF to = {} THEN Nodes ELSE to]]
    /\ UNCHANGED <<bound, members, msgs, lost, asked>>

\* sendEmulation: a survey of the one node that has the client's session, as long
\* as it is known.
SendEmulation(n, m) ==
    /\ m \in nodes[n]
    /\ SurveyCount(n, {m})

\* The survey is registered, this node's handler called, the others asked
\* unless no other is known.
SurveyAsk(n) ==
    LET s        == survey[n]
        requests == IF s.known = {n} THEN {}
                    ELSE Control("request", n, s.to, s.id + 1)
    IN  /\ s.stage = "counted"
        /\ msgs' = msgs \cup requests
        /\ survey' = [survey EXCEPT ![n].stage = "collect", ![n].id = @ + 1,
                          ![n].local = n \in s.to,
                          ![n].to = {m.to : m \in requests} \cup (s.to \cap {n})]
        /\ UNCHANGED <<bound, members, lost, asked>>

\* publishControl fails: nothing is returned but the error.
SurveyAskFails(n) ==
    /\ survey[n].stage = "counted" /\ survey[n].known # {n}
    /\ survey' = [survey EXCEPT ![n] = [NoSurvey EXCEPT !.id = survey[n].id + 1]]
    /\ UNCHANGED <<bound, members, msgs, lost, asked>>

HandleSurveyRequest(m) ==
    /\ m \in msgs /\ m.kind = "request"
    /\ msgs' = msgs \ {m}
    /\ asked' = asked \cup {m}
    /\ UNCHANGED <<bound, members, lost, survey>>

\* The handler's callback answers, some time later.
SurveyReply(r) ==
    /\ r \in asked
    /\ asked' = asked \ {r}
    /\ msgs' = msgs \cup Control("response", r.to, {r.from}, r.id)
    /\ UNCHANGED <<bound, members, lost, survey>>

RegisteredAny(s, id) == s.stage \in {"collect", "done"}
\* Registered until Survey returns; the channel holds num answers.
Registered(s, id) == s.stage \in {"collect", "done"} /\ s.id = id
HasRoom(s) == Cardinality(s.chan) < s.num

HandleSurveyResponse(m) ==
    LET s == survey[m.to]
    IN  /\ m \in msgs /\ m.kind = "response"
        /\ msgs' = msgs \ {m}
        /\ survey' = IF Registered(s, m.id) /\ HasRoom(s)
                     THEN [survey EXCEPT ![m.to].chan = @ \cup {[from |-> m.from, id |-> m.id]}]
                     ELSE survey
        /\ UNCHANGED <<bound, members, lost, asked>>

\* The callback given to this node's handler waits for room.
LocalReply(n) ==
    LET s == survey[n]
    IN  /\ s.stage \in {"collect", "done"} /\ s.local /\ HasRoom(s)
        /\ survey' = [survey EXCEPT ![n].local = FALSE,
                          ![n].chan = @ \cup {[from |-> n, id |-> s.id]}]
        /\ UNCHANGED <<bound, members, msgs, lost, asked>>

\* The goroutine that collects: it ends when it has an answer of num nodes.
Collect(n) ==
    LET s == survey[n]
    IN  /\ s.stage = "collect"
        /\ \E x \in s.chan :
               LET results == s.results \cup {x}
               IN  survey' = [survey EXCEPT ![n].chan = @ \ {x}, ![n].results = results,
                       ![n].stage = IF Cardinality(results) = s.num THEN "done" ELSE "collect"]
        /\ UNCHANGED <<bound, members, msgs, lost, asked>>

SurveyTimeoutPartial(n) ==
    /\ survey[n].stage = "collect" /\ survey[n].results # {}
    /\ survey' = [survey EXCEPT ![n].stage = "done", ![n].err = TRUE]
    /\ UNCHANGED <<bound, members, msgs, lost, asked>>

SurveyTimeout(n) ==
    /\ survey[n].stage = "collect"
    /\ survey' = [survey EXCEPT ![n].stage = "done", ![n].err = TRUE]
    /\ UNCHANGED <<bound, members, msgs, lost, asked>>

SurveyReturn(n) ==
    /\ survey[n].stage = "done"
    /\ survey' = [survey EXCEPT ![n] = [NoSurvey EXCEPT !.id = survey[n].id]]
    /\ UNCHANGED <<bound, members, msgs, lost, asked>>

-----------------------------------------------------------------------------
\* handleControl
HandleControl(m) ==
    \/ NodeCmd(m) \/ ShutdownCmd(m) \/ HandleSurveyRequest(m) \/ HandleSurveyResponse(m)

Survey(n) ==
    \/ SurveyAsk(n) \/ SurveyAskFails(n) \/ LocalReply(n) \/ Collect(n)
    \/ SurveyTimeout(n) \/ SurveyReturn(n)

ClusterNext ==
    \/ \E n \in Nodes :
           \/ Run(n) \/ SendNodePing(n) \/ CleanNodeInfo(n) \/ Shutdown(n) \/ Stop(n)
           \/ SurveyCount(n, {}) \/ \E m \in Nodes : SendEmulation(n, m)
           \/ Survey(n)
    \/ \E m \in msgs : HandleControl(m) \/ Lose(m)
    \/ \E r \in asked : SurveyReply(r)

ClusterSpec == ClusterInit /\ [][ClusterNext]_cluster

\* Loops and goroutines go on; nodes need not start or stop, handlers need not
\* answer, nothing need be lost; a node that stops comes to its end.
ClusterFairness ==
    /\ \A n \in Nodes :
           /\ WF_cluster(SendNodePing(n)) /\ WF_cluster(CleanNodeInfo(n))
           /\ WF_cluster(status[n] = "stopping" /\ Stop(n))
    /\ \A n \in Surveyors :
           WF_cluster(SurveyAsk(n)) /\ WF_cluster(SurveyTimeout(n)) /\ WF_cluster(SurveyReturn(n))
    /\ \A n \in Nodes : \A m \in Nodes \ {n} :
           WF_cluster(\E x \in msgs : x.from = n /\ x.to = m /\ NodeCmd(x))
    /\ WF_cluster(\E x \in msgs : ShutdownCmd(x))

ClusterFairSpec == ClusterSpec /\ ClusterFairness

-----------------------------------------------------------------------------
ClusterTypeOK ==
    /\ bound \in Bounds
    /\ status \in [Nodes -> {"new", "up", "stopping", "down"}]
    /\ nodes \in [Nodes -> SUBSET Nodes]
    /\ missed \in [Nodes -> [Nodes -> 0..bound.lost]]
    /\ lost \in 0..bound.lost
    /\ \A m \in msgs \cup asked :
           /\ m.kind \in {"node", "shutdown", "request", "response"}
           /\ {m.from, m.to} \subseteq Nodes /\ m.id \in 0..bound.surveys
    /\ \A n \in Nodes :
           /\ survey[n].stage \in {"idle", "counted", "collect", "done"}
           /\ survey[n].id \in 0..bound.surveys
           /\ Cardinality(survey[n].chan) <= survey[n].num

\* Answers to an earlier survey, however late, do not count for a later one, and a
\* survey that ends without an error, and asked the nodes it knew of, has the answer
\* of each of them.
SurveyIsExact ==
    \A n \in Nodes :
        LET s == survey[n]
        IN  /\ \A x \in s.chan \cup s.results : x.id = s.id
            /\ s.stage = "done" /\ ~s.err /\ s.to = s.known => {x.from : x \in s.results} = s.known

\* Every survey ends, whatever becomes of the nodes it asked.
SurveyEnds == \A n \in Surveyors : survey[n].stage # "idle" ~> survey[n].stage = "idle"

\* When nodes no longer come and go, the registry of each comes to hold just the
\* nodes that run: those whose first messages were lost are found, and those that
\* are gone forgotten, even if a ping was handled after their shutdown message.
RegistriesSettle ==
    LET up == {n \in Nodes : status[n] = "up"}
    IN  <>[](\A n \in up : nodes[n] = up)
=============================================================================
