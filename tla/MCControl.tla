--------------------------- MODULE MCControl ---------------------------
(***************************************************************************)
(* Behaviours of two kinds: the nodes of a cluster and their control       *)
(* messages (Cluster), or one command on its way from a node to another,   *)
(* byte by byte (NodeCommands). The other part is idle all the while.      *)
(***************************************************************************)
EXTENDS Cluster, NodeCommands

\* A node leaves and a message is lost; or two are lost, and a node that runs is
\* dropped from a registry; or surveys are made while a node joins.
MCBounds == {[surveys |-> 0, lost |-> 1, gone |-> 1, pings |-> TRUE],
             [surveys |-> 0, lost |-> 2, gone |-> 0, pings |-> TRUE],
             [surveys |-> 2, lost |-> 0, gone |-> 0, pings |-> FALSE]}

MCSelf == <<49>>
MCOther == <<50>>

\* Two strings, one with a length that takes two bytes; boundaries of the varint
\* groups, of 32 bits and of 64 bits (-1 as an int64).
A == <<97>>
Long == [k \in 1..128 |-> 98]
Ones == [k \in 1..10 |-> IF k = 10 THEN 1 ELSE 127]
Strings == {<< >>, A, Long}
Numbers32 == {Zero, Uint(1), Uint(127), Uint(128), Low32(Ones)}
Numbers64 == Numbers32 \cup {Ones, [Zero EXCEPT ![10] = 1]}
Double == <<0, 0, 0, 0, 0, 0, 240, 63>>

\* The records that differ from r in one field.
Vary(r, values) ==
    {r} \cup UNION {{[r EXCEPT ![f] = x] : x \in values[f]} : f \in DOMAIN values}

SOpts ==
    [ExpireAt |-> Numbers64, ChannelInfo |-> Strings, EmitPresence |-> BOOLEAN,
     EmitJoinLeave |-> BOOLEAN, PushJoinLeave |-> BOOLEAN,
     EnablePositioning |-> BOOLEAN, EnableRecovery |-> BOOLEAN,
     Data |-> Strings, Source |-> {Zero, Uint(255)}, HistoryMetaTTL |-> {Zero, Uint(1)},
     RecoverSince |-> {Nil} \cup {[Offset |-> n, Epoch |-> e] :
                                   n \in Numbers64, e \in {<< >>, A}},
     clientID |-> Strings, sessionID |-> Strings]
Low == [f \in DOMAIN SOpts |->
          IF f \in {"ExpireAt", "Source", "HistoryMetaTTL"} THEN Zero
          ELSE IF f = "RecoverSince" THEN Nil
          ELSE IF SOpts[f] = BOOLEAN THEN FALSE ELSE << >>]
High == [f \in DOMAIN SOpts |->
          IF f \in {"ExpireAt", "Source", "HistoryMetaTTL"} THEN Uint(1)
          ELSE IF f = "RecoverSince" THEN [Offset |-> Uint(1), Epoch |-> A]
          ELSE IF SOpts[f] = BOOLEAN THEN TRUE ELSE A]
ROpts == [Expired |-> BOOLEAN, ExpireAt |-> Numbers64, Info |-> Strings,
          clientID |-> Strings, sessionID |-> Strings]
RLow == [Expired |-> FALSE, ExpireAt |-> Zero, Info |-> << >>,
         clientID |-> << >>, sessionID |-> << >>]
Advice == [Code : {Zero, Low32(Ones)}, Reason : {<< >>, A}]
NodeInfos == Vary([New("Node") EXCEPT !.Uid = Self],
           [Name |-> Strings, Version |-> {A}, NumClients |-> Numbers32,
            NumUsers |-> {Uint(1)}, NumChannels |-> {Uint(1)},
            Uptime |-> Numbers32, Data |-> {A}, NumSubs |-> {Uint(1)},
            Metrics |-> {New("Metrics"),
                         [New("Metrics") EXCEPT !.Interval = Double,
                                 !.Items = {<<A, Double>>, <<<< >>, Double>>}]}])

MCOperations ==
    {[op |-> "subscribe", user |-> A, ch |-> A, opts |-> o] :
        o \in Vary(Low, SOpts) \cup Vary(High, SOpts)}
    \cup {[op |-> "refresh", user |-> A, opts |-> o] : o \in Vary(RLow, ROpts)}
    \cup [op : {"unsubscribe"}, user : {A}, ch : {<< >>, A}, unsubscribe : Advice,
          clientID : {<< >>, A}, sessionID : {<< >>, A}]
    \cup [op : {"disconnect"}, user : {A}, disconnect : Advice, clientID : {<< >>, A},
          sessionID : {<< >>, A}, whitelist : {<< >>, <<A, << >>, A>>}]
    \cup [op : {"node"}, node : NodeInfos]
    \cup [op : {"shutdown"}]
    \cup [op : {"notify"}, name : Strings, data : Strings]
    \cup [op : {"survey"}, id : Numbers64, name : {A}, data : {<< >>, A}]
    \cup [op : {"answer"}, id : Numbers64, code : {Zero, Uint(7)}, data : {A}]

\* No new field; a group with a number in it; bytes, eight bytes and four bytes.
MCNewer == {<< >>, <<131, 2, 8, 1, 132, 2>>,
            <<250, 1, 1, 9, 249, 1>> \o Double \o <<253, 1, 1, 2, 3, 4>>}

\* Every node is down.
ClusterIdle ==
    /\ bound \in {b \in Bounds : b.surveys > 0}
    /\ status = [n \in Nodes |-> "down"]
    /\ nodes = [n \in Nodes |-> {}]
    /\ missed = [n \in Nodes |-> [m \in Nodes |-> 0]]
    /\ msgs = {} /\ lost = 0 /\ asked = {}
    /\ survey = [n \in Nodes |-> NoSurvey]

\* The call is made, and failed.
CommandsIdle ==
    /\ kop = [op |-> "none"] /\ kmsg = << >> /\ kto = {} /\ kcut = {}
    /\ kdone = [p \in Peers |-> << >>]

MCInit == (ClusterInit /\ CommandsIdle) \/ (KInit /\ ClusterIdle)
MCNext == (ClusterNext /\ UNCHANGED kvars) \/ (KNext /\ UNCHANGED cluster)

MCSpec == MCInit /\ [][MCNext]_<<cluster, kvars>> /\ ClusterFairness
=============================================================================
