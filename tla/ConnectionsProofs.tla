------------------------- MODULE ConnectionsProofs -------------------------
(***************************************************************************)
(* Calls take effect and leave nothing behind, for any number of           *)
(* connections, nodes and calls, any plan and any size of the semaphore:   *)
(* the inductive invariant CInv, and that the goroutines of a call,        *)
(* handlers, closes, shutdowns and the calls themselves keep it.           *)
(***************************************************************************)
EXTENDS Connections, TLAPS

\* Zenon proves what only takes logic and sets; the leaves that need more say SMT.
USE Zenon

GStates == {"none", "started", "adding", "middle", "failing", "done", "failed"}
Over == {"done", "failed"}

CTypeOK ==
    /\ plan \in Plans
    /\ hpc \in [Clients -> {"http", "refused", "new", "over", "checked", "limited",
                            "authed", "added", "handler", "up"}]
    /\ status \in [Clients -> {"connecting", "connected", "closed"}]
    /\ authed \subseteq Clients /\ conns \subseteq Clients
    /\ chans \subseteq Clients /\ subs \subseteq Clients /\ wanted \subseteq Clients
    /\ kpc \in [Clients -> {"no", "unsubscribe", "leave", "remove", "end", "done"}]
    /\ kind \in [Calls -> Kinds \cup {"none"}]
    /\ call \in [Calls -> [Nodes -> {"none", "running", "done", "failed"}]]
    /\ targets \in [Calls -> [Nodes -> SUBSET Clients]]
    /\ gpc \in [Calls -> [Clients -> GStates]]
    /\ spc \in [Nodes -> {"no", "flag", "closing", "late", "done"}]
    /\ copied \subseteq Clients /\ waiting \subseteq Clients /\ running \subseteq Clients
    /\ newest \in [Nodes -> Calls \cup {0}]

\* A connection is in the hub between addClient and the end of close, which cannot
\* overtake the connect handler; late are closed connections.
ConnOf(c) ==
    /\ status[c] = "closed" <=> kpc[c] # "no"
    /\ hpc[c] = "handler" => kpc[c] = "no"
    /\ c \in conns => hpc[c] \in {"added", "handler", "up"}
    /\ hpc[c] \in {"authed", "added", "handler", "up"} => c \in authed
    /\ c \in late => kpc[c] # "no"
    /\ c \notin late =>
          /\ kpc[c] # "no" => ~Registering(c)
          /\ kpc[c] \in {"end", "done"} => c \notin conns

ConnInv == \A c \in Clients : ConnOf(c)

\* A node has a goroutine for exactly the connections it found, and no other call goes
\* on while one is the newest.
CallInv ==
    /\ \A k \in Calls : \A n \in Nodes :
          /\ kind[k] = "none" => call[k][n] = "none"
          /\ call[k][n] = "none" => targets[k][n] = {}
          /\ \A c \in targets[k][n] :
                /\ plan.home[c] = n
                /\ call[k][n] \in Over => gpc[k][c] \in Over
                /\ call[k][n] = "done" => gpc[k][c] = "done"
    /\ \A k \in Calls : \A c \in Clients :
          gpc[k][c] # "none" => c \in targets[k][plan.home[c]]
    /\ \A n \in Nodes : \A k \in Calls : newest[n] = k =>
          \A j \in Calls \ {k} : call[j][n] # "running"

\* Where hub and client differ, somebody is about to put it right. The hub lets nobody
\* down without an overlap: this takes that subscribes and unsubscribes do not cross.
SubOf(c) ==
    /\ \A k \in Calls : gpc[k][c] = "failing" => kind[k] = "subscribe"
    /\ c \notin late \cup halved =>
          /\ \A k \in Calls : Joins(k, c) => kpc[c] = "no"
          /\ c \in chans => kpc[c] \in {"no", "unsubscribe"}
          /\ c \in subs => \/ c \in chans \/ kpc[c] = "leave"
                           \/ \E k \in Calls : Joins(k, c) \/ Leaves(k, c)
    /\ c \notin late \cup halved \cup crossed =>
          /\ \A k \in Calls : Joins(k, c) => c \in subs
          /\ \A k \in Calls : Leaves(k, c) => c \notin chans /\ \A j \in Calls : ~Joins(j, c)
          /\ c \in chans => c \in subs

SubInv == \A c \in Clients : SubOf(c)

\* A goroutine that is done has done it, and nothing undoes it but a later call.
EffectOf(k, c) ==
    gpc[k][c] = "done" =>
        /\ kind[k] = "disconnect" => kpc[c] = "done"
        /\ newest[plan.home[c]] = k /\ c \notin crossed \cup halved /\ kpc[c] = "no" =>
              /\ kind[k] = "subscribe" => c \in chans \cup wanted
              /\ kind[k] = "unsubscribe" => c \notin chans

EffectInv == \A k \in Calls : \A c \in Clients : EffectOf(k, c)

\* Whom shutdown found is waiting, being closed or closed.
ShutInv ==
    /\ waiting \cup running \subseteq copied /\ waiting \cap running = {}
    /\ \A c \in copied :
          /\ c \in waiting \/ c \in running \/ kpc[c] = "done"
          /\ spc[plan.home[c]] \notin {"no", "flag"}
          /\ spc[plan.home[c]] = "done" => c \notin waiting \cup running

CInv == CTypeOK /\ ConnInv /\ CallInv /\ SubInv /\ EffectInv /\ ShutInv

-----------------------------------------------------------------------------
\* A step of a goroutine moves that goroutine alone.
LEMMA GoEffect ==
    ASSUME CTypeOK, NEW k \in Calls, NEW c \in Clients, NEW from, NEW to \in GStates,
           Go(k, c, from, to)
    PROVE  /\ gpc[k][c] = from
           /\ gpc' \in [Calls -> [Clients -> GStates]]
           /\ gpc'[k][c] = to
           /\ \A j \in Calls : \A d \in Clients : j # k \/ d # c => gpc'[j][d] = gpc[j][d]
           /\ UNCHANGED <<plan, hpc, status, authed, conns, kind, call, targets,
                          spc, copied, waiting, running, newest, kpc>>
BY DEF Go, CTypeOK, conn, shut

\* A goroutine belongs to a call that was made; while a call is a node's newest, the
\* goroutines of the others there are over.
LEMMA OthersOver ==
    ASSUME CInv, NEW k \in Calls, NEW c \in Clients
    PROVE  /\ gpc[k][c] # "none" => kind[k] # "none"
           /\ \A j \in Calls \ {k} :
                 newest[plan.home[c]] = j => gpc[k][c] \in Over \cup {"none"}
<1>1. plan.home[c] \in Nodes
  BY ConnectionsAssumption, SMT DEF CInv, CTypeOK
<1>2. gpc[k][c] # "none" => kind[k] # "none"
  BY <1>1, SMT DEF CInv, CallInv
<1>3. ASSUME NEW j \in Calls \ {k}, newest[plan.home[c]] = j PROVE gpc[k][c] \in Over \cup {"none"}
  <2>1. call[k][plan.home[c]] \in {"none", "done", "failed"}
    BY <1>1, <1>3, SMT DEF CInv, CallInv, CTypeOK
  <2>2. call[k][plan.home[c]] = "none" => gpc[k][c] = "none"
    BY <1>1, SMT DEF CInv, CallInv
  <2>3. call[k][plan.home[c]] \in Over => gpc[k][c] \in Over \cup {"none"}
    BY <1>1, SMT DEF CInv, CallInv
  <2> QED BY <2>1, <2>2, <2>3 DEF Over
<1> QED BY <1>2, <1>3

\* A step that concerns the subscription of c alone.
Touches(c) ==
    /\ kpc' = kpc
    /\ chans' \subseteq Clients /\ subs' \subseteq Clients /\ wanted' \subseteq Clients
    /\ wanted \subseteq wanted' /\ late \subseteq late'
    /\ kpc[c] = "no" /\ c \in late' => c \in late
    /\ \A d \in Clients \ {c} : /\ d \in chans' <=> d \in chans
                                /\ d \in subs' <=> d \in subs
                                /\ d \in late' <=> d \in late
                                /\ d \in halved' <=> d \in halved
                                /\ d \in crossed' <=> d \in crossed

\* What the steps of a goroutine have in common: they concern one connection.
LEMMA GoFrame ==
    ASSUME CInv, NEW k \in Calls, NEW c \in Clients, NEW from, NEW to,
           from \in {"started", "adding", "middle", "failing"},
           to \in {"adding", "middle", "failing", "done", "failed"},
           Go(k, c, from, to), Touches(c),
           SubOf(c)', EffectOf(k, c)'
    PROVE  CInv'
<1>1. /\ gpc[k][c] = from
      /\ gpc' \in [Calls -> [Clients -> GStates]]
      /\ gpc'[k][c] = to
      /\ \A j \in Calls : \A d \in Clients : j # k \/ d # c => gpc'[j][d] = gpc[j][d]
      /\ UNCHANGED <<plan, hpc, status, authed, conns, kind, call, targets,
                     spc, copied, waiting, running, newest, kpc>>
  BY GoEffect, SMT DEF CInv, GStates
<1>2. CTypeOK' /\ ConnInv' /\ ShutInv'
  <2>1. CTypeOK' /\ ShutInv'
    BY <1>1 DEF CInv, CTypeOK, ShutInv, Touches
  <2>2. ConnInv'
    BY <1>1 DEF CInv, ConnInv, ConnOf, Registering, Touches
  <2> QED BY <2>1, <2>2
<1>3. CallInv'
  <2>1. \A j \in Calls : \A d \in Clients : /\ gpc[j][d] \in Over => gpc'[j][d] = gpc[j][d]
                                            /\ gpc'[j][d] # "none" => gpc[j][d] # "none"
    BY <1>1 DEF Over
  <2>2. \A j \in Calls : \A n \in Nodes : targets[j][n] \subseteq Clients
    BY SMT DEF CInv, CTypeOK
  <2> QED BY <1>1, <2>1, <2>2, SMT DEF CInv, CallInv, Over
<1>4. SubInv'
  <2>1. ASSUME NEW d \in Clients \ {c} PROVE SubOf(d)'
    <3>1. \A j \in Calls : gpc'[j][d] = gpc[j][d]
      BY <1>1
    <3>2. \A j \in Calls : (Joins(j, d)' <=> Joins(j, d)) /\ (Leaves(j, d)' <=> Leaves(j, d))
      BY <1>1, <3>1 DEF Joins, Leaves
    <3>3. /\ d \in chans' <=> d \in chans
          /\ d \in subs' <=> d \in subs
          /\ d \in late' <=> d \in late
          /\ d \in halved' <=> d \in halved
          /\ d \in crossed' <=> d \in crossed
          /\ kpc' = kpc /\ kind' = kind /\ SubOf(d)
      BY <1>1 DEF CInv, SubInv, Touches
    <3> QED BY <3>1, <3>2, <3>3 DEF SubOf
  <2> QED BY <2>1 DEF SubInv
<1>5. EffectInv'
  <2>1. ASSUME NEW j \in Calls, NEW d \in Clients \ {c} PROVE EffectOf(j, d)'
    <3>1. gpc'[j][d] = gpc[j][d] /\ EffectOf(j, d)
      BY <1>1 DEF CInv, EffectInv
    <3> QED BY <1>1, <3>1 DEF EffectOf, Touches
  <2>2. ASSUME NEW j \in Calls \ {k} PROVE EffectOf(j, c)'
    <3>1. gpc'[j][c] = gpc[j][c] /\ EffectOf(j, c)
      BY <1>1 DEF CInv, EffectInv
    <3>2. newest[plan.home[c]] # j
      BY <1>1, OthersOver DEF Over
    <3> QED BY <1>1, <3>1, <3>2 DEF EffectOf, Touches
  <2> QED BY <2>1, <2>2 DEF EffectInv
<1> QED BY <1>2, <1>3, <1>4, <1>5 DEF CInv

\* Client.Subscribe, Client.Unsubscribe and Client.Disconnect, step by step.
LEMMA GoStepInv ==
    ASSUME CInv, NEW k \in Calls, NEW c \in Clients, GoStep(k, c)
    PROVE  CInv'
<1> DEFINE Moved(from, to) ==
        /\ gpc[k][c] = from /\ gpc'[k][c] = to
        /\ \A j \in Calls \ {k} : gpc'[j][c] = gpc[j][c]
        /\ UNCHANGED <<plan, status, kind, kpc, newest>>
<1>0. ASSUME NEW from, NEW to \in GStates, Go(k, c, from, to) PROVE Moved(from, to)
  BY <1>0, GoEffect, SMT DEF CInv
<1> HIDE DEF Moved
<1> /\ SubOf(c) /\ EffectOf(k, c) /\ CTypeOK
    /\ status[c] = "closed" <=> kpc[c] # "no"
    /\ c \in late => kpc[c] # "no"
  BY DEF CInv, SubInv, EffectInv, ConnInv, ConnOf
<1> USE DEF Noted, channels
<1>1. CASE ClientSubscribe(k, c)
  <2> DEFINE to == IF Cardinality({c} \cap chans) >= plan.room THEN "done" ELSE "adding"
  <2>1. /\ kind[k] = "subscribe" /\ Go(k, c, "started", to)
        /\ wanted' = (IF to = "done" THEN wanted \cup {c} ELSE wanted)
        /\ UNCHANGED <<chans, subs, kpc, late, crossed, halved>>
    BY <1>1 DEF ClientSubscribe, Go
  <2>2. Moved("started", to)
    BY <2>1, <1>0 DEF GStates
  <2>3. SubOf(c)'
    BY <2>1, <2>2, SMT DEF Moved, SubOf, Joins, Leaves
  <2>4. EffectOf(k, c)' /\ Touches(c)
    BY <2>1, <2>2 DEF Moved, EffectOf, Touches, CTypeOK
  <2> QED BY <2>1, <2>3, <2>4, GoFrame, SMT
<1>2. CASE ClientSubscribeAdds(k, c)
  <2>1. /\ kind[k] = "subscribe" /\ Go(k, c, "adding", "middle")
        /\ subs' = subs \cup {c} /\ UNCHANGED <<chans, wanted, kpc, halved>>
        /\ late' = (IF kpc[c] # "no" THEN late \cup {c} ELSE late)
        /\ crossed' = (IF \E j \in Calls : Leaves(j, c) THEN crossed \cup {c} ELSE crossed)
    BY <1>2 DEF ClientSubscribeAdds, Go
  <2>2. Moved("adding", "middle")
    BY <2>1, <1>0 DEF GStates
  <2>3. SubOf(c)'
    BY <2>1, <2>2, SMT DEF Moved, SubOf, Joins, Leaves
  <2>4. EffectOf(k, c)' /\ Touches(c)
    BY <2>1, <2>2 DEF Moved, EffectOf, Touches, CTypeOK
  <2> QED BY <2>1, <2>3, <2>4, GoFrame, SMT
<1>3. ASSUME NEW to \in {"done", "failed"}, Go(k, c, "middle", to), ClientSubscribeStores(k, c)
      PROVE  CInv'
  <2>1. /\ kind[k] = "subscribe" /\ Go(k, c, "middle", to)
        /\ chans' = chans \cup {c} /\ UNCHANGED <<subs, wanted, kpc, late, crossed, halved>>
    BY <1>3 DEF ClientSubscribeStores, Go
  <2>2. Moved("middle", to)
    BY <2>1, <1>0 DEF GStates
  <2>3. SubOf(c)'
    BY <2>1, <2>2, SMT DEF Moved, SubOf, Joins, Leaves
  <2>4. EffectOf(k, c)' /\ Touches(c)
    BY <2>1, <2>2 DEF Moved, EffectOf, Touches, CTypeOK
  <2> QED BY <2>1, <2>3, <2>4, GoFrame, SMT
<1>4. ASSUME NEW at \in {"adding", "middle"}, ClientSubscribeFails(k, c, at) PROVE CInv'
  <2> DEFINE to == IF c \in chans THEN "failing" ELSE "failed"
  <2>1. /\ kind[k] = "subscribe" /\ Go(k, c, at, to)
        /\ chans' = chans \ {c} /\ UNCHANGED <<subs, wanted, kpc, late>>
        /\ crossed' = (IF c \in chans /\ \E j \in Calls \ {k} : Joins(j, c)
                       THEN crossed \cup {c} ELSE crossed)
        /\ halved' = (IF at = "middle" /\ c \notin chans THEN halved \cup {c} ELSE halved)
    BY <1>4 DEF ClientSubscribeFails, Go
  <2>2. Moved(at, to)
    BY <2>1, <1>0 DEF GStates
  <2>3. SubOf(c)'
    BY <2>1, <2>2, SMT DEF Moved, SubOf, Joins, Leaves
  <2>4. EffectOf(k, c)' /\ Touches(c)
    BY <2>1, <2>2 DEF Moved, EffectOf, Touches, CTypeOK
  <2> QED BY <2>1, <2>3, <2>4, GoFrame, SMT
<1>5. ASSUME NEW at \in {"adding", "middle"}, ClientSubscribeBreaks(k, c, at) PROVE CInv'
  <2> DEFINE to == IF plan.pushes THEN at ELSE "done"
  <2>1. /\ kind[k] = "subscribe" /\ Go(k, c, at, to)
        /\ chans' = chans \cup {c} /\ UNCHANGED <<subs, wanted, kpc, late, crossed>>
        /\ halved' = (IF at = "adding" THEN halved \cup {c} ELSE halved)
    BY <1>5 DEF ClientSubscribeBreaks, Go
  <2>2. Moved(at, to)
    BY <2>1, <1>0 DEF GStates
  <2>3. SubOf(c)'
    BY <2>1, <2>2, SMT DEF Moved, SubOf, Joins, Leaves
  <2>4. EffectOf(k, c)' /\ Touches(c)
    BY <2>1, <2>2 DEF Moved, EffectOf, Touches, CTypeOK
  <2> QED BY <2>1, <2>3, <2>4, GoFrame, SMT
<1>6. CASE RemoveFailed(k, c)
  <2>1. /\ Go(k, c, "failing", "failed")
        /\ subs' = subs \ {c} /\ UNCHANGED <<chans, wanted, kpc, late, crossed, halved>>
    BY <1>6 DEF RemoveFailed, Go
  <2>2. Moved("failing", "failed")
    BY <2>1, <1>0 DEF GStates
  <2>3. SubOf(c)'
    BY <2>1, <2>2, SMT DEF Moved, SubOf, Joins, Leaves
  <2>4. EffectOf(k, c)' /\ Touches(c)
    BY <2>1, <2>2 DEF Moved, EffectOf, Touches, CTypeOK
  <2> QED BY <2>1, <2>3, <2>4, GoFrame, SMT
<1>7. CASE Unsubscribes(k, c)
  <2> DEFINE has == status[c] # "closed" /\ c \in chans
             to == IF has THEN "middle" ELSE "done"
  <2>1. /\ kind[k] = "unsubscribe" /\ Go(k, c, "started", to)
        /\ chans' = (IF has THEN chans \ {c} ELSE chans)
        /\ UNCHANGED <<subs, wanted, kpc, late, halved>>
        /\ crossed' = (IF has /\ \E j \in Calls : Joins(j, c) THEN crossed \cup {c} ELSE crossed)
    BY <1>7 DEF Unsubscribes, Go
  <2>2. Moved("started", to)
    BY <2>1, <1>0 DEF GStates
  <2>3. SubOf(c)'
    BY <2>1, <2>2, SMT DEF Moved, SubOf, Joins, Leaves
  <2>4. EffectOf(k, c)' /\ Touches(c)
    BY <2>1, <2>2 DEF Moved, EffectOf, Touches, CTypeOK
  <2> QED BY <2>1, <2>3, <2>4, GoFrame, SMT
<1>8. CASE UnsubscribeLeaves(k, c)
  <2>1. /\ kind[k] = "unsubscribe" /\ Go(k, c, "middle", "done")
        /\ subs' = subs \ {c} /\ UNCHANGED <<chans, wanted, kpc, late, crossed, halved>>
    BY <1>8 DEF UnsubscribeLeaves, Go
  <2>2. Moved("middle", "done")
    BY <2>1, <1>0 DEF GStates
  <2>3. SubOf(c)'
    BY <2>1, <2>2, SMT DEF Moved, SubOf, Joins, Leaves
  <2>4. EffectOf(k, c)' /\ Touches(c)
    BY <2>1, <2>2 DEF Moved, EffectOf, SubOf, Leaves, Touches, CTypeOK
  <2> QED BY <2>1, <2>3, <2>4, GoFrame, SMT
<1>9. CASE DisconnectCloses(k, c)
  <2>1. /\ kind[k] = "disconnect" /\ Go(k, c, "started", "middle")
        /\ wanted' = wanted \cup {c} /\ UNCHANGED <<chans, subs, kpc, late, crossed, halved>>
    BY <1>9 DEF DisconnectCloses, Go
  <2>2. Moved("started", "middle")
    BY <2>1, <1>0 DEF GStates
  <2>3. SubOf(c)'
    BY <2>1, <2>2, SMT DEF Moved, SubOf, Joins, Leaves
  <2>4. EffectOf(k, c)' /\ Touches(c)
    BY <2>1, <2>2 DEF Moved, EffectOf, Touches, CTypeOK
  <2> QED BY <2>1, <2>3, <2>4, GoFrame, SMT
<1>10. CASE DisconnectReturns(k, c)
  <2>1. /\ kind[k] = "disconnect" /\ kpc[c] = "done" /\ Go(k, c, "middle", "done")
        /\ UNCHANGED <<chans, subs, wanted, kpc, late, crossed, halved>>
    BY <1>10 DEF DisconnectReturns, CloseReturned, Go
  <2>2. Moved("middle", "done")
    BY <2>1, <1>0 DEF GStates
  <2>3. SubOf(c)'
    BY <2>1, <2>2, SMT DEF Moved, SubOf, Joins, Leaves
  <2>4. EffectOf(k, c)' /\ Touches(c)
    BY <2>1, <2>2 DEF Moved, EffectOf, Touches, CTypeOK
  <2> QED BY <2>1, <2>3, <2>4, GoFrame, SMT
<1>11. CASE ClientSubscribeStores(k, c)
  BY <1>3, <1>11 DEF ClientSubscribeStores
<1> QED BY <1>1, <1>2, <1>4, <1>5, <1>6, <1>7, <1>8, <1>9, <1>10, <1>11 DEF GoStep

-----------------------------------------------------------------------------
\* A node that starts a call has a goroutine for each connection it finds.
LEMMA StartEffect ==
    ASSUME CTypeOK, NEW k \in Calls, NEW n \in Nodes, Start(k, n)
    PROVE  /\ gpc' \in [Calls -> [Clients -> GStates]]
           /\ targets' \in [Calls -> [Nodes -> SUBSET Clients]]
           /\ \A j \in Calls : \A d \in Clients :
                 gpc'[j][d] = IF j = k /\ d \in userConnections(n) THEN "started"
                              ELSE gpc[j][d]
           /\ \A j \in Calls : \A m \in Nodes :
                 targets'[j][m] = IF j = k /\ m = n THEN userConnections(n)
                                  ELSE targets[j][m]
           /\ newest' \in [Nodes -> Calls \cup {0}]
           /\ newest'[n] = k \/ newest'[n] = 0
           /\ newest'[n] = k => \A j \in Calls : call[j][n] # "running"
           /\ \A m \in Nodes \ {n} : newest'[m] = newest[m]
<1>1. userConnections(n) \in SUBSET Clients
  BY DEF userConnections, CTypeOK
<1>2. gpc[k] \in [Clients -> GStates] /\ targets[k] \in [Nodes -> SUBSET Clients]
  BY DEF CTypeOK
<1>3. [c \in Clients |-> IF c \in userConnections(n) THEN "started" ELSE gpc[k][c]]
        \in [Clients -> GStates]
  BY <1>2 DEF GStates
<1>4. gpc' \in [Calls -> [Clients -> GStates]]
  BY <1>3 DEF Start, CTypeOK
<1>5. targets' \in [Calls -> [Nodes -> SUBSET Clients]]
  BY <1>1, <1>2 DEF Start, CTypeOK
<1>6. /\ newest' \in [Nodes -> Calls \cup {0}]
      /\ newest'[n] = k \/ newest'[n] = 0
      /\ newest'[n] = k => \A j \in Calls : call[j][n] # "running"
      /\ \A m \in Nodes \ {n} : newest'[m] = newest[m]
  <2>1. k # 0
    BY ConnectionsAssumption, SMT DEF Calls
  <2> DEFINE v == IF \E j \in Calls : call[j][n] = "running" THEN 0 ELSE k
  <2>2. v \in Calls \cup {0} /\ newest' = [newest EXCEPT ![n] = v]
    BY DEF Start
  <2>3. (v = k \/ v = 0) /\ (v = k => \A j \in Calls : call[j][n] # "running")
    BY <2>1
  <2> HIDE DEF v
  <2>4. newest \in [Nodes -> Calls \cup {0}]
    BY DEF CTypeOK
  <2> QED BY <2>2, <2>3, <2>4
<1>7. \A j \in Calls : \A d \in Clients :
         gpc'[j][d] = IF j = k /\ d \in userConnections(n) THEN "started" ELSE gpc[j][d]
  BY <1>2, <1>3 DEF Start, CTypeOK
<1>8. \A j \in Calls : \A m \in Nodes :
         targets'[j][m] = IF j = k /\ m = n THEN userConnections(n) ELSE targets[j][m]
  BY <1>1, <1>2 DEF Start, CTypeOK
<1> QED BY <1>4, <1>5, <1>6, <1>7, <1>8

\* Nothing has happened yet.
LEMMA CInitInv == CInit => CInv
<1> SUFFICES ASSUME CInit PROVE CInv
  OBVIOUS
<1>1. CTypeOK
  BY DEF CInit, CTypeOK, GStates
<1> QED
  BY <1>1 DEF CInit, CInv, ConnInv, ConnOf, Registering, CallInv, SubInv, SubOf, EffectInv, EffectOf,
              ShutInv, Over, Joins, Leaves

\* A step that leaves the operations, the subscriptions and close alone.
LEMMA FrameStep ==
    ASSUME CInv, wanted \subseteq wanted', UNCHANGED <<plan, channels, kpc, ops, history>>
    PROVE  CallInv' /\ SubInv' /\ EffectInv'
<1>1. UNCHANGED <<plan, chans, subs, kpc, kind, call, targets, gpc, newest, late, crossed, halved>>
  BY DEF channels, ops, history
<1>2. CallInv'
  BY <1>1, SMT DEF CInv, CallInv
<1>3. SubInv'
  BY <1>1, SMT DEF CInv, SubInv, SubOf, Joins, Leaves
<1>4. EffectInv'
  BY <1>1 DEF CInv, EffectInv, EffectOf
<1> QED BY <1>2, <1>3, <1>4


\* The handler of a connection registers it.
LEMMA HandlerStepInv ==
    ASSUME CInv, NEW c \in Clients, HandlerStep(c)
    PROVE  CInv'
<1>1. UNCHANGED <<plan, channels, kpc, ops, shut, history>> /\ wanted \subseteq wanted'
  BY DEF HandlerStep, ServeHTTP, Connect, CheckLimit, Authenticate, AddClient,
         TriggerConnect, ConnectHandlerReturns, closing
<1>2. CallInv' /\ SubInv' /\ EffectInv'
  BY <1>1, FrameStep
<1>3. ShutInv'
  BY <1>1 DEF CInv, ShutInv, shut
<1>4. PICK h \in {"new", "refused", "over", "checked", "limited", "authed", "added",
                  "handler", "up"} : hpc' = [hpc EXCEPT ![c] = h]
  BY DEF HandlerStep, ServeHTTP, Connect, CheckLimit, Authenticate, AddClient,
         TriggerConnect, ConnectHandlerReturns
<1>5. /\ status' = status \/ status' = [status EXCEPT ![c] = "connected"]
      /\ authed' = authed \/ authed' = authed \cup {c}
      /\ conns' = conns \/ conns' = conns \cup {c}
      /\ wanted' = wanted \/ wanted' = wanted \cup {c}
  BY DEF HandlerStep, ServeHTTP, Connect, CheckLimit, Authenticate, AddClient,
         TriggerConnect, ConnectHandlerReturns, closing
<1>6. /\ hpc' \in [Clients -> {"http", "refused", "new", "over", "checked", "limited",
                               "authed", "added", "handler", "up"}]
      /\ hpc'[c] = h /\ \A d \in Clients \ {c} : hpc'[d] = hpc[d]
  BY <1>4 DEF CInv, CTypeOK
<1>7. /\ status' \in [Clients -> {"connecting", "connected", "closed"}]
      /\ \A d \in Clients \ {c} : status'[d] = status[d]
  <2>1. CASE status' = status
    BY <2>1 DEF CInv, CTypeOK
  <2>2. CASE status' = [status EXCEPT ![c] = "connected"]
    BY <2>2 DEF CInv, CTypeOK
  <2> QED BY <1>5, <2>1, <2>2
<1>8. CTypeOK'
  BY <1>1, <1>5, <1>6, <1>7, SMT DEF CInv, CTypeOK, channels, ops, shut, history
<1>9. ConnInv'
  <2>1. ASSUME NEW d \in Clients \ {c} PROVE ConnOf(d)'
    BY <1>1, <1>5, <1>6, <1>7 DEF CInv, ConnInv, ConnOf, Registering, history
  <2>2. ConnOf(c)'
    <3>1. ConnOf(c) /\ kpc' = kpc /\ late' = late /\ hpc'[c] = h /\ CTypeOK
      BY <1>1, <1>6 DEF CInv, ConnInv, history
    <3>2. CASE ServeHTTP(c) \/ Connect(c)
      BY <3>1, <3>2, SMT DEF ServeHTTP, Connect, ConnOf, Registering, CTypeOK
    <3>3. CASE CheckLimit(c)
      <4>1. /\ hpc[c] = "checked" /\ hpc'[c] \in {"over", "limited"}
            /\ UNCHANGED <<status, authed, conns>>
        BY <3>1, <3>3 DEF CheckLimit, CTypeOK
      <4> QED BY <3>1, <4>1 DEF ConnOf, Registering
    <3>4. CASE Authenticate(c) \/ AddClient(c)
      BY <3>1, <3>4, SMT DEF Authenticate, AddClient, ConnOf, Registering, CTypeOK
    <3>5. CASE TriggerConnect(c)
      BY <3>1, <3>5 DEF TriggerConnect, ConnectMuFree, ConnOf, Registering, CTypeOK
    <3>6. CASE ConnectHandlerReturns(c)
      BY <3>1, <3>6 DEF ConnectHandlerReturns, ConnOf, Registering, CTypeOK
    <3> QED BY <3>2, <3>3, <3>4, <3>5, <3>6 DEF HandlerStep
  <2> QED BY <2>1, <2>2 DEF ConnInv
<1> QED BY <1>2, <1>3, <1>8, <1>9 DEF CInv

\* Client.close: hub and client are taken apart in this order.
LEMMA CloseStepInv ==
    ASSUME CInv, NEW c \in Clients, CloseStep(c)
    PROVE  CInv'
<1> DEFINE Moves ==
        /\ UNCHANGED <<plan, hpc, authed, kind, call, targets, gpc, wanted, shut, newest,
                       crossed, halved>>
        /\ \A d \in Clients \ {c} : /\ status'[d] = status[d] /\ kpc'[d] = kpc[d]
                                    /\ d \in conns' <=> d \in conns
                                    /\ d \in chans' <=> d \in chans
                                    /\ d \in subs' <=> d \in subs
                                    /\ d \in late' <=> d \in late
        /\ kpc[c] # "done" /\ kpc'[c] # "no"
        /\ CTypeOK'
    Here == ConnOf(c)' /\ SubOf(c)'
<1> HIDE DEF Moves, Here
<1>0. /\ CTypeOK /\ ConnOf(c) /\ SubOf(c)
      /\ kpc \in [Clients -> {"no", "unsubscribe", "leave", "remove", "end", "done"}]
      /\ status \in [Clients -> {"connecting", "connected", "closed"}]
  BY DEF CInv, ConnInv, SubInv, CTypeOK
<1>1. Moves /\ Here
  <2>1. CASE CloseBegin(c)
    <3>1. Moves
      BY <1>0, <2>1 DEF Moves, CTypeOK, CloseBegin, Noted, shut, channels, ops
    <3>2. Here
      BY <1>0, <2>1, <3>1 DEF Moves, Here, CloseBegin, Noted, channels, ConnOf, Registering,
                              SubOf, Joins, Leaves, history
    <3> QED BY <3>1, <3>2
  <2>2. CASE CloseUnsubscribe(c)
    <3>1. Moves
      BY <1>0, <2>2 DEF Moves, CTypeOK, CloseUnsubscribe, history, shut, conn, channels, ops
    <3>2. Here
      BY <1>0, <2>2, <3>1 DEF Moves, Here, CloseUnsubscribe, conn, ConnOf, Registering,
                              SubOf, Joins, Leaves, history
    <3> QED BY <3>1, <3>2
  <2>3. CASE CloseLeave(c)
    <3>1. Moves
      BY <1>0, <2>3 DEF Moves, CTypeOK, CloseLeave, history, shut, conn, channels, ops
    <3>2. Here
      BY <1>0, <2>3, <3>1 DEF Moves, Here, CloseLeave, conn, ConnOf, Registering,
                              SubOf, Joins, Leaves, history
    <3> QED BY <3>1, <3>2
  <2>4. CASE CloseRemove(c)
    <3>1. Moves
      BY <1>0, <2>4 DEF Moves, CTypeOK, CloseRemove, history, shut, conn, channels, ops
    <3>2. Here
      BY <1>0, <2>4, <3>1 DEF Moves, Here, CloseRemove, channels, ConnOf, Registering,
                              SubOf, Joins, Leaves, history
    <3> QED BY <3>1, <3>2
  <2>5. CASE CloseEnd(c)
    <3>1. Moves
      BY <1>0, <2>5 DEF Moves, CTypeOK, CloseEnd, history, shut, conn, channels, ops
    <3>2. Here
      BY <1>0, <2>5, <3>1 DEF Moves, Here, CloseEnd, conn, channels, ConnOf, Registering,
                              SubOf, Joins, Leaves, history
    <3> QED BY <3>1, <3>2
  <2> QED BY <2>1, <2>2, <2>3, <2>4, <2>5 DEF CloseStep
<1>2. ASSUME NEW d \in Clients \ {c} PROVE ConnOf(d)' /\ SubOf(d)'
  <2>1. ConnOf(d) /\ SubOf(d)
    BY DEF CInv, ConnInv, SubInv
  <2> QED BY <1>1, <2>1 DEF Moves, ConnOf, Registering, SubOf, Joins, Leaves, history
<1>3. CallInv'
  BY <1>1, SMT DEF Moves, CInv, CallInv
<1>4. EffectInv'
  BY <1>1, SMT DEF Moves, CInv, EffectInv, EffectOf
<1>5. ShutInv'
  BY <1>1, <1>0 DEF Moves, CInv, ShutInv, shut, CTypeOK
<1>6. ConnInv' /\ SubInv' /\ CTypeOK'
  BY <1>1, <1>2 DEF Moves, Here, ConnInv, SubInv
<1> QED BY <1>3, <1>4, <1>5, <1>6 DEF CInv

\* Node.Shutdown: a client found is closed before it is forgotten.
LEMMA ShutdownStepInv ==
    ASSUME CInv,
           \/ \E c \in Clients : ShutdownStep(c) \/ Disconnect(c)
           \/ \E n \in Nodes : ShutdownCopies(n) \/ Shutdown(n) \/ ShutdownTimesOut(n)
    PROVE  CInv'
<1>1. /\ UNCHANGED <<plan, hpc, status, authed, conns, channels, kpc, ops, history>>
      /\ wanted \subseteq wanted'
  BY DEF ShutdownStep, Disconnect, ShutdownCopies, Shutdown, ShutdownTimesOut,
         ShutdownCloses, ShutdownClosed, conn, closing
<1>2. CallInv' /\ SubInv' /\ EffectInv'
  BY <1>1, FrameStep
<1>3. ConnInv'
  BY <1>1 DEF CInv, ConnInv, ConnOf, Registering, history
<1> DEFINE ShutType == /\ spc \in [Nodes -> {"no", "flag", "closing", "late", "done"}]
                       /\ wanted \subseteq Clients /\ copied \subseteq Clients
                       /\ waiting \subseteq Clients /\ running \subseteq Clients
<1>4. plan.home \in [Clients -> Nodes] /\ ShutInv /\ ShutType /\ conns \subseteq Clients
  BY ConnectionsAssumption DEF CInv, CTypeOK
<1>5. ShutType' /\ ShutInv'
  <2>1. ASSUME NEW c \in Clients, ShutdownCloses(c) PROVE ShutType' /\ ShutInv'
    BY <1>1, <1>4, <2>1 DEF ShutdownCloses, ShutInv
  <2>2. ASSUME NEW c \in Clients, ShutdownClosed(c) PROVE ShutType' /\ ShutInv'
    <3> DEFINE h == plan.home[c]
               last == spc[h] = "closing" /\ Of(h, waiting \cup running) = {c}
    <3>1. /\ c \in running /\ kpc[c] = "done" /\ running' = running \ {c}
          /\ spc' = [spc EXCEPT ![h] = IF last THEN "done" ELSE spc[h]]
          /\ UNCHANGED <<copied, waiting, wanted>>
      BY <2>2 DEF ShutdownClosed, CloseReturned, closing
    <3>2. h \in Nodes /\ spc' \in [Nodes -> {"no", "flag", "closing", "late", "done"}]
      BY <1>4, <3>1
    <3>3. CASE last
      <4>1. spc'[h] = "done" /\ \A n \in Nodes \ {h} : spc'[n] = spc[n]
        BY <1>4, <3>1, <3>2, <3>3
      <4>2. \A d \in waiting \cup running : plan.home[d] = h => d = c
        BY <3>3 DEF Of
      <4> HIDE DEF h, last
      <4> QED BY <1>1, <1>4, <3>1, <3>2, <4>1, <4>2, SMT DEF h, ShutInv
    <3>4. CASE ~last
      <4>1. \A n \in Nodes : spc'[n] = spc[n]
        BY <1>4, <3>1, <3>2, <3>4
      <4> HIDE DEF h, last
      <4> QED BY <1>1, <1>4, <3>1, <3>2, <4>1 DEF ShutInv
    <3> QED BY <3>3, <3>4
  <2>3. ASSUME NEW c \in Clients, Disconnect(c) PROVE ShutType' /\ ShutInv'
    BY <1>1, <1>4, <2>3 DEF Disconnect, shut, ShutInv
  <2>4. ASSUME NEW n \in Nodes, ShutdownCopies(n) PROVE ShutType' /\ ShutInv'
    BY <1>1, <1>4, <2>4 DEF ShutdownCopies, closing, ShutInv, Of
  <2>5. ASSUME NEW n \in Nodes, Shutdown(n) \/ ShutdownTimesOut(n)
        PROVE  ShutType' /\ ShutInv'
    BY <1>1, <1>4, <2>5 DEF Shutdown, ShutdownTimesOut, closing, ShutInv
  <2> QED BY <2>1, <2>2, <2>3, <2>4, <2>5 DEF ShutdownStep
<1>6. CTypeOK'
  BY <1>1, <1>5 DEF CInv, CTypeOK, channels, ops, history
<1> QED BY <1>2, <1>3, <1>5, <1>6 DEF CInv

\* A node starts its goroutines for a call it had none for.
LEMMA StartInv ==
    ASSUME CInv, NEW k \in Calls, NEW n \in Nodes, Start(k, n), call[k][n] = "none",
           kind' \in [Calls -> Kinds \cup {"none"}], kind'[k] # "none",
           \A j \in Calls \ {k} : kind'[j] = kind[j],
           kind'[k] = kind[k] \/ kind[k] = "none",
           UNCHANGED <<conn, channels, closing, shut, late, crossed, halved>>
    PROVE  CInv'
<1> USE DEF conn, channels, closing, shut
<1>0. /\ plan.home \in [Clients -> Nodes] /\ userConnections(n) \subseteq Clients
      /\ \A c \in userConnections(n) : plan.home[c] = n
  BY ConnectionsAssumption DEF CInv, CTypeOK, userConnections
<1>1. /\ gpc' \in [Calls -> [Clients -> GStates]]
      /\ targets' \in [Calls -> [Nodes -> SUBSET Clients]]
      /\ \A j \in Calls : \A d \in Clients :
            gpc'[j][d] = IF j = k /\ d \in userConnections(n) THEN "started" ELSE gpc[j][d]
      /\ \A j \in Calls : \A m \in Nodes :
            targets'[j][m] = IF j = k /\ m = n THEN userConnections(n) ELSE targets[j][m]
      /\ newest' \in [Nodes -> Calls \cup {0}]
      /\ newest'[n] = k \/ newest'[n] = 0
      /\ newest'[n] = k => \A j \in Calls : call[j][n] # "running"
      /\ \A m \in Nodes \ {n} : newest'[m] = newest[m]
  BY StartEffect, SMT DEF CInv
<1>2. /\ call' \in [Calls -> [Nodes -> {"none", "running", "done", "failed"}]]
      /\ \A j \in Calls : \A m \in Nodes :
            call'[j][m] = IF j = k /\ m = n THEN "running" ELSE call[j][m]
  BY DEF CInv, CTypeOK, Start
<1>3. \A d \in Clients : /\ d \in userConnections(n) => gpc[k][d] = "none"
                         /\ kind[k] = "none" => gpc[k][d] = "none"
  BY <1>0, SMT DEF CInv, CallInv
<1>4. CTypeOK' /\ ConnInv' /\ ShutInv'
  BY <1>1, <1>2 DEF CInv, CTypeOK, ConnInv, ConnOf, Registering, ShutInv
<1>5. CallInv'
  <2>2. ASSUME NEW m \in Nodes, NEW i \in Calls, newest'[m] = i, NEW j \in Calls \ {i}
        PROVE  call'[j][m] # "running"
    <3>1. CASE m = n
      <4>1. k # 0 /\ i # 0
        BY ConnectionsAssumption, SMT DEF Calls
      <4>2. i = k
        BY <1>1, <2>2, <3>1, <4>1
      <4>3. call[j][n] # "running" /\ j # k
        BY <1>1, <2>2, <3>1, <4>2
      <4> QED BY <1>2, <3>1, <4>3
    <3>2. CASE m # n
      <4>1. newest[m] = i /\ call'[j][m] = call[j][m]
        BY <1>1, <1>2, <2>2, <3>2
      <4>2. \A l \in Calls \ {i} : call[l][m] # "running"
        BY <4>1, SMT DEF CInv, CallInv
      <4> QED BY <4>1, <4>2
    <3> QED BY <3>1, <3>2
  <2>3. ASSUME NEW j \in Calls, NEW c \in Clients, gpc'[j][c] # "none"
        PROVE  c \in targets'[j][plan.home[c]]
    <3>1. CASE j = k /\ c \in userConnections(n)
      BY <3>1, <1>0, <1>1
    <3>2. CASE ~(j = k /\ c \in userConnections(n))
      <4>1. gpc[j][c] # "none" /\ plan.home[c] \in Nodes
        BY <2>3, <3>2, <1>0, <1>1
      <4>2. c \in targets[j][plan.home[c]] /\ targets[k][n] = {}
        BY <4>1 DEF CInv, CallInv
      <4> QED BY <4>1, <4>2, <1>1
    <3> QED BY <3>1, <3>2
  <2>4. ASSUME NEW j \in Calls, NEW m \in Nodes
        PROVE  /\ kind'[j] = "none" => call'[j][m] = "none"
               /\ call'[j][m] = "none" => targets'[j][m] = {}
    <3>1. CASE j = k /\ m = n
      BY <3>1, <1>2
    <3>2. CASE ~(j = k /\ m = n)
      <4>1. call'[j][m] = call[j][m] /\ targets'[j][m] = targets[j][m]
        BY <3>2, <1>1, <1>2
      <4>2. kind'[j] = "none" => kind[j] = "none"
        OBVIOUS
      <4> QED BY <4>1, <4>2, SMT DEF CInv, CallInv
    <3> QED BY <3>1, <3>2
  <2>5. ASSUME NEW j \in Calls, NEW m \in Nodes, NEW c \in targets'[j][m]
        PROVE  /\ plan.home[c] = m
               /\ call'[j][m] \in Over => gpc'[j][c] \in Over
               /\ call'[j][m] = "done" => gpc'[j][c] = "done"
    <3>1. CASE j = k /\ m = n
      BY <3>1, <1>0, <1>1, <1>2 DEF Over
    <3>2. CASE ~(j = k /\ m = n)
      <4>1. c \in targets[j][m] /\ c \in Clients /\ call'[j][m] = call[j][m]
        BY <3>2, <1>1, <1>2, SMT
      <4>2. gpc'[j][c] = gpc[j][c]
        BY <3>2, <4>1, <1>0, <1>1, SMT DEF CInv, CallInv
      <4> QED BY <4>1, <4>2, SMT DEF CInv, CallInv
    <3> QED BY <3>1, <3>2
  <2> QED BY <2>2, <2>3, <2>4, <2>5, SMT DEF CallInv
<1>6. \A j \in Calls : \A d \in Clients : \A g \in {"middle", "failing", "done"} :
         /\ gpc'[j][d] = g <=> gpc[j][d] = g
         /\ gpc[j][d] = g => kind'[j] = kind[j]
  BY <1>1, <1>3, SMT
<1>7. SubInv'
  <2> SUFFICES ASSUME NEW d \in Clients PROVE SubOf(d)'
    BY DEF SubInv
  <2>1. \A j \in Calls : (Joins(j, d)' <=> Joins(j, d)) /\ (Leaves(j, d)' <=> Leaves(j, d))
    BY <1>6, SMT DEF Joins, Leaves
  <2> QED BY <1>6, <2>1, SMT DEF CInv, SubInv, SubOf
<1>8. EffectInv'
  <2> SUFFICES ASSUME NEW j \in Calls, NEW d \in Clients, gpc'[j][d] = "done"
               PROVE  EffectOf(j, d)'
    BY DEF EffectInv, EffectOf
  <2>1. gpc[j][d] = "done" /\ kind'[j] = kind[j]
    BY <1>6, SMT
  <2>2. newest'[plan.home[d]] = j => newest[plan.home[d]] = j
    <3>1. CASE plan.home[d] = n
      <4>1. j # k
        BY <2>1, <3>1, SMT DEF CInv, CallInv
      <4>2. j # 0
        BY ConnectionsAssumption, SMT DEF Calls
      <4> QED BY <1>1, <3>1, <4>1, <4>2
    <3>2. CASE plan.home[d] # n
      BY <1>0, <1>1, <3>2
    <3> QED BY <3>1, <3>2
  <2> QED BY <2>1, <2>2 DEF CInv, EffectInv, EffectOf
<1> QED BY <1>4, <1>5, <1>7, <1>8 DEF CInv

\* The calls themselves, on the node that is called and on the others.
LEMMA CallStepInv ==
    ASSUME CInv, NEW k \in Calls, NodeCall(k) \/ \E n \in Nodes : HandleControl(k, n) \/ NodeCallReturns(k, n)
    PROVE  CInv'
<1>1. CASE NodeCall(k)
  <2>1. /\ plan.calls \in Seq(Kinds) /\ Len(plan.calls) <= MaxCalls /\ MaxCalls \in Nat
        /\ Caller \in Nodes
    BY ConnectionsAssumption DEF CInv, CTypeOK
  <2>2. k \in 1..Len(plan.calls) /\ k \in Nat
    BY <1>1, <2>1, SMT DEF NodeCall, Calls
  <2>3. plan.calls[k] \in Kinds
    BY <2>1, <2>2, SMT
  <2>5. call[k][Caller] = "none" /\ kind[k] = "none"
    BY <1>1, <2>1 DEF NodeCall, CInv, CallInv
  <2>6. /\ kind' \in [Calls -> Kinds \cup {"none"}] /\ kind'[k] # "none"
        /\ \A j \in Calls \ {k} : kind'[j] = kind[j]
    BY <1>1, <2>3 DEF NodeCall, CInv, CTypeOK, Kinds
  <2> QED BY <1>1, <2>1, <2>5, <2>6, StartInv DEF NodeCall
<1>2. ASSUME NEW n \in Nodes, HandleControl(k, n) PROVE CInv'
  <2>1. kind[k] # "none" /\ Caller \in Nodes
    BY <1>2, ConnectionsAssumption DEF HandleControl, CInv, CallInv
  <2>2. kind' = kind /\ kind \in [Calls -> Kinds \cup {"none"}]
    BY <1>2 DEF HandleControl, CInv, CTypeOK
  <2> QED BY <1>2, <2>1, <2>2, StartInv DEF HandleControl
<1>3. ASSUME NEW n \in Nodes, NodeCallReturns(k, n) PROVE CInv'
  <2>1. /\ call[k][n] = "running" /\ \A c \in targets[k][n] : gpc[k][c] \in Over
        /\ call' \in [Calls -> [Nodes -> {"none", "running", "done", "failed"}]]
        /\ call'[k][n] \in Over
        /\ call'[k][n] = "done" => \A c \in targets[k][n] : gpc[k][c] = "done"
        /\ \A j \in Calls : \A m \in Nodes : j # k \/ m # n => call'[j][m] = call[j][m]
    BY <1>3, SMT DEF NodeCallReturns, CInv, CTypeOK, Over
  <2>2. UNCHANGED <<conn, channels, closing, kind, targets, gpc, shut, history>>
    BY <1>3 DEF NodeCallReturns
  <2>3. CTypeOK' /\ ConnInv' /\ ShutInv'
    BY <2>1, <2>2 DEF CInv, CTypeOK, ConnInv, ConnOf, Registering, ShutInv, conn, channels,
                        closing, shut, history
  <2>4. CallInv'
    <3>1. UNCHANGED <<plan, kind, targets, gpc, newest>>
      BY <2>2 DEF conn, history
    <3>2. \A i \in Calls : \A m \in Nodes : newest[m] = i =>
             \A j \in Calls \ {i} : call'[j][m] # "running"
      BY <2>1, SMT DEF CInv, CallInv, Over
    <3> QED BY <2>1, <3>1, <3>2, SMT DEF CInv, CallInv, Over
  <2>5. SubInv' /\ EffectInv'
    BY <2>2, SMT DEF CInv, SubInv, SubOf, Joins, Leaves, EffectInv, EffectOf, history,
                conn, channels, closing
  <2> QED BY <2>3, <2>4, <2>5 DEF CInv
<1> QED BY <1>1, <1>2, <1>3
-----------------------------------------------------------------------------
\* The invariant holds in every behaviour of connections, calls and shutdowns
\* (client.go, hub.go, node.go), whatever their number.
THEOREM CInvTheorem == CSpec => []CInv
<1>1. CInv /\ [CNext]_cvars => CInv'
  <2> SUFFICES ASSUME CInv, [CNext]_cvars PROVE CInv'
    OBVIOUS
  <2>1. CASE Running
    <3>1. ASSUME NEW c \in Clients, HandlerStep(c) \/ CloseStep(c) \/ ShutdownStep(c)
          PROVE  CInv'
      BY <3>1, HandlerStepInv, CloseStepInv, ShutdownStepInv
    <3>2. ASSUME NEW k \in Calls, NEW n \in Nodes, NodeCallReturns(k, n) PROVE CInv'
      BY <3>2, CallStepInv
    <3>3. ASSUME NEW k \in Calls, NEW c \in Clients, GoStep(k, c) PROVE CInv'
      BY <3>3, GoStepInv
    <3>4. ASSUME NEW n \in Nodes, ShutdownCopies(n) PROVE CInv'
      BY <3>4, ShutdownStepInv
    <3> QED BY <2>1, <3>1, <3>2, <3>3, <3>4 DEF Running
  <2>2. ASSUME NEW c \in Clients, Disconnect(c) PROVE CInv'
    BY <2>2, ShutdownStepInv
  <2>3. ASSUME NEW k \in Calls, NodeCall(k) \/ \E n \in Nodes : HandleControl(k, n) PROVE CInv'
    BY <2>3, CallStepInv
  <2>4. ASSUME NEW n \in Nodes, Shutdown(n) \/ ShutdownTimesOut(n) PROVE CInv'
    BY <2>4, ShutdownStepInv
  <2>5. CASE UNCHANGED cvars
    <3>1. UNCHANGED <<plan, hpc, status, authed, conns, chans, subs, wanted, kpc, kind,
                      call, targets, gpc, spc, copied, waiting, running, history>>
      BY <2>5 DEF cvars, conn, channels, closing, ops, shut
    <3>2. CallInv' /\ SubInv' /\ EffectInv'
      BY <3>1, FrameStep DEF channels, ops
    <3> QED BY <3>1, <3>2 DEF CInv, CTypeOK, ConnInv, ConnOf, Registering, ShutInv, history
  <2> QED BY <2>1, <2>2, <2>3, <2>4, <2>5 DEF CNext, Outside
<1> QED BY <1>1, CInitInv, PTL DEF CSpec

\* Whatever is done to a connection, in any order, by any number of calls: once its close
\* is over no registry of the hub has it, and hub and client agree on the subscription,
\* but for the leftovers that Tidy names, each after the overlap or the failure that
\* explains it (client.go:2328, 2566, 2571, 2733, 3088).
THEOREM TidyTheorem == CSpec => []Tidy
<1>1. CInv => Tidy
  <2> SUFFICES ASSUME CInv, NEW c \in Clients, Settled(c)
               PROVE  /\ kpc[c] = "done" /\ c \notin late \cup halved =>
                            c \notin conns \cup chans \cup subs
                      /\ c \in chans \ subs => c \in late \cup halved \cup crossed
                      /\ c \in subs \ chans => c \in late \cup halved
    BY DEF Tidy
  <2>1. SubOf(c) /\ kpc[c] \in {"no", "done"} /\ \A k \in Calls : ~Joins(k, c) /\ ~Leaves(k, c)
    BY DEF CInv, SubInv, Settled
  <2>2. kpc[c] = "done" /\ c \notin late => c \notin conns
    BY DEF CInv, ConnInv, ConnOf
  <2> QED BY <2>1, <2>2 DEF SubOf
<1> QED BY <1>1, CInvTheorem, PTL

\* A call that has returned holds on every node that has carried it out: Disconnect and
\* Shutdown for every connection they found, the newest of the Subscribe and Unsubscribe
\* calls for the open ones, on client and hub alike (hub.go:258, 301, 351, 383).
THEOREM CallsTakeEffectTheorem == CSpec => []CallsTakeEffect
<1>1. CInv => CallsTakeEffect
  <2> SUFFICES ASSUME CInv PROVE CallsTakeEffect
    OBVIOUS
  <2>1. ASSUME NEW k \in Calls, NEW n \in Nodes, call[k][n] = "done", NEW c \in targets[k][n]
        PROVE  /\ c \in Clients /\ plan.home[c] = n /\ gpc[k][c] = "done"
               /\ kind[k] \in Kinds /\ EffectOf(k, c) /\ SubOf(c)
               /\ c \in late => kpc[c] # "no"
    <3>1. c \in Clients
      BY SMT DEF CInv, CTypeOK
    <3>2. kind[k] \in Kinds
      BY <2>1, SMT DEF CInv, CTypeOK, CallInv
    <3> QED BY <2>1, <3>1, <3>2, SMT DEF CInv, CallInv, EffectInv, SubInv, ConnInv, ConnOf
  <2>2. ASSUME NEW k \in Calls, NEW n \in Nodes, call[k][n] = "done", NEW c \in targets[k][n],
               newest[n] = k, c \notin crossed \cup halved, kpc[c] = "no", kind[k] # "disconnect"
        PROVE  Has(c, k)
    <3>1. \A j \in Calls : ~Joins(j, c) /\ ~Leaves(j, c)
      <4>1. gpc[k][c] = "done" /\ c \in Clients /\ newest[plan.home[c]] = k
        BY <2>1, <2>2, SMT
      <4>2. ASSUME NEW j \in Calls \ {k} PROVE gpc[j][c] \in Over \cup {"none"}
        BY <4>1, OthersOver
      <4> QED BY <4>1, <4>2 DEF Joins, Leaves, Over
    <3>2. c \in chans <=> c \in subs
      BY <2>1, <2>2, <3>1 DEF SubOf
    <3>3. CASE kind[k] = "subscribe"
      BY <2>1, <2>2, <3>2, <3>3 DEF EffectOf, Has
    <3>4. CASE kind[k] = "unsubscribe"
      BY <2>1, <2>2, <3>2, <3>4 DEF EffectOf, Has
    <3> QED BY <2>1, <2>2, <3>3, <3>4 DEF Kinds
  <2>3. ASSUME NEW n \in Nodes, spc[n] = "done", NEW c \in Of(n, copied)
        PROVE  kpc[c] = "done"
    BY <2>3 DEF Of, CInv, ShutInv
  <2>4. ASSUME NEW k \in Calls, NEW n \in Nodes, call[k][n] = "done", NEW c \in targets[k][n],
               kind[k] = "disconnect"
        PROVE  kpc[c] = "done"
    BY <2>1, <2>4, SMT DEF EffectOf
  <2> QED BY <2>2, <2>3, <2>4, SMT DEF CallsTakeEffect
<1> QED BY <1>1, CInvTheorem, PTL
=============================================================================
