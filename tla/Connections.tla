---------------------------- MODULE Connections -----------------------------
(***************************************************************************)
(* The connections of one user on several nodes, from the HTTP handler to  *)
(* the end of Client.close, and what is done to all of them: Node.Subscribe,*)
(* Unsubscribe and Disconnect, which act on the node that is called and are*)
(* handled by the other nodes in any order, and Node.Shutdown.             *)
(***************************************************************************)
EXTENDS Naturals, Sequences, FiniteSets

CONSTANTS
    Clients,    \* connections of the user
    Nodes,
    Caller,     \* the node that is called
    Plans,      \* what may come to the nodes from outside, see CInit
    MaxCalls,   \* bound: calls, one after the other
    Sem         \* hubShutdownSemaphoreSize

Kinds == {"subscribe", "unsubscribe", "disconnect"}

\* home: the node each connection is made to; calls: the calls of Caller; hangs: the
\* connections that may be closed by the other side or a timer; downs: the nodes that
\* may be shut down; limit: Config.UserConnectionLimit, 0 for none; room: how many
\* channels a client may have besides its others (Config.ClientChannelLimit); pushes:
\* the transport has not disabled PushFlagSubscribe.
ASSUME ConnectionsAssumption ==
    /\ Caller \in Nodes
    /\ MaxCalls \in Nat /\ Sem \in Nat \ {0}
    /\ \A p \in Plans :
          /\ p.home \in [Clients -> Nodes]
          /\ p.calls \in Seq(Kinds) /\ Len(p.calls) <= MaxCalls
          /\ p.hangs \subseteq Clients /\ p.downs \subseteq Nodes
          /\ p.limit \in Nat /\ p.room \in Nat /\ p.pushes \in BOOLEAN

Calls == 1..MaxCalls

VARIABLES
    plan,     \* the plan of this behaviour, which never changes
    hpc,      \* the handler goroutine of a connection
    status,   \* Client.status
    authed,   \* clients with Client.authenticated
    conns,    \* the hubs' connShard.conns
    chans,    \* clients with the channel in Client.channels
    subs,     \* clients in the hubs' subShard.subs
    wanted,   \* clients somebody has called close for
    kpc,      \* the call of close that goes on
    kind,     \* what was called, by number of call
    call,     \* what a node does for a call
    targets,  \* the user's connections the node found for it
    gpc,      \* the goroutine for a connection
    spc,      \* Node.Shutdown of a node
    copied,   \* the clients connShard.shutdown found
    waiting,  \* those of them it has no goroutine for yet
    running,  \* those with a goroutine
    dead,     \* nodes whose process has ended in a panic
    newest,   \* history: the call a node began last, 0 if others went on then
    late,     \* history: clients closed while the connect command or a subscribe went on
    crossed,  \* history: clients that were subscribed and unsubscribed at a time
    halved    \* history: clients on which a subscribe failed half-way

conn == <<plan, hpc, status, authed, conns>>
channels == <<chans, subs>>
closing == <<wanted, kpc>>
ops == <<kind, call, targets, gpc>>
shut == <<spc, copied, waiting, running>>
history == <<newest, late, crossed, halved>>
cvars == <<conn, channels, closing, ops, shut, dead, history>>

CInit ==
    /\ plan \in Plans
    /\ hpc = [c \in Clients |-> "http"]
    /\ status = [c \in Clients |-> "connecting"]
    /\ authed = {} /\ conns = {} /\ chans = {} /\ subs = {}
    /\ wanted = {} /\ kpc = [c \in Clients |-> "no"]
    /\ kind = [k \in Calls |-> "none"]
    /\ call = [k \in Calls |-> [n \in Nodes |-> "none"]]
    /\ targets = [k \in Calls |-> [n \in Nodes |-> {}]]
    /\ gpc = [k \in Calls |-> [c \in Clients |-> "none"]]
    /\ spc = [n \in Nodes |-> "no"]
    /\ copied = {} /\ waiting = {} /\ running = {}
    /\ dead = {} /\ newest = [n \in Nodes |-> 0]
    /\ late = {} /\ crossed = {} /\ halved = {}

\* A subscribe is in the hub and has not stored the channel; an unsubscribe or a
\* subscribe that failed has deleted the channel and is still in the hub.
Joins(k, c) == kind[k] = "subscribe" /\ gpc[k][c] = "middle"
Leaves(k, c) ==
    gpc[k][c] = "failing" \/ (kind[k] = "unsubscribe" /\ gpc[k][c] = "middle")
Registering(c) == hpc[c] \in {"checked", "limited", "authed"}

\* c joins a set of the history under a condition.
Noted(S, c, cond) == IF cond THEN S \cup {c} ELSE S

-----------------------------------------------------------------------------
(* The handler of a transport, and the connect command.                    *)

\* NotifyShutdown is looked at once, before the client is made.
ServeHTTP(c) ==
    /\ hpc[c] = "http"
    /\ hpc' = [hpc EXCEPT ![c] = IF spc[plan.home[c]] = "no" THEN "new" ELSE "refused"]
    /\ UNCHANGED <<plan, status, authed, conns, channels, closing, ops, shut, dead, history>>

\* connectCmd up to its last look at the status.
Connect(c) ==
    /\ hpc[c] = "new"
    /\ hpc' = [hpc EXCEPT ![c] = IF status[c] = "closed" THEN "over" ELSE "checked"]
    /\ UNCHANGED <<plan, status, authed, conns, channels, closing, ops, shut, dead, history>>

userConnections(n) == {c \in conns : plan.home[c] = n}

\* A refused command closes the connection.
CheckLimit(c) ==
    /\ hpc[c] = "checked"
    /\ IF plan.limit > 0 /\ Cardinality(userConnections(plan.home[c])) >= plan.limit
       THEN /\ hpc' = [hpc EXCEPT ![c] = "over"]
            /\ wanted' = wanted \cup {c}
       ELSE /\ hpc' = [hpc EXCEPT ![c] = "limited"]
            /\ UNCHANGED wanted
    /\ UNCHANGED <<plan, status, authed, conns, channels, kpc, ops, shut, dead, history>>

Authenticate(c) ==
    /\ hpc[c] = "limited"
    /\ authed' = authed \cup {c}
    /\ hpc' = [hpc EXCEPT ![c] = "authed"]
    /\ UNCHANGED <<plan, status, conns, channels, closing, ops, shut, dead, history>>

AddClient(c) ==
    /\ hpc[c] = "authed"
    /\ conns' = conns \cup {c}
    /\ hpc' = [hpc EXCEPT ![c] = "added"]
    /\ UNCHANGED <<plan, status, authed, channels, closing, ops, shut, dead, history>>

\* connectMu is held by close from the first to the last of its steps.
ConnectMuFree(c) == kpc[c] \in {"no", "done"}

\* The connect handler runs with connectMu held.
TriggerConnect(c) ==
    /\ hpc[c] = "added"
    /\ ConnectMuFree(c)
    /\ hpc' = [hpc EXCEPT ![c] = IF status[c] = "connecting" THEN "handler" ELSE "up"]
    /\ UNCHANGED <<plan, status, authed, conns, channels, closing, ops, shut, dead, history>>

ConnectHandlerReturns(c) ==
    /\ hpc[c] = "handler"
    /\ status' = [status EXCEPT ![c] = "connected"]
    /\ hpc' = [hpc EXCEPT ![c] = "up"]
    /\ UNCHANGED <<plan, authed, conns, channels, closing, ops, shut, dead, history>>

-----------------------------------------------------------------------------
(* Client.close, which one caller at a time goes through.                  *)

\* Client.Disconnect, and the other places that close in a goroutine of their own:
\* the end of the transport's handler, the stale timer, a failed write.
Disconnect(c) ==
    /\ c \in plan.hangs
    /\ c \notin wanted
    /\ hpc[c] \notin {"http", "refused"}
    /\ wanted' = wanted \cup {c}
    /\ UNCHANGED <<conn, channels, kpc, ops, shut, dead, history>>

CloseBegin(c) ==
    /\ c \in wanted
    /\ kpc[c] = "no"
    /\ hpc[c] # "handler"
    /\ status' = [status EXCEPT ![c] = "closed"]
    /\ kpc' = [kpc EXCEPT ![c] = IF c \in chans THEN "unsubscribe" ELSE "remove"]
    /\ late' = Noted(late, c, Registering(c) \/ \E k \in Calls : Joins(k, c))
    /\ UNCHANGED <<plan, hpc, authed, conns, channels, wanted, ops, shut, dead,
                   newest, crossed, halved>>

CloseUnsubscribe(c) ==
    /\ kpc[c] = "unsubscribe"
    /\ chans' = chans \ {c}
    /\ kpc' = [kpc EXCEPT ![c] = IF c \in chans THEN "leave" ELSE "remove"]
    /\ UNCHANGED <<conn, subs, wanted, ops, shut, dead, history>>

CloseLeave(c) ==
    /\ kpc[c] = "leave"
    /\ subs' = subs \ {c}
    /\ kpc' = [kpc EXCEPT ![c] = "remove"]
    /\ UNCHANGED <<conn, chans, wanted, ops, shut, dead, history>>

CloseRemove(c) ==
    /\ kpc[c] = "remove"
    /\ conns' = IF c \in authed THEN conns \ {c} ELSE conns
    /\ kpc' = [kpc EXCEPT ![c] = "end"]
    /\ UNCHANGED <<plan, hpc, status, authed, channels, wanted, ops, shut, dead, history>>

CloseEnd(c) ==
    /\ kpc[c] = "end"
    /\ kpc' = [kpc EXCEPT ![c] = "done"]
    /\ UNCHANGED <<conn, channels, wanted, ops, shut, dead, history>>

\* A call of close returns with all of it done, whoever did it: the second caller
\* waits for the locks of the first. CloseReturnedEarly looks at the status alone.
CloseReturnedEarly(c) == status[c] = "closed"
CloseReturned(c) == kpc[c] = "done"

-----------------------------------------------------------------------------
(* Node.Subscribe, Unsubscribe and Disconnect.                             *)

\* One goroutine for each connection the node has of the user.
Start(k, n) ==
    /\ targets' = [targets EXCEPT ![k][n] = userConnections(n)]
    /\ gpc' = [gpc EXCEPT ![k] = [c \in Clients |->
                  IF c \in userConnections(n) THEN "started" ELSE gpc[k][c]]]
    /\ call' = [call EXCEPT ![k][n] = "running"]
    /\ newest' = [newest EXCEPT ![n] =
                     IF \E j \in Calls : call[j][n] = "running" THEN 0 ELSE k]

Returned(k) == call[k][Caller] \in {"done", "failed"}

\* The application calls the node, one call after the other.
NodeCall(k) ==
    /\ k <= Len(plan.calls)
    /\ kind[k] = "none"
    /\ \A j \in 1..(k - 1) : Returned(j)
    /\ kind' = [kind EXCEPT ![k] = plan.calls[k]]
    /\ Start(k, Caller)
    /\ UNCHANGED <<conn, channels, closing, shut, dead, late, crossed, halved>>

\* wg.Wait, and the control message to the others unless a goroutine failed.
NodeCallReturns(k, n) ==
    /\ call[k][n] = "running"
    /\ \A c \in targets[k][n] : gpc[k][c] \in {"done", "failed"}
    /\ call' = [call EXCEPT ![k][n] =
                   IF \E c \in targets[k][n] : gpc[k][c] = "failed" THEN "failed" ELSE "done"]
    /\ UNCHANGED <<conn, channels, closing, kind, targets, gpc, shut, dead, history>>

\* Another node handles the control message: the workers of a broker take control
\* messages in any order. A message may also be lost.
HandleControl(k, n) ==
    /\ n # Caller
    /\ call[k][n] = "none"
    /\ call[k][Caller] = "done"
    /\ Start(k, n)
    /\ UNCHANGED <<conn, channels, closing, kind, shut, dead, late, crossed, halved>>

Go(k, c, from, to) ==
    /\ gpc[k][c] = from
    /\ gpc' = [gpc EXCEPT ![k][c] = to]
    /\ UNCHANGED <<conn, kpc, kind, call, targets, shut, newest>>

Of(n, S) == {c \in S : plan.home[c] = n}

\* Client.Subscribe. A client with as many channels as it may have is closed by another
\* goroutine, and the call succeeds.
ClientSubscribe(k, c) ==
    /\ kind[k] = "subscribe"
    /\ LET full == Cardinality({c} \cap chans) >= plan.room
       IN  /\ Go(k, c, "started", IF full THEN "done" ELSE "adding")
           /\ wanted' = IF full THEN wanted \cup {c} ELSE wanted
    /\ UNCHANGED <<channels, dead, late, crossed, halved>>

\* addSubscription, with no look at the status.
ClientSubscribeAdds(k, c) ==
    /\ kind[k] = "subscribe"
    /\ Go(k, c, "adding", "middle")
    /\ subs' = subs \cup {c}
    /\ late' = Noted(late, c, kpc[c] # "no")
    /\ crossed' = Noted(crossed, c, \E j \in Calls : Leaves(j, c))
    /\ UNCHANGED <<chans, wanted, dead, halved>>

\* subscribeCmd has its result: the channel is stored. The push may fail after that.
ClientSubscribeStores(k, c) ==
    /\ kind[k] = "subscribe"
    /\ \/ Go(k, c, "middle", "done")
       \/ plan.pushes /\ Go(k, c, "middle", "failed")
    /\ chans' = chans \cup {c}
    /\ UNCHANGED <<subs, wanted, dead, late, crossed, halved>>

\* subscribeCmd returned an error, before or after it added the subscription;
\* onSubscribeError removes the subscription of a channel the client has.
ClientSubscribeFails(k, c, at) ==
    /\ kind[k] = "subscribe"
    /\ Go(k, c, at, IF c \in chans THEN "failing" ELSE "failed")
    /\ chans' = chans \ {c}
    /\ crossed' = Noted(crossed, c, c \in chans /\ \E j \in Calls \ {k} : Joins(j, c))
    /\ halved' = Noted(halved, c, at = "middle" /\ c \notin chans)
    /\ UNCHANGED <<subs, wanted, dead, late>>

RemoveFailed(k, c) ==
    /\ Go(k, c, "failing", "failed")
    /\ subs' = subs \ {c}
    /\ UNCHANGED <<chans, wanted, dead, late, crossed, halved>>

\* subscribeCmd returned a disconnect, which Client.Subscribe does not look at: it stores
\* an empty context, and making the push of a result that is nil ends the process.
\* The broker is asked, and may fail, for the first subscriber of the node only.
ClientSubscribeBreaks(k, c, at) ==
    /\ kind[k] = "subscribe"
    /\ at = "adding" => Of(plan.home[c], subs) = {}
    /\ Go(k, c, at, IF plan.pushes THEN at ELSE "done")
    /\ dead' = IF plan.pushes THEN dead \cup {plan.home[c]} ELSE dead
    /\ chans' = chans \cup {c}
    /\ halved' = Noted(halved, c, at = "adding")
    /\ UNCHANGED <<subs, wanted, late, crossed>>

\* Client.Unsubscribe of a client that is not closed and has the channel.
Unsubscribes(k, c) ==
    /\ kind[k] = "unsubscribe"
    /\ LET has == status[c] # "closed" /\ c \in chans
       IN  /\ Go(k, c, "started", IF has THEN "middle" ELSE "done")
           /\ chans' = IF has THEN chans \ {c} ELSE chans
           /\ crossed' = Noted(crossed, c, has /\ \E j \in Calls : Joins(j, c))
    /\ UNCHANGED <<subs, wanted, dead, late, halved>>

UnsubscribeKeeps(k, c) ==
    /\ kind[k] = "unsubscribe"
    /\ Go(k, c, "middle", "done")
    /\ UNCHANGED <<channels, wanted, dead, late, crossed, halved>>

UnsubscribeLeaves(k, c) ==
    /\ kind[k] = "unsubscribe"
    /\ Go(k, c, "middle", "done")
    /\ subs' = subs \ {c}
    /\ UNCHANGED <<chans, wanted, dead, late, crossed, halved>>

DisconnectCloses(k, c) ==
    /\ kind[k] = "disconnect"
    /\ Go(k, c, "started", "middle")
    /\ wanted' = wanted \cup {c}
    /\ UNCHANGED <<channels, dead, late, crossed, halved>>

DisconnectReturns(k, c) ==
    /\ kind[k] = "disconnect"
    /\ CloseReturned(c)
    /\ Go(k, c, "middle", "done")
    /\ UNCHANGED <<channels, wanted, dead, late, crossed, halved>>

-----------------------------------------------------------------------------
(* Node.Shutdown.                                                          *)

Shutdown(n) ==
    /\ n \in plan.downs
    /\ spc[n] = "no"
    /\ spc' = [spc EXCEPT ![n] = "flag"]
    /\ UNCHANGED <<conn, channels, closing, ops, copied, waiting, running, dead, history>>

\* connShard.shutdown copies the clients and then closes them, Sem at a time.
ShutdownCopies(n) ==
    /\ spc[n] = "flag"
    /\ copied' = copied \cup Of(n, conns)
    /\ waiting' = waiting \cup Of(n, conns)
    /\ spc' = [spc EXCEPT ![n] = IF Of(n, conns) = {} THEN "done" ELSE "closing"]
    /\ UNCHANGED <<conn, channels, closing, ops, running, dead, history>>

ShutdownCloses(c) ==
    /\ c \in waiting
    /\ spc[plan.home[c]] = "closing"
    /\ Cardinality(Of(plan.home[c], running)) < Sem
    /\ waiting' = waiting \ {c}
    /\ running' = running \cup {c}
    /\ wanted' = wanted \cup {c}
    /\ UNCHANGED <<conn, channels, kpc, ops, spc, copied, dead, history>>

ShutdownClosedHolds(c) ==
    /\ c \in running
    /\ CloseReturned(c)
    /\ spc' = [spc EXCEPT ![plan.home[c]] =
                  IF @ = "closing" /\ Of(plan.home[c], waiting \cup running) = {c}
                  THEN "done" ELSE @]
    /\ UNCHANGED <<conn, channels, closing, ops, copied, waiting, running, dead, history>>

ShutdownClosed(c) ==
    /\ c \in running
    /\ CloseReturned(c)
    /\ running' = running \ {c}
    /\ spc' = [spc EXCEPT ![plan.home[c]] =
                  IF @ = "closing" /\ Of(plan.home[c], waiting \cup running) = {c} THEN "done" ELSE @]
    /\ UNCHANGED <<conn, channels, closing, ops, copied, waiting, dead, history>>

\* The context of Shutdown is over before the clients are closed.
ShutdownTimesOut(n) ==
    /\ spc[n] = "closing"
    /\ spc' = [spc EXCEPT ![n] = "late"]
    /\ UNCHANGED <<conn, channels, closing, ops, copied, waiting, running, dead, history>>

-----------------------------------------------------------------------------
HandlerStep(c) ==
    \/ ServeHTTP(c) \/ Connect(c) \/ CheckLimit(c) \/ Authenticate(c) \/ AddClient(c)
    \/ TriggerConnect(c) \/ ConnectHandlerReturns(c)

CloseStep(c) ==
    \/ CloseBegin(c) \/ CloseUnsubscribe(c) \/ CloseLeave(c) \/ CloseRemove(c) \/ CloseEnd(c)

GoStep(k, c) ==
    \/ ClientSubscribe(k, c) \/ ClientSubscribeAdds(k, c) \/ ClientSubscribeStores(k, c)
    \/ \E at \in {"adding", "middle"} :
          ClientSubscribeFails(k, c, at) \/ ClientSubscribeBreaks(k, c, at)
    \/ RemoveFailed(k, c)
    \/ Unsubscribes(k, c) \/ UnsubscribeLeaves(k, c)
    \/ DisconnectCloses(k, c) \/ DisconnectReturns(k, c)

ShutdownStep(c) == ShutdownCloses(c) \/ ShutdownClosed(c)

Up(n) == n \notin dead

\* Goroutines of a process that lives run, and the connect handler returns: some step
\* is taken while there is one. No goroutine runs for ever, so that each gets its turn.
Running ==
    \/ \E c \in Clients :
          /\ Up(plan.home[c])
          /\ \/ HandlerStep(c) \/ CloseStep(c) \/ ShutdownStep(c)
             \/ \E k \in Calls : GoStep(k, c)
    \/ \E n \in Nodes :
          /\ Up(n)
          /\ ShutdownCopies(n) \/ \E k \in Calls : NodeCallReturns(k, n)

\* What comes from outside: the application, other nodes, the other side of a
\* connection, timers.
Outside ==
    \/ \E c \in Clients : Up(plan.home[c]) /\ Disconnect(c)
    \/ \E k \in Calls : Up(Caller) /\ NodeCall(k)
    \/ \E n \in Nodes :
          /\ Up(n)
          /\ \/ Shutdown(n) \/ ShutdownTimesOut(n)
             \/ \E k \in Calls : HandleControl(k, n)

CNext == Running \/ Outside

CSpec == CInit /\ [][CNext]_cvars

CFairness == WF_cvars(Running)

CFairSpec == CSpec /\ CFairness

-----------------------------------------------------------------------------
Settled(c) ==
    /\ kpc[c] \in {"no", "done"}
    /\ \A k \in Calls : ~Joins(k, c) /\ ~Leaves(k, c)

\* What may be left behind, and after what. A connection whose close is over is in no
\* registry of the hub, unless the connect command or a subscribe went on meanwhile
\* (client.go:2328, 2571) or a subscribe failed half-way before (client.go:2566). A client
\* that has the channel is in the hub, unless a subscribe and an unsubscribe overlapped
\* (client.go:3088) or the broker refused (client.go:2733); whom the hub has, has the
\* channel, overlaps or not. So an overlap is healed by the close.
Tidy ==
    \A c \in Clients : Settled(c) =>
        /\ kpc[c] = "done" /\ c \notin late \cup halved => c \notin conns \cup chans \cup subs
        /\ c \in chans \ subs => c \in late \cup halved \cup crossed
        /\ c \in subs \ chans => c \in late \cup halved

Has(c, k) ==
    IF kind[k] = "subscribe" THEN c \in (chans \cap subs) \cup wanted
    ELSE c \notin chans \cup subs

\* What a call promises when it returns (hub.go:301, 351, 383, 258): Disconnect and
\* Shutdown that every connection they found is closed to the last step, even by
\* another goroutine; Subscribe and Unsubscribe that on each node the last one, unless
\* others went on there when it began, holds for the open connections it found: these
\* have the channel and are in the hub, or are being closed for want of room
\* (client.go:2545), or have neither.
CallsTakeEffect ==
    /\ \A k \in Calls : \A n \in Nodes : call[k][n] = "done" =>
          \A c \in targets[k][n] :
              IF kind[k] = "disconnect" THEN kpc[c] = "done"
              ELSE newest[n] = k /\ kpc[c] = "no" /\ c \notin crossed \cup halved => Has(c, k)
    /\ \A n \in Nodes : spc[n] = "done" => \A c \in Of(n, copied) : kpc[c] = "done"

\* In the end, calls being finitely many, on every node whose process lives: whatever
\* call the node has begun has returned; a close that was asked for is carried out
\* whatever holds connectMu (client.go:954, 1415); a shutdown gets every client a place
\* in the semaphore (hub.go:241-252).
CallsEnd ==
    <>[](\A n \in Nodes : Up(n) =>
            /\ \A k \in Calls : call[k][n] # "running"
            /\ \A c \in Of(n, wanted) : kpc[c] = "done"
            /\ spc[n] \in {"no", "done", "late"})

\* What Config.UserConnectionLimit says: a user has at most that many connections to a
\* node (config.go:57). The check and the registration are separate steps
\* (client.go:2285, 2328).
LimitHolds ==
    plan.limit > 0 => \A n \in Nodes : Cardinality(userConnections(n)) <= plan.limit
=============================================================================
