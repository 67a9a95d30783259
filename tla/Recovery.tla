------------------------------ MODULE Recovery ------------------------------
(***************************************************************************)
(* Recovery of missed publications synchronised with live PUB/SUB, for one *)
(* channel with history and positioned subscribers on one node.            *)
(*                                                                         *)
(* Actors: the goroutine that broadcasts publications to the hub, the      *)
(* subscribe flow of every client (Client.handleSubscribe, subscribeCmd),  *)
(* the goroutines that unsubscribe a client, the periodic position check   *)
(* and the history cleanup.  A publication is its offset; the message a    *)
(* client buffers carries no epoch, the broadcast carries one beside it.   *)
(***************************************************************************)
EXTENDS Naturals, FiniteSets

CONSTANTS
    Clients,       \* connections of this node
    HistorySize,   \* PublishOptions.HistorySize
    RecoveryLimit, \* Config.RecoveryMaxPublicationLimit, 0 means no limit
    MaxOffset,     \* bound: publications per stream epoch
    MaxEpoch,      \* bound: epochs of the stream
    MaxUnsubs,     \* bound: unsubscribing goroutines of a client at which no
                   \* Unsubscribe call and no position check adds one
    MaxPending,    \* publications that wait for their broadcast: 1 for the
                   \* memory broker, whose Publish holds the publish lock from
                   \* the history add to the end of the broadcast; more for
                   \* a broker with a PUB/SUB connection
    Lossy          \* may PUB/SUB lose a publication on its way to the node

ASSUME ClientsAssumption == Clients # {} /\ IsFiniteSet(Clients)
ASSUME BoundsAssumption ==
    /\ HistorySize \in Nat \ {0}
    /\ RecoveryLimit \in Nat
    /\ MaxOffset \in Nat
    /\ MaxEpoch \in Nat \ {0}
    /\ MaxUnsubs \in Nat
    /\ MaxPending \in Nat \ {0}
    /\ Lossy \in BOOLEAN

VARIABLES
    \* the history stream: epoch, offset of the last publication, and the
    \* first retained offset (top + 1 when nothing is retained)
    epoch, top, low,
    \* the broadcast: offset of the last publication it is done with, where it
    \* is with the next one, the subscribers the hub loop has still to visit
    \* and the one it is visiting
    sent, bpc, btodo, bcur,
    \* clients the hub has for the channel
    subs,
    \* Client.channels[ch], and ChannelContext.streamPosition in it
    channels, position,
    \* PubSubSync: subscribeState present, its buffer and buffer lock
    inSubscribe, pubBuffer, pubBufferLocked,
    \* subscribe flow of a client: where it is and its local variables
    fpc, req, latest, recovered, recoveredPubs,
    \* goroutines in Client.unsubscribe: how many are about to read the channel
    \* context, to delete it, and to leave the hub
    reading, deleting, removing,
    \* stream top read by an unfinished position check
    checked,
    \* position a client has reached after everything enqueued to it
    view

stream    == <<epoch, top, low>>
broadcast == <<sent, bpc, btodo, bcur>>
context   == <<channels, position>>
sync      == <<inSubscribe, pubBuffer, pubBufferLocked>>
flow      == <<fpc, req, latest, recovered, recoveredPubs>>
unsubs    == <<reading, deleting, removing>>
vars == <<stream, broadcast, subs, context, sync, flow, unsubs,
          checked, view>>

Offsets  == 0..MaxOffset
Position == [epoch : 0..MaxEpoch, offset : Offsets]
NoPosition == [epoch |-> 0, offset |-> 0]   \* no stream has epoch 0
NoRequest  == [recover |-> FALSE, epoch |-> 0, offset |-> 0]

FlowPoints  == {"idle", "handler", "start", "addsub", "history", "lock",
                "reply", "set", "stop", "cleanup", "unhub"}

StreamTop == [epoch |-> epoch, offset |-> top]

-----------------------------------------------------------------------------
Init ==
    /\ epoch = 1 /\ top = 0 /\ low = 1
    /\ sent = 0
    /\ bpc = "idle"
    /\ btodo = {}
    /\ bcur \in Clients
    /\ subs = {}
    /\ channels = [c \in Clients |-> "none"]
    /\ position = [c \in Clients |-> NoPosition]
    /\ inSubscribe = [c \in Clients |-> FALSE]
    /\ pubBuffer = [c \in Clients |-> {}]
    /\ pubBufferLocked = [c \in Clients |-> FALSE]
    /\ fpc = [c \in Clients |-> "idle"]
    /\ req = [c \in Clients |-> NoRequest]
    /\ latest = [c \in Clients |-> NoPosition]
    /\ recovered = [c \in Clients |-> FALSE]
    /\ recoveredPubs = [c \in Clients |-> {}]
    /\ reading = [c \in Clients |-> 0]
    /\ deleting = [c \in Clients |-> 0]
    /\ removing = [c \in Clients |-> 0]
    /\ checked = [c \in Clients |-> NoPosition]
    /\ view = [c \in Clients |-> NoPosition]

-----------------------------------------------------------------------------
(* The stream.  A removed stream comes back, at the next access, with a new *)
(* epoch and offset 0.                                                      *)

\* Mutant of Trim: trims a stream that is not full.
TrimUnguarded(n) == n + 1 - HistorySize

\* Offset of the first retained publication once n is the stream's top.
Trim(n) == IF n + 1 > low + HistorySize THEN n + 1 - HistorySize ELSE low

\* memstream.Stream.Get from since + 1 on, as historyHub.get calls it.
HistorySince(since) ==
    LET from == IF since + 1 < low THEN low ELSE since + 1 IN
    {n \in from..top : RecoveryLimit = 0 \/ n < from + RecoveryLimit}

\* History expiration (expireStreams) and RemoveHistory drop publications
\* and keep the position.
ClearHistory ==
    /\ low' = top + 1
    /\ UNCHANGED <<epoch, top, broadcast, subs, context, sync, flow, unsubs,
          checked, view>>

\* Every publish and history read postpones the removal by HistoryMetaTTL, so a
\* flow that has read the stream or been sent a publication finishes first.
RemoveStream ==
    /\ epoch < MaxEpoch
    /\ bpc = "idle" /\ sent = top
    /\ \A c \in Clients : /\ fpc[c] \notin {"lock", "reply", "set", "stop"}
                          /\ pubBuffer[c] = {}
    /\ epoch' = epoch + 1 /\ top' = 0 /\ low' = 1
    /\ sent' = 0
    /\ UNCHANGED <<bpc, btodo, bcur, subs, context, sync, flow, unsubs,
                   checked, view>>

-----------------------------------------------------------------------------
(* Publishing and broadcasting, in the order of offsets.                    *)

Publish ==
    /\ top - sent < MaxPending
    /\ top < MaxOffset
    /\ top' = top + 1
    /\ low' = Trim(top + 1)
    /\ UNCHANGED <<epoch, broadcast, subs, context, sync, flow, unsubs,
                   checked, view>>

\* The publication the broadcast is at, with the stream position beside it.
bpub == [epoch |-> epoch, offset |-> sent + 1]

\* subShard.broadcastPublication holds the shard's read lock, and the hub's
\* addSub and removeSub wait for it.
HubFree == bpc = "idle"

\* At most once delivery: PUB/SUB drops the message for this node.
LosePublication ==
    /\ Lossy
    /\ bpc = "idle"
    /\ sent < top
    /\ sent' = sent + 1
    /\ UNCHANGED <<stream, bpc, btodo, bcur, subs, context, sync, flow, unsubs,
          checked, view>>

BroadcastStart ==
    /\ bpc = "idle"
    /\ sent < top
    /\ bpc' = "bcast"
    /\ btodo' = subs
    /\ UNCHANGED <<stream, sent, bcur, subs, context, sync, flow, unsubs,
          checked, view>>

\* writePublication of the next subscriber: SyncPublication looks the
\* subscribeState up.
BroadcastNext(c) ==
    /\ bpc = "bcast"
    /\ c \in btodo
    /\ btodo' = btodo \ {c}
    /\ bcur' = c
    /\ bpc' = IF inSubscribe[c] THEN "sync" ELSE "deliver"
    /\ UNCHANGED <<stream, sent, subs, context, sync, flow, unsubs,
                   checked, view>>

BroadcastEnd ==
    /\ bpc = "bcast"
    /\ btodo = {}
    /\ bpc' = "idle"
    /\ sent' = sent + 1
    /\ UNCHANGED <<stream, btodo, bcur, subs, context, sync, flow, unsubs,
          checked, view>>

\* SyncPublication with a state in subscribe: waits for the buffer lock, then
\* appends.  (Once the state has stopped the broadcast is at "deliver".)
SyncBuffer ==
    /\ bpc = "sync"
    /\ ~pubBufferLocked[bcur]
    /\ pubBuffer' = [pubBuffer EXCEPT ![bcur] = @ \cup {bpub.offset}]
    /\ bpc' = "bcast"
    /\ UNCHANGED <<stream, sent, btodo, bcur, subs, context, inSubscribe,
                   pubBufferLocked, flow, unsubs, checked, view>>

Spawn(c) ==
    /\ reading' = [reading EXCEPT ![c] = @ + 1]
    /\ UNCHANGED <<deleting, removing>>

NextExpected(c) ==
    /\ bpub.epoch = position[c].epoch
    /\ bpub.offset = position[c].offset + 1

\* writePublicationUpdatePosition, under Client.mu: drop, start a goroutine
\* for insufficient state, or advance the position.
Deliver ==
    /\ bpc = "deliver"
    /\ \/ /\ channels[bcur] # "subscribed"
          /\ bpc' = "bcast"
          /\ UNCHANGED <<position, unsubs>>
       \/ /\ channels[bcur] = "subscribed"
          /\ ~NextExpected(bcur)
          /\ Spawn(bcur)
          /\ bpc' = "bcast"
          /\ UNCHANGED position
       \/ /\ channels[bcur] = "subscribed"
          /\ NextExpected(bcur)
          /\ position' = [position EXCEPT ![bcur] = bpub]
          /\ bpc' = "enqueue"
          /\ UNCHANGED unsubs
    /\ UNCHANGED <<stream, sent, btodo, bcur, subs, channels, sync, flow,
          checked, view>>

\* The push is enqueued after Client.mu is released.
Enqueue ==
    /\ bpc = "enqueue"
    /\ view' = [view EXCEPT ![bcur] = bpub]
    /\ bpc' = "bcast"
    /\ UNCHANGED <<stream, sent, btodo, bcur, subs, context, sync, flow,
                   unsubs, checked>>

-----------------------------------------------------------------------------
(* The subscribe flow of a client.  A client has one subscribe command in   *)
(* flight; it asks to recover from a position it has seen.                  *)

Goto(c, p) == fpc' = [fpc EXCEPT ![c] = p]

\* The flow leaves subscribeCmd, and its local variables with it.
Leave(c, p) ==
    /\ Goto(c, p)
    /\ req' = [req EXCEPT ![c] = NoRequest]
    /\ latest' = [latest EXCEPT ![c] = NoPosition]
    /\ recovered' = [recovered EXCEPT ![c] = FALSE]
    /\ recoveredPubs' = [recoveredPubs EXCEPT ![c] = {}]

\* validateSubscribeRequest: a channel already in the map is refused.
Subscribe(c, recover, offset) ==
    /\ fpc[c] = "idle"
    /\ channels[c] = "none"
    /\ channels' = [channels EXCEPT ![c] = "placeholder"]
    /\ req' = [req EXCEPT ![c] = [recover |-> recover,
                                  epoch |-> view[c].epoch, offset |-> offset]]
    /\ Goto(c, "handler")
    /\ UNCHANGED <<stream, broadcast, subs, position, sync, latest, recovered,
                   recoveredPubs, unsubs, checked, view>>

\* The application's callback: proceed with subscribeCmd or refuse.
HandlerReply(c) ==
    /\ fpc[c] = "handler"
    /\ \/ Goto(c, "start") /\ UNCHANGED <<req, latest, recovered,
          recoveredPubs>>
       \/ Leave(c, "cleanup")
    /\ UNCHANGED <<stream, broadcast, subs, context, sync, unsubs, checked,
          view>>

StartBuffering(c) ==
    /\ fpc[c] = "start"
    /\ inSubscribe' = [inSubscribe EXCEPT ![c] = TRUE]
    /\ pubBuffer' = [pubBuffer EXCEPT ![c] = {}]
    /\ pubBufferLocked' = [pubBufferLocked EXCEPT ![c] = FALSE]
    /\ Goto(c, "addsub")
    /\ UNCHANGED <<stream, broadcast, subs, context, req, latest, recovered,
                   recoveredPubs, unsubs, checked, view>>

AddSubscription(c) ==
    /\ fpc[c] = "addsub"
    /\ HubFree
    /\ subs' = subs \cup {c}
    /\ Goto(c, "history")
    /\ UNCHANGED <<stream, broadcast, context, sync, req, latest, recovered,
                   recoveredPubs, unsubs, checked, view>>

\* Mutant of StopBuffering: the buffer lock is not released.
StopBufferingKeepsLock(c) ==
    /\ inSubscribe' = [inSubscribe EXCEPT ![c] = FALSE]
    /\ pubBuffer' = [pubBuffer EXCEPT ![c] = {}]
    /\ UNCHANGED <<pubBufferLocked, bpc>>

\* StopBuffering ends the subscribeState: a broadcast that has found it, and
\* waits for its buffer lock, goes on to writePublicationUpdatePosition.
StopBuffering(c) ==
    /\ inSubscribe' = [inSubscribe EXCEPT ![c] = FALSE]
    /\ pubBuffer' = [pubBuffer EXCEPT ![c] = {}]
    /\ pubBufferLocked' = [pubBufferLocked EXCEPT ![c] = FALSE]
    /\ bpc' = IF bpc = "sync" /\ bcur = c THEN "deliver" ELSE bpc

\* addSubscription fails at the broker (the first subscriber only), or, after it
\* succeeded, addPresence, the history read or encoding the reply fails.
SubscribeError(c) ==
    /\ \/ fpc[c] = "addsub" /\ subs = {}
       \/ fpc[c] \in {"history", "reply"}
    /\ StopBuffering(c)
    /\ Leave(c, "cleanup")
    /\ UNCHANGED <<stream, sent, btodo, bcur, subs, context, unsubs, checked,
                   view>>

\* Mutant of IsRecovered: the first publication is not compared.
IsRecoveredByLast(pubs, latestOffset, cmdOffset) ==
    IF pubs = {} THEN latestOffset = cmdOffset
    ELSE latestOffset \in pubs /\ \A p \in pubs : p <= latestOffset

\* isRecovered, over the publications a recovery read returned.
IsRecovered(pubs, latestOffset, cmdOffset) ==
    IF pubs = {} THEN latestOffset = cmdOffset
    ELSE /\ cmdOffset + 1 \in pubs /\ \A p \in pubs : p >= cmdOffset + 1
         /\ latestOffset \in pubs  /\ \A p \in pubs : p <= latestOffset

\* recoverHistory when the client asks to recover, otherwise streamTop.  Another
\* epoch is ErrorUnrecoverablePosition.
ReadHistory(c) ==
    LET cmd  == req[c]
        try  == cmd.recover /\ cmd.epoch = epoch
        pubs == IF try THEN HistorySince(cmd.offset) ELSE {}
    IN  /\ fpc[c] = "history"
        /\ latest' = [latest EXCEPT ![c] = StreamTop]
        /\ recoveredPubs' = [recoveredPubs EXCEPT ![c] = pubs]
        /\ recovered' = [recovered EXCEPT ![c] =
                            try /\ IsRecovered(pubs, top, cmd.offset)]
        /\ Goto(c, "lock")
        /\ UNCHANGED <<stream, broadcast, subs, context, sync, req, unsubs,
              checked, view>>

\* The continuity check of MergePublications: it is made when something was
\* buffered, and only between neighbours of the merged list.
MergeOk(merged, buffered) ==
    buffered = {} \/ \A m, n \in merged : \A k \in m..n : k \in merged

IsMax(n, S) == n \in S /\ \A m \in S : m <= n

\* Mutant of LockAndMerge: the buffer is read without keeping its lock.
MergeUnlocked(c) ==
    LET merged == recoveredPubs[c] \cup pubBuffer[c] IN
    /\ fpc[c] = "lock"
    /\ MergeOk(merged, pubBuffer[c])
    /\ pubBuffer' = [pubBuffer EXCEPT ![c] = {}]
    /\ recoveredPubs' = [recoveredPubs EXCEPT ![c] = merged]
    /\ \E n \in Offsets : /\ IsMax(n, merged \cup {latest[c].offset})
                          /\ latest' = [latest EXCEPT ![c].offset = n]
    /\ Goto(c, "reply")
    /\ UNCHANGED <<stream, broadcast, subs, context, inSubscribe,
                   pubBufferLocked, req, recovered, unsubs, checked, view>>

\* Mutant of LockAndMerge: the stream top read before the merge stays the
\* position to continue from.
MergeKeepsOffset(c) ==
    LET merged == recoveredPubs[c] \cup pubBuffer[c] IN
    /\ fpc[c] = "lock"
    /\ MergeOk(merged, pubBuffer[c])
    /\ pubBufferLocked' = [pubBufferLocked EXCEPT ![c] = TRUE]
    /\ pubBuffer' = [pubBuffer EXCEPT ![c] = {}]
    /\ recoveredPubs' = [recoveredPubs EXCEPT ![c] = merged]
    /\ Goto(c, "reply")
    /\ UNCHANGED <<stream, broadcast, subs, context, inSubscribe, req, latest,
                   recovered, unsubs, checked, view>>

\* LockBufferAndReadBuffered and MergePublications; the position to continue from
\* is the last publication when that is beyond the stream top read before.
LockAndMerge(c) ==
    LET merged == recoveredPubs[c] \cup pubBuffer[c] IN
    /\ fpc[c] = "lock"
    /\ MergeOk(merged, pubBuffer[c])
    /\ pubBufferLocked' = [pubBufferLocked EXCEPT ![c] = TRUE]
    /\ pubBuffer' = [pubBuffer EXCEPT ![c] = {}]
    /\ recoveredPubs' = [recoveredPubs EXCEPT ![c] = merged]
    /\ \E n \in Offsets : /\ IsMax(n, merged \cup {latest[c].offset})
                          /\ latest' = [latest EXCEPT ![c].offset = n]
    /\ Goto(c, "reply")
    /\ UNCHANGED <<stream, broadcast, subs, context, inSubscribe, req,
                   recovered, unsubs, checked, view>>

\* The same, when the merge fails: DisconnectInsufficientState.
MergeFails(c) ==
    /\ fpc[c] = "lock"
    /\ ~MergeOk(recoveredPubs[c] \cup pubBuffer[c], pubBuffer[c])
    /\ StopBuffering(c)
    /\ Leave(c, "cleanup")
    /\ UNCHANGED <<stream, sent, btodo, bcur, subs, context, unsubs, checked,
                   view>>

\* The subscribe reply.  Recovered: the position of the request and publications
\* to be applied on top of it.  Not recovered: the position alone.
WriteReply(c) ==
    /\ fpc[c] = "reply"
    /\ \/ /\ recovered[c]
          /\ \E n \in Offsets :
                /\ IsMax(n, recoveredPubs[c] \cup {req[c].offset})
                /\ view' = [view EXCEPT ![c] = [epoch |-> req[c].epoch,
                                                offset |-> n]]
       \/ ~recovered[c] /\ view' = [view EXCEPT ![c] = latest[c]]
    /\ Goto(c, "set")
    /\ UNCHANGED <<stream, broadcast, subs, context, sync, req, latest,
                   recovered, recoveredPubs, unsubs, checked>>

SetChannelContext(c) ==
    /\ fpc[c] = "set"
    /\ channels' = [channels EXCEPT ![c] = "subscribed"]
    /\ position' = [position EXCEPT ![c] = latest[c]]
    /\ Goto(c, "stop")
    /\ UNCHANGED <<stream, broadcast, subs, sync, req, latest, recovered,
                   recoveredPubs, unsubs, checked, view>>

FinishSubscribe(c) ==
    /\ fpc[c] = "stop"
    /\ StopBuffering(c)
    /\ Leave(c, "idle")
    /\ UNCHANGED <<stream, sent, btodo, bcur, subs, context, unsubs, checked,
                   view>>

\* onSubscribeError: forget the channel, and leave the hub if it was known.
ForgetChannel(c) ==
    /\ fpc[c] = "cleanup"
    /\ channels' = [channels EXCEPT ![c] = "none"]
    /\ position' = [position EXCEPT ![c] = NoPosition]
    /\ Goto(c, IF channels[c] = "none" THEN "idle" ELSE "unhub")
    /\ UNCHANGED <<stream, broadcast, subs, sync, req, latest,
                   recovered, recoveredPubs, unsubs, checked, view>>

LeaveHub(c) ==
    /\ fpc[c] = "unhub"
    /\ HubFree
    /\ subs' = subs \ {c}
    /\ Goto(c, "idle")
    /\ UNCHANGED <<stream, broadcast, context, sync, req, latest, recovered,
                   recoveredPubs, unsubs, checked, view>>

-----------------------------------------------------------------------------
(* Goroutines in Client.unsubscribe: the channel context is read and, in a  *)
(* second critical section, deleted; then the client leaves the hub.        *)

Outstanding(c) == reading[c] + deleting[c] + removing[c]

\* Client.Unsubscribe or an unsubscribe command.
Unsubscribe(c) ==
    /\ Outstanding(c) < MaxUnsubs
    /\ Spawn(c)
    /\ UNCHANGED <<stream, broadcast, subs, context, sync, flow, checked,
          view>>

UnsubRead(c) ==
    /\ reading[c] > 0
    /\ reading' = [reading EXCEPT ![c] = @ - 1]
    /\ IF channels[c] = "none"
       THEN UNCHANGED deleting
       ELSE deleting' = [deleting EXCEPT ![c] = @ + 1]
    /\ UNCHANGED <<stream, broadcast, subs, context, sync, flow, removing,
                   checked, view>>

UnsubDelete(c) ==
    /\ deleting[c] > 0
    /\ deleting' = [deleting EXCEPT ![c] = @ - 1]
    /\ removing' = [removing EXCEPT ![c] = @ + 1]
    /\ channels' = [channels EXCEPT ![c] = "none"]
    /\ position' = [position EXCEPT ![c] = NoPosition]
    /\ UNCHANGED <<stream, broadcast, subs, sync, flow, reading, checked,
          view>>

UnsubRemove(c) ==
    /\ removing[c] > 0
    /\ HubFree
    /\ removing' = [removing EXCEPT ![c] = @ - 1]
    /\ subs' = subs \ {c}
    /\ UNCHANGED <<stream, broadcast, context, sync, flow, reading, deleting,
                   checked, view>>

-----------------------------------------------------------------------------
(* checkPosition: the stream top is read first, then compared with the      *)
(* position under Client.mu (isValidPosition).                              *)

CheckPosition(c) ==
    /\ channels[c] = "subscribed"
    /\ checked[c] = NoPosition
    /\ Outstanding(c) <= MaxUnsubs
    /\ checked' = [checked EXCEPT ![c] = StreamTop]
    /\ UNCHANGED <<stream, broadcast, subs, context, sync, flow, unsubs, view>>

\* Mutant of IsValidPosition: offsets are not compared.
IsValidEpoch(c) ==
    channels[c] # "subscribed" \/ checked[c].epoch = position[c].epoch

IsValidPosition(c) ==
    \/ channels[c] # "subscribed"
    \/ /\ checked[c].epoch = position[c].epoch
       /\ position[c].offset >= checked[c].offset

ComparePosition(c) ==
    /\ checked[c] # NoPosition
    /\ checked' = [checked EXCEPT ![c] = NoPosition]
    /\ IF IsValidPosition(c) THEN UNCHANGED unsubs ELSE Spawn(c)
    /\ UNCHANGED <<stream, broadcast, subs, context, sync, flow, view>>

-----------------------------------------------------------------------------
BroadcastStep ==
    \/ BroadcastStart \/ BroadcastEnd \/ SyncBuffer \/ Deliver \/ Enqueue
    \/ \E c \in Clients : BroadcastNext(c)

SubscribeCommand(c) ==
    \/ Subscribe(c, FALSE, 0)
    \/ \E o \in 0..view[c].offset : Subscribe(c, TRUE, o)

FlowStep(c) ==
    \/ HandlerReply(c) \/ StartBuffering(c) \/ AddSubscription(c)
    \/ SubscribeError(c) \/ ReadHistory(c) \/ LockAndMerge(c) \/ MergeFails(c)
    \/ WriteReply(c) \/ SetChannelContext(c) \/ FinishSubscribe(c)
    \/ ForgetChannel(c) \/ LeaveHub(c)

UnsubStep(c) ==
    UnsubRead(c) \/ UnsubDelete(c) \/ UnsubRemove(c)

CheckStep(c) == CheckPosition(c) \/ ComparePosition(c)

Next ==
    \/ Publish \/ LosePublication \/ BroadcastStep
    \/ ClearHistory \/ RemoveStream
    \/ \E c \in Clients :
          \/ SubscribeCommand(c) \/ FlowStep(c)
          \/ Unsubscribe(c) \/ UnsubStep(c) \/ CheckStep(c)

Spec == Init /\ [][Next]_vars

\* Goroutines keep running, locks are handed over and the presence timer, which
\* makes the position checks, is rescheduled while the client is open.
Fairness ==
    /\ WF_vars(BroadcastStep)
    /\ \A c \in Clients : /\ WF_vars(FlowStep(c))
                          /\ WF_vars(UnsubStep(c))
                          /\ WF_vars(CheckStep(c))

FairSpec == Spec /\ Fairness

-----------------------------------------------------------------------------
(* Properties.                                                              *)

TypeOK ==
    /\ epoch \in 1..MaxEpoch /\ top \in Offsets /\ low \in 1..(top + 1)
    /\ sent \in 0..top
    /\ bpc \in {"idle", "bcast", "sync", "deliver", "enqueue"}
    /\ btodo \subseteq Clients /\ bcur \in Clients
    /\ subs \subseteq Clients
    /\ channels \in [Clients -> {"none", "placeholder", "subscribed"}]
    /\ position \in [Clients -> Position]
    /\ inSubscribe \in [Clients -> BOOLEAN]
    /\ pubBuffer \in [Clients -> SUBSET Offsets]
    /\ pubBufferLocked \in [Clients -> BOOLEAN]
    /\ fpc \in [Clients -> FlowPoints]
    /\ req \in [Clients -> [recover : BOOLEAN, epoch : 0..MaxEpoch,
                             offset : Offsets]]
    /\ latest \in [Clients -> Position]
    /\ recovered \in [Clients -> BOOLEAN]
    /\ recoveredPubs \in [Clients -> SUBSET Offsets]
    /\ reading \in [Clients -> Nat]
    /\ deleting \in [Clients -> Nat]
    /\ removing \in [Clients -> Nat]
    /\ checked \in [Clients -> Position]
    /\ view \in [Clients -> Position]

\* The position the server keeps for a subscription is the position the client
\* has after everything enqueued to it, and a push that is about to be enqueued
\* is exactly the next publication: nothing is skipped and nothing repeated,
\* whatever subscribe, unsubscribe and cleanup do meanwhile.
PositionIsView ==
    /\ \A c \in Clients :
          channels[c] = "subscribed" /\ ~(bpc = "enqueue" /\ bcur = c)
             => position[c] = view[c]
    /\ bpc = "enqueue" => view[bcur] = [epoch |-> epoch, offset |-> sent]

\* A reply that says recovered leaves no gap: it carries every publication
\* between the position in the request and the position the server will
\* continue from, in the epoch of the request.
NoGap(c) ==
    fpc[c] = "reply" /\ recovered[c] =>
        /\ req[c].epoch = latest[c].epoch
        /\ \A n \in Offsets : req[c].offset < n /\ n <= latest[c].offset
                               => n \in recoveredPubs[c]
        /\ \A n \in recoveredPubs[c] : n <= latest[c].offset
RecoveredHasNoGap == \A c \in Clients : NoGap(c)

\* Nothing is lost silently: when all publications have been broadcast, a
\* subscribed client of the hub, with nobody about to unsubscribe it, has
\* reached the top of the stream (or the stream is a new one, still empty).
QuietIsCaughtUp ==
    \A c \in Clients :
        /\ sent = top /\ bpc = "idle"
        /\ c \in subs /\ channels[c] = "subscribed" /\ fpc[c] = "idle"
        /\ Outstanding(c) = 0
        => position[c] = StreamTop \/ (top = 0 /\ position[c].epoch # epoch)

\* A subscribed client that is behind the stream, because its publication was
\* lost or because the hub has forgotten it, catches up or is unsubscribed.
Behind(c) == channels[c] = "subscribed" /\ position[c] # StreamTop
BehindIsNoticed == \A c \in Clients : Behind(c) ~> ~Behind(c)

\* Every subscribe command ends and every broadcast ends: the flow that holds a
\* buffer lock never waits for the hub lock of the broadcast it stops.
FlowEnds ==
    /\ \A c \in Clients : fpc[c] # "idle" ~> fpc[c] = "idle"
    /\ bpc # "idle" ~> bpc = "idle"

-----------------------------------------------------------------------------
(* The inductive invariant behind these properties.                         *)

Buffering == {"addsub", "history", "lock", "reply", "set", "stop"}
Locked    == {"reply", "set", "stop"}

\* The broadcast visits clients of the hub; it delivers to none whose subscribe
\* flow has come as far as the history read.
BroadcastInv ==
    /\ bpc # "idle" => sent < top
    /\ btodo \subseteq subs /\ (bpc = "idle" => btodo = {})
    /\ bpc \in {"sync", "deliver", "enqueue"} => bcur \in subs \ btodo
    /\ bpc = "sync" => inSubscribe[bcur]
    /\ bpc \in {"deliver", "enqueue"} =>
          fpc[bcur] \notin {"history", "lock", "reply", "set", "stop"}

\* Where the flow is decides about subscribeState and channel context.
SyncInv ==
    \A c \in Clients :
        /\ inSubscribe[c] <=> fpc[c] \in Buffering
        /\ pubBufferLocked[c] <=> fpc[c] \in Locked
        /\ pubBuffer[c] # {} => fpc[c] \in Buffering \ Locked
        /\ \A n \in pubBuffer[c] : n <= top
        /\ channels[c] = "subscribed" => fpc[c] \in {"idle", "stop"}

\* What the local variables of the flow say about the stream.
FlowOk(c) ==
    /\ fpc[c] \in {"lock"} \cup Locked =>
          latest[c].epoch = epoch /\ latest[c].offset <= top
    /\ fpc[c] \in {"lock", "reply"} /\ recovered[c] =>
          /\ req[c].epoch = epoch
          /\ req[c].offset <= latest[c].offset
    /\ fpc[c] = "lock" => \A n \in recoveredPubs[c] : n <= latest[c].offset
    /\ fpc[c] = "lock" /\ recovered[c] =>
          \A n \in Offsets : req[c].offset < n /\ n <= latest[c].offset
                                => n \in recoveredPubs[c]
    /\ fpc[c] = "reply" /\ recovered[c] =>
          IsMax(latest[c].offset, recoveredPubs[c] \cup {req[c].offset})
    /\ fpc[c] \in {"set", "stop"} => view[c] = latest[c]

FlowInv == \A c \in Clients : FlowOk(c)

ViewInv ==
    /\ PositionIsView
    /\ bpc = "enqueue" /\ channels[bcur] = "subscribed" =>
          position[bcur] = bpub
    /\ \A c \in Clients : position[c].epoch <= epoch

SafetyInv == TypeOK /\ BroadcastInv /\ SyncInv /\ FlowInv /\ ViewInv

\* Offset up to which the broadcast is done with a client of the hub.
Visited(c) ==
    IF bpc = "idle" \/ c \in btodo \/ (c = bcur /\ bpc \in {"sync", "deliver"})
    THEN sent ELSE sent + 1

\* When nothing is lost, a client in the hub has buffered every publication
\* after the stream top it has read, and the lock holds further ones back.
BufferOk(c) ==
    /\ fpc[c] = "lock" =>
          \A n \in pubBuffer[c], k \in Offsets :
             latest[c].offset < k /\ k <= n => k \in pubBuffer[c]
    /\ fpc[c] = "lock" /\ c \in subs =>
          \A k \in Offsets :
             latest[c].offset < k /\ k <= Visited(c) => k \in pubBuffer[c]
    /\ fpc[c] \in Locked /\ c \in subs => Visited(c) <= latest[c].offset

\* ... and a subscribed one has every publication the broadcast has passed, or is
\* about to be unsubscribed, or belongs to an earlier epoch of the stream.
CaughtUp(c) ==
    channels[c] = "subscribed" /\ c \in subs =>
        \/ reading[c] + deleting[c] > 0
        \/ /\ position[c].epoch = epoch
           /\ Visited(c) <= position[c].offset /\ position[c].offset <= top
        \/ position[c].epoch # epoch /\ Visited(c) = 0

LosslessInv ==
    ~Lossy => \A c \in Clients : NoGap(c) /\ BufferOk(c) /\ CaughtUp(c)
=============================================================================
