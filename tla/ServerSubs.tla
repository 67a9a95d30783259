----------------------------- MODULE ServerSubs -----------------------------
(***************************************************************************)
(* The subscriptions of clients that connect at the same time.  connectCmd *)
(* starts a goroutine per server-side channel, waits for all of them,      *)
(* writes the reply, stores the channel contexts and only then lets the    *)
(* publications wait no longer.  The subscribe command of a client ends    *)
(* the same way for its one channel.  A broadcast visits the subscribers   *)
(* of its channel one after the other and has the read lock of the         *)
(* channel's hub shard all the while.                                      *)
(***************************************************************************)
EXTENDS Naturals, FiniteSets

CONSTANTS
    Subscribers, SubChannels,
    Positioned,   \* channels with positioning or recovery
    Shards, ShardOf,
    Requests      \* what a behaviour may be about: records of
                  \*   server: connectCmd, or subscribeCmd for a client's command
                  \*   wants: the channels of each client's command
                  \*   offsets: do publications have them (history): TRUE, FALSE or both
                  \*   fails: may broker and presence manager return errors, or encoding fail
                  \*   pubs: bound on the number of publications

ASSUME ServerSubsAssumption ==
    \A r \in Requests : r.wants \in [Subscribers -> SUBSET SubChannels]

VARIABLES
    request,   \* one of Requests
    cpc,       \* the command of each client
    fpc,       \* subscribeCmd of each client and channel
    hub,       \* client -> channels the hub has it in
    context,   \* client -> channel contexts with flagSubscribed
    reserved,  \* client -> entries of c.channels without it
    insub,     \* client -> channels with subscribeState.inSubscribe
    bufMu,     \* client -> channels whose pubBufferMu is locked
    pubBuffer, \* client -> channels with buffered publications
    bpc,       \* the broadcast of each channel at each client
    btodo,     \* clients that the broadcast of each channel has yet to visit
    boffset,   \* channels whose broadcast is of a publication with an offset
    readers,   \* shard -> channels whose broadcast has the read lock
    npub,      \* publications so far
    written,   \* what was written to each client
    dropped    \* client -> channels a publication of which was lost for it

flow == <<request, cpc, fpc, hub, context, reserved>>
sync == <<insub, bufMu, pubBuffer>>
broadcast == <<bpc, btodo, boffset, readers, npub>>
svars == <<flow, sync, broadcast, written, dropped>>

None == [c \in Subscribers |-> {}]

SInit ==
    /\ request \in Requests
    /\ cpc = [c \in Subscribers |-> IF request.wants[c] = {} THEN "done" ELSE "subscribing"]
    /\ fpc = [c \in Subscribers |-> [ch \in SubChannels |-> "start"]]
    /\ hub = None /\ context = None
    /\ reserved = IF request.server THEN None ELSE request.wants
    /\ insub = None /\ bufMu = None /\ pubBuffer = None
    /\ bpc = [c \in Subscribers |-> [ch \in SubChannels |-> "idle"]]
    /\ btodo = [ch \in SubChannels |-> {}]
    /\ boffset = {}
    /\ readers = [s \in Shards |-> {}]
    /\ npub = 0
    /\ written = None /\ dropped = None

Goto(c, ch, p) == /\ fpc' = [fpc EXCEPT ![c][ch] = p]
                  /\ UNCHANGED <<request, cpc, context, reserved>>
With(f, c, ch) == [f EXCEPT ![c] = @ \cup {ch}]
Without(f, c, ch) == [f EXCEPT ![c] = @ \ {ch}]

-----------------------------------------------------------------------------
(* subscribeCmd                                                             *)

StartBuffering(c, ch) ==
    /\ fpc[c][ch] = "start"
    /\ insub' = IF ch \in Positioned THEN With(insub, c, ch) ELSE insub
    /\ Goto(c, ch, "addsub")
    /\ UNCHANGED <<hub, bufMu, pubBuffer, broadcast, written, dropped>>

\* hub.addSub takes the shard's write lock.
AddSubscription(c, ch) ==
    /\ fpc[c][ch] = "addsub"
    /\ readers[ShardOf[ch]] = {}
    /\ hub' = With(hub, c, ch)
    /\ Goto(c, ch, "history")
    /\ UNCHANGED <<sync, broadcast, written, dropped>>

\* addPresence, then recoverHistory or streamTop.
ReadHistory(c, ch) ==
    /\ fpc[c][ch] = "history"
    /\ Goto(c, ch, IF ch \in Positioned THEN "lock" ELSE "ready")
    /\ UNCHANGED <<hub, sync, broadcast, written, dropped>>

LockBufferAndReadBuffered(c, ch) ==
    /\ fpc[c][ch] = "lock"
    /\ ch \notin bufMu[c]
    /\ bufMu' = With(bufMu, c, ch)
    /\ pubBuffer' = Without(pubBuffer, c, ch)
    /\ Goto(c, ch, "ready")
    /\ UNCHANGED <<hub, insub, broadcast, written, dropped>>

\* addSubscription (which leaves the hub again when the broker fails),
\* addPresence, recoverHistory or streamTop returns an error, or the publications
\* do not merge: buffering stops.
SubscribeFails(c, ch) ==
    /\ request.fails
    /\ \/ fpc[c][ch] = "addsub" /\ readers[ShardOf[ch]] = {}
       \/ fpc[c][ch] = "history"
       \/ fpc[c][ch] = "lock" /\ ch \notin bufMu[c]
    /\ insub' = Without(insub, c, ch)
    /\ Goto(c, ch, "failed")
    /\ UNCHANGED <<hub, bufMu, pubBuffer, broadcast, written, dropped>>

-----------------------------------------------------------------------------
(* The rest of connectCmd, after wg.Wait, and of subscribeCmd.              *)

AllDone(c) == \A ch \in request.wants[c] : fpc[c][ch] \in {"ready", "failed"}
Failed(c) == \E ch \in request.wants[c] : fpc[c][ch] = "failed"

CGoto(c, p) == /\ cpc' = [cpc EXCEPT ![c] = p]
               /\ UNCHANGED <<request, fpc>>

WriteReply(c) ==
    /\ cpc[c] = "subscribing" /\ AllDone(c) /\ ~Failed(c)
    /\ written' = With(written, c, "reply")
    /\ CGoto(c, "replied")
    /\ UNCHANGED <<hub, context, reserved, sync, broadcast, dropped>>

SetContexts(c) ==
    /\ cpc[c] = "replied"
    /\ context' = [context EXCEPT ![c] = request.wants[c]]
    /\ reserved' = [reserved EXCEPT ![c] = {}]
    /\ CGoto(c, "unlocking")
    /\ UNCHANGED <<hub, sync, broadcast, written, dropped>>

\* Its subscribeState goes, with what is in the buffer.
Stop(c, ch) ==
    /\ ch \in insub[c]
    /\ insub' = Without(insub, c, ch)
    /\ bufMu' = Without(bufMu, c, ch)
    /\ pubBuffer' = Without(pubBuffer, c, ch)
    /\ dropped' = IF ch \in pubBuffer[c] THEN With(dropped, c, ch) ELSE dropped
    /\ UNCHANGED <<flow, broadcast, written>>

\* unlockServerSideSubscriptions, or the end of subscribeCmd.
StopBuffering(c, ch) == cpc[c] \in {"unlocking", "failing"} /\ Stop(c, ch)

Finish(c) ==
    /\ cpc[c] = "unlocking" /\ insub[c] = {}
    /\ CGoto(c, "done")
    /\ UNCHANGED <<hub, context, reserved, sync, broadcast, written, dropped>>

\* One subscription has failed, or the reply cannot be encoded: all of them are
\* unlocked.
Fail(c) ==
    /\ cpc[c] = "subscribing" /\ AllDone(c) /\ (Failed(c) \/ request.fails)
    /\ CGoto(c, "failing")
    /\ UNCHANGED <<hub, context, reserved, sync, broadcast, written, dropped>>

\* onSubscribeError leaves the hub for the channels it finds in c.channels.  A
\* later Client.close would leave it for the channels in c.channels too, and by
\* then there are none.
OnSubscribeError(c) ==
    /\ cpc[c] = "failing" /\ insub[c] = {}
    /\ \A ch \in reserved[c] : readers[ShardOf[ch]] = {}
    /\ hub' = [hub EXCEPT ![c] = @ \ reserved[c]]
    /\ reserved' = [reserved EXCEPT ![c] = {}]
    /\ CGoto(c, "failed")
    /\ UNCHANGED <<context, sync, broadcast, written, dropped>>

-----------------------------------------------------------------------------
(* Hub.BroadcastPublication and PubSubSync.SyncPublication                  *)

\* The publication has an offset when it is in the history.
BroadcastStart(ch) ==
    /\ npub < request.pubs
    /\ ch \notin readers[ShardOf[ch]]
    /\ \E c \in Subscribers : ch \in hub[c]
    /\ npub' = npub + 1
    /\ readers' = [readers EXCEPT ![ShardOf[ch]] = @ \cup {ch}]
    /\ btodo' = [btodo EXCEPT ![ch] = {c \in Subscribers : ch \in hub[c]}]
    /\ \E o \in request.offsets : boffset' = IF o THEN boffset \cup {ch} ELSE boffset \ {ch}
    /\ UNCHANGED <<flow, sync, bpc, written, dropped>>

BroadcastEnds(ch) ==
    /\ ch \in readers[ShardOf[ch]]
    /\ btodo[ch] = {} /\ \A c \in Subscribers : bpc[c][ch] = "idle"
    /\ readers' = [readers EXCEPT ![ShardOf[ch]] = @ \ {ch}]
    /\ UNCHANGED <<flow, sync, bpc, btodo, boffset, npub, written, dropped>>

BGoto(c, ch, p) == /\ bpc' = [bpc EXCEPT ![c][ch] = p]
                   /\ UNCHANGED <<boffset, readers, npub>>

\* writePublication for the next subscriber: a publication without offset is
\* written at once, one with an offset is synced.
Visit(c, ch) ==
    /\ c \in btodo[ch] /\ \A x \in Subscribers : bpc[x][ch] = "idle"
    /\ btodo' = [btodo EXCEPT ![ch] = @ \ {c}]
    /\ IF ch \in boffset
       THEN /\ BGoto(c, ch, IF ch \in insub[c] THEN "lock" ELSE "update")
            /\ UNCHANGED written
       ELSE /\ written' = With(written, c, "plain")
            /\ BGoto(c, ch, "idle")
    /\ UNCHANGED <<flow, sync, dropped>>

\* Mutant: the mutex is not unlocked on the way out with a buffered publication.
SyncPublicationKeepsLock(c, ch) ==
    /\ bpc[c][ch] = "lock"
    /\ ch \notin bufMu[c]
    /\ IF ch \in insub[c]
       THEN /\ pubBuffer' = With(pubBuffer, c, ch)
            /\ bufMu' = With(bufMu, c, ch)
            /\ BGoto(c, ch, "idle")
       ELSE /\ BGoto(c, ch, "update")
            /\ UNCHANGED <<pubBuffer, bufMu>>
    /\ UNCHANGED <<flow, insub, btodo, written, dropped>>

\* pubBufferMu is locked, and inSubscribe looked at once more.
SyncPublication(c, ch) ==
    /\ bpc[c][ch] = "lock"
    /\ ch \notin bufMu[c]
    /\ IF ch \in insub[c]
       THEN /\ pubBuffer' = With(pubBuffer, c, ch)
            /\ BGoto(c, ch, "idle")
       ELSE /\ BGoto(c, ch, "update")
            /\ UNCHANGED pubBuffer
    /\ UNCHANGED <<flow, insub, bufMu, btodo, written, dropped>>

\* Mutant: the channel context is not looked at.
UpdatePositionUnchecked(c, ch) ==
    /\ bpc[c][ch] = "update"
    /\ BGoto(c, ch, "write")
    /\ UNCHANGED <<flow, sync, btodo, written, dropped>>

\* writePublicationUpdatePosition drops what has no channel context.
UpdatePosition(c, ch) ==
    /\ bpc[c][ch] = "update"
    /\ IF ch \in context[c]
       THEN BGoto(c, ch, "write") /\ UNCHANGED dropped
       ELSE BGoto(c, ch, "idle") /\ dropped' = With(dropped, c, ch)
    /\ UNCHANGED <<flow, sync, btodo, written>>

WritePublication(c, ch) ==
    /\ bpc[c][ch] = "write"
    /\ written' = With(written, c, "synced")
    /\ BGoto(c, ch, "idle")
    /\ UNCHANGED <<flow, sync, btodo, dropped>>

-----------------------------------------------------------------------------
FlowStep(c, ch) ==
    ch \in request.wants[c] /\ (\/ StartBuffering(c, ch) \/ AddSubscription(c, ch)
                        \/ ReadHistory(c, ch) \/ LockBufferAndReadBuffered(c, ch)
                        \/ SubscribeFails(c, ch))

CommandStep(c) == \/ WriteReply(c) \/ SetContexts(c) \/ Finish(c) \/ Fail(c)
                  \/ OnSubscribeError(c)
                  \/ \E ch \in SubChannels : StopBuffering(c, ch)

SyncStep(c, ch) == \/ Visit(c, ch) \/ SyncPublication(c, ch) \/ UpdatePosition(c, ch)
                   \/ WritePublication(c, ch)

CommandsRun ==
    \/ \E c \in Subscribers : \/ CommandStep(c)
                              \/ \E ch \in SubChannels : FlowStep(c, ch) \/ SyncStep(c, ch)
    \/ \E ch \in SubChannels : BroadcastEnds(ch)

SNext == CommandsRun \/ \E ch \in SubChannels : BroadcastStart(ch)

SSpec == SInit /\ [][SNext]_svars

\* Goroutines run: some step is taken while there is one. No goroutine runs for ever,
\* so that each gets its turn.
SFairness == WF_svars(CommandsRun)

SFairSpec == SSpec /\ SFairness

-----------------------------------------------------------------------------
STypeOK ==
    /\ request \in Requests
    /\ cpc \in [Subscribers -> {"subscribing", "replied", "unlocking", "failing", "done",
                                "failed"}]
    /\ fpc \in [Subscribers -> [SubChannels -> {"start", "addsub", "history", "lock",
                                                "ready", "failed"}]]
    /\ \A f \in {hub, context, reserved, insub, bufMu, pubBuffer, dropped} :
          f \in [Subscribers -> SUBSET SubChannels]
    /\ bpc \in [Subscribers -> [SubChannels -> {"idle", "lock", "update", "write"}]]
    /\ btodo \in [SubChannels -> SUBSET Subscribers]
    /\ boffset \subseteq SubChannels
    /\ readers \in [Shards -> SUBSET SubChannels]
    /\ npub \in 0..request.pubs
    /\ written \in [Subscribers -> SUBSET {"reply", "synced", "plain"}]

Fails(c) == cpc[c] \in {"failing", "failed"} \/ Failed(c)

\* A publication with an offset is not written to the client before the reply to its
\* command, whatever the channel's options.  And unless the command fails, no such
\* publication for a positioned channel is lost once the client is in the hub:
\* SyncPublication buffers it for the reply, or makes it wait until the context is there.
ReplyFirst ==
    \A c \in Subscribers :
        /\ "synced" \in written[c] => "reply" \in written[c]
        /\ ~Fails(c) => dropped[c] \cap Positioned = {}

\* "Need to flush data from writer so subscription response is sent before any
\* subscription publication" (subscribeCmd): nothing at all is written to the client
\* before the reply.
ResponseBeforeAny ==
    \A c \in Subscribers : written[c] # {} => "reply" \in written[c]

\* Deadlocks the code has: clients each of which waits in addSub for a hub shard whose
\* read lock is with a broadcast that waits for a buffer of one of them, which is
\* ready and stays locked until all channels of its client are done.  One client is
\* enough, with two channels in a shard, or two clients with two shards.
Deadlocked ==
    \E D \in SUBSET Subscribers \ {{}} : \A c \in D : \E ch \in request.wants[c] :
        /\ fpc[c][ch] = "addsub"
        /\ \E w \in D, other \in readers[ShardOf[ch]] :
              bpc[w][other] = "lock" /\ fpc[w][other] = "ready" /\ cpc[w] = "subscribing"

\* The commands end, with their subscriptions or with an error, unless clients run
\* into this deadlock: wg.Wait waits for ever for no other reason, and StopBuffering
\* never leaves a broadcast waiting that another command waits for.
CommandEnds ==
    <>(Deadlocked \/ \A c \in Subscribers : cpc[c] \in {"done", "failed"})

=============================================================================
