# Verification of centrifuge

TLA+ models of the parts of centrifuge in which goroutines, connections, nodes and
brokers meet, TLC configurations that check them on small instances, and TLAPS proofs
of the most important properties for instances of any size. `PROJECT.json` holds the
list of parts, runs, mutants, hazards and theorems, and for every definition the lines
of the source it models.

Everything runs in this directory: `tlc -config MCConnect.cfg MCConnect` checks a run,
`tlapm ConnectionsProofs.tla` a module of proofs.

## The system and its models

A `Node` has a `Hub` with the client connections and their subscriptions, and a broker
that keeps history and carries publications and control commands between nodes. A
`Client` belongs to one transport. It has a writer with a queue, a timer, and a map of
channels; the hub has it in a registry of connections and one of subscriptions.

| Part of the system | Modules | Run |
|---|---|---|
| subscribe command, recovery, position (`client.go`, `internal/recovery`) | `Recovery`, `RecoveryProofs` | recovery_lossless, recovery_lossy |
| connect and subscribe commands of several clients under broadcasts (`client.go`, `hub.go`) | `ServerSubs`, `NodeSubProofs` | nodesub, response_first |
| connections of a user on several nodes: hub, calls, shutdown, close (`hub.go`, `node.go`, `client.go`) | `Connections`, `ConnectionsProofs` | connect, user_limit |
| message queue (`internal/queue`) | `Queue`, `Fifo`, `WriterProofs` | writer |
| writer and close of a connection (`writer.go`, `client.go`) | `Writer` on `Queue`, `WriterProofs` | writer |
| broker subscriptions of a node, dissolver (`node.go`, `internal/dissolve`) | `NodeSub`, `NodeSubProofs` | nodesub |
| Redis PUB/SUB connection (`broker_redis.go`) | `RedisPubSub`, extends `NodeSub`, `NodeSubProofs` | redis |
| life of a connection and its timer (`client.go`) | `Session`, `SessionProofs` | session |
| memory broker (`broker_memory.go`, `internal/memstream`, `internal/priority`) | `MemHistory`, implements `HistorySpec`; `MemHistoryProofs` | history |
| Redis broker's scripts (`broker_redis.go`, `internal/redis_lua`) | `RedisHistory`, implements `HistorySpec`; `BrokersProofs` | history |
| both brokers together, what their reads return | `Brokers`, `HistoryReads` | history |
| registry of nodes, pings, surveys, emulation (`node.go`, `emulation.go`) | `Cluster`, `ServiceProofs` | control |
| calls carried to other nodes (`node.go`) | `NodeCommands` | control |
| encoding of control commands (`internal/controlpb`, `internal/controlproto`) | `ControlCodec` | control |
| presence (`client.go`, `presence_*.go`, Lua) | `Presence`, `ServiceProofs` | redis |
| WebSocket protocol, handler and transport (`internal/websocket`, `handler_websocket.go`) | `WebSocket` | websocket |

Modules whose name begins with `MC` give constants their values. Four runs hold two
models each (`MCNodeSub`, `MCRedis`, `MCControl`, and `MCHistory` through `Brokers`): a
behaviour is one of the first with the second idle, or the other way round, so that
neither multiplies the other's states.

Every module keeps the control of its code: the order of the steps, the locks, early
returns and error paths. A step ends where another goroutine can look at what it did: at
a lock, a call of a broker, a channel or a callback. Data is reduced to what decides
anything. A publication is its offset and epoch, a message is a number with a size, a
channel or client is a model value.

### How state corresponds to code

* `Recovery`: `stream` is the broker's history of one channel, `pending` what PUB/SUB
  still has to bring, `bpc` the goroutine that broadcasts it to the hub, `fpc[c]` the
  subscribe flow of a client (`StartBuffering`, `addSubscription`, `History`,
  `LockBufferAndReadBuffered`, merge, reply, `StopBuffering`), `view[c]` where the client
  is after all that was enqueued to it.
* `ServerSubs`: `cpc[c]` is the command of a client, `fpc[c][ch]` its `subscribeCmd` for a
  channel, a goroutine of `connectCmd`, `bufMu[c]` the locks of its `PubSubSync`,
  `readers[s]` the read locks of a hub shard, `btodo[ch]` the subscribers a broadcast has
  yet to visit, `written[c]` what the client was sent, with or without an offset.
* `Connections`: `hpc` is the goroutine of a transport's handler up to the connect
  handler, `conns` and `subs` the hub's registries, `chans` the clients with the channel
  in `Client.channels`, `kpc` the call of `close` that goes on, `call[k][n]` what node `n`
  does for the k-th call and `gpc[k][c]` its goroutine for a connection, `copied`,
  `waiting`, `running` the loop of `connShard.shutdown` with its semaphore, `dead` the
  nodes whose process a panic has ended. Four are history variables: `newest`, the call a
  node began last, if it began alone; `late`, the clients closed while the connect command
  or a subscribe went on; `crossed`, those that were subscribed and unsubscribed at a time;
  `halved`, those on which a subscribe failed half-way.
* `Queue` has the slice with head, tail and count; `Writer` adds producers, the writer
  goroutine and `Client.close`.
* `NodeSub`: `subs`, `bsub` are hub and broker, `lock` the striped `subLocks`, `gpc` the
  goroutines in `addSubscription` and `removeSubscription`, `wpc` the dissolver's workers.
  `RedisPubSub` adds the connection, the snapshot of channels and the resubscription;
  `moved` and `refused` say why `done` may be closed on a connection that still is up.
* `Session` keeps points in time as what is left of them; `Tick` brings them nearer.
* `MemHistory` has streams, the three maps with their heaps and next checks, and the
  result cache; `RedisHistory` the keys with their times to live. Each script is a step.
  What a read returns changes no state: `HistoryReads` has it as functions of the state,
  next to what the filter asks for.
* `Cluster` has the registries, messages under way in any order, and surveys by id.
  `NodeCommands` takes one call through `pubX`, `MarshalVT`, the wire, `UnmarshalVT` and
  `handleControl`. `ControlCodec` writes the generated code once per kind of field and
  has one table per message and function, so that the tables may disagree as the code
  might; `Orders` are the orders in which the encoder may range over a map.
* `Presence`: the clients' calls as goroutines that look up, then call; the memory
  manager's map and the Redis manager's sets, scores and counters.
* `WebSocket`: both ends as `Conn`, the wire as frames with the parts that have arrived,
  `readRemaining`, `readFinal`, `readMaskPos`, `readLength` of the reader, the write lock,
  the handler's start and two loops, `graceCh` and the timers of `Close`. `maskBytes` has
  its three parts: bytes up to the first word, whole words, the bytes left over, for a
  slice at any address.

## Runs

| Run | States | Shows |
|---|---|---|
| recovery_lossless | 1.1 M | no gap in a reply that says recovered (`RecoveredHasNoGap`); a quiet subscriber is caught up (`QuietIsCaughtUp`) |
| recovery_lossy | 218 k | the server's position is what the client has seen although PUB/SUB loses publications (`PositionIsView`); commands and broadcasts end (`FlowEnds`); a subscriber that is behind is noticed (`BehindIsNoticed`) |
| writer | 296 k | order and completeness of what is written (`WrittenInOrder`), the size limit (`OverflowIsNoticed`), the ring buffer (`RingInv`, `ResizeInBounds`, refinement `FifoSpec`), delivery (`Delivered`) |
| nodesub | 220 k | hub and broker stay together (`SubscribedInBroker`, `LeftoverIsAwaited`, `Dissolved`); commands under broadcasts: publications with an offset follow the reply and are not dropped (`ReplyFirst`), commands end (`CommandEnds`) |
| redis | 313 k | a working connection has every channel (`ConnectionHasChannels`) and is served unless it was given up (`ServedUnlessGivenUp`); presence (`GhostsExpire`, `NoUserMissed`, `SubscribedIsPresent`) |
| connect | 507 k | connections and calls: what may be left behind and after what (`Tidy`), what a call promises when it returns (`CallsTakeEffect`), and that it does (`CallsEnd`) |
| session | 192 k | handlers in order (`EventsInOrder`), the shared timer (`TimerRuns`), the closing of stale, silent and expired connections (`DeadIsClosed`) |
| history | 173 k | both brokers: `DeadlinesAwaited`, `OncePerKey`, `ReadsAreExact`, and refinement of `HistorySpec` with publications handed on in order (`BrokersKeepHistory`) |
| control | 180 k | surveys and registries (`SurveyIsExact`, `SurveyEnds`, `RegistriesSettle`); commands (`RemoteDoesTheSame`, `AllOrNothing`, `Relayed`) |
| websocket | 222 k | `MessagesIntact`, `OnlyOverLimitRefused`, `ConnectionEnds` |
| user_limit | violation | two connects pass the check of `UserConnectionLimit` before either is in the hub (`LimitHolds`) |
| response_first | violation | a publication without an offset is written before the reply to the subscribe command (`ResponseBeforeAny`) |

For every property there is a mutant: a change a programmer might make by mistake, with
which TLC finds the property violated.

### Bounds, and why they are enough

* recovery: one channel, one client. Clients meet only in the hub's lock and the loop of
  the broadcast, and both are there with one client. The lossless run has a history of 2,
  recovery limit 2, offsets up to 3, one epoch, one unsubscribe, two pending publications:
  enough to trim, expire and resubscribe; its stream is never removed (`MaxEpoch` 1). The
  lossy run has a history of 1, no recovery limit, offsets up to 2, and there the stream
  may be removed and begun again once (`MaxEpoch` 2). The proofs are for any number of
  clients and any bounds.
* writer: two producers, initial capacity 1, four messages, frames of two, a limit below
  the sum of sizes: the ring grows twice, wraps and shrinks.
* nodesub: two channels on one lock, two goroutines, two workers; `removeSubscription` waits
  while a job is queued (`MaxJobs`). For the commands, one client with three channels of
  which two share a hub shard and one is not positioned, two clients with the same two
  channels in two shards, and two clients that subscribe to one channel; two publications.
* redis: two channels, each with its lock, one client, sharded PUB/SUB so that the slot may
  move; several clients of a channel are in nodesub and in the theorem. Presence: three
  clients of two users, time to live 2, update interval 1, the shortest that differ.
* connect: two connections on one node or on two, two calls (`MaxCalls`), a semaphore of 1
  so that closes queue up, room for one channel or more. Which calls, hang-ups and
  shutdowns may come is a `plan` chosen at the start.
* session: one of each kind of timer, presence and ping intervals that meet.
* history: two publishers, two channels that share a lock, `HistorySize` 2, times to live 1
  and 2 with a clock up to 3, three calls, two epochs.
* control: three nodes of which one asks; one command at a time with all its optional
  fields present or absent, cut after up to 12 bytes (`MaxCut`).
* websocket: everything is scaled down by what it is compared with: keys of 2 bytes in
  place of 4 and words of 2 in place of 8, so that messages of up to 7 bytes are masked
  byte by byte, in words, and both, at every alignment; a write buffer with room for 5
  bytes, reads of at most 4, a byte of a length that counts to 2 in place of 256 and short
  lengths up to 2 in place of 125, so that all three forms of a length occur; eight plans
  of who writes, pings, closes, fails or vanishes. A message of Base^8 / 2 bytes, whose
  length would be negative (`conn.go:884`), is out of reach: the branch is there and is
  never taken.

Symmetry is used for channels and publishers of the history run, which has no liveness
property.
`CHECK_DEADLOCK FALSE` stands where a behaviour really ends: a connection that is closed,
a command that is answered, calls that are used up.

### Fairness

* Goroutines run: weak fairness of their steps. Where all of a module's work is finite
  (`ServerSubs`, `Connections`, `WebSocket`) it is weak fairness of "some goroutine takes a
  step": none can run for ever, so each gets its turn.
* Locks: strong fairness for those who wait for a Go mutex, which hands itself over to a
  waiter after a millisecond (`NodeSub`, `Session`).
* Timers fire and deadlines pass (`Session`, `Presence`, `WebSocket`, `Cluster`).
* Application callbacks return (`Recovery`, `Session`, `Connections`).
* Of `Connections` only what goroutines of a living process do is fair. Calls, hang-ups,
  timeouts and control messages to other nodes may never come.
* Brokers: a broker does not refuse for ever what is retried (`NodeSub`), the Redis
  connection takes its next step (`RedisPubSub`), and a control message that is sent again
  and again arrives at last (`Cluster`). No other message need arrive.

## Proofs

The theorems hold for every value of the constants that the named assumptions of the
modules allow (`ClientsAssumption`, `BoundsAssumption`, `QueueAssumption`,
`WriterAssumption`, `NodeSubAssumption`, `ConnectionsAssumption`, `SessionAssumption`,
`PresenceAssumption`, `ClusterAssumption`, `MemHistoryAssumption`, `BrokersAssumption`);
TLC evaluates these in the runs. They are about the specifications without fairness
(`Spec`, `WSpec`, `RSpec`, `SSpec`, `CSpec`, `PSpec`, `ClusterSpec`, `BSpec`), which those
with fairness that some runs check imply. Each module of proofs begins with `USE Zenon`: Zenon does
the leaves that take only logic and sets, and those that need arithmetic, sequences or
records name SMT. Nearly all the properties below speak of the end of an operation, or of
two pieces of state that differ half-way, and are not inductive alone; for each
the strengthening is named.

**Recovery** (`RecoveryProofs`). `SafetyTheorem` makes `SafetyInv` invariant: types, what a
broadcast has gone through (`BroadcastInv`), who holds a buffer lock (`SyncInv`), what a
flow knows of its reply (`FlowInv`), and that the position kept is the client's
(`ViewInv`). The argument: broadcasts follow one another; a client joins or leaves the hub
only while no broadcast looks at it; and from the moment a flow has read its buffer, its
lock holds later publications back until the context is stored. `PositionIsViewTheorem`
follows, with or without loss. `PositionIsView` alone is not inductive: it says nothing of
a flow between reading history and storing the context. With a broker that loses nothing,
`LosslessTheorem` adds `LosslessInv`, in which `Visited(c)`, how far the current broadcast
is with a client, ties stream, buffer and position together. `NoGapTheorem`
(`RecoveredHasNoGap`) and `CaughtUpTheorem` (`QuietIsCaughtUp`) follow.

**Queue** (`WriterProofs`). `RingTheorem`: head, tail and count agree and the slots between
them hold items. From it `ResizeTheorem`, and `FifoTheorem`: with the contents read off the
ring as the refinement mapping, every step of `Queue` is a step of `Fifo` or a stutter.
`SizeTheorem`: what `Size()` reports is the sum of what the ring holds. The sum is a
function of partial sums; `SetInduction` (the least element of a set of numbers, from the
well-foundedness of the naturals) shows that there is one at most, which is as much
induction as the provers allow.

**Writer** (`WriterProofs`). `WriterTheorem` makes `WInv` invariant: the queue's invariant
and size; who holds the writer's mutex and who has ended (`WhoIsWhere`); that what was
accepted is what was written, then what the writer has taken, then what the queue holds
(`WhatIsWhere`); and that of a limit exceeded somebody knows or is about to (`Noticed`).
`WrittenTheorem`, `OverflowTheorem` and `WriterFifoTheorem` follow: for any producers,
frame size, delay and limit, and whenever the connection is closed.

**Broker subscriptions** (`NodeSubProofs`). `SubTheorem`: types, which goroutine or worker
holds a lock (`LockInv`), `SubscribedInBroker`, and that a leftover subscription has
a job queued or in a worker's hands (`AwaitedInv`). `SubscribedTheorem` and
`LeftoverTheorem` follow. `ConnectionTheorem`, for the Redis PUB/SUB connection, rests on
`PubSubInv`: a channel that a working connection lacks is still on the list to be
resubscribed to, since `Subscribe` fails until the connection is stored (`Resubscribes`).

**Connect and subscribe commands** (`NodeSubProofs`). `ReplyFirstTheorem`, for publications
with offsets (others are not buffered: see response_first), for any number of clients,
channels, shards and broadcasts. From `SubsInv`: for each client, the contexts are stored
after the reply and nothing is written without one (`ReplyThenContexts`), and a positioned
channel whose client is in the hub is buffering until they are stored, so that a broadcast
past `SyncPublication` finds the context (`BufferedUntilStored`). `ReplyFirst` alone says
nothing of a publication between `SyncPublication` and the writer.

**Connections** (`ConnectionsProofs`). `CInvTheorem`: `CInv` is
types, that `close` cannot overtake the connect handler and leaves the registry
(`ConnInv`), that calls follow one another and have one goroutine for each connection
found (`CallInv`), that where hub and client differ somebody is about to put it right or
the client is `late`, `crossed` or `halved` (`SubInv`), that a goroutine that is done has
done its work and only a later call undoes it (`EffectInv`), and that whom shutdown found
is waiting, being closed or closed (`ShutInv`). `TidyTheorem` and `CallsTakeEffectTheorem`
follow: for any number of connections, nodes and calls. `Tidy` does not excuse an overlap
in general: each disjunct names the leftover and the one reason for it, and what an
unsubscribe that overlapped left is shown to be gone after the close.

**Session** (`SessionProofs`). `SessionTheorem`: `SessionInv` says who holds `connectMu` and
`presenceMu` and what the status is meanwhile (`Locks`), what cannot have been scheduled
yet (`Early`), which handlers were called (`Told`), and, for the shared timer, that it is
set, has fired for the operation that is due, or that some operation under way will set it
(`Clock`). `EventsTheorem` and `TimerTheorem` follow. `TimerRuns` needs all of it: that the
timer is unset is harmless only while an operation that reschedules is under way, and that
there is one depends on the mutexes.

**Memory broker** (`MemHistoryProofs`). `MemoryTheorem` has three parts from one invariant,
`MemInv`. Each of the three queues has one item for each deadline and a next check no later
than its items (`QueuesInv`; `SweptAwaited` shows that a sweep of the due ones, which puts
back those whose deadline was moved, leaves it so). A stream is the last one created and
has a deadline (`Latest`). Who publishes holds the channel's lock (`Held`). And the last
publication of a stream was handed on, or is under way and the next to be (`InOrder`). So
deadlines are awaited, a key is added once, each step is one of `HistorySpec` or a stutter,
and publications are handed on in order. `KeepsHistory` alone says nothing of a publication
between `historyHub.add` and the handler.

**Both brokers** (`BrokersProofs`). `RedisTheorem`, from `RedisInv`: the list never outlives
the meta hash, whose offset is the last one published in its epoch. It needs `Configured`:
no `HistoryTTL` above `HistoryMetaTTL`, and no `HistoryMetaTTL` below a second, as the
comment on `Config.HistoryMetaTTL` asks for. `DeadlinesTheorem`, `OncePerKeyTheorem` and `BrokersTheorem` carry the results to
`BSpec`, which the run checks: the broker that is idle begins in its invariant too.

**Presence** (`ServiceProofs`). `PresenceTheorem`: `PInv` says that an entry expires when its
last call does and before the keys (`Times`), and that a user expires no earlier than its
clients and at least those in the hash are counted (`Counts`). `GhostsTheorem` and
`NoUserMissedTheorem` follow; `KeptTheorem` is the action property in
`SubscribedIsPresent`.

**Surveys** (`ServiceProofs`). `SurveyTheorem`, from `SurveyInv`: whatever is under way
belongs to a survey its node has made, those of the current one to nodes it has asked
(`MessagesFit`), and answers are of the current id (`AnswersFit`). With one answer for each
node counted, that an injection between finite sets of one size is onto gives
`SurveyIsExact`.

Only model-checked:

* all liveness, since fairness and ENABLED are beyond the provers: `FlowEnds`,
  `BehindIsNoticed`, `Delivered`, `Dissolved`, `ServedUnlessGivenUp`, `CommandEnds`, `CallsEnd`,
  `DeadIsClosed`, `SurveyEnds`, `RegistriesSettle`, `ConnectionEnds`, and that a subscribed
  client becomes present (`SubscribedIsPresent`);
* `ReadsAreExact`, which compares sequences filtered by `SelectSeq`: induction over data;
* `AllOrNothing`, `Relayed` and `RemoteDoesTheSame`, which rest on the recursive definitions
  of `ControlCodec`;
* `MessagesIntact` and `OnlyOverLimitRefused` of `WebSocket`: they rest on what the reader
  makes of lengths (`Uint`, a fold over the digits) and of masked payloads in any number of
  frames, again induction over data. No proof of the rest of the argument was attempted.

## Assumptions of the models

* `Recovery`: one subscribe command in flight per client; the client always sends its
  epoch; every publication and read of history postpones the removal of a stream by
  `HistoryMetaTTL`, so that a flow that has read it or been sent a publication finishes
  first; a failed `broker.Subscribe` is one of the errors of the command.
* `Writer`: a transport that failed to write fails from then on.
* `Presence`: calls of the manager succeed within a second, clocks agree, the update
  interval is shorter than the time to live, one unsubscribe at a time per client.
* `Cluster`: pings are seconds apart; the ids of nodes are new at every start; a node makes
  one survey at a time. Surveys of one node that run side by side, which only share the
  counter of ids and the map of their channels, are not modelled.
* `RedisHistory`: the branch of the scripts for a meta time to live of "0"
  (`meta_expire ~= '0'`) is not there. It takes a `HistoryMetaTTL` under one second, and
  `config.go` wants it "much larger than history stream TTL".
* `ControlCodec`: 64-bit numbers are ten groups of seven bits, lengths above 2^28 are all
  refused alike, doubles are eight opaque bytes. The entries of a map
  are written in any order.
* `Connections`: the closed check and the channel lookup of `Client.Unsubscribe` are one
  step; `removeSubscription` does not fail; calls come one after the other from one node;
  a process that panics stops;
  arguments that select a client or session are in `NodeCommands` only.
* `WebSocket`: peers conform to the protocol; reading a control frame and answering it is
  one step; a frame is written under the lock, whole or cut; timers may fire at any time.

## What was met on the way

The run user_limit shows that `UserConnectionLimit` ("limits number of client connections
to single Node", `config.go:57`) is checked (`client.go:2285`) before the client is added
(`client.go:2328`): two connects may both pass.

The run response_first shows that "subscription response is sent before any subscription
publication" (`client.go:2855`) holds only for publications with an offset: those without
one, of a channel without history, are enqueued at once (`client.go:3007`), and the client
is in the hub before its reply is written (`client.go:2726`, 2857).

The following are modelled, and the properties say where they stop. They are not runs of
their own.

* **Connect.** Goroutines of `connectCmd` that have locked their buffers wait for one that
  waits for the hub shard of a broadcast, which waits for a buffer (`client.go:2379`, next to the
  comment at 2721): one client with two channels in a shard, or several clients in a circle.
  `CommandEnds` holds but for this; `Deadlocked` describes it. When one server-side
  subscription fails, others stay in the hub (`client.go:2384`). A client closed between the
  closed check and `addClient` stays registered, as does one that `Client.Subscribe`
  subscribes while it is closed (`late` in `Connections`).
* **Client.Subscribe.** When `subscribeCmd` fails after `addSubscription`, `onSubscribeError`
  finds no channel and leaves the client in the hub (`client.go:2566`, `halved`). When it
  returns a disconnect, `Client.Subscribe` does not look at it and stores an empty context;
  unless subscribe pushes are disabled, it then reads `Data` of a result that is nil
  (`client.go:2596`): in the model the process ends (`dead`). A client without room for a
  channel is closed, and the call succeeds (`client.go:2546`).
* **Recovery.** With a lossy broker `RecoveredHasNoGap` does not hold: a publication lost
  between history and buffer is noticed later, by `BehindIsNoticed`.
  A client that unsubscribes and subscribes at the same time may be missing from the hub
  (`client.go:3088`); the position check notices.
* **Redis PUB/SUB.** After a slot migration, or when Redis answers a batch of the
  resubscription with an error (`broker_redis.go:552`, 563), `done` is closed, but
  `runPubSub` waits for the connection's own error (`broker_redis.go:592`): as long as the
  connection stays up it is left unserved. `ServedUnlessGivenUp` excludes just these.
* **Redis history.** `historyList` ignores `Reverse` and `MetaTTL`; a key used with and
  without history gives "wrong Redis reply offset"; epochs are the caller's clock in
  seconds; XADD is refused if the meta key expires first.
* **Memory history.** A shortened time to live takes effect only when the older heap item
  comes up; the result cache's key (channel, "_", key) is not injective.
* **Presence.** The memory manager never expires a client, so that one that an update has
  brought back stays: `GhostsExpire` is about the Redis manager only. Redis counts users down only at
  removals, so a count may stay high until it expires; an update may bring back a client
  that has just unsubscribed, and a late removal may take out one that has just subscribed,
  both until the next expiry or update.
* **Session.** `Client.Refresh` without an expiration leaves a deadline that has passed, and
  the timer stops (`client.go:1366`, 1487). `TimerRuns` excludes it.
* **Survey.** A node that joins after the count was taken may answer in place of one that
  was counted (`node.go:462`).
* **Control.** `HistoryMetaTTL` is not sent to other nodes. When a call fails on the calling
  node, the others are not told. Control messages are handled by several goroutines, so two
  calls may reach another node in the other order: `CallsTakeEffect` speaks of the node that
  is called.
* **Shutdown.** A connection whose handler looked at the node's shutdown before it began
  (`handler_websocket.go:176`) may be added after `hub.shutdown` copied the connections and
  is not closed by it. The handler's shutdown branch waits the full time of `Close`, since
  nobody reads. A handler for which `NewClient` fails returns with the connection open
  (`handler_websocket.go:187`); `ConnectionEnds` excludes it.

## Not modelled

* SSE, HTTP streaming and the other unidirectional handlers: one goroutine copies messages
  to a response. Their connection is the client of `Session`, `Writer` and `Connections`.
* WebSocket compression, prepared messages, `ReadFrom`, `WriteString`, the HTTP upgrade and
  the dialer: byte formats and header checks of a single goroutine.
* Two flows on one channel of one client (a command and `Client.Subscribe`), where
  `PubSubSync` keeps one buffer for both (`sync.go:61`): `Recovery` has one flow per client.
* Commands of the client protocol that only ask (`history`, `presence`, `rpc`, `send`):
  they change no state of the client.
* `ReplyWithoutQueue`, which writes past the queue, and a `TransportWriteHandler` that
  swallows messages.
* Redis client options and cluster topology, metrics, logging, errors, options: declarations
  and counters.
