---------------------------- MODULE RedisHistory ----------------------------
(***************************************************************************)
(* The history of one channel in Redis: the Lua scripts of the broker, run *)
(* atomically by Redis on three keys that expire by themselves (the stream *)
(* or list, its meta hash, the result of an idempotent publication), and   *)
(* what the broker makes of their replies.  Any number of nodes call them; *)
(* a call may be delayed, lost, or repeated by a caller who got no reply.  *)
(***************************************************************************)
EXTENDS Naturals, Sequences, FiniteSetsExt

CONSTANTS
    HistorySize,
    HistoryTTLs, MetaTTLs, ResultTTL,   \* in whole seconds: 0 is less than one
    MaxOffset, MaxEpoch, MaxCalls, MaxPending   \* bounds

\* "Keep this value much larger than history stream TTL" (Config.HistoryMetaTTL). This
\* leaves out a meta TTL of less than a second, with which the scripts set no expiry.
Configured ==
    /\ {HistorySize, ResultTTL} \cup MetaTTLs \subseteq Nat \ {0}
    /\ HistoryTTLs \subseteq Nat
    /\ \A ttl \in HistoryTTLs, metaTTL \in MetaTTLs : ttl <= metaTTL
    /\ MaxOffset \in Nat

VARIABLES
    useLists,   \* RedisBrokerConfig.UseLists
    meta,       \* the meta hash: its fields e and s, and its time to live
    pubs,       \* the stream or list, oldest first, and its time to live
    res,        \* the result hash of the idempotency key
    epochs,     \* how many epochs there have been
    wire,       \* publish calls on their way to Redis
    calls,
    pushed,     \* the last position published to PUB/SUB
    repeated    \* additions with the idempotency key while its result was kept

keys == <<meta, pubs, res>>
vars == <<useLists, keys, epochs, wire, calls, pushed, repeated>>

\* ttl 0: there is no such key.
NoMeta == [e |-> 0, s |-> 0, ttl |-> 0]
NoPubs == [list |-> <<>>, ttl |-> 0]

Init ==
    /\ Configured
    /\ useLists \in BOOLEAN
    /\ meta = NoMeta /\ pubs = NoPubs /\ res = NoMeta
    /\ epochs = 0 /\ wire = {} /\ calls = 0
    /\ pushed = [e |-> 0, s |-> 0] /\ repeated = 0

Exists(k) == k.ttl # 0

Call == calls < MaxCalls /\ calls' = calls + 1

\* A second passes; keys whose time has come are gone.
Tick ==
    /\ meta' = IF meta.ttl <= 1 THEN NoMeta ELSE [meta EXCEPT !.ttl = @ - 1]
    /\ pubs' = IF pubs.ttl <= 1 THEN NoPubs ELSE [pubs EXCEPT !.ttl = @ - 1]
    /\ res' = IF res.ttl <= 1 THEN NoMeta ELSE [res EXCEPT !.ttl = @ - 1]
    /\ repeated' = IF res.ttl <= 1 THEN 0 ELSE repeated
    /\ UNCHANGED <<useLists, epochs, wire, calls, pushed>>

-----------------------------------------------------------------------------
(* Publishing                                                               *)

\* RedisBroker.publish; history is off when HistorySize or HistoryTTL is not set.
Publish(key, history) ==
    /\ Call /\ Cardinality(wire) < MaxPending
    /\ wire' = wire \cup {[id |-> calls, key |-> key, history |-> history]}
    /\ UNCHANGED <<useLists, keys, epochs, pushed, repeated>>

\* The call does not get through.
Lose(c) ==
    /\ c \in wire
    /\ wire' = wire \ {c}
    /\ UNCHANGED <<useLists, keys, epochs, calls, pushed, repeated>>

CachedByOffset(c) == c.key /\ res.s # 0

Cached(c) == c.key /\ Exists(res)

\* xadd with MAXLEN, or lpush and ltrim
Trimmed(l) ==
    SubSeq(l, IF Len(l) > HistorySize THEN Len(l) - HistorySize + 1 ELSE 1, Len(l))

\* An epoch is the time of the call: it has not been used before.
CurrentEpoch == IF Exists(meta) THEN meta.e ELSE epochs + 1

\* broker_history_add_stream.lua and broker_history_add_list.lua.  Redis refuses
\* to add to a stream an id that is not larger than the last: the script ends there.
\* Expiry after 0 seconds is expiry at once.
AddHistory(c, ttl, metaTTL) ==
    LET e == CurrentEpoch
        s == meta.s + 1
        refused == ~useLists /\ pubs.list # <<>> /\ s <= pubs.list[Len(pubs.list)]
    IN  /\ c \in wire /\ c.history /\ ~Cached(c)
        /\ e <= MaxEpoch /\ s <= MaxOffset
        /\ wire' = wire \ {c}
        /\ meta' = [e |-> e, s |-> s, ttl |-> metaTTL]
        /\ epochs' = IF e > epochs THEN e ELSE epochs
        /\ IF refused THEN UNCHANGED <<pubs, res, pushed, repeated>>
           ELSE /\ pubs' = IF ttl = 0 THEN NoPubs
                           ELSE [list |-> Trimmed(Append(pubs.list, s)), ttl |-> ttl]
                /\ pushed' = [e |-> e, s |-> s]
                /\ res' = IF c.key THEN [e |-> e, s |-> s, ttl |-> ResultTTL] ELSE res
                /\ repeated' = IF c.key THEN repeated + 1 ELSE repeated
        /\ UNCHANGED <<useLists, calls>>

\* broker_publish_idempotent.lua, or a plain publish: the result has no position.
PublishOnly(c) ==
    /\ c \in wire /\ ~c.history /\ ~Cached(c)
    /\ wire' = wire \ {c}
    /\ res' = IF c.key THEN [e |-> 0, s |-> 0, ttl |-> ResultTTL] ELSE res
    /\ repeated' = IF c.key THEN repeated + 1 ELSE repeated
    /\ UNCHANGED <<useLists, meta, pubs, epochs, calls, pushed>>

\* The first lines of the three scripts.
ReturnCached(c) ==
    /\ c \in wire /\ Cached(c)
    /\ wire' = wire \ {c}
    /\ UNCHANGED <<useLists, keys, epochs, calls, pushed, repeated>>

-----------------------------------------------------------------------------
(* Reading, as far as it changes something (see HistoryReads), and removal   *)

\* broker_history_stream.lua and broker_history_list.lua: a read begins an epoch
\* when there is none, and prolongs the meta hash.
History(metaTTL) ==
    /\ Call
    /\ CurrentEpoch <= MaxEpoch
    /\ meta' = [e |-> CurrentEpoch, s |-> meta.s, ttl |-> metaTTL]
    /\ epochs' = IF CurrentEpoch > epochs THEN CurrentEpoch ELSE epochs
    /\ UNCHANGED <<useLists, pubs, res, wire, pushed, repeated>>

RemoveHistory ==
    /\ Call
    /\ pubs' = NoPubs
    /\ UNCHANGED <<useLists, meta, res, epochs, wire, pushed, repeated>>

-----------------------------------------------------------------------------
Execute(c) ==
    \/ \E ttl \in HistoryTTLs, metaTTL \in MetaTTLs : AddHistory(c, ttl, metaTTL)
    \/ PublishOnly(c) \/ ReturnCached(c)

Next == \/ Tick \/ RemoveHistory
        \/ \E metaTTL \in MetaTTLs : History(metaTTL)
        \/ \E key, history \in BOOLEAN : Publish(key, history)
        \/ \E c \in wire : Execute(c) \/ Lose(c)

Spec == Init /\ [][Next]_vars

\* Seen through HistorySpec, with one channel.
H == INSTANCE HistorySpec WITH
         Channels <- {"ch"},
         live <- [ch \in {"ch"} |-> Exists(meta)],
         epoch <- [ch \in {"ch"} |-> epochs],
         top <- [ch \in {"ch"} |-> meta.s],
         kept <- [ch \in {"ch"} |-> pubs.list]

-----------------------------------------------------------------------------
TypeOK ==
    /\ useLists \in BOOLEAN /\ epochs \in 0..MaxEpoch /\ calls \in 0..MaxCalls
    /\ meta \in [e : 0..MaxEpoch, s : 0..MaxOffset, ttl : 0..Max(MetaTTLs)]
    /\ res \in [e : 0..MaxEpoch, s : 0..MaxOffset, ttl : 0..ResultTTL]
    /\ pubs \in [list : Seq(1..MaxOffset), ttl : 0..Max(HistoryTTLs)]
    /\ Len(pubs.list) <= HistorySize
    /\ wire \subseteq [id : 0..MaxCalls, key : BOOLEAN, history : BOOLEAN]
    /\ pushed \in [e : 0..MaxEpoch, s : 0..MaxOffset] /\ repeated \in 0..MaxCalls

\* A publication that is repeated with its idempotency key, after a timeout or on
\* another node, is not published again while the result is kept.
PublishedOnce == repeated <= 1

\* The Redis broker keeps a broker's promises about history, and what the scripts
\* publish to PUB/SUB comes in the order of the offsets, none left out, a new epoch
\* starting from 1.
KeepsHistory ==
    /\ H!HSpec
    /\ [][pushed' # pushed =>
              \/ pushed'.e = pushed.e /\ pushed'.s = pushed.s + 1
              \/ pushed'.e > pushed.e /\ pushed'.s = 1]_vars
=============================================================================
