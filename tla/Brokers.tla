------------------------------ MODULE Brokers ------------------------------
(***************************************************************************)
(* Behaviours of two kinds: a memory broker (MemHistory) or the scripts of *)
(* the Redis broker (RedisHistory). The other broker is idle all the while.*)
(***************************************************************************)
EXTENDS MemHistory

\* RedisHistory's constants, where they differ.
CONSTANTS
    RedisSize, RedisTTLs, RedisMetaTTLs, RedisResultTTL,
    RedisMaxOffset, RedisMaxEpoch, RedisMaxCalls, MaxPending

VARIABLES useLists, meta, pubs, res, epochs, wire, rcalls, pushed, repeated

rvars == <<useLists, meta, pubs, res, epochs, wire, rcalls, pushed, repeated>>

R == INSTANCE RedisHistory WITH
         HistorySize <- RedisSize, HistoryTTLs <- RedisTTLs, MetaTTLs <- RedisMetaTTLs,
         ResultTTL <- RedisResultTTL, MaxOffset <- RedisMaxOffset,
         MaxEpoch <- RedisMaxEpoch, MaxCalls <- RedisMaxCalls, calls <- rcalls

ASSUME BrokersAssumption == R!Configured

\* All calls are made and all time has passed.
MemIdle ==
    /\ now = MaxNow /\ calls = MaxCalls
    /\ streams = [ch \in Channels |-> None]
    /\ created = [ch \in Channels |-> 0]
    /\ deadline = [q \in Queues |-> [ch \in Channels |-> 0]]
    /\ items = [q \in Queues |-> {}]
    /\ check = [q \in Queues |-> 0]
    /\ result = [ch \in Channels |-> NoPos]
    /\ pubLock = [l \in {LockOf(ch) : ch \in Channels} |-> "free"]
    /\ pub = [p \in Publishers |-> Idle]
    /\ handled = [ch \in Channels |-> NoPos]

\* All calls are made and nothing is in Redis.
RedisIdle ==
    /\ useLists = FALSE /\ rcalls = RedisMaxCalls
    /\ meta = R!NoMeta /\ pubs = R!NoPubs /\ res = R!NoMeta
    /\ epochs = 0 /\ wire = {}
    /\ pushed = [e |-> 0, s |-> 0] /\ repeated = 0

BInit == (Init /\ RedisIdle) \/ (R!Init /\ MemIdle)
BNext == (Next /\ UNCHANGED rvars) \/ (R!Next /\ UNCHANGED vars)
BSpec == BInit /\ [][BNext]_<<vars, rvars>>

\* A publication repeated with its idempotency key, by the same or by another publisher,
\* is added and published once while its result is kept: by the memory broker under
\* pubLock, in Redis by the first lines of the scripts.
OncePerKey == AddedOnce /\ R!PublishedOnce

\* Both brokers implement HistorySpec, and hand publications on in the order of their
\* offsets, none left out.
BrokersKeepHistory == KeepsHistory /\ R!KeepsHistory
=============================================================================
