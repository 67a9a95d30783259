----------------------------- MODULE MemHistory -----------------------------
(***************************************************************************)
(* The memory broker: publishing under a channel's lock with idempotency   *)
(* keys, history streams, and the three cleanup goroutines, each with a    *)
(* priority queue of deadlines and the time of its next check.             *)
(***************************************************************************)
EXTENDS Naturals, Sequences, FiniteSetsExt

CONSTANTS
    Channels, Publishers,
    LockOf(_),      \* the index of a channel's pubLock
    HistorySize, HistoryTTLs, MetaTTL, ResultTTL,
    Retries,        \* is there an idempotency key (one, k, for all publishers)
    MaxNow, MaxOffset, MaxEpoch,
    MaxCalls        \* bounds; this one on the calls of Publish, History and so on

ASSUME MemHistoryAssumption ==
    /\ {HistorySize, MetaTTL, ResultTTL} \cup HistoryTTLs \subseteq Nat \ {0}
    /\ \A t \in HistoryTTLs : t <= MetaTTL
    /\ {MaxOffset, MaxNow} \subseteq Nat
    /\ "free" \notin Publishers /\ Retries \in BOOLEAN

VARIABLES
    now,
    streams,        \* epoch 0: there is none
    created,        \* streams there have been
    deadline,       \* expires, removes and resultCache's times; 0: no entry
    items,          \* the priority queues
    check,          \* nextExpireCheck and so on; 0: nothing to wait for
    result,         \* the positions in resultCache
    pubLock,
    pub,            \* the publishers
    calls,
    handled         \* the last publication given to the event handler

hist == <<streams, created>>
queues == <<deadline, items, check>>
vars == <<now, hist, queues, result, pubLock, pub, calls, handled>>

Queues == {"expire", "remove", "result"}
None == [epoch |-> 0, top |-> 0, list |-> <<>>]
NoPos == [epoch |-> 0, top |-> 0]
Idle == [pc |-> "idle"]

Init ==
    /\ now = 1
    /\ streams = [ch \in Channels |-> None]
    /\ created = [ch \in Channels |-> 0]
    /\ deadline = [q \in Queues |-> [ch \in Channels |-> 0]]
    /\ items = [q \in Queues |-> {}]
    /\ check = [q \in Queues |-> 0]
    /\ result = [ch \in Channels |-> NoPos]
    /\ pubLock = [l \in {LockOf(ch) : ch \in Channels} |-> "free"]
    /\ pub = [p \in Publishers |-> Idle]
    /\ calls = 0
    /\ handled = [ch \in Channels |-> NoPos]

Call == calls < MaxCalls /\ calls' = calls + 1

Tick == /\ now < MaxNow
        /\ now' = now + 1
        /\ UNCHANGED <<hist, queues, result, pubLock, pub, handled, calls>>

-----------------------------------------------------------------------------
(* Priority queues                                                          *)

\* Mutant: every call pushes an item.
TouchedTwice(q, ch, t) ==
    [dl |-> [deadline[q] EXCEPT ![ch] = t],
     it |-> items[q] \cup {<<ch, t>>},
     ck |-> IF check[q] = 0 \/ check[q] > t THEN t ELSE check[q]]

\* An entry that is not there yet is pushed; one that is keeps its item.
Touched(q, ch, t) ==
    [dl |-> [deadline[q] EXCEPT ![ch] = t],
     it |-> IF deadline[q][ch] = 0 THEN items[q] \cup {<<ch, t>>} ELSE items[q],
     ck |-> IF check[q] = 0 \/ check[q] > t THEN t ELSE check[q]]

\* qs maps some of the queues to what they become.
SetQueues(qs) ==
    /\ deadline' = [q \in Queues |-> IF q \in DOMAIN qs THEN qs[q].dl ELSE deadline[q]]
    /\ items' = [q \in Queues |-> IF q \in DOMAIN qs THEN qs[q].it ELSE items[q]]
    /\ check' = [q \in Queues |-> IF q \in DOMAIN qs THEN qs[q].ck ELSE check[q]]

Due(q) == {x \in items[q] : x[2] <= now}

\* Items that are due are popped; an entry whose deadline was moved is pushed
\* again, the others are done.
Done(q) == {x[1] : x \in {y \in Due(q) : deadline[q][y[1]] <= now}}

Swept(q) ==
    LET again == {<<x[1], deadline[q][x[1]]>> : x \in {y \in Due(q) : y[1] \notin Done(q)}}
        left  == (items[q] \ Due(q)) \cup again
    IN  [dl |-> [ch \in Channels |-> IF ch \in Done(q) THEN 0 ELSE deadline[q][ch]],
         it |-> left,
         ck |-> IF left = {} THEN 0 ELSE Min({x[2] : x \in left})]

\* One round of a cleanup goroutine that has something to look at; the time
\* between two rounds, a second or more, is left open.
Sweep(q) ==
    /\ check[q] # 0 /\ check[q] <= now
    /\ SetQueues([x \in {q} |-> Swept(q)])
    /\ UNCHANGED <<now, created, pubLock, pub, handled, calls>>

ExpireStreams ==
    /\ Sweep("expire")
    /\ streams' = [ch \in Channels |->
           IF ch \in Done("expire") THEN [streams[ch] EXCEPT !.list = <<>>]
           ELSE streams[ch]]
    /\ UNCHANGED result

RemoveStreams ==
    /\ Sweep("remove")
    /\ streams' = [ch \in Channels |->
                       IF ch \in Done("remove") THEN None ELSE streams[ch]]
    /\ UNCHANGED result

ExpireResultCache ==
    /\ Sweep("result")
    /\ result' = [ch \in Channels |->
                      IF ch \in Done("result") THEN NoPos ELSE result[ch]]
    /\ UNCHANGED streams

-----------------------------------------------------------------------------
(* Publish                                                                  *)

At(p, pc) == pub[p].pc = pc

\* With a cached result there is nothing to do.
PublishLock(p, ch, key) ==
    /\ Call
    /\ At(p, "idle") /\ pubLock[LockOf(ch)] = "free"
    /\ ~(key /\ deadline["result"][ch] # 0)
    /\ pubLock' = [pubLock EXCEPT ![LockOf(ch)] = p]
    /\ pub' = [pub EXCEPT ![p] = [pc |-> "add", ch |-> ch, key |-> key, pos |-> NoPos]]
    /\ UNCHANGED <<now, hist, queues, result, handled>>

\* memstream.Stream.Add
StreamAdd(s) ==
    LET l == Append(s.list, s.top + 1)
    IN  [epoch |-> s.epoch, top |-> s.top + 1,
         list |-> SubSeq(l, IF Len(l) > HistorySize THEN Len(l) - HistorySize + 1
                            ELSE 1, Len(l))]

\* historyHub.add
AddToHistory(p, ttl) ==
    LET ch  == pub[p].ch
        old == streams[ch]
        s   == StreamAdd(IF old.epoch = 0
                         THEN [None EXCEPT !.epoch = created[ch] + 1] ELSE old)
    IN  /\ At(p, "add") /\ old.top < MaxOffset
        /\ old.epoch = 0 => created[ch] < MaxEpoch
        /\ streams' = [streams EXCEPT ![ch] = s]
        /\ created' = [created EXCEPT ![ch] = s.epoch]
        /\ SetQueues([q \in {"expire", "remove"} |->
               Touched(q, ch, now + IF q = "expire" THEN ttl ELSE MetaTTL)])
        /\ pub' = [pub EXCEPT ![p].pc = IF pub[p].key THEN "save" ELSE "handle",
                              ![p].pos = [epoch |-> s.epoch, top |-> s.top]]
        /\ UNCHANGED <<now, result, pubLock, handled, calls>>

\* A publication without history.
SkipHistory(p) ==
    /\ At(p, "add")
    /\ pub' = [pub EXCEPT ![p].pc = IF pub[p].key THEN "save" ELSE "handle"]
    /\ UNCHANGED <<now, hist, queues, result, pubLock, handled, calls>>

\* Mutant: unlocks before the broadcast.
SaveResultUnlocks(p) ==
    /\ At(p, "save")
    /\ result' = [result EXCEPT ![pub[p].ch] = pub[p].pos]
    /\ SetQueues([q \in {"result"} |-> Touched(q, pub[p].ch, now + ResultTTL)])
    /\ pub' = [pub EXCEPT ![p].pc = "handle"]
    /\ pubLock' = [pubLock EXCEPT ![LockOf(pub[p].ch)] = "free"]
    /\ UNCHANGED <<now, hist, handled, calls>>

SaveResultToCache(p) ==
    /\ At(p, "save")
    /\ result' = [result EXCEPT ![pub[p].ch] = pub[p].pos]
    /\ SetQueues([q \in {"result"} |-> Touched(q, pub[p].ch, now + ResultTTL)])
    /\ pub' = [pub EXCEPT ![p].pc = "handle"]
    /\ UNCHANGED <<now, hist, pubLock, handled, calls>>

\* BrokerEventHandler.HandlePublication, then unlock.
HandlePublication(p) ==
    LET ch == pub[p].ch
    IN  /\ At(p, "handle")
        /\ handled' = [handled EXCEPT ![ch] = IF pub[p].pos = NoPos THEN @ ELSE pub[p].pos]
        /\ pubLock' = [pubLock EXCEPT ![LockOf(ch)] = "free"]
        /\ pub' = [pub EXCEPT ![p] = Idle]
        /\ UNCHANGED <<now, hist, queues, result, calls>>

-----------------------------------------------------------------------------
(* Reads, as far as they change something (see HistoryReads), and removal    *)

\* historyHub.get postpones the removal and creates a stream when there is none.
Get(ch) ==
    /\ Call
    /\ streams[ch].epoch = 0 => created[ch] < MaxEpoch
    /\ IF streams[ch].epoch # 0 THEN UNCHANGED hist
       ELSE /\ created' = [created EXCEPT ![ch] = @ + 1]
            /\ streams' = [streams EXCEPT ![ch].epoch = created[ch] + 1]
    /\ SetQueues([q \in {"remove"} |-> Touched(q, ch, now + MetaTTL)])
    /\ UNCHANGED <<now, result, pubLock, pub, handled>>

RemoveHistory(ch) ==
    /\ Call
    /\ streams' = [streams EXCEPT ![ch].list = <<>>]
    /\ UNCHANGED <<now, created, queues, result, pubLock, pub, handled>>

-----------------------------------------------------------------------------
Publish(p) == \/ \E ch \in Channels, key \in {FALSE, Retries} : PublishLock(p, ch, key)
              \/ \E ttl \in HistoryTTLs : AddToHistory(p, ttl)
              \/ SkipHistory(p) \/ SaveResultToCache(p) \/ HandlePublication(p)

Next == \/ Tick \/ ExpireStreams \/ RemoveStreams \/ ExpireResultCache
        \/ \E p \in Publishers : Publish(p)
        \/ \E ch \in Channels : Get(ch) \/ RemoveHistory(ch)

Spec == Init /\ [][Next]_vars

\* Seen through HistorySpec.
H == INSTANCE HistorySpec WITH
         live <- [ch \in Channels |-> streams[ch].epoch # 0],
         epoch <- created,
         top <- [ch \in Channels |-> streams[ch].top],
         kept <- [ch \in Channels |-> streams[ch].list]

-----------------------------------------------------------------------------
Position == [epoch : 0..MaxEpoch, top : 0..MaxOffset]

TypeOK ==
    /\ now \in 1..MaxNow /\ calls \in 0..MaxCalls
    /\ streams \in [Channels -> [epoch : 0..MaxEpoch, top : 0..MaxOffset,
                                 list : Seq(1..MaxOffset)]]
    /\ \A ch \in Channels : Len(streams[ch].list) <= HistorySize
    /\ created \in [Channels -> 0..MaxEpoch]
    /\ deadline \in [Queues -> [Channels -> Nat]]
    /\ \A q \in Queues : items[q] \subseteq Channels \X Nat
    /\ check \in [Queues -> Nat]
    /\ result \in [Channels -> Position] /\ handled \in [Channels -> Position]
    /\ \A l \in DOMAIN pubLock : pubLock[l] \in Publishers \cup {"free"}
    /\ pub \in [Publishers -> {Idle} \cup [pc : {"add", "save", "handle"}, ch : Channels,
                                           key : BOOLEAN, pos : Position]]

\* Whatever has a deadline will be looked at: it has exactly one item in its
\* queue, and the goroutine's next check is set no later than any item (the maps,
\* heaps and nextExpireCheck, nextRemoveCheck are kept together).  Every stream has
\* a deadline for its removal.
DeadlinesAwaited ==
    \A q \in Queues :
        /\ \A ch \in Channels :
               Cardinality({x \in items[q] : x[1] = ch}) = IF deadline[q][ch] = 0 THEN 0 ELSE 1
        /\ \A x \in items[q] : check[q] # 0 /\ check[q] <= x[2]
        /\ \A ch \in Channels : streams[ch].epoch # 0 => deadline["remove"][ch] # 0

HandledInOrder ==
    [][\A ch \in Channels : handled'[ch] # handled[ch] =>
           \/ handled'[ch].epoch = handled[ch].epoch /\ handled'[ch].top = handled[ch].top + 1
           \/ handled'[ch].epoch > handled[ch].epoch /\ handled'[ch].top = 1]_vars

\* A publication that is retried with its idempotency key, by whomever, is not
\* added again until the result has expired.
AddedOnce ==
    \A p \in Publishers : pub[p].pc \in {"add", "save"} /\ pub[p].key =>
        deadline["result"][pub[p].ch] = 0

\* The memory broker keeps a broker's promises about history, and subscribers get
\* publications in the order of their offsets, none left out: pubLock is held from the
\* addition to the end of the broadcast.
KeepsHistory == H!HSpec /\ HandledInOrder
=============================================================================
