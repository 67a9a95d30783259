------------------------------ MODULE Presence ------------------------------
(***************************************************************************)
(* Who is present in a channel: the calls the clients' goroutines make     *)
(* when they subscribe, update their presence and unsubscribe, and what    *)
(* the two presence managers make of them.  The one keeps a map in memory; *)
(* the other runs scripts in Redis on sets with expiration times and, if   *)
(* user mapping is on, on a count of clients per user.                     *)
(***************************************************************************)
EXTENDS Integers, FiniteSets

CONSTANTS
    ClientIDs, UserOf,   \* UserOf[c] is the user of client c
    TTL,               \* PresenceTTL, in seconds
    Interval,          \* ClientPresenceUpdateInterval
    MaxCount           \* no client subscribes when its user has this count

\* Presence is updated at least once before it expires.
ASSUME PresenceAssumption ==
    /\ IsFiniteSet(ClientIDs)
    /\ {TTL, Interval, MaxCount} \subseteq Nat /\ 0 < Interval /\ Interval < TTL

VARIABLES
    channels,    \* clients that have the channel in c.channels, subscribed
    subscribing, \* subscribeCmd has added presence and not set the channel yet
    updating,    \* updateChannelPresence has looked at c.channels
    leaving,     \* unsubscribe has deleted the channel and not removed presence yet
    gone,        \* clients whose node has died
    heard,       \* how long the last call of a client is still good for
    mem,         \* presenceHub: the clients in its map
    mapping,     \* EnableUserMapping of the channel
    hash, exp,   \* clients in the presence hash, and how long until they expire
    users, uexp, \* clients counted per user, and how long until the user expires
    ttl          \* how long until Redis drops the keys

client == <<channels, subscribing, updating, leaving, gone>>
presenceHub == <<mem>>
redis == <<mapping, hash, exp, users, uexp, ttl>>
pvars == <<client, heard, presenceHub, redis>>

Users == {UserOf[c] : c \in ClientIDs}

PInit ==
    /\ channels = {} /\ subscribing = {} /\ updating = {} /\ leaving = {} /\ gone = {}
    /\ heard = [c \in ClientIDs |-> 0]
    /\ mem = {} /\ mapping \in BOOLEAN
    /\ hash = {} /\ exp = [c \in ClientIDs |-> 0]
    /\ users = [u \in Users |-> 0] /\ uexp = [u \in Users |-> 0]
    /\ ttl = 0

-----------------------------------------------------------------------------
(* The managers                                                             *)

IsNewClient(c) == c \notin hash

\* presenceHub.add and remove
HubAdd(c) == mem' = mem \cup {c}
HubRemove(c) == mem' = mem \ {c}

\* The argument that tells the scripts about it.
useUserMappingArg == mapping

\* presence_add.lua
AddScript(c) ==
    LET u == UserOf[c]
    IN  /\ hash' = hash \cup {c}
        /\ exp' = [exp EXCEPT ![c] = TTL]
        /\ users' = IF useUserMappingArg /\ IsNewClient(c) THEN [users EXCEPT ![u] = @ + 1] ELSE users
        /\ uexp' = IF useUserMappingArg THEN [uexp EXCEPT ![u] = TTL] ELSE uexp
        /\ ttl' = TTL
        /\ UNCHANGED mapping

\* AddPresence of either manager
AddPresence(c) == HubAdd(c) /\ AddScript(c) /\ heard' = [heard EXCEPT ![c] = TTL]

\* Mutant: a client that is not there is counted down too.
ClientExistsUnchecked(c) == TRUE

ClientExists(c) == c \in hash

\* presence_rem.lua
RemScript(c) ==
    LET u     == UserOf[c]
        count == users[u] - 1
    IN  /\ hash' = hash \ {c}
        /\ exp' = [exp EXCEPT ![c] = 0]
        /\ IF useUserMappingArg /\ ClientExists(c)
           THEN /\ users' = [users EXCEPT ![u] = IF count <= 0 THEN 0 ELSE count]
                /\ uexp' = IF count <= 0 THEN [uexp EXCEPT ![u] = 0] ELSE uexp
           ELSE UNCHANGED <<users, uexp>>
        /\ UNCHANGED <<mapping, ttl>>

\* RemovePresence of either manager
RemovePresence(c) == HubRemove(c) /\ RemScript(c) /\ UNCHANGED heard

\* Mutants: an entry expires a second early; or never.
ExpiredEarly(c) == exp[c] <= 1
ExpiredNever(c) == FALSE

\* zrangebyscore from 0 to now
Expired(c) == exp[c] = 0

UserExpired(u) == uexp[u] = 0

\* What presence_get.lua returns, and the users presence_stats_get.lua counts.
Returned == {c \in hash : ~Expired(c)}
UsersCounted == {u \in Users : users[u] # 0 /\ ~UserExpired(u)}

\* presence_get.lua takes out the clients that have expired.
GetPresence ==
    /\ Returned # hash
    /\ hash' = Returned
    /\ UNCHANGED <<client, heard, mem, mapping, exp, users, uexp, ttl>>

\* presence_stats_get.lua takes out users too.
GetPresenceStats ==
    /\ mapping
    /\ Returned # hash \/ \E u \in Users \ UsersCounted : users[u] # 0
    /\ hash' = Returned
    /\ users' = [u \in Users |-> IF u \in UsersCounted THEN users[u] ELSE 0]
    /\ UNCHANGED <<client, heard, mem, mapping, exp, uexp, ttl>>

Less(n) == IF n = 0 THEN 0 ELSE n - 1

\* A second passes.  Calls take less; updates come every Interval.
Tick ==
    /\ subscribing = {} /\ updating = {} /\ leaving = {}
    /\ \A c \in channels : heard[c] > TTL - Interval
    /\ heard' = [c \in ClientIDs |-> Less(heard[c])]
    /\ ttl' = Less(ttl)
    /\ exp' = [c \in ClientIDs |-> Less(exp[c])]
    /\ uexp' = [u \in Users |-> Less(uexp[u])]
    /\ hash' = IF ttl <= 1 THEN {} ELSE hash
    /\ users' = IF ttl <= 1 THEN [u \in Users |-> 0] ELSE users
    /\ UNCHANGED <<client, mem, mapping>>

-----------------------------------------------------------------------------
(* The clients                                                              *)

\* subscribeCmd adds presence; a client may subscribe again before an earlier
\* unsubscribe has come to its end.  The id of a client whose node died stands
\* for a new one only when nothing in Redis bears it any more.
SubscribeAdds(c) ==
    /\ c \notin channels \cup subscribing /\ users[UserOf[c]] < MaxCount
    /\ c \in gone => c \notin hash
    /\ AddPresence(c)
    /\ subscribing' = subscribing \cup {c} /\ gone' = gone \ {c}
    /\ UNCHANGED <<channels, updating, leaving>>

\* The channel is stored with flagSubscribed.
SubscribeDone(c) ==
    /\ c \in subscribing
    /\ subscribing' = subscribing \ {c} /\ channels' = channels \cup {c}
    /\ UNCHANGED <<updating, leaving, gone, heard, mem, redis>>

\* Reading the history fails: the presence just added is not removed.
HistoryFails(c) ==
    /\ c \in subscribing
    /\ subscribing' = subscribing \ {c}
    /\ UNCHANGED <<channels, updating, leaving, gone, heard, mem, redis>>

\* updatePresence: the channel is looked up, the lock released, presence added.
UpdateLooksUp(c) ==
    /\ c \in channels \ updating
    /\ updating' = updating \cup {c}
    /\ UNCHANGED <<channels, subscribing, leaving, gone, heard, mem, redis>>

\* Mutant: an update only refreshes what is there.
UpdateAddsKnown(c) ==
    /\ c \in updating
    /\ updating' = updating \ {c}
    /\ IF c \in hash THEN AddPresence(c) ELSE UNCHANGED <<heard, mem, redis>>
    /\ UNCHANGED <<channels, subscribing, leaving, gone>>

UpdateAdds(c) ==
    /\ c \in updating
    /\ updating' = updating \ {c}
    /\ AddPresence(c)
    /\ UNCHANGED <<channels, subscribing, leaving, gone>>

\* unsubscribe: the channel is deleted, the lock released, presence removed.
UnsubscribeDeletes(c) ==
    /\ c \in channels \ leaving
    /\ channels' = channels \ {c} /\ leaving' = leaving \cup {c}
    /\ UNCHANGED <<subscribing, updating, gone, heard, mem, redis>>

UnsubscribeRemoves(c) ==
    /\ c \in leaving
    /\ leaving' = leaving \ {c}
    /\ RemovePresence(c)
    /\ UNCHANGED <<channels, subscribing, updating, gone>>

\* The node of a client dies, wherever its goroutines are.
Crash(c) ==
    /\ c \in channels \cup subscribing \cup updating \cup leaving
    /\ channels' = channels \ {c} /\ subscribing' = subscribing \ {c}
    /\ updating' = updating \ {c} /\ leaving' = leaving \ {c}
    /\ gone' = gone \cup {c} /\ mem' = mem \ {c}
    /\ UNCHANGED <<heard, redis>>

PNext ==
    \/ GetPresence \/ GetPresenceStats \/ Tick
    \/ \E c \in ClientIDs :
           \/ SubscribeAdds(c) \/ SubscribeDone(c) \/ HistoryFails(c)
           \/ UpdateLooksUp(c) \/ UpdateAdds(c)
           \/ UnsubscribeDeletes(c) \/ UnsubscribeRemoves(c)
           \/ Crash(c)

PSpec == PInit /\ [][PNext]_pvars

\* The presence timer goes off again and again, and calls to the manager end.
PFairness == \A c \in ClientIDs : WF_pvars(UpdateLooksUp(c) \/ UpdateAdds(c))

-----------------------------------------------------------------------------
PTypeOK ==
    /\ {channels, subscribing, updating, leaving, gone, mem, hash} \subseteq SUBSET ClientIDs
    /\ mapping \in BOOLEAN /\ ttl \in 0..TTL
    /\ heard \in [ClientIDs -> 0..TTL] /\ exp \in [ClientIDs -> 0..TTL]
    /\ users \in [Users -> 0..MaxCount + Cardinality(ClientIDs)] /\ uexp \in [Users -> 0..TTL]

\* Whoever is returned has called within the time to live: those who failed,
\* crashed, or were added by an update that came after they had left, are gone then.
\* A user may be counted for too long, since expiry does not count clients down,
\* but no longer than the last call of one of its clients is good for.
GhostsExpire ==
    /\ \A c \in Returned : heard[c] > 0
    /\ \A u \in UsersCounted : \E c \in ClientIDs : UserOf[c] = u /\ heard[c] > 0

\* The statistics miss no user of a client that is returned, whatever expired,
\* was taken out by reads or removed twice meanwhile.
NoUserMissed == mapping => {UserOf[c] : c \in Returned} \subseteq UsersCounted

KeptWhileSubscribed ==
    [][\A c \in ClientIDs :
           c \in channels \cap Returned /\ c \notin leaving /\ c \in channels' => c \in Returned']_pvars

\* A subscribed client is present in time, even if the presence it had just added
\* was removed by an unsubscribe that began before; and neither time nor reads take out
\* a client that stays subscribed.
SubscribedIsPresent ==
    /\ KeptWhileSubscribed
    /\ \A c \in ClientIDs : c \in channels ~> c \in mem \cap Returned \/ c \notin channels
=============================================================================
