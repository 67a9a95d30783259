--------------------------- MODULE ServiceProofs ---------------------------
(***************************************************************************)
(* Two parts that share no state.  Presence: who is returned has called    *)
(* within the time to live and is counted, and who stays subscribed stays  *)
(* returned (Presence).  Surveys: they count answers of their own only,    *)
(* and have all of them if they end without an error (Cluster).  Each      *)
(* rests on an invariant that every step keeps.                            *)
(***************************************************************************)
EXTENDS Presence, Cluster, FiniteSetTheorems, TLAPS

\* Zenon proves what only takes logic and sets; the leaves that need more say SMT.
USE Zenon

-----------------------------------------------------------------------------
(* Presence                                                                *)

\* The clients of a user.
OfUser(S, u) == {c \in S : UserOf[c] = u}

Tables ==
    /\ hash \subseteq ClientIDs /\ ttl \in 0..TTL
    /\ heard \in [ClientIDs -> 0..TTL] /\ exp \in [ClientIDs -> 0..TTL]
    /\ users \in [Users -> Nat] /\ uexp \in [Users -> 0..TTL]

\* An entry expires when its last call is no longer good, and before the keys do; a user
\* no later than the last call of one of its clients.
Times ==
    /\ \A c \in hash : exp[c] = heard[c] /\ exp[c] <= ttl
    /\ \A u \in Users : uexp[u] # 0 =>
          \E c \in ClientIDs : UserOf[c] = u /\ uexp[u] <= heard[c]

\* A user expires no earlier than its clients, and at least those in the hash are counted.
Counts ==
    mapping => /\ \A c \in hash : exp[c] <= uexp[UserOf[c]]
               /\ \A u \in Users : Cardinality(OfUser(hash, u)) <= users[u]

PInv == Tables /\ Times /\ Counts

\* How many clients of a user are in the hash when one comes, when one goes and when some
\* go.
LEMMA HashedCount ==
    ASSUME NEW S \in SUBSET ClientIDs, NEW T \in SUBSET ClientIDs, NEW u
    PROVE  /\ Cardinality(OfUser(S, u)) \in Nat
           /\ \A c \in ClientIDs \ S :
                 Cardinality(OfUser(S \cup {c}, u)) =
                     Cardinality(OfUser(S, u)) + (IF UserOf[c] = u THEN 1 ELSE 0)
           /\ \A c \in S : UserOf[c] = u =>
                 Cardinality(OfUser(S \ {c}, u)) = Cardinality(OfUser(S, u)) - 1
           /\ T \subseteq S => Cardinality(OfUser(T, u)) <= Cardinality(OfUser(S, u))
           /\ \A c, d \in OfUser(S, u) : Cardinality(OfUser(S, u)) <= 1 => c = d
           /\ \A c \in OfUser(S, u) : 1 <= Cardinality(OfUser(S, u))
<1> DEFINE Of(X) == OfUser(X, u)
<1> USE DEF OfUser
<1>1. \A X \in SUBSET ClientIDs : IsFiniteSet(Of(X)) /\ Cardinality(Of(X)) \in Nat
  <2> TAKE X \in SUBSET ClientIDs
  <2>1. Of(X) \in SUBSET ClientIDs
    OBVIOUS
  <2>2. IsFiniteSet(Of(X))
    BY <2>1, PresenceAssumption, FS_Subset
  <2> HIDE DEF OfUser
  <2> QED BY <2>2, FS_CardinalityType
<1>2. ASSUME NEW c \in ClientIDs \ S
      PROVE  Cardinality(Of(S \cup {c})) = Cardinality(Of(S)) + (IF UserOf[c] = u THEN 1 ELSE 0)
  <2>1. CASE UserOf[c] = u
    <3>1. Of(S \cup {c}) = Of(S) \cup {c} /\ c \notin Of(S)
      BY <2>1
    <3> HIDE DEF OfUser
    <3> QED BY <1>1, <2>1, <3>1, FS_AddElement
  <2>2. CASE UserOf[c] # u
    <3>1. Of(S \cup {c}) = Of(S)
      BY <2>2
    <3> HIDE DEF OfUser
    <3> QED BY <1>1, <2>2, <3>1, SMT
  <2> QED BY <2>1, <2>2
<1>3. ASSUME NEW c \in S, UserOf[c] = u
      PROVE  /\ Cardinality(Of(S) \ {c}) = Cardinality(Of(S)) - 1
             /\ Of(S \ {c}) = Of(S) \ {c}
  <2>1. c \in Of(S)
    BY <1>3
  <2>2. Of(S \ {c}) = Of(S) \ {c}
    OBVIOUS
  <2> HIDE DEF OfUser
  <2> QED BY <1>1, <2>1, <2>2, FS_RemoveElement
<1>4. T \subseteq S => Cardinality(Of(T)) <= Cardinality(Of(S))
  <2> SUFFICES ASSUME T \subseteq S PROVE Cardinality(Of(T)) <= Cardinality(Of(S))
    OBVIOUS
  <2>1. Of(T) \in SUBSET Of(S)
    OBVIOUS
  <2> HIDE DEF OfUser
  <2> QED BY <1>1, <2>1, FS_Subset
<1>5. ASSUME NEW c \in Of(S)
      PROVE  /\ 1 <= Cardinality(Of(S))
             /\ Cardinality(Of(S)) <= 1 => Of(S) \ {c} = {}
  <2>1. /\ IsFiniteSet(Of(S)) /\ Cardinality(Of(S)) \in Nat
        /\ Cardinality(Of(S) \ {c}) = Cardinality(Of(S)) - 1
    BY <1>1, <1>3
  <2> HIDE DEF OfUser
  <2>2. IsFiniteSet(Of(S) \ {c}) /\ Cardinality(Of(S) \ {c}) \in Nat
    BY <2>1, FS_RemoveElement, FS_CardinalityType
  <2> QED BY <2>1, <2>2, FS_EmptySet, SMT
<1> HIDE DEF OfUser
<1> QED BY <1>1, <1>2, <1>3, <1>4, <1>5

\* presence_add.lua: a client that was there already is not counted again.
LEMMA AddKeeps ==
    ASSUME PInv, NEW c \in ClientIDs, AddPresence(c)
    PROVE  PInv'
<1> DEFINE u == UserOf[c]
<1>0. TTL \in Nat /\ u \in Users
  BY PresenceAssumption DEF Users
<1>1. /\ hash' = hash \cup {c} /\ mapping' = mapping /\ ttl' = TTL
      /\ exp' = [exp EXCEPT ![c] = TTL] /\ heard' = [heard EXCEPT ![c] = TTL]
      /\ mapping => /\ uexp' = [uexp EXCEPT ![u] = TTL]
                    /\ users' = IF c \in hash THEN users ELSE [users EXCEPT ![u] = @ + 1]
      /\ ~mapping => users' = users /\ uexp' = uexp
  BY DEF AddPresence, AddScript, useUserMappingArg, IsNewClient
<1> HIDE DEF u
<1>2. Tables'
  BY <1>0, <1>1, SMT DEF PInv, Tables
<1>3. Times'
  <2>1. \A d \in hash' : exp'[d] = heard'[d] /\ exp'[d] <= ttl'
    BY <1>0, <1>1, SMT DEF PInv, Tables, Times
  <2>2. ASSUME NEW v \in Users, uexp'[v] # 0
        PROVE  \E d \in ClientIDs : UserOf[d] = v /\ uexp'[v] <= heard'[d]
    <3>1. CASE v = u
      BY <1>0, <1>1, <2>2, <3>1, SMT DEF PInv, Tables, Times, u
    <3>2. CASE v # u
      BY <1>0, <1>1, <2>2, <3>2, SMT DEF PInv, Tables, Times, u
    <3> QED BY <3>1, <3>2
  <2> QED BY <2>1, <2>2 DEF Times
<1>4. Counts'
  <2> SUFFICES ASSUME mapping PROVE Counts'
    BY <1>1 DEF Counts
  <2>1. \A d \in hash' : exp'[d] <= uexp'[UserOf[d]]
    BY <1>0, <1>1, SMT DEF PInv, Tables, Counts, u, Users
  <2>2. ASSUME NEW v \in Users PROVE Cardinality(OfUser(hash', v)) <= users'[v]
    <3>1. Cardinality(OfUser(hash, v)) <= users[v] /\ users \in [Users -> Nat]
      BY DEF PInv, Tables, Counts
    <3>2. CASE c \in hash
      <4>1. hash' = hash /\ users' = users
        BY <1>1, <3>2
      <4> QED BY <3>1, <4>1
    <3>3. CASE c \notin hash
      <4>1. hash \subseteq ClientIDs /\ hash' \subseteq ClientIDs
        BY <1>2 DEF PInv, Tables
      <4>2. /\ Cardinality(OfUser(hash, v)) \in Nat
            /\ v = u => Cardinality(OfUser(hash', v)) = Cardinality(OfUser(hash, v)) + 1
            /\ v # u => Cardinality(OfUser(hash', v)) = Cardinality(OfUser(hash, v))
        <5>1. hash' = hash \cup {c} /\ UserOf[c] = u
          BY <1>1 DEF u
        <5>2. /\ Cardinality(OfUser(hash, v)) \in Nat
              /\ Cardinality(OfUser(hash \cup {c}, v)) =
                     Cardinality(OfUser(hash, v)) + (IF UserOf[c] = v THEN 1 ELSE 0)
          BY <3>3, <4>1, HashedCount
        <5> QED BY <5>1, <5>2, SMT
      <4>3. users'[v] = IF v = u THEN users[v] + 1 ELSE users[v]
        BY <1>0, <1>1, <3>1, <3>3
      <4> QED BY <3>1, <4>2, <4>3, SMT
    <3> QED BY <3>2, <3>3
  <2> QED BY <2>1, <2>2 DEF Counts
<1> QED BY <1>2, <1>3, <1>4 DEF PInv

\* presence_rem.lua: the last client of a user takes the user with it.
LEMMA RemoveKeeps ==
    ASSUME PInv, NEW c \in ClientIDs, RemovePresence(c)
    PROVE  PInv'
<1> DEFINE u == UserOf[c]
<1>0. TTL \in Nat /\ u \in Users
  BY PresenceAssumption DEF Users
<1>1. /\ hash' = hash \ {c} /\ exp' = [exp EXCEPT ![c] = 0]
      /\ UNCHANGED <<heard, mapping, ttl>>
      /\ mapping /\ c \in hash =>
            LET count == users[u] - 1
            IN  /\ users' = [users EXCEPT ![u] = IF count <= 0 THEN 0 ELSE count]
                /\ uexp' = IF count <= 0 THEN [uexp EXCEPT ![u] = 0] ELSE uexp
      /\ ~mapping \/ c \notin hash => users' = users /\ uexp' = uexp
  BY DEF RemovePresence, RemScript, useUserMappingArg, ClientExists
<1> HIDE DEF u
<1>2. /\ Tables'
      /\ \A v \in Users : uexp'[v] = uexp[v] \/ uexp'[v] = 0
      /\ \A d \in ClientIDs \ {c} : exp'[d] = exp[d]
  BY <1>0, <1>1, SMT DEF PInv, Tables
<1>3. Times'
  BY <1>1, <1>2 DEF PInv, Tables, Times
<1>4. Counts'
  <2> SUFFICES ASSUME mapping PROVE Counts'
    BY <1>1 DEF Counts
  <2>1. /\ hash \subseteq ClientIDs /\ hash' \subseteq ClientIDs
        /\ users \in [Users -> Nat] /\ uexp \in [Users -> 0..TTL]
        /\ \A d \in hash : exp[d] <= uexp[UserOf[d]]
        /\ \A v \in Users : Cardinality(OfUser(hash, v)) <= users[v]
    BY <1>2 DEF PInv, Tables, Counts
  <2>2. ASSUME NEW v \in Users PROVE Cardinality(OfUser(hash', v)) <= users'[v]
    <3>1. /\ Cardinality(OfUser(hash, v)) \in Nat
          /\ Cardinality(OfUser(hash', v)) \in Nat
          /\ Cardinality(OfUser(hash', v)) <= Cardinality(OfUser(hash, v))
          /\ c \in hash /\ v = u =>
                Cardinality(OfUser(hash', v)) = Cardinality(OfUser(hash, v)) - 1
      <4>1. hash' = hash \ {c} /\ UserOf[c] = u
        BY <1>1 DEF u
      <4>2. c \in hash /\ v = u =>
               Cardinality(OfUser(hash \ {c}, v)) = Cardinality(OfUser(hash, v)) - 1
        BY <2>1, <4>1, HashedCount
      <4>3. /\ Cardinality(OfUser(hash, v)) \in Nat
            /\ Cardinality(OfUser(hash', v)) \in Nat
            /\ hash' \subseteq hash
        BY <2>1, <4>1, HashedCount
      <4>4. Cardinality(OfUser(hash', v)) <= Cardinality(OfUser(hash, v))
        BY <2>1, <4>3, HashedCount
      <4> QED BY <4>1, <4>2, <4>3, <4>4
    <3>2. c \in hash /\ v = u =>
             users'[v] = (IF users[v] - 1 <= 0 THEN 0 ELSE users[v] - 1)
      BY <1>0, <1>1, <2>1
    <3>3. ~(c \in hash /\ v = u) => users'[v] = users[v]
      BY <1>0, <1>1, <2>1
    <3> QED BY <2>1, <3>1, <3>2, <3>3, SMT
  <2>3. ASSUME NEW d \in hash' PROVE exp'[d] <= uexp'[UserOf[d]]
    <3>1. d \in hash /\ d # c /\ UserOf[d] \in Users /\ exp'[d] = exp[d]
      BY <1>1, <1>2, <2>1 DEF Users
    <3>2. CASE UserOf[d] = u /\ c \in hash
      <4>1. c \in OfUser(hash, u) /\ d \in OfUser(hash, u)
        BY <3>1, <3>2 DEF OfUser, u
      <4>2. Cardinality(OfUser(hash, u)) \in Nat /\ ~(Cardinality(OfUser(hash, u)) <= 1)
        BY <2>1, <3>1, <4>1, HashedCount
      <4>3. ~(users[u] - 1 <= 0)
        BY <1>0, <2>1, <4>2, SMT
      <4> QED BY <1>1, <2>1, <3>1, <3>2, <4>3
    <3>3. CASE ~(UserOf[d] = u /\ c \in hash)
      BY <1>0, <1>1, <2>1, <3>1, <3>3
    <3> QED BY <3>2, <3>3
  <2> QED BY <2>2, <2>3 DEF Counts
<1> QED BY <1>2, <1>3, <1>4 DEF PInv

\* Who is returned is counted.
LEMMA ReturnedCounted ==
    ASSUME PInv, mapping, NEW c \in Returned
    PROVE  UserOf[c] \in UsersCounted
<1>1. c \in hash /\ c \in ClientIDs /\ exp[c] # 0 /\ UserOf[c] \in Users
  BY DEF PInv, Tables, Returned, Expired, Users
<1>2. uexp[UserOf[c]] # 0
  BY <1>1, SMT DEF PInv, Tables, Counts
<1>3. users[UserOf[c]] # 0
  <2>1. /\ Cardinality(OfUser(hash, UserOf[c])) <= users[UserOf[c]]
        /\ users[UserOf[c]] \in Nat /\ hash \subseteq ClientIDs
    BY <1>1 DEF PInv, Tables, Counts
  <2>2. /\ 1 <= Cardinality(OfUser(hash, UserOf[c]))
        /\ Cardinality(OfUser(hash, UserOf[c])) \in Nat
    <3>1. c \in OfUser(hash, UserOf[c])
      BY <1>1 DEF OfUser
    <3> QED BY <2>1, <3>1, HashedCount
  <2> QED BY <2>1, <2>2, SMT
<1> QED BY <1>1, <1>2, <1>3 DEF UsersCounted, UserExpired

\* The reads: they take out who has expired, and count nobody down.
LEMMA ReadsKeep ==
    ASSUME PInv, GetPresence \/ GetPresenceStats
    PROVE  PInv'
<1>1. /\ hash' = Returned /\ UNCHANGED <<heard, mapping, exp, uexp, ttl>>
      /\ hash' \subseteq hash
      /\ \/ users' = users
         \/ mapping /\ users' = [u \in Users |-> IF u \in UsersCounted THEN users[u] ELSE 0]
  BY DEF GetPresence, GetPresenceStats, Returned
<1>2. Tables' /\ Times'
  BY <1>1, SMT DEF PInv, Tables, Times
<1>3. Counts'
  <2> SUFFICES ASSUME mapping, NEW u \in Users
               PROVE  Cardinality(OfUser(hash', u)) <= users'[u]
    BY <1>1 DEF PInv, Counts
  <2>1. /\ hash \subseteq ClientIDs /\ hash' \subseteq ClientIDs /\ users[u] \in Nat
        /\ Cardinality(OfUser(hash, u)) <= users[u]
    BY <1>2 DEF PInv, Tables, Counts
  <2>2. /\ Cardinality(OfUser(hash, u)) \in Nat /\ Cardinality(OfUser(hash', u)) \in Nat
        /\ Cardinality(OfUser(hash', u)) <= Cardinality(OfUser(hash, u))
    BY <1>1, <2>1, HashedCount
  <2>3. CASE u \in UsersCounted \/ users' = users
    <3>1. users'[u] = users[u]
      BY <1>1, <2>3
    <3> QED BY <2>1, <2>2, <3>1, SMT
  <2>4. CASE u \notin UsersCounted
    <3>1. OfUser(hash', u) = {}
      BY <1>1, <2>4, ReturnedCounted, SMT DEF OfUser
    <3>2. users'[u] \in Nat
      BY <1>2 DEF Tables
    <3> QED BY <3>1, <3>2, FS_EmptySet, SMT
  <2> QED BY <1>1, <2>3, <2>4
<1> QED BY <1>2, <1>3 DEF PInv

\* A second passes, for clients, users and keys alike.
LEMMA TickKeeps ==
    ASSUME PInv, Tick
    PROVE  PInv'
<1>0. TTL \in Nat
  BY PresenceAssumption
<1>1. /\ heard' = [c \in ClientIDs |-> Less(heard[c])] /\ ttl' = Less(ttl)
      /\ exp' = [c \in ClientIDs |-> Less(exp[c])]
      /\ uexp' = [u \in Users |-> Less(uexp[u])] /\ mapping' = mapping
      /\ \/ hash' = hash /\ users' = users
         \/ hash' = {} /\ users' = [u \in Users |-> 0]
  BY DEF Tick
<1>2. Tables'
  BY <1>0, <1>1, SMT DEF PInv, Tables, Less
<1>3. Times'
  <2>1. \A c \in hash' : exp'[c] = heard'[c] /\ exp'[c] <= ttl'
    BY <1>0, <1>1, SMT DEF PInv, Tables, Times, Less
  <2>2. ASSUME NEW u \in Users, uexp'[u] # 0
        PROVE  \E c \in ClientIDs : UserOf[c] = u /\ uexp'[u] <= heard'[c]
    <3>1. uexp[u] \in 0..TTL /\ uexp'[u] = uexp[u] - 1 /\ uexp[u] # 0
      BY <1>0, <1>1, <2>2 DEF PInv, Tables, Less
    <3>2. PICK c \in ClientIDs : UserOf[c] = u /\ uexp[u] <= heard[c]
      BY <3>1 DEF PInv, Times
    <3>3. heard[c] \in 0..TTL /\ heard'[c] = Less(heard[c])
      BY <1>1 DEF PInv, Tables
    <3>4. uexp'[u] <= heard'[c]
      BY <1>0, <3>1, <3>2, <3>3, SMT DEF Less
    <3> QED BY <3>2, <3>4
  <2> QED BY <2>1, <2>2 DEF Times
<1>4. Counts'
  <2> SUFFICES ASSUME mapping PROVE Counts'
    BY <1>1 DEF Counts
  <2>1. CASE hash' = hash /\ users' = users
    <3>1. ASSUME NEW c \in hash PROVE exp'[c] <= uexp'[UserOf[c]]
      <4>1. /\ c \in ClientIDs /\ UserOf[c] \in Users
            /\ exp[c] \in 0..TTL /\ uexp[UserOf[c]] \in 0..TTL
            /\ exp[c] <= uexp[UserOf[c]]
        BY DEF PInv, Tables, Counts, Users
      <4> QED BY <1>0, <1>1, <4>1, SMT DEF Less
    <3> QED BY <2>1, <3>1 DEF PInv, Counts
  <2>2. CASE hash' = {} /\ users' = [u \in Users |-> 0]
    <3>1. \A u \in Users : OfUser(hash', u) = {}
      BY <2>2 DEF OfUser
    <3> QED BY <2>2, <3>1, FS_EmptySet, SMT DEF Counts
  <2> QED BY <1>1, <2>1, <2>2
<1> QED BY <1>2, <1>3, <1>4 DEF PInv

\* The steps of the clients that reach neither manager nor clock change no table.
LEMMA QuietKeeps ==
    ASSUME PInv, UNCHANGED <<heard, redis>>
    PROVE  PInv'
<1>1. UNCHANGED <<heard, mapping, hash, exp, users, uexp, ttl>>
  BY DEF redis
<1> QED BY <1>1 DEF PInv, Tables, Times, Counts, OfUser

LEMMA PInvInductive == PInv /\ [PNext]_pvars => PInv'
<1> SUFFICES ASSUME PInv, [PNext]_pvars PROVE PInv'
  OBVIOUS
<1>1. CASE GetPresence \/ GetPresenceStats
  BY <1>1, ReadsKeep
<1>2. CASE Tick
  BY <1>2, TickKeeps
<1>3. ASSUME NEW c \in ClientIDs, SubscribeAdds(c) \/ UpdateAdds(c) PROVE PInv'
  BY <1>3, AddKeeps DEF SubscribeAdds, UpdateAdds
<1>4. ASSUME NEW c \in ClientIDs, UnsubscribeRemoves(c) PROVE PInv'
  BY <1>4, RemoveKeeps DEF UnsubscribeRemoves
<1>5. ASSUME NEW c \in ClientIDs,
             \/ SubscribeDone(c) \/ HistoryFails(c) \/ UpdateLooksUp(c)
             \/ UnsubscribeDeletes(c) \/ Crash(c)
      PROVE  PInv'
  BY <1>5, QuietKeeps DEF SubscribeDone, HistoryFails, UpdateLooksUp, UnsubscribeDeletes, Crash
<1>6. CASE UNCHANGED pvars
  BY <1>6, QuietKeeps DEF pvars
<1> QED BY <1>1, <1>2, <1>3, <1>4, <1>5, <1>6 DEF PNext

\* Whatever clients, reads and time do to the tables of a channel's presence, an entry
\* is as old as its client's last call and a user counts its entries at least.
THEOREM PresenceTheorem == PSpec => []PInv
<1>1. PInit => PInv
  <2> SUFFICES ASSUME PInit PROVE PInv
    OBVIOUS
  <2>1. Tables /\ Times
    BY PresenceAssumption, SMT DEF PInit, Tables, Times
  <2>2. \A u \in Users : OfUser(hash, u) = {} /\ users[u] = 0
    BY DEF PInit, OfUser
  <2>3. Counts
    BY <2>2, FS_EmptySet, SMT DEF PInit, Counts
  <2> QED BY <2>1, <2>3 DEF PInv
<1> QED BY <1>1, PInvInductive, PTL DEF PSpec

\* Who failed to subscribe, crashed or was added after leaving is returned, and its user
\* counted, no longer than the time to live.
THEOREM GhostsTheorem == PSpec => []GhostsExpire
<1>1. PInv => GhostsExpire
  <2> SUFFICES ASSUME PInv PROVE GhostsExpire
    OBVIOUS
  <2>1. \A c \in Returned : heard[c] > 0
    BY PresenceAssumption, SMT DEF PInv, Tables, Times, Returned, Expired
  <2>2. ASSUME NEW u \in UsersCounted
        PROVE  \E c \in ClientIDs : UserOf[c] = u /\ heard[c] > 0
    <3>1. u \in Users /\ uexp[u] # 0 /\ uexp[u] \in 0..TTL
      BY DEF UsersCounted, UserExpired, PInv, Tables
    <3>2. PICK c \in ClientIDs : UserOf[c] = u /\ uexp[u] <= heard[c]
      BY <3>1 DEF PInv, Times
    <3>3. heard[c] \in 0..TTL
      BY DEF PInv, Tables
    <3> QED BY PresenceAssumption, <3>1, <3>2, <3>3, SMT
  <2> QED BY <2>1, <2>2 DEF GhostsExpire
<1> QED BY <1>1, PresenceTheorem, PTL

\* The count of users misses nobody who is returned, though the scripts count up only for
\* new clients, down on removal, and not at all when entries expire.
THEOREM NoUserMissedTheorem == PSpec => []NoUserMissed
<1>1. PInv => NoUserMissed
  BY ReturnedCounted DEF NoUserMissed
<1> QED BY <1>1, PresenceTheorem, PTL

\* Neither the passing of time nor a read, nor what other clients do, takes a client that
\* stays subscribed out of what is returned.
THEOREM KeptTheorem == PSpec => KeptWhileSubscribed
<1> DEFINE Kept == \A c \in ClientIDs :
               c \in channels \cap Returned /\ c \notin leaving /\ c \in channels' => c \in Returned'
<1>1. PInv /\ [PNext]_pvars => [Kept]_pvars
  <2> SUFFICES ASSUME PInv, PNext, NEW c \in ClientIDs,
                      c \in channels, c \in Returned, c \notin leaving, c \in channels'
               PROVE  c \in hash' /\ exp'[c] # 0
    BY DEF Returned, Expired
  <2>0. /\ c \in hash /\ exp[c] # 0 /\ exp \in [ClientIDs -> 0..TTL] /\ TTL \in Nat \ {0}
        /\ heard \in [ClientIDs -> 0..TTL] /\ ttl \in 0..TTL
        /\ exp[c] = heard[c] /\ exp[c] <= ttl
    BY PresenceAssumption, SMT DEF Returned, Expired, PInv, Tables, Times
  <2>1. CASE GetPresence \/ GetPresenceStats
    BY <2>0, <2>1 DEF GetPresence, GetPresenceStats
  <2>2. CASE Tick
    <3>1. heard[c] > 1
      BY <2>0, <2>2, PresenceAssumption, SMT DEF Tick
    <3> QED BY <2>0, <2>2, <3>1, SMT DEF Tick, Less
  <2>3. ASSUME NEW d \in ClientIDs, SubscribeAdds(d) \/ UpdateAdds(d)
        PROVE  c \in hash' /\ exp'[c] # 0
    BY <2>0, <2>3 DEF SubscribeAdds, UpdateAdds, AddPresence, AddScript
  <2>4. ASSUME NEW d \in ClientIDs, UnsubscribeRemoves(d)
        PROVE  c \in hash' /\ exp'[c] # 0
    BY <2>0, <2>4 DEF UnsubscribeRemoves, RemovePresence, RemScript
  <2>5. ASSUME NEW d \in ClientIDs,
               \/ SubscribeDone(d) \/ HistoryFails(d) \/ UpdateLooksUp(d)
               \/ UnsubscribeDeletes(d) \/ Crash(d)
        PROVE  c \in hash' /\ exp'[c] # 0
    BY <2>0, <2>5
       DEF SubscribeDone, HistoryFails, UpdateLooksUp, UnsubscribeDeletes, Crash, redis
  <2> QED BY <2>1, <2>2, <2>3, <2>4, <2>5 DEF PNext
<1> QED BY <1>1, PresenceTheorem, PTL DEF PSpec, KeptWhileSubscribed

-----------------------------------------------------------------------------
(* Surveys                                                                 *)

Answers == [from : Nodes, id : Nat]
Surveys == [id : Nat, stage : {"idle", "counted", "collect", "done"}, num : Nat,
            known : SUBSET Nodes, to : SUBSET Nodes, chan : SUBSET Answers,
            results : SUBSET Answers, local : BOOLEAN, err : BOOLEAN]
Messages == [kind : {"node", "shutdown", "request", "response"}, from : Nodes, to : Nodes, id : Nat]

SurveyTypes ==
    /\ status \in [Nodes -> {"new", "up", "stopping", "down"}]
    /\ nodes \in [Nodes -> SUBSET Nodes]
    /\ survey \in [Nodes -> Surveys]
    /\ msgs \subseteq Messages
    /\ asked \subseteq Messages /\ \A r \in asked : r.kind = "request"

\* The node n asks, and a node t is asked, by survey id.
Fits(n, t, id) ==
    /\ id <= survey[n].id
    /\ id = survey[n].id /\ survey[n].stage \in {"collect", "done"} => t \in survey[n].to

\* Requests and responses under way are of surveys a node has made, and those of the one it
\* makes go to or come from a node it has asked.
MessagesFit ==
    /\ \A m \in msgs \cup asked :
          m.kind = "request" /\ status[m.from] # "down" => Fits(m.from, m.to, m.id)
    /\ \A m \in msgs : m.kind = "response" => Fits(m.to, m.from, m.id)

\* The answers of a survey have its id and come from nodes asked.  There is one of as many
\* nodes as were known when it ends without an error.
AnswersFit(n, s) ==
    /\ s.stage \in {"idle", "counted"} => s.chan = {} /\ s.results = {}
    /\ \A x \in s.chan \cup s.results : x.id = s.id /\ x.from \in s.to
    /\ s.stage # "idle" => s.num = Cardinality(s.known)
    /\ s.local => n \in s.to
    /\ s.stage = "done" /\ ~s.err => Cardinality(s.results) = s.num

SurveyInv == SurveyTypes /\ MessagesFit /\ \A n \in Nodes : AnswersFit(n, survey[n])

\* What publishControl puts on its way.
LEMMA ControlSends ==
    ASSUME NEW kind \in {"node", "shutdown", "request", "response"}, NEW n \in Nodes, NEW to,
           NEW id \in Nat, NEW x \in Control(kind, n, to, id)
    PROVE  /\ x \in Messages /\ x.kind = kind /\ x.from = n /\ x.id = id
           /\ x.to \in to /\ x.to \in Listening
  BY SMT DEF Control, Listening, Messages

\* The steps of members: nobody comes back that was down, and neither requests nor responses
\* are sent.
LEMMA MembersKeep ==
    ASSUME SurveyInv, UNCHANGED <<survey, asked>>,
           status' \in [Nodes -> {"new", "up", "stopping", "down"}],
           \A n \in Nodes : status[n] = "down" => status'[n] = "down",
           nodes' \in [Nodes -> SUBSET Nodes],
           msgs' \subseteq Messages,
           \A m \in msgs' \ msgs : m.kind \in {"node", "shutdown"}
    PROVE  SurveyInv'
<1>1. SurveyTypes'
  BY DEF SurveyInv, SurveyTypes
<1>2. MessagesFit'
  BY DEF SurveyInv, SurveyTypes, Messages, MessagesFit, Fits
<1>3. \A n \in Nodes : AnswersFit(n, survey'[n])
  BY DEF SurveyInv
<1> QED BY <1>1, <1>2, <1>3 DEF SurveyInv, AnswersFit

\* The steps of a survey: it goes on with the nodes it has asked, or makes way for a later
\* one; requests are sent with its new id.
LEMMA SurveyKeeps ==
    ASSUME SurveyInv, UNCHANGED <<status, nodes, asked>>,
           NEW n \in Nodes, survey' \in [Nodes -> Surveys],
           \A k \in Nodes \ {n} : survey'[k] = survey[k],
           AnswersFit(n, survey'[n]), survey[n].id <= survey'[n].id,
           survey'[n].id = survey[n].id /\ survey'[n].stage \in {"collect", "done"} =>
               survey[n].stage \in {"collect", "done"} /\ survey'[n].to = survey[n].to,
           msgs' \subseteq Messages,
           \A m \in msgs' \ msgs : /\ m.kind = "request" /\ m.from = n
                                   /\ m.id = survey'[n].id /\ m.to \in survey'[n].to
    PROVE  SurveyInv'
<1>1. SurveyTypes'
  BY DEF SurveyInv, SurveyTypes
<1>2. survey[n].id \in Nat /\ survey'[n].id \in Nat
  BY DEF SurveyInv, SurveyTypes, Surveys
<1>3. ASSUME NEW k \in Nodes, NEW t, NEW id \in Nat, Fits(k, t, id)
      PROVE  Fits(k, t, id)'
  BY <1>2, <1>3, SMT DEF Fits
<1>4. MessagesFit'
  <2>1. ASSUME NEW m \in msgs' \cup asked', m.kind = "request", status'[m.from] # "down"
        PROVE  Fits(m.from, m.to, m.id)'
    <3>1. m.from \in Nodes /\ m.id \in Nat
      BY <1>1, <2>1 DEF SurveyTypes, Messages
    <3>2. CASE m \in msgs \cup asked
      <4>1. Fits(m.from, m.to, m.id)
        BY <2>1, <3>2 DEF SurveyInv, MessagesFit
      <4> QED BY <1>3, <3>1, <4>1
    <3>3. CASE m \in msgs' \ msgs
      BY <1>2, <3>3, SMT DEF Fits
    <3> QED BY <3>2, <3>3
  <2>2. ASSUME NEW m \in msgs', m.kind = "response"
        PROVE  Fits(m.to, m.from, m.id)'
    <3>1. m.to \in Nodes /\ m.id \in Nat /\ m \in msgs
      BY <2>2 DEF SurveyTypes, Messages
    <3>2. Fits(m.to, m.from, m.id)
      BY <2>2, <3>1 DEF SurveyInv, MessagesFit
    <3> QED BY <1>3, <3>1, <3>2
  <2> QED BY <2>1, <2>2 DEF MessagesFit
<1>5. \A k \in Nodes : AnswersFit(k, survey'[k])
  BY <1>2 DEF SurveyInv
<1> QED BY <1>1, <1>4, <1>5 DEF SurveyInv, AnswersFit

\* Joining, pings, cleaning, the messages about them and the beginning of a shutdown.
LEMMA MemberSteps ==
    ASSUME SurveyInv,
           \/ \E n \in Nodes : Run(n) \/ SendNodePing(n) \/ CleanNodeInfo(n) \/ Shutdown(n)
           \/ \E m \in msgs : NodeCmd(m) \/ ShutdownCmd(m) \/ Lose(m)
    PROVE  SurveyInv'
<1> USE DEF PubNode
<1>0. /\ status \in [Nodes -> {"new", "up", "stopping", "down"}]
      /\ nodes \in [Nodes -> SUBSET Nodes] /\ msgs \subseteq Messages
  BY DEF SurveyInv, SurveyTypes
<1>1. ASSUME NEW n \in Nodes, Run(n) PROVE SurveyInv'
  BY <1>0, <1>1, ControlSends, MembersKeep, SMT DEF Run
<1>2. ASSUME NEW n \in Nodes, SendNodePing(n) PROVE SurveyInv'
  BY <1>0, <1>2, ControlSends, MembersKeep, SMT DEF SendNodePing
<1>3. ASSUME NEW n \in Nodes, CleanNodeInfo(n) PROVE SurveyInv'
  BY <1>0, <1>3, MembersKeep DEF CleanNodeInfo
<1>4. ASSUME NEW n \in Nodes, Shutdown(n) PROVE SurveyInv'
  BY <1>0, <1>4, ControlSends, MembersKeep, SMT DEF Shutdown
<1>5. ASSUME NEW m \in msgs, NodeCmd(m) \/ ShutdownCmd(m) \/ Lose(m) PROVE SurveyInv'
  <2>1. m.from \in Nodes /\ m.to \in Nodes
    BY <1>0 DEF Messages
  <2>2. UNCHANGED <<survey, asked, status>> /\ nodes' \in [Nodes -> SUBSET Nodes]
    BY <1>0, <1>5, <2>1, SMT DEF NodeCmd, ShutdownCmd, Lose, RegistryAdd, RegistryRemove
  <2>3. msgs' \subseteq msgs \cup Control("node", m.to, {m.from}, 0)
    BY <1>5 DEF NodeCmd, ShutdownCmd, Lose
  <2> QED BY <1>0, <2>1, <2>2, <2>3, ControlSends, MembersKeep, SMT
<1> QED BY <1>1, <1>2, <1>3, <1>4, <1>5

\* The broker of a node is closed, or the node dies.
LEMMA StopKeeps ==
    ASSUME SurveyInv, NEW n \in Nodes, Stop(n)
    PROVE  SurveyInv'
<1>1. /\ status' = [status EXCEPT ![n] = "down"] /\ nodes' = [nodes EXCEPT ![n] = {}]
      /\ msgs' = {m \in msgs : m.to # n} /\ asked' = {r \in asked : r.to # n}
      /\ survey' = [survey EXCEPT ![n] = NoSurvey]
  BY DEF Stop, Gone
<1>2. NoSurvey \in Surveys
  BY DEF NoSurvey, Surveys
<1>3. SurveyTypes'
  BY <1>1, <1>2 DEF SurveyInv, SurveyTypes
<1>4. MessagesFit'
  BY <1>1 DEF SurveyInv, SurveyTypes, Messages, MessagesFit, Fits
<1>5. AnswersFit(n, NoSurvey)
  BY DEF AnswersFit, NoSurvey
<1>6. \A k \in Nodes : AnswersFit(k, survey'[k])
  BY <1>1, <1>5 DEF SurveyInv, SurveyTypes
<1> QED BY <1>3, <1>4, <1>6 DEF SurveyInv, AnswersFit

\* Requests and their answers on the nodes asked.
LEMMA RequestSteps ==
    ASSUME SurveyInv,
           \/ \E m \in msgs : HandleSurveyRequest(m)
           \/ \E r \in asked : SurveyReply(r)
    PROVE  SurveyInv'
<1>1. UNCHANGED <<survey, status, nodes>>
  BY DEF HandleSurveyRequest, SurveyReply, members
<1>2. ASSUME NEW m \in msgs, HandleSurveyRequest(m) PROVE SurveyInv'
  <2>1. m.kind = "request" /\ msgs' = msgs \ {m} /\ asked' = asked \cup {m}
    BY <1>2 DEF HandleSurveyRequest
  <2>2. SurveyTypes' /\ MessagesFit'
    BY <1>1, <2>1 DEF SurveyInv, SurveyTypes, MessagesFit, Fits
  <2> QED BY <1>1, <2>2 DEF SurveyInv, AnswersFit
<1>3. ASSUME NEW r \in asked, SurveyReply(r) PROVE SurveyInv'
  <2>1. /\ asked' = asked \ {r}
        /\ msgs' = msgs \cup Control("response", r.to, {r.from}, r.id)
    BY <1>3 DEF SurveyReply
  <2>2. r.to \in Nodes /\ r.from \in Nodes /\ r.id \in Nat /\ r.kind = "request"
    BY DEF SurveyInv, SurveyTypes, Messages
  <2>3. ASSUME NEW m \in msgs' \ msgs
        PROVE  /\ m \in Messages /\ m.kind = "response"
               /\ Fits(m.to, m.from, m.id)
    <3>1. /\ m \in Messages /\ m.kind = "response" /\ m.from = r.to /\ m.id = r.id
          /\ m.to = r.from /\ m.to \in Listening
      BY <2>1, <2>2, ControlSends, SMT
    <3> QED BY <2>2, <3>1 DEF SurveyInv, MessagesFit, Listening
  <2>4. SurveyTypes' /\ MessagesFit'
    BY <1>1, <2>1, <2>3 DEF SurveyInv, SurveyTypes, MessagesFit, Fits
  <2> QED BY <1>1, <2>4 DEF SurveyInv, AnswersFit
<1> QED BY <1>2, <1>3

\* A survey begins: it counts the nodes it knows.
LEMMA CountKeeps ==
    ASSUME SurveyInv, NEW n \in Nodes, NEW to \in SUBSET Nodes, SurveyCount(n, to)
    PROVE  SurveyInv'
<1> DEFINE known == IF to = {} THEN nodes[n] ELSE to
           s == [NoSurvey EXCEPT !.id = survey[n].id, !.stage = "counted", !.known = known,
                     !.num = Cardinality(known), !.to = IF to = {} THEN Nodes ELSE to]
<1>1. known \in SUBSET Nodes
  BY DEF SurveyInv, SurveyTypes
<1>2. Cardinality(known) \in Nat
  <2> HIDE DEF known
  <2> QED BY <1>1, ClusterAssumption, FS_Subset, FS_CardinalityType
<1>3. /\ survey' = [survey EXCEPT ![n] = s]
      /\ UNCHANGED <<status, nodes, msgs, asked>>
  BY DEF SurveyCount, members
<1> HIDE DEF known
<1>4. survey[n].id \in Nat /\ msgs \subseteq Messages /\ survey \in [Nodes -> Surveys]
  BY DEF SurveyInv, SurveyTypes, Surveys
<1>5. /\ s \in Surveys /\ s.id = survey[n].id /\ s.stage = "counted" /\ s.chan = {}
      /\ s.results = {} /\ ~s.local /\ s.num = Cardinality(s.known)
  BY <1>1, <1>2, <1>4 DEF NoSurvey, Surveys
<1> HIDE DEF s
<1>6. AnswersFit(n, s)
  BY <1>5 DEF AnswersFit
<1>7. survey' \in [Nodes -> Surveys] /\ survey'[n] = s /\ \A k \in Nodes \ {n} : survey'[k] = survey[k]
  BY <1>3, <1>4, <1>5
<1> QED BY <1>3, <1>4, <1>5, <1>6, <1>7, SurveyKeeps, SMT

\* The survey has its id from here on, which no message under way bears yet.
LEMMA AskKeeps ==
    ASSUME SurveyInv, NEW n \in Nodes, SurveyAsk(n)
    PROVE  SurveyInv'
<1> DEFINE s == survey[n]
           new == survey'[n]
           requests == IF s.known = {n} THEN {} ELSE Control("request", n, s.to, s.id + 1)
           to == {m.to : m \in requests} \cup (s.to \cap {n})
<1>1. s.stage = "counted" /\ msgs' = msgs \cup requests /\ UNCHANGED <<status, nodes, asked>>
  BY DEF SurveyAsk, members
<1>2. /\ s \in Surveys /\ AnswersFit(n, s) /\ msgs \subseteq Messages
      /\ survey \in [Nodes -> Surveys]
  BY DEF SurveyInv, SurveyTypes
<1>3. s.id + 1 \in Nat /\ s.to \in SUBSET Nodes
  BY <1>2, SMT DEF Surveys
<1>4. \A m \in requests : m \in Messages /\ m.kind = "request" /\ m.from = n /\ m.id = s.id + 1
                            /\ m.to \in s.to /\ m.to \in to
  BY <1>3, ControlSends, SMT
<1>5. \E b \in BOOLEAN :
         /\ survey' = [survey EXCEPT ![n].stage = "collect", ![n].id = @ + 1, ![n].local = b,
                                    ![n].to = to]
         /\ b => n \in s.to
  <2>1. (n \in s.to) \in BOOLEAN
    <3> HIDE DEF s, requests, to
    <3> QED BY SMT
  <2> QED BY <2>1 DEF SurveyAsk
<1> HIDE DEF requests
<1>6. to \in SUBSET Nodes /\ (n \in s.to => n \in to)
  BY <1>3, <1>4
<1> HIDE DEF to
<1>7. /\ survey' \in [Nodes -> Surveys] /\ \A k \in Nodes \ {n} : survey'[k] = survey[k]
      /\ new.id = s.id + 1 /\ new.stage = "collect" /\ new.to = to
      /\ new.chan = s.chan /\ new.results = s.results /\ new.num = s.num /\ new.known = s.known
      /\ new.local => n \in s.to
  BY <1>2, <1>3, <1>5, <1>6, SMT DEF Surveys
<1> HIDE DEF s, new
<1>8. AnswersFit(n, new)
  BY <1>1, <1>2, <1>6, <1>7 DEF AnswersFit
<1>9. s.id <= new.id /\ new.id # s.id
  BY <1>3, <1>2, <1>7, SMT DEF Surveys
<1> QED BY <1>1, <1>2, <1>4, <1>7, <1>8, <1>9, SurveyKeeps DEF s, new

\* A survey that could not ask, or has returned.
LEMMA EndKeeps ==
    ASSUME SurveyInv, NEW n \in Nodes, SurveyAskFails(n) \/ SurveyReturn(n)
    PROVE  SurveyInv'
<1>1. survey[n].id \in Nat /\ msgs \subseteq Messages /\ survey \in [Nodes -> Surveys]
  BY DEF SurveyInv, SurveyTypes, Surveys
<1>2. PICK id \in {survey[n].id, survey[n].id + 1} :
         /\ survey' = [survey EXCEPT ![n] = [NoSurvey EXCEPT !.id = id]]
         /\ UNCHANGED <<status, nodes, msgs, asked>>
  BY DEF SurveyAskFails, SurveyReturn, members
<1> DEFINE s == [NoSurvey EXCEPT !.id = id]
<1>0. id \in Nat
  BY <1>1, SMT
<1>3. /\ s \in Surveys /\ s.id = id /\ s.stage = "idle" /\ s.chan = {} /\ s.results = {}
      /\ ~s.local
  BY <1>0 DEF NoSurvey, Surveys
<1>4. survey[n].id <= s.id
  BY <1>1, <1>3, SMT
<1> HIDE DEF s
<1>5. AnswersFit(n, s)
  BY <1>3 DEF AnswersFit
<1>6. survey' \in [Nodes -> Surveys] /\ survey'[n] = s /\ \A k \in Nodes \ {n} : survey'[k] = survey[k]
  BY <1>1, <1>2, <1>3 DEF s
<1> QED BY <1>1, <1>2, <1>3, <1>4, <1>5, <1>6, SurveyKeeps

\* A survey goes on: it takes answers with its id from nodes asked, and is done when there are
\* enough of them or it has waited too long.
LEMMA AnswersKeep ==
    ASSUME SurveyInv, NEW n \in Nodes, UNCHANGED <<status, nodes, asked>>, msgs' \subseteq msgs,
           survey' \in [Nodes -> Surveys],
           \A k \in Nodes \ {n} : survey'[k] = survey[k],
           survey[n].stage \in {"collect", "done"}, survey'[n].stage \in {"collect", "done"},
           survey'[n].id = survey[n].id, survey'[n].to = survey[n].to,
           survey'[n].num = survey[n].num, survey'[n].known = survey[n].known,
           survey'[n].local => survey[n].local,
           \A x \in survey'[n].chan \cup survey'[n].results :
               \/ x \in survey[n].chan \cup survey[n].results
               \/ x.id = survey[n].id /\ x.from \in survey[n].to,
           survey'[n].stage = "done" /\ ~survey'[n].err =>
               Cardinality(survey'[n].results) = survey[n].num
    PROVE  SurveyInv'
<1>1. /\ AnswersFit(n, survey[n]) /\ msgs \subseteq Messages
      /\ survey[n].id \in Nat
  BY DEF SurveyInv, SurveyTypes, Surveys
<1>2. AnswersFit(n, survey'[n])
  BY <1>1 DEF AnswersFit
<1> QED BY <1>1, <1>2, SurveyKeeps, SMT

LEMMA AnswerSteps ==
    ASSUME SurveyInv,
           \/ \E m \in msgs : HandleSurveyResponse(m)
           \/ \E n \in Nodes : LocalReply(n) \/ Collect(n) \/ SurveyTimeout(n)
    PROVE  SurveyInv'
<1>a. UNCHANGED <<status, nodes, asked>> /\ (msgs' = msgs \/ \E m \in msgs : msgs' = msgs \ {m})
  BY DEF HandleSurveyResponse, LocalReply, Collect, SurveyTimeout, members
<1>0. /\ msgs \subseteq Messages /\ survey \in [Nodes -> Surveys]
      /\ UNCHANGED <<status, nodes, asked>> /\ msgs' \subseteq msgs
  BY <1>a DEF SurveyInv, SurveyTypes
<1>1. ASSUME NEW m \in msgs, HandleSurveyResponse(m) PROVE SurveyInv'
  <2> DEFINE n == m.to
             s == survey[n]
             x == [from |-> m.from, id |-> m.id]
  <2>1. /\ m.kind = "response" /\ n \in Nodes /\ m.from \in Nodes /\ m.id \in Nat
        /\ s \in Surveys /\ AnswersFit(n, s)
    BY <1>0, <1>1 DEF HandleSurveyResponse, Messages, SurveyInv
  <2>2. CASE survey' = survey
    BY <1>0, <2>1, <2>2, MembersKeep DEF SurveyInv, SurveyTypes
  <2>3. CASE /\ Registered(s, m.id)
             /\ survey' = [survey EXCEPT ![n].chan = @ \cup {x}]
    <3>1. s.stage \in {"collect", "done"} /\ s.id = m.id /\ m.from \in s.to
      BY <2>1, <2>3 DEF Registered, SurveyInv, MessagesFit, Fits
    <3>2. x \in Answers /\ x.id = s.id /\ x.from \in s.to
      BY <2>1, <3>1 DEF Answers
    <3> HIDE DEF x
    <3>3. /\ survey' \in [Nodes -> Surveys] /\ \A k \in Nodes \ {n} : survey'[k] = survey[k]
          /\ survey'[n].stage = s.stage /\ survey'[n].id = s.id /\ survey'[n].to = s.to
          /\ survey'[n].num = s.num /\ survey'[n].known = s.known
          /\ survey'[n].chan = s.chan \cup {x} /\ survey'[n].results = s.results
          /\ (survey'[n].local <=> s.local) /\ (survey'[n].err <=> s.err)
      BY <1>0, <2>1, <2>3, <3>2 DEF Surveys
    <3> QED BY <1>0, <2>1, <3>1, <3>2, <3>3, AnswersKeep, SMT DEF AnswersFit
  <2> QED BY <1>1, <2>2, <2>3 DEF HandleSurveyResponse
<1>2. ASSUME NEW n \in Nodes, LocalReply(n) PROVE SurveyInv'
  <2> DEFINE s == survey[n]
             x == [from |-> n, id |-> s.id]
  <2>1. /\ s \in Surveys /\ AnswersFit(n, s) /\ s.stage \in {"collect", "done"} /\ s.local
        /\ survey' = [survey EXCEPT ![n].local = FALSE, ![n].chan = @ \cup {x}]
    BY <1>0, <1>2 DEF LocalReply, SurveyInv
  <2>2. x \in Answers /\ x.id = s.id /\ x.from \in s.to
    BY <2>1 DEF Answers, Surveys, AnswersFit
  <2> HIDE DEF x
  <2>3. /\ survey' \in [Nodes -> Surveys] /\ \A k \in Nodes \ {n} : survey'[k] = survey[k]
        /\ survey'[n].stage = s.stage /\ survey'[n].id = s.id /\ survey'[n].to = s.to
        /\ survey'[n].num = s.num /\ survey'[n].known = s.known
        /\ survey'[n].chan = s.chan \cup {x} /\ survey'[n].results = s.results
        /\ ~survey'[n].local /\ (survey'[n].err <=> s.err)
    BY <1>0, <2>1, <2>2 DEF Surveys
  <2> QED BY <1>0, <2>1, <2>2, <2>3, AnswersKeep, SMT DEF AnswersFit
<1>3. ASSUME NEW n \in Nodes, Collect(n) PROVE SurveyInv'
  <2> DEFINE s == survey[n]
             End(x) == IF Cardinality(s.results \cup {x}) = s.num THEN "done" ELSE "collect"
  <2>0. s.stage = "collect"
    BY <1>3 DEF Collect
  <2>1. s \in Surveys /\ AnswersFit(n, s) /\ s.stage = "collect"
    BY <1>0, <2>0 DEF SurveyInv
  <2>2. PICK x \in s.chan :
              survey' = [survey EXCEPT ![n].chan = @ \ {x}, ![n].results = s.results \cup {x},
                                       ![n].stage = End(x)]
    BY <1>3 DEF Collect
  <2>3. /\ End(x) \in {"collect", "done"}
        /\ End(x) = "done" => Cardinality(s.results \cup {x}) = s.num
        /\ s.chan \ {x} \in SUBSET Answers /\ s.results \cup {x} \in SUBSET Answers
    BY <2>1 DEF Surveys
  <2> HIDE DEF End
  <2>4. /\ survey' \in [Nodes -> Surveys] /\ \A k \in Nodes \ {n} : survey'[k] = survey[k]
        /\ survey'[n].local <=> s.local
    BY <1>0, <2>1, <2>2, <2>3 DEF Surveys
  <2>5. /\ survey'[n].stage = End(x) /\ survey'[n].id = s.id /\ survey'[n].to = s.to
        /\ survey'[n].num = s.num /\ survey'[n].known = s.known
        /\ survey'[n].chan = s.chan \ {x} /\ survey'[n].results = s.results \cup {x}
    BY <1>0, <2>1, <2>2 DEF Surveys
  <2>6. survey'[n].chan \cup survey'[n].results \subseteq s.chan \cup s.results
    BY <2>2, <2>5
  <2> QED BY <1>0, <2>1, <2>3, <2>4, <2>5, <2>6, AnswersKeep
<1>4. ASSUME NEW n \in Nodes, SurveyTimeout(n) PROVE SurveyInv'
  <2> DEFINE s == survey[n]
  <2>1. /\ s \in Surveys /\ s.stage = "collect"
        /\ survey' = [survey EXCEPT ![n].stage = "done", ![n].err = TRUE]
    BY <1>0, <1>4 DEF SurveyTimeout
  <2>2. /\ survey' \in [Nodes -> Surveys] /\ \A k \in Nodes \ {n} : survey'[k] = survey[k]
        /\ survey'[n].stage = "done" /\ survey'[n].id = s.id /\ survey'[n].to = s.to
        /\ survey'[n].num = s.num /\ survey'[n].known = s.known
        /\ survey'[n].chan = s.chan /\ survey'[n].results = s.results
        /\ (survey'[n].local <=> s.local) /\ survey'[n].err
    BY <1>0, <2>1 DEF Surveys
  <2> QED BY <1>0, <2>1, <2>2, AnswersKeep
<1> QED BY <1>1, <1>2, <1>3, <1>4

\* As many answers with one id as nodes are known, all from nodes known: all of them.
LEMMA OneOfEach ==
    ASSUME NEW s \in Surveys, NEW n, AnswersFit(n, s), s.to = s.known, s.num = Cardinality(s.known),
           Cardinality(s.results) = s.num
    PROVE  {x.from : x \in s.results} = s.known
<1> DEFINE f == [x \in s.results |-> x.from]
<1>1. s.known \in SUBSET Nodes /\ s.results \in SUBSET Answers
  BY DEF Surveys
<1>2. IsFiniteSet(s.known)
  BY <1>1, ClusterAssumption, FS_Subset
<1>3. \A x \in s.results : x.from \in s.known /\ x.id = s.id /\ x \in Answers
  BY <1>1 DEF AnswersFit
<1>4. f \in Injection(s.results, s.known)
  BY <1>3, SMT DEF Injection, IsInjective, Answers
<1> HIDE DEF f
<1>5. f \in Surjection(s.results, s.known)
  BY <1>2, <1>4, FS_Injection
<1>6. \A k \in s.known : \E x \in s.results : k = f[x]
  BY <1>5 DEF Surjection
<1> QED BY <1>3, <1>6 DEF f

\* Whatever becomes of messages and nodes, a survey counts answers of its own id only, and
\* one that ends without an error, having asked the nodes it knew of, has an answer of each.
THEOREM SurveyTheorem == ClusterSpec => []SurveyIsExact
<1>1. ClusterInit => SurveyInv
  <2> SUFFICES ASSUME ClusterInit PROVE SurveyInv
    OBVIOUS
  <2>1. NoSurvey \in Surveys
    BY DEF NoSurvey, Surveys
  <2>2. \A n \in Nodes : AnswersFit(n, NoSurvey)
    BY DEF NoSurvey, AnswersFit
  <2>3. SurveyTypes /\ MessagesFit
    BY <2>1, ClusterAssumption DEF ClusterInit, SurveyTypes, MessagesFit
  <2> QED BY <2>2, <2>3 DEF ClusterInit, SurveyInv
<1>2. SurveyInv /\ [ClusterNext]_cluster => SurveyInv'
  <2> SUFFICES ASSUME SurveyInv, [ClusterNext]_cluster PROVE SurveyInv'
    OBVIOUS
  <2>1. CASE UNCHANGED cluster
    BY <2>1, MembersKeep DEF cluster, members, SurveyInv, SurveyTypes
  <2>2. ASSUME NEW n \in Nodes,
               \/ Run(n) \/ SendNodePing(n) \/ CleanNodeInfo(n) \/ Shutdown(n) \/ Stop(n)
        PROVE  SurveyInv'
    BY <2>2, MemberSteps, StopKeeps
  <2>3. ASSUME NEW n \in Nodes, SurveyCount(n, {}) \/ \E m \in Nodes : SendEmulation(n, m)
        PROVE  SurveyInv'
    BY <2>3, CountKeeps DEF SendEmulation
  <2>4. ASSUME NEW n \in Nodes, Survey(n) PROVE SurveyInv'
    BY <2>4, AskKeeps, EndKeeps, AnswerSteps DEF Survey
  <2>5. ASSUME NEW m \in msgs, HandleControl(m) \/ Lose(m) PROVE SurveyInv'
    BY <2>5, MemberSteps, RequestSteps, AnswerSteps DEF HandleControl
  <2>6. ASSUME NEW r \in asked, SurveyReply(r) PROVE SurveyInv'
    BY <2>6, RequestSteps
  <2> QED BY <2>1, <2>2, <2>3, <2>4, <2>5, <2>6 DEF ClusterNext
<1>3. SurveyInv => SurveyIsExact
  <2> SUFFICES ASSUME SurveyInv, NEW n \in Nodes
               PROVE  /\ \A x \in survey[n].chan \cup survey[n].results : x.id = survey[n].id
                      /\ survey[n].stage = "done" /\ ~survey[n].err /\ survey[n].to = survey[n].known
                            => {x.from : x \in survey[n].results} = survey[n].known
    BY DEF SurveyIsExact
  <2>1. survey[n] \in Surveys /\ AnswersFit(n, survey[n])
    BY DEF SurveyInv, SurveyTypes
  <2>2. \A x \in survey[n].chan \cup survey[n].results : x.id = survey[n].id
    BY <2>1 DEF AnswersFit
  <2>3. survey[n].stage = "done" /\ ~survey[n].err =>
           /\ survey[n].num = Cardinality(survey[n].known)
           /\ Cardinality(survey[n].results) = survey[n].num
    BY <2>1 DEF AnswersFit
  <2> QED BY <2>1, <2>2, <2>3, OneOfEach
<1> QED BY <1>1, <1>2, <1>3, PTL DEF ClusterSpec

=============================================================================
