--------------------------- MODULE SessionProofs ---------------------------
(***************************************************************************)
(* The handlers of a client are called in order, and a connected client    *)
(* never loses its timer, for all intervals, timeouts and expirations.     *)
(* The inductive invariant SessionInv says who holds which mutex (Locks),  *)
(* what cannot have happened yet (Early), which handlers were called       *)
(* (Told), and who will set the timer when it is not set (Clock).          *)
(***************************************************************************)
EXTENDS Session, SequenceTheorems, TLAPS

\* Zenon proves what only takes logic and sets; the leaves that need more say SMT.
USE Zenon

\* Where a goroutine of the timer can be.
Phases == {"idle", "start", "sent", "clear", "update", "handler", "check"}

\* The configuration's intervals, as points in time.
LEMMA Constants ==
    /\ PingInterval \in Times \ {Off} /\ PongTimeout \in Times \ {Off}
    /\ PresenceInterval \in Times \ {Off} /\ StaleDelay \in Times \ {Off}
    /\ 0 \in NewExpiration /\ Off \in NewExpiration
    /\ 0..MaxTTL \subseteq NewExpiration /\ NewExpiration \subseteq Times
    /\ \A t \in NewExpiration : Nearer(t) \in NewExpiration
    /\ \A t \in Times : Nearer(t) \in Times
    /\ \A t \in NewExpiration \ {Off} : t + CloseDelay \in Times \ {Off} /\ t <= t + CloseDelay
    /\ 0..PingInterval - 1 \subseteq Times
  BY SessionAssumption, SMT DEF Times, NewExpiration, Nearer

\* What scheduleNextTimer does: it arms the timer of a connected client.
LEMMA Scheduling ==
    ASSUME timerOp \in Ops, armed \in BOOLEAN, fired \in BOOLEAN, next \in [Ops -> Times],
           NEW nx \in [Ops -> Times], ScheduleNextTimer(nx)
    PROVE  /\ next' \in [Ops -> Times] /\ timerOp' \in Ops /\ armed' \in BOOLEAN
           /\ fired' = fired
           /\ next' = next \/ next' = nx
           /\ timerOp' = timerOp \/ (timerOp' \in Scheduled /\ nx[timerOp'] # Off)
           /\ ~Closed /\ nx["presence"] # Off =>
                  armed' /\ next' = nx /\ timerOp' \in Scheduled
<1>1. Soonest(nx) \subseteq Scheduled /\ Scheduled \subseteq Ops
  BY DEF Soonest, Ops
<1>2. \A op \in Soonest(nx) : nx[op] # Off
  BY DEF Soonest
<1>3. ASSUME nx["presence"] # Off PROVE Soonest(nx) # {}
  <2>1. /\ nx["presence"] \in 0..Off /\ nx["expire"] \in 0..Off
        /\ nx["ping"] \in 0..Off /\ nx["pong"] \in 0..Off
    BY DEF Times, Ops, Scheduled
  <2>2. \E op \in Scheduled : nx[op] # Off /\ \A o \in Scheduled : nx[op] <= nx[o]
    BY <1>3, <2>1, SessionAssumption, SMT DEF Scheduled
  <2> QED BY <2>2 DEF Soonest
<1> QED BY <1>1, <1>2, <1>3 DEF ScheduleNextTimer

-----------------------------------------------------------------------------
(* The inductive invariant                                                  *)

\* Types, as far as they are needed.
Typed ==
    /\ status \in {"connecting", "connected", "closed"}
    /\ run \in [Ops -> Phases]
    /\ next \in [Ops -> Times] /\ timerOp \in Ops
    /\ armed \in BOOLEAN /\ fired \in BOOLEAN
    /\ exp \in NewExpiration

\* Who holds a mutex is where the code has taken it, and with connectMu nobody but
\* its holder changes the status.
Locks ==
    /\ presenceMu = "close" <=> kpc # "none"
    /\ presenceMu = "presence" <=> run["presence"] = "update"
    /\ connectMu = "close" <=> kpc \in {"remove", "removeEarly"}
    /\ connectMu = "connect" <=> cpc = "triggered"
    /\ kpc \in {"remove", "removeEarly"} => Closed
    /\ cpc = "triggered" => status = "connecting"
    /\ status = "connected" => cpc \in {"timers", "done"}
    /\ cpc \in {"timers", "done"} => status # "connecting"

\* Nothing is scheduled before the client is authenticated, and no presence
\* update before it is connected.
Early ==
    /\ cpc \in {"none", "handler", "check", "authenticate"} =>
           /\ ~authenticated /\ ~registered /\ timerOp = "stale"
           /\ \A op \in Scheduled : run[op] = "idle"
    /\ status = "connecting" => /\ run["presence"] = "idle" /\ timerOp # "presence"
                                /\ next["presence"] = Off
    /\ run["expire"] = "handler" => ~clientSide

\* The handlers called so far.
Told ==
    /\ EventsInOrder
    /\ status = "connecting" =>
           events = IF cpc = "triggered" THEN <<"connect">> ELSE <<>>
    /\ status = "connected" \/ kpc = "remove" =>
           events \in {<<"connect">>, <<"connect", "alive">>}
    /\ kpc = "removeEarly" => events = <<>>

\* The timer is set, or something other than the expiration will set it.
Driven ==
    \/ armed \/ fired \/ closers # {} \/ kpc # "none"
    \/ \E op \in {"presence", "ping", "pong"} : run[op] # "idle"

\* While a client is connected: a timer that has fired was the current one, a
\* client that refreshes by itself has until its deadline, and only an expiration
\* that is being served or was taken away leaves the timer unset.
Clock ==
    status = "connected" /\ cpc = "done" =>
        /\ timerOp \in Scheduled /\ next["presence"] # Off
        /\ clientSide /\ exp # Off => exp <= next["expire"]
        /\ fired => armed \/ next[timerOp] = 0
        /\ Driven \/ (next["expire"] = 0 /\ (run["expire"] # "idle" \/ exp = Off))

SessionInv == Typed /\ Locks /\ Early /\ Told /\ Clock

-----------------------------------------------------------------------------
\* The operations of the timer, the refreshes, the pongs and the passing of time
\* leave the client's state, the connect command and close alone.
LEMMA Frame ==
    ASSUME \/ Tick \/ Fire \/ TimerStep \/ Pong \/ Refresh \/ HandleRefresh
           \/ TransportEnds
    PROVE  UNCHANGED <<client, cpc, kpc, connectMu>>
  BY DEF Tick, Fire, TimerStep, Pong, Refresh, HandleRefresh, TransportEnds,
         OnTimerOp, CloseStale, SendPing, PingSent, CheckPong, ClearPong,
         PresenceLock, PresenceEnd, Expire, ExpireReply, CheckExpired, client, closing

\* All of these but two leave the events and presenceMu alone.
LEMMA QuietFrame ==
    ASSUME \/ Tick \/ Fire \/ Pong \/ Refresh \/ HandleRefresh \/ TransportEnds
           \/ OnTimerOp \/ CloseStale \/ SendPing \/ PingSent \/ CheckPong \/ ClearPong
           \/ Expire \/ ExpireReply \/ CheckExpired
    PROVE  UNCHANGED <<events, presenceMu>>
  BY DEF Tick, Fire, Pong, Refresh, HandleRefresh, TransportEnds,
         OnTimerOp, CloseStale, SendPing, PingSent, CheckPong, ClearPong,
         Expire, ExpireReply, CheckExpired, closing

\* The connect command and close leave the goroutines of the timer alone.
LEMMA ConnectFrame ==
    ASSUME Connect \/ ConnectStep \/ CloseStep
    PROVE  UNCHANGED <<run, fired>>
  BY DEF Connect, ConnectStep, CloseStep, ConnectingReply, ConnectCheck, Authenticate,
         AddClient, ConnectSubs, TriggerConnect, ConnectTriggered,
         ScheduleOnConnectTimers, CloseLock, CloseRemove, Close, timer, ScheduleNextTimer

\* Every goroutine of the timer is where one of its operations can be.
LEMMA RunStep ==
    ASSUME Typed, [Next]_vars PROVE run' \in [Ops -> Phases]
<1> USE DEF Typed, Goto, Phases
<1>1. CASE Tick \/ Fire \/ Pong \/ Refresh \/ HandleRefresh \/ TransportEnds
  BY <1>1 DEF Tick, Fire, Pong, Refresh, HandleRefresh, TransportEnds
<1>2. CASE OnTimerOp
  BY <1>2 DEF OnTimerOp
<1>3. CASE CloseStale
  BY <1>3 DEF CloseStale
<1>4. CASE SendPing
  BY <1>4 DEF SendPing
<1>5. CASE PingSent
  BY <1>5 DEF PingSent
<1>6. CASE CheckPong
  BY <1>6 DEF CheckPong
<1>7. CASE ClearPong
  BY <1>7 DEF ClearPong
<1>8. CASE PresenceLock
  BY <1>8 DEF PresenceLock
<1>9. CASE PresenceEnd
  BY <1>9 DEF PresenceEnd
<1>10. CASE Expire
  BY <1>10 DEF Expire
<1>11. CASE ExpireReply
  BY <1>11 DEF ExpireReply
<1>12. CASE CheckExpired
  BY <1>12 DEF CheckExpired
<1>13. CASE Connect \/ ConnectStep \/ CloseStep
  BY <1>13, ConnectFrame
<1>14. CASE UNCHANGED vars
  BY <1>14 DEF vars
<1> QED BY <1>1, <1>2, <1>3, <1>4, <1>5, <1>6, <1>7, <1>8, <1>9, <1>10, <1>11, <1>12,
        <1>13, <1>14
           DEF Next, TimerStep

\* The points in time stay within Off, and the timer is set for an operation.
LEMMA TimerTypes ==
    ASSUME Typed, [Next]_vars
    PROVE  /\ next' \in [Ops -> Times] /\ timerOp' \in Ops
           /\ armed' \in BOOLEAN /\ fired' \in BOOLEAN /\ exp' \in NewExpiration
<1> DEFINE Goal == /\ next' \in [Ops -> Times] /\ timerOp' \in Ops
                   /\ armed' \in BOOLEAN /\ fired' \in BOOLEAN /\ exp' \in NewExpiration
<1> USE DEF Typed
<1>s. ASSUME NEW nx \in [Ops -> Times], ScheduleNextTimer(nx)
      PROVE  /\ next' \in [Ops -> Times] /\ timerOp' \in Ops
             /\ armed' \in BOOLEAN /\ fired' \in BOOLEAN
  BY <1>s, Scheduling
<1>e. \A op \in Ops, t \in Times : [next EXCEPT ![op] = t] \in [Ops -> Times]
  OBVIOUS
<1>o. Scheduled \subseteq Ops
  BY DEF Ops
<1>1. CASE Tick
  BY <1>1, Constants DEF Tick
<1>2. CASE Fire
  BY <1>2 DEF Fire, expiry
<1>3. CASE \/ OnTimerOp \/ CloseStale \/ SendPing \/ CheckPong \/ PresenceLock \/ Expire
           \/ Pong \/ TransportEnds
  BY <1>3
     DEF OnTimerOp, CloseStale, SendPing, CheckPong, PresenceLock, Expire, Pong,
         TransportEnds, timer, expiry
<1>4. CASE PingSent
  <2>1. [next EXCEPT !["pong"] = PongTimeout, !["ping"] = PingInterval] \in [Ops -> Times]
    BY Constants
  <2> QED BY <1>4, <2>1, <1>s DEF PingSent, expiry
<1>5. CASE ClearPong
  <2>1. [next EXCEPT !["pong"] = Off] \in [Ops -> Times]
    BY Constants
  <2> QED BY <1>5, <2>1, <1>s DEF ClearPong, expiry
<1>6. CASE PresenceEnd
  <2>1. [next EXCEPT !["presence"] = PresenceInterval] \in [Ops -> Times]
    BY Constants
  <2> QED BY <1>6, <2>1, <1>s DEF PresenceEnd, expiry, timer
<1>7. CASE ExpireReply
  BY <1>7, Constants DEF ExpireReply, timer
<1>8. CASE CheckExpired
  <2>1. [next EXCEPT !["expire"] = exp] \in [Ops -> Times]
    BY Constants
  <2> QED BY <1>8, <2>1, <1>s DEF CheckExpired, expiry, timer
<1>r. ASSUME NEW t \in 1..MaxTTL, Refreshed(t) PROVE Goal
  <2>1. t \in NewExpiration /\ t # Off
    BY SessionAssumption, SMT DEF NewExpiration
  <2>2. [next EXCEPT !["expire"] = t + CloseDelay] \in [Ops -> Times]
    BY <2>1, Constants
  <2> QED BY <1>r, <2>1, <2>2, <1>s DEF Refreshed
<1>9. CASE Refresh
  BY <1>9, <1>r, Constants DEF Refresh, timer
<1>10. CASE HandleRefresh
  BY <1>10, <1>r DEF HandleRefresh, timer
<1>11. CASE \/ Connect \/ ConnectingReply \/ Authenticate \/ AddClient \/ ConnectSubs
            \/ TriggerConnect \/ ConnectTriggered \/ CloseRemove
  BY <1>11
     DEF Connect, ConnectingReply, Authenticate, AddClient, ConnectSubs, TriggerConnect,
         ConnectTriggered, CloseRemove, timer, expiry
<1>12. CASE ConnectCheck
  BY <1>12 DEF ConnectCheck, timer, NewExpiration
<1>13. CASE ScheduleOnConnectTimers
  <2>1. PICK first \in 0..PingInterval - 1 :
           ScheduleNextTimer([next EXCEPT
               !["presence"] = PresenceInterval,
               !["ping"] = first,
               !["expire"] = IF exp = Off THEN @
                             ELSE IF clientSide THEN exp + CloseDelay ELSE exp])
    BY <1>13 DEF ScheduleOnConnectTimers
  <2>2. (IF exp = Off THEN next["expire"]
         ELSE IF clientSide THEN exp + CloseDelay ELSE exp) \in Times
    BY Constants DEF Ops, Scheduled
  <2>3. [next EXCEPT !["presence"] = PresenceInterval, !["ping"] = first,
               !["expire"] = IF exp = Off THEN @
                             ELSE IF clientSide THEN exp + CloseDelay ELSE exp] \in [Ops -> Times]
    BY <2>2, Constants
  <2> QED BY <1>13, <2>1, <2>3, <1>s DEF ScheduleOnConnectTimers, expiry
<1>14. CASE CloseLock
  BY <1>14, Constants DEF CloseLock, Never
<1>15. ASSUME NEW r \in closers, Close(r) PROVE Goal
  BY <1>15 DEF Close, timer, expiry
<1>16. CASE UNCHANGED vars
  BY <1>16 DEF vars, timer, expiry
<1> QED BY <1>1, <1>2, <1>3, <1>4, <1>5, <1>6, <1>7, <1>8, <1>9, <1>10, <1>11, <1>12,
           <1>13, <1>14, <1>15, <1>16 DEF Next, TimerStep, ConnectStep, CloseStep

\* What Locks depends on.
LEMMA LocksFrame ==
    ASSUME Locks, status' = status, kpc' = kpc, cpc' = cpc,
           connectMu' = connectMu, presenceMu' = presenceMu,
           run'["presence"] = "update" <=> run["presence"] = "update"
    PROVE  Locks'
  BY SMT DEF Locks, Closed

\* Both mutexes are taken and given back where Locks says, and the status changes
\* under connectMu.
LEMMA LocksStep ==
    ASSUME Typed, Locks, [Next]_vars
    PROVE  Locks' /\ status' \in {"connecting", "connected", "closed"}
<1> DEFINE Statuses == {"connecting", "connected", "closed"}
           Goal == Locks' /\ status' \in Statuses
<1>t. status \in Statuses /\ "presence" \in Ops
  BY DEF Typed, Ops, Scheduled
<1>1. CASE \/ Tick \/ Fire \/ Pong \/ Refresh \/ HandleRefresh \/ TransportEnds
  <2>1. UNCHANGED run
    BY <1>1 DEF Tick, Fire, Pong, Refresh, HandleRefresh, TransportEnds
  <2> QED BY <1>1, <1>t, <2>1, Frame, QuietFrame, LocksFrame DEF client
<1>2. CASE \/ OnTimerOp \/ CloseStale \/ SendPing \/ PingSent \/ CheckPong
           \/ ClearPong \/ Expire \/ ExpireReply \/ CheckExpired
  <2>1. run'["presence"] = "update" <=> run["presence"] = "update"
    BY <1>2, <1>t DEF OnTimerOp, CloseStale, SendPing, PingSent, CheckPong,
           ClearPong, Expire, ExpireReply, CheckExpired, Goto, Typed
  <2> QED BY <1>2, <1>t, <2>1, Frame, QuietFrame, LocksFrame DEF client, TimerStep
<1>3. CASE PresenceLock
  <2>1. /\ presenceMu = "free" /\ run["presence"] = "start"
        /\ \/ presenceMu' = "free" /\ run'["presence"] = "idle"
           \/ presenceMu' = "presence" /\ run'["presence"] = "update"
    BY <1>3, <1>t DEF PresenceLock, Goto, At, Typed
  <2>2. status' = status /\ cpc' = cpc /\ kpc' = kpc /\ connectMu' = connectMu
    BY <1>3, Frame DEF client, TimerStep
  <2> QED BY <1>t, <2>1, <2>2, SMT DEF Locks, Closed
<1>4. CASE PresenceEnd
  <2>1. /\ presenceMu' = "free" /\ run'["presence"] = "idle" /\ run["presence"] = "update"
    BY <1>4, <1>t DEF PresenceEnd, Goto, At, Typed
  <2>2. status' = status /\ cpc' = cpc /\ kpc' = kpc /\ connectMu' = connectMu
    BY <1>4, Frame DEF client, TimerStep
  <2> QED BY <1>t, <2>1, <2>2, SMT DEF Locks, Closed
<1>5. CASE Connect \/ ConnectStep
  <2>1. presenceMu' = presenceMu /\ run' = run /\ kpc' = kpc
    BY <1>5, ConnectFrame
       DEF Connect, ConnectStep, ConnectingReply, ConnectCheck, Authenticate, AddClient,
           ConnectSubs, TriggerConnect, ConnectTriggered, ScheduleOnConnectTimers, closing
  <2>2. CASE \/ Connect \/ ConnectingReply \/ ConnectCheck \/ Authenticate \/ AddClient
             \/ ConnectSubs
    <3>1. /\ status' = status /\ connectMu' = connectMu
          /\ cpc \in {"none", "handler", "check", "authenticate", "add", "subs"}
          /\ cpc' \in {"handler", "check", "authenticate", "add", "subs", "trigger", "failed"}
      BY <2>2 DEF Connect, ConnectingReply, ConnectCheck, Authenticate, AddClient,
                  ConnectSubs, ConnectFails, client, closing
    <3> QED BY <1>t, <2>1, <3>1, SMT DEF Locks, Closed
  <2>3. CASE TriggerConnect
    <3>1. /\ status' = status /\ connectMu = "free" /\ cpc = "trigger"
          /\ \/ status = "connecting" /\ connectMu' = "connect" /\ cpc' = "triggered"
             \/ status # "connecting" /\ connectMu' = "free" /\ cpc' = "timers"
      BY <2>3 DEF TriggerConnect, client
    <3> QED BY <1>t, <2>1, <3>1, SMT DEF Locks, Closed
  <2>4. CASE ConnectTriggered
    <3>1. /\ status' = "connected" /\ cpc = "triggered" /\ connectMu' = "free"
          /\ cpc' = "timers"
      BY <2>4 DEF ConnectTriggered
    <3> QED BY <1>t, <2>1, <3>1, SMT DEF Locks, Closed
  <2>5. CASE ScheduleOnConnectTimers
    <3>1. /\ status' = status /\ cpc = "timers" /\ connectMu' = connectMu
          /\ cpc' = "done"
      BY <2>5 DEF ScheduleOnConnectTimers, client, closing
    <3> QED BY <1>t, <2>1, <3>1, SMT DEF Locks, Closed
  <2> QED BY <1>5, <2>2, <2>3, <2>4, <2>5 DEF ConnectStep
<1>6. CASE CloseStep
  <2>1. run' = run /\ cpc' = cpc
    BY <1>6, ConnectFrame DEF CloseStep, CloseLock, CloseRemove, Close
  <2>2. CASE CloseLock
    <3>1. /\ kpc = "lock" /\ connectMu = "free"
          /\ \/ /\ status = "closed" /\ status' = status /\ kpc' = "none"
                /\ presenceMu' = "free" /\ connectMu' = "free"
             \/ /\ status' = "closed" /\ kpc' \in {"remove", "removeEarly"}
                /\ presenceMu' = presenceMu /\ connectMu' = "close"
      BY <2>2 DEF CloseLock, CloseEnd, Closed
    <3> QED BY <1>t, <2>1, <3>1, SMT DEF Locks, Closed
  <2>3. CASE CloseRemove
    <3>1. /\ kpc \in {"remove", "removeEarly"} /\ status' = status /\ kpc' = "none"
          /\ presenceMu' = "free" /\ connectMu' = "free"
      BY <2>3 DEF CloseRemove, CloseEnd
    <3> QED BY <1>t, <2>1, <3>1, SMT DEF Locks, Closed
  <2>4. ASSUME NEW r \in closers, Close(r) PROVE Goal
    <3>1. /\ presenceMu = "free" /\ status' = status /\ kpc' = "lock"
          /\ presenceMu' = "close" /\ connectMu' = connectMu
      BY <2>4 DEF Close, client
    <3> QED BY <1>t, <2>1, <3>1, SMT DEF Locks, Closed
  <2> QED BY <1>6, <2>2, <2>3, <2>4 DEF CloseStep
<1>7. CASE UNCHANGED vars
  BY <1>7, <1>t, LocksFrame DEF vars, client, closing
<1> QED BY <1>1, <1>2, <1>3, <1>4, <1>5, <1>6, <1>7 DEF Next, TimerStep

\* The types are kept.
LEMMA TypedStep ==
    ASSUME Typed, Locks, [Next]_vars PROVE Typed'
  BY LocksStep, RunStep, TimerTypes DEF Typed


\* What the lists of calls become.
LEMMA Pair == ASSUME NEW S, NEW a \in S, NEW b \in S PROVE Append(<<a>>, b) = <<a, b>>
<1> DEFINE l == Append(<<a>>, b)
           r == <<a, b>>
<1>1. l \in Seq(S) /\ r \in Seq(S) /\ Len(l) = 2 /\ Len(r) = 2
  BY SMT
<1>2. l[1] = r[1] /\ l[2] = r[2]
  BY SMT
<1>3. \A i \in 1..Len(l) : l[i] = r[i]
  BY <1>1, <1>2, SMT
<1> HIDE DEF l, r
<1>4. l = r
  BY <1>1, <1>3, SeqEqual
<1> QED BY <1>4 DEF l, r

\* The same with a third call.
LEMMA Triple ==
    ASSUME NEW S, NEW a \in S, NEW b \in S, NEW c \in S
    PROVE  Append(<<a, b>>, c) = <<a, b, c>>
<1> DEFINE l == Append(<<a, b>>, c)
           r == <<a, b, c>>
<1>1. l \in Seq(S) /\ r \in Seq(S) /\ Len(l) = 3 /\ Len(r) = 3
  BY SMT
<1>2. l[1] = r[1] /\ l[2] = r[2] /\ l[3] = r[3]
  BY SMT
<1>3. \A i \in 1..Len(l) : l[i] = r[i]
  BY <1>1, <1>2, SMT
<1> HIDE DEF l, r
<1>4. l = r
  BY <1>1, <1>3, SeqEqual
<1> QED BY <1>4 DEF l, r

\* Each handler's call, in the order the code makes them.
LEMMA Called ==
    /\ Append(<<"connect">>, "alive") = <<"connect", "alive">>
    /\ Append(<<"connect">>, "disconnect") = <<"connect", "disconnect">>
    /\ Append(<<"connect", "alive">>, "disconnect") = <<"connect", "alive", "disconnect">>
<1> DEFINE S == {"connect", "alive", "disconnect"}
<1>1. "connect" \in S /\ "alive" \in S /\ "disconnect" \in S
  OBVIOUS
<1> HIDE DEF S
<1> QED BY <1>1, Pair, Triple

\* No call of the connect handler but under connectMu, while connecting; none of the
\* alive handler but under presenceMu, while connected; the disconnect handler last.
LEMMA ToldStep ==
    ASSUME Typed, Locks, Early, Told, [Next]_vars PROVE Told'
<1>1. CASE \/ Tick \/ Fire \/ Pong \/ Refresh \/ HandleRefresh \/ TransportEnds
           \/ OnTimerOp \/ CloseStale \/ SendPing \/ PingSent \/ CheckPong
           \/ ClearPong \/ Expire \/ ExpireReply \/ CheckExpired
  BY <1>1, Frame, QuietFrame DEF Told, EventsInOrder, Closed, client, TimerStep
<1>2. CASE PresenceLock
  <2>1. CASE UNCHANGED events
    BY <1>2, <2>1, Frame DEF Told, EventsInOrder, Closed, client, TimerStep
  <2>2. CASE ~UNCHANGED events
    <3>1. /\ run["presence"] = "start" /\ presenceMu = "free" /\ status # "closed"
          /\ Event("alive")
      BY <1>2, <2>2 DEF PresenceLock, Closed, At
    <3>2. status = "connected" /\ kpc = "none"
      BY <3>1, SMT DEF Typed, Early, Locks
    <3>3. events \in {<<"connect">>, <<"connect", "alive">>}
      BY <3>2 DEF Told
    <3>4. ASSUME events = <<"connect">> PROVE events' = <<"connect", "alive">>
      <4>1. Len(events) = 1 /\ events[1] = "connect"
        BY <3>4, SMT
      <4>2. events' = Append(events, "alive")
        BY <3>1, <4>1 DEF Event
      <4> QED BY <3>4, <4>2, Called
    <3>5. ASSUME events = <<"connect", "alive">> PROVE events' = events
      BY <3>1, <3>5, SMT DEF Event
    <3>6. events' = <<"connect", "alive">>
      BY <3>3, <3>4, <3>5
    <3> QED BY <1>2, <3>2, <3>6, Frame DEF Told, EventsInOrder, Closed, client, TimerStep
  <2> QED BY <2>1, <2>2
<1>3. CASE PresenceEnd
  BY <1>3, Frame DEF PresenceEnd, Told, EventsInOrder, Closed, client, TimerStep
<1>4. CASE \/ Connect \/ ConnectingReply \/ ConnectCheck \/ Authenticate
           \/ AddClient \/ ConnectSubs
  BY <1>4
     DEF Connect, ConnectingReply, ConnectCheck, Authenticate, AddClient, ConnectSubs,
         ConnectFails,
       Told, EventsInOrder, Closed, client, closing
<1>5. CASE TriggerConnect
  <2>1. CASE status = "connecting"
    <3>1. events' = <<"connect">>
      BY <1>5, <2>1, SMT DEF TriggerConnect, Event, Told
    <3> QED BY <1>5, <2>1, <3>1 DEF TriggerConnect, Told, EventsInOrder, client, Locks, Closed
  <2>2. CASE status # "connecting"
    BY <1>5, <2>2 DEF TriggerConnect, Told, EventsInOrder, client
  <2> QED BY <2>1, <2>2
<1>6. CASE ConnectTriggered
  BY <1>6 DEF ConnectTriggered, Told, Locks, EventsInOrder, Closed
<1>7. CASE ScheduleOnConnectTimers
  BY <1>7 DEF ScheduleOnConnectTimers, Told, Locks, EventsInOrder, client, closing
<1>8. CASE CloseLock
  BY <1>8 DEF CloseLock, CloseEnd, Told, EventsInOrder, Locks, Closed, Typed
<1>9. CASE CloseRemove
  <2>1. CASE kpc = "remove"
    <3>1. events' \in {<<"connect", "disconnect">>, <<"connect", "alive", "disconnect">>}
      <4>1. Event("disconnect") /\ events \in {<<"connect">>, <<"connect", "alive">>}
        BY <1>9, <2>1 DEF CloseRemove, Told
      <4>2. events' = Append(events, "disconnect")
        BY <4>1 DEF Event
      <4> QED BY <4>1, <4>2, Called
    <3> QED BY <1>9, <2>1, <3>1 DEF CloseRemove, CloseEnd, Told, EventsInOrder, Locks, Closed
  <2>2. CASE kpc = "removeEarly"
    BY <1>9, <2>2 DEF CloseRemove, CloseEnd, Told, EventsInOrder, Locks, Closed
  <2> QED BY <1>9, <2>1, <2>2 DEF CloseRemove
<1>10. ASSUME NEW r \in closers, Close(r) PROVE Told'
  BY <1>10 DEF Close, Told, EventsInOrder, client
<1>11. CASE UNCHANGED vars
  BY <1>11 DEF vars, Told, EventsInOrder, client, closing
<1> QED BY <1>1, <1>2, <1>3, <1>4, <1>5, <1>6, <1>7, <1>8, <1>9, <1>10, <1>11
     DEF Next, TimerStep, ConnectStep, CloseStep

\* What Early depends on, for the steps that set the timer.
LEMMA EarlySchedule ==
    ASSUME Typed, Early, NEW nx \in [Ops -> Times], ScheduleNextTimer(nx),
           nx["presence"] = next["presence"], status = "connecting"
    PROVE  timerOp' # "presence" /\ next'["presence"] = Off
<1>1. /\ next' = next \/ next' = nx
      /\ timerOp' = timerOp \/ nx[timerOp'] # Off
  BY Scheduling DEF Typed
<1> QED BY <1>1 DEF Early

\* Authentication comes before the first schedule, the status before presence.
LEMMA EarlyStep ==
    ASSUME Typed, Locks, Early, [Next]_vars PROVE Early'
<1>n. /\ \A op \in Ops, t \in Times :
             /\ [next EXCEPT ![op] = t] \in [Ops -> Times]
             /\ op # "presence" => [next EXCEPT ![op] = t]["presence"] = next["presence"]
      /\ Scheduled = {"expire", "presence", "ping", "pong"} /\ Scheduled \subseteq Ops
      /\ "stale" \in Ops /\ "stale" \notin Scheduled
  BY DEF Typed, Ops, Scheduled
<1>r. ASSUME NEW op \in Ops, NEW p, Goto(op, p)
      PROVE  /\ run'[op] = p
             /\ \A o \in Ops : o # op => run'[o] = run[o]
  BY <1>r DEF Typed, Goto
<1>c. ASSUME UNCHANGED <<client, cpc>>,
             cpc \notin {"none", "handler", "check", "authenticate"},
             status = "connecting" => /\ run'["presence"] = "idle"
                                      /\ timerOp' # "presence" /\ next'["presence"] = Off,
             run'["expire"] = "handler" => ~clientSide
      PROVE  Early'
  BY <1>c DEF Early, client
<1>1. CASE Tick
  <2>1. Nearer(Off) = Off /\ "presence" \in Ops
    BY <1>n DEF Nearer
  <2> QED BY <1>1, <2>1 DEF Tick, Early, client
<1>2. CASE Fire \/ Pong \/ TransportEnds
  BY <1>2, SMT DEF Fire, Pong, TransportEnds, Early, client, timer
<1>3. CASE OnTimerOp
  <2>1. UNCHANGED <<client, cpc, next, timerOp>>
    BY <1>3, Frame DEF TimerStep, OnTimerOp
  <2>2. \/ run' = run
        \/ /\ run'[timerOp] = "start"
           /\ \A o \in Ops : o # timerOp => run'[o] = run[o]
    BY <1>3 DEF OnTimerOp, Typed
  <2> QED BY <2>1, <2>2, <1>n DEF Early, client
<1>4. CASE CloseStale
  BY <1>4, <1>n, <1>r DEF CloseStale, Early, client, timer
<1>5. CASE SendPing
  BY <1>5, <1>n, <1>r, <1>c, SMT DEF SendPing, At, Early, timer
<1>6. CASE PingSent
  <2> DEFINE nx == [next EXCEPT !["pong"] = PongTimeout, !["ping"] = PingInterval]
  <2>1. nx \in [Ops -> Times] /\ nx["presence"] = next["presence"]
    BY <1>n, Constants DEF Typed
  <2>2. ScheduleNextTimer(nx) /\ Goto("ping", "idle") /\ run["ping"] # "idle"
    BY <1>6 DEF PingSent, At
  <2> HIDE DEF nx
  <2> QED BY <1>6, <1>n, <1>r, <1>c, <2>1, <2>2, EarlySchedule, SMT DEF PingSent, Early
<1>7. CASE CheckPong
  BY <1>7, <1>n, <1>r, <1>c, SMT DEF CheckPong, At, Early, timer
<1>8. CASE ClearPong
  <2> DEFINE nx == [next EXCEPT !["pong"] = Off]
  <2>1. nx \in [Ops -> Times] /\ nx["presence"] = next["presence"]
    BY <1>n, Constants DEF Typed
  <2>2. ScheduleNextTimer(nx) /\ Goto("pong", "idle") /\ run["pong"] # "idle"
    BY <1>8 DEF ClearPong, At
  <2> HIDE DEF nx
  <2> QED BY <1>8, <1>n, <1>r, <1>c, <2>1, <2>2, EarlySchedule, SMT DEF ClearPong, Early
<1>9. CASE PresenceLock \/ PresenceEnd
  <2>1. run["presence"] # "idle" /\ \E p \in Phases : Goto("presence", p)
    BY <1>9 DEF PresenceLock, PresenceEnd, At, Phases
  <2>2. UNCHANGED <<client, cpc>>
    BY <1>9, Frame DEF TimerStep
  <2> QED BY <2>1, <2>2, <1>n, <1>r, <1>c DEF Early
<1>10. CASE Expire
  BY <1>10, <1>n, <1>r, <1>c, SMT DEF Expire, At, Early, timer, Closed
<1>11. CASE ExpireReply
  BY <1>11, <1>n, <1>r, <1>c, SMT DEF ExpireReply, At, Early, timer
<1>12. CASE CheckExpired
  <2> DEFINE nx == [next EXCEPT !["expire"] = exp]
  <2>1. nx \in [Ops -> Times] /\ nx["presence"] = next["presence"]
    BY <1>n, Constants DEF Typed
  <2>2. ScheduleNextTimer(nx) \/ UNCHANGED timer
    BY <1>12 DEF CheckExpired
  <2>3. Goto("expire", "idle") /\ run["expire"] # "idle"
    BY <1>12 DEF CheckExpired, At
  <2> HIDE DEF nx
  <2> QED BY <1>12, <1>n, <1>r, <1>c, <2>1, <2>2, <2>3, EarlySchedule, SMT
          DEF CheckExpired, Early, timer
<1>13. CASE Refresh \/ HandleRefresh
  <2>1. authenticated \/ registered
    BY <1>13 DEF Refresh, HandleRefresh
  <2>2. UNCHANGED <<run, client, cpc>>
    BY <1>13 DEF Refresh, HandleRefresh
  <2>3. UNCHANGED timer \/ \E t \in 1..MaxTTL : Refreshed(t)
    BY <1>13 DEF Refresh, HandleRefresh
  <2>4. ASSUME NEW t \in 1..MaxTTL, Refreshed(t), status = "connecting"
        PROVE  timerOp' # "presence" /\ next'["presence"] = Off
    <3> DEFINE nx == [next EXCEPT !["expire"] = t + CloseDelay]
    <3>1. t \in NewExpiration \ {Off}
      BY SessionAssumption, SMT DEF NewExpiration
    <3>2. nx \in [Ops -> Times] /\ nx["presence"] = next["presence"]
      BY <1>n, <3>1, Constants DEF Typed
    <3>3. ScheduleNextTimer(nx)
      BY <2>4 DEF Refreshed
    <3> HIDE DEF nx
    <3> QED BY <2>4, <3>2, <3>3, EarlySchedule
  <2> QED BY <1>c, <2>1, <2>2, <2>3, <2>4 DEF Early, timer
<1>14. CASE Connect \/ ConnectingReply
  BY <1>14, SMT DEF Connect, ConnectingReply, ConnectFails, Early, client, timer
<1>15. CASE ConnectCheck
  BY <1>15, <1>n DEF ConnectCheck, ConnectFails, Early, timer
<1>16. CASE Authenticate \/ AddClient \/ ConnectSubs \/ TriggerConnect \/ ConnectTriggered
  BY <1>16, SMT DEF Authenticate, AddClient, ConnectSubs, TriggerConnect, ConnectTriggered,
       ConnectFails, Early, client, timer
<1>17. CASE ScheduleOnConnectTimers
  BY <1>17 DEF ScheduleOnConnectTimers, Locks, Early, client
<1>18. CASE CloseLock
  BY <1>18 DEF CloseLock, Early, Closed
<1>19. CASE CloseRemove
  BY <1>19 DEF CloseRemove, Early, timer
<1>20. ASSUME NEW r \in closers, Close(r) PROVE Early'
  BY <1>20 DEF Close, Early, client, timer
<1>21. CASE UNCHANGED vars
  BY <1>21 DEF vars, Early, client, timer
<1> QED BY <1>1, <1>2, <1>3, <1>4, <1>5, <1>6, <1>7, <1>8, <1>9, <1>10, <1>11, <1>12,
           <1>13, <1>14, <1>15, <1>16, <1>17, <1>18, <1>19, <1>20, <1>21
       DEF Next, TimerStep, ConnectStep, CloseStep

\* Setting the timer of a connected client keeps Clock: it is armed again.
LEMMA ClockSchedule ==
    ASSUME Typed, ~Closed, NEW nx \in [Ops -> Times], ScheduleNextTimer(nx),
           nx["presence"] # Off, clientSide' /\ exp' # Off => exp' <= nx["expire"]
    PROVE  Clock'
<1>1. armed' /\ next' = nx /\ timerOp' \in Scheduled
  BY Scheduling DEF Typed
<1> QED BY <1>1 DEF Clock, Driven

\* A step of a connected client that does not set the timer keeps Clock when it
\* leaves the timer to somebody.
LEMMA ClockKept ==
    ASSUME Clock, UNCHANGED <<client, cpc, next, timerOp, armed, fired>>,
           clientSide => exp' = exp,
           status = "connected" /\ cpc = "done" =>
               \/ Driven'
               \/ next["expire"] = 0 /\ (run'["expire"] # "idle" \/ exp' = Off)
    PROVE  Clock'
  BY DEF Clock, client

\* The timer of a connected client is never lost.
LEMMA ClockStep ==
    ASSUME Typed, Locks, Early, Clock, [Next]_vars PROVE Clock'
<1> DEFINE Up == status = "connected" /\ cpc = "done"
<1>n. /\ \A op \in Ops, t \in Times : [next EXCEPT ![op] = t] \in [Ops -> Times]
      /\ Scheduled = {"expire", "presence", "ping", "pong"} /\ Scheduled \subseteq Ops
      /\ "stale" \in Ops /\ "stale" \notin Scheduled
  BY DEF Typed, Ops, Scheduled
<1>r. ASSUME NEW op \in Ops, NEW p, Goto(op, p)
      PROVE  /\ run'[op] = p
             /\ \A o \in Ops : o # op => run'[o] = run[o]
  BY <1>r DEF Typed, Goto
<1>u. Up => ~Closed
  BY DEF Closed
<1>d. ~Up' => Clock'
  BY DEF Clock
<1>1. CASE Tick
  <2>1. UNCHANGED <<client, cpc, timerOp, armed, fired, run, closers, kpc>>
    BY <1>1 DEF Tick, closing
  <2>2. ASSUME Up
        PROVE  /\ timerOp \in Scheduled /\ next["presence"] # Off
               /\ clientSide /\ exp # Off => exp <= next["expire"]
               /\ fired => armed
               /\ Driven
    BY <1>1, <1>n, <2>2 DEF Clock, Tick
  <2>3. next'["presence"] = Nearer(next["presence"]) /\ next'["expire"] = Nearer(next["expire"])
        /\ exp' = Nearer(exp)
    BY <1>1, <1>n DEF Tick
  <2>4. \A t \in Times : t # Off => Nearer(t) # Off
    BY SessionAssumption, SMT DEF Times, Nearer
  <2>5. \A t, u \in Times : t <= u => Nearer(t) <= Nearer(u)
    BY SessionAssumption, SMT DEF Times, Nearer
  <2>6. /\ next["presence"] \in Times /\ next["expire"] \in Times /\ exp \in Times
        /\ Nearer(Off) = Off
    BY <1>n, Constants DEF Typed, Nearer
  <2> QED BY <1>d, <2>1, <2>2, <2>3, <2>4, <2>5, <2>6 DEF Clock, Driven, client
<1>2. CASE Fire
  <2>1. /\ UNCHANGED <<client, cpc, next, timerOp, run, exp>>
        /\ next[timerOp] = 0 /\ fired'
    BY <1>2 DEF Fire, expiry
  <2> QED BY <2>1 DEF Clock, Driven, client
<1>3. CASE OnTimerOp
  <2>1. /\ UNCHANGED <<client, cpc, next, timerOp, armed, exp>> /\ ~fired'
        /\ fired
    BY <1>3, Frame DEF OnTimerOp, TimerStep, expiry
  <2>2. ASSUME Up PROVE /\ run'[timerOp] = "start"
    BY <1>3, <1>u, <2>2 DEF OnTimerOp, Typed
  <2>3. ASSUME Up
        PROVE  timerOp \in Scheduled /\ (armed \/ next[timerOp] = 0)
    BY <2>1, <2>3 DEF Clock
  <2>4. ASSUME Up PROVE \/ Driven'
                        \/ next["expire"] = 0 /\ run'["expire"] # "idle"
    BY <1>n, <2>1, <2>2, <2>3, <2>4, SMT DEF Driven
  <2> QED BY <1>d, <2>1, <2>4 DEF Clock, client
<1>4. CASE CloseStale
  <2>1. /\ \A o \in Scheduled : run'[o] = run[o]
        /\ closers \subseteq closers'
        /\ UNCHANGED <<client, cpc, timer, exp, kpc>>
    BY <1>4, <1>n, <1>r, Frame DEF CloseStale, TimerStep, Closing, expiry
  <2> QED BY <1>n, <2>1, ClockKept DEF Clock, Driven, timer
<1>5. CASE SendPing
  <2>1. run'["ping"] = "sent" /\ UNCHANGED <<client, cpc, timer, exp>>
    BY <1>5, <1>n, <1>r, Frame DEF SendPing, TimerStep, expiry
  <2> QED BY <2>1, ClockKept DEF Driven, timer
<1>6. CASE PingSent
  <2> DEFINE nx == [next EXCEPT !["pong"] = PongTimeout, !["ping"] = PingInterval]
  <2>1. /\ nx \in [Ops -> Times] /\ nx["presence"] = next["presence"]
        /\ nx["expire"] = next["expire"]
    BY <1>n, Constants DEF Typed
  <2>2. ScheduleNextTimer(nx) /\ UNCHANGED <<client, cpc, exp>>
    BY <1>6, Frame DEF PingSent, expiry, TimerStep
  <2> HIDE DEF nx
  <2> QED BY <1>d, <1>u, <2>1, <2>2, ClockSchedule DEF Clock, client
<1>7. CASE CheckPong
  <2>1. run'["pong"] = "clear" \/ closers' # {}
    BY <1>7, <1>n, <1>r DEF CheckPong, Closing
  <2>2. UNCHANGED <<client, cpc, timer, exp>>
    BY <1>7, Frame DEF CheckPong, TimerStep, expiry
  <2> QED BY <2>1, <2>2, ClockKept DEF Driven, timer
<1>8. CASE ClearPong
  <2> DEFINE nx == [next EXCEPT !["pong"] = Off]
  <2>1. /\ nx \in [Ops -> Times] /\ nx["presence"] = next["presence"]
        /\ nx["expire"] = next["expire"]
    BY <1>n, Constants DEF Typed
  <2>2. ScheduleNextTimer(nx) /\ UNCHANGED <<client, cpc, exp>>
    BY <1>8, Frame DEF ClearPong, expiry, TimerStep
  <2> HIDE DEF nx
  <2> QED BY <1>d, <1>u, <2>1, <2>2, ClockSchedule DEF Clock, client
<1>9. CASE PresenceLock
  <2>1. run'["presence"] = "update" \/ closers' # {} \/ Closed
    BY <1>9, <1>n, <1>r DEF PresenceLock, Closing
  <2>2. UNCHANGED <<client, cpc, timer, exp>>
    BY <1>9, Frame DEF PresenceLock, TimerStep, expiry
  <2> QED BY <1>u, <2>1, <2>2, ClockKept DEF Driven, timer
<1>10. CASE PresenceEnd
  <2> DEFINE nx == [next EXCEPT !["presence"] = PresenceInterval]
  <2>1. nx \in [Ops -> Times] /\ nx["presence"] # Off /\ nx["expire"] = next["expire"]
    BY <1>n, Constants DEF Typed
  <2>2. UNCHANGED <<client, cpc, exp>>
    BY <1>10, Frame DEF PresenceEnd, expiry, TimerStep
  <2>3. ScheduleNextTimer(nx) \/ (closers' # {} /\ UNCHANGED timer)
    BY <1>10 DEF PresenceEnd, Closing
  <2> HIDE DEF nx
  <2>4. CASE ScheduleNextTimer(nx)
    BY <1>d, <1>u, <2>1, <2>2, <2>4, ClockSchedule DEF Clock, client
  <2>5. CASE closers' # {} /\ UNCHANGED timer
    BY <2>2, <2>5, ClockKept DEF Driven, timer
  <2> QED BY <2>3, <2>4, <2>5
<1>11. CASE Expire
  <2>1. UNCHANGED <<client, cpc, timer, exp, closers, kpc>>
    BY <1>11, Frame DEF Expire, TimerStep, expiry
  <2>2. run'["expire"] # "idle" \/ exp = Off \/ Closed
    BY <1>11, <1>n, <1>r, SMT DEF Expire
  <2>3. /\ run'["presence"] = run["presence"] /\ run'["ping"] = run["ping"]
        /\ run'["pong"] = run["pong"]
    BY <1>11, <1>n, <1>r DEF Expire
  <2> QED BY <1>u, <2>1, <2>2, <2>3, ClockKept DEF Clock, Driven, timer
<1>12. CASE ExpireReply
  <2>1. UNCHANGED <<client, cpc, timer, kpc>> /\ ~clientSide
    BY <1>12, Frame DEF ExpireReply, TimerStep, Early, At
  <2>2. closers' # {} \/ (run'["expire"] = "check" /\ closers' = closers)
    BY <1>12, <1>n, <1>r DEF ExpireReply, Closing
  <2>3. /\ run'["presence"] = run["presence"] /\ run'["ping"] = run["ping"]
        /\ run'["pong"] = run["pong"]
    BY <1>12, <1>n, <1>r DEF ExpireReply
  <2> QED BY <2>1, <2>2, <2>3, ClockKept DEF Clock, Driven, timer
<1>13. CASE CheckExpired
  <2> DEFINE nx == [next EXCEPT !["expire"] = exp]
  <2>1. /\ nx \in [Ops -> Times] /\ nx["presence"] = next["presence"]
    BY <1>n, Constants DEF Typed
  <2>2. UNCHANGED <<client, cpc, exp, kpc>>
    BY <1>13, Frame DEF CheckExpired, expiry, TimerStep
  <2>3. CASE exp \notin {0, Off} /\ ~clientSide /\ ~Closed
    <3>1. ScheduleNextTimer(nx)
      BY <1>13, <2>3 DEF CheckExpired
    <3> HIDE DEF nx
    <3> QED BY <1>d, <1>u, <2>1, <2>2, <2>3, <3>1, ClockSchedule DEF Clock, client
  <2>4. CASE exp = 0 /\ ~Closed
    <3>1. closers' # {} /\ UNCHANGED timer
      BY <1>13, <2>4 DEF CheckExpired, Closing
    <3> QED BY <2>2, <3>1, ClockKept DEF Driven, timer
  <2>5. CASE exp # 0 /\ (exp = Off \/ clientSide) /\ ~Closed
    <3>1. UNCHANGED timer /\ closers \subseteq closers'
      BY <1>13, <2>5 DEF CheckExpired, Closing
    <3>2. /\ run'["presence"] = run["presence"] /\ run'["ping"] = run["ping"]
          /\ run'["pong"] = run["pong"]
      BY <1>13, <1>n, <1>r DEF CheckExpired
    <3>3. ASSUME clientSide, exp # Off, exp <= next["expire"] PROVE next["expire"] # 0
      <4>1. exp \in 0..Off
        BY Constants DEF Typed, Times
      <4> QED BY <2>5, <3>3, <4>1, SessionAssumption, SMT
    <3> QED BY <2>2, <2>5, <3>1, <3>2, <3>3, ClockKept DEF Clock, Driven, timer
  <2>6. CASE Closed
    BY <1>d, <1>u, <2>2, <2>6 DEF client, Closed
  <2> QED BY <2>3, <2>4, <2>5, <2>6
<1>14. CASE Refresh \/ HandleRefresh
  <2>1. UNCHANGED <<run, client, cpc, kpc>>
    BY <1>14 DEF Refresh, HandleRefresh, closing
  <2>2. ASSUME NEW t \in 1..MaxTTL, Refreshed(t) PROVE Clock'
    <3> DEFINE nx == [next EXCEPT !["expire"] = t + CloseDelay]
    <3>1. t \in NewExpiration \ {Off}
      BY SessionAssumption, SMT DEF NewExpiration
    <3>2. /\ nx \in [Ops -> Times] /\ nx["presence"] = next["presence"]
          /\ nx["expire"] = t + CloseDelay /\ t <= t + CloseDelay
      BY <1>n, <3>1, Constants DEF Typed
    <3>3. ScheduleNextTimer(nx) /\ exp' = t
      BY <2>2 DEF Refreshed
    <3> HIDE DEF nx
    <3> QED BY <1>d, <1>u, <2>1, <3>2, <3>3, ClockSchedule DEF Clock, client
  <2>3. CASE closers' # {} /\ UNCHANGED <<exp, timer>>
    BY <2>1, <2>3, ClockKept DEF Driven, timer
  <2>4. CASE (exp' = Off \/ exp' = exp) /\ UNCHANGED <<closers, timer>>
    BY <2>1, <2>4 DEF Clock, Driven, timer, client
  <2> QED BY <1>14, <2>2, <2>3, <2>4 DEF Refresh, HandleRefresh, Closing
<1>15. CASE Pong \/ TransportEnds
  <2>1. UNCHANGED <<client, cpc, timer, exp, kpc, run>> /\ closers \subseteq closers'
    BY <1>15 DEF Pong, TransportEnds, Closing, closing, expiry
  <2> QED BY <2>1, ClockKept DEF Clock, Driven, timer
<1>16. CASE \/ Connect \/ ConnectingReply \/ ConnectCheck \/ Authenticate \/ AddClient
            \/ ConnectSubs \/ TriggerConnect \/ ConnectTriggered
  <2>1. cpc' # "done"
    BY <1>16 DEF Connect, ConnectingReply, ConnectCheck, Authenticate, AddClient,
         ConnectSubs, TriggerConnect, ConnectTriggered, ConnectFails
  <2> QED BY <1>d, <2>1
<1>17. CASE ScheduleOnConnectTimers
  <2> DEFINE nx(first) == [next EXCEPT
               !["presence"] = PresenceInterval,
               !["ping"] = first,
               !["expire"] = IF exp = Off THEN @
                             ELSE IF clientSide THEN exp + CloseDelay ELSE exp]
  <2>1. PICK first \in 0..PingInterval - 1 : ScheduleNextTimer(nx(first))
    BY <1>17 DEF ScheduleOnConnectTimers
  <2>2. UNCHANGED <<client, exp>>
    BY <1>17 DEF ScheduleOnConnectTimers, expiry
  <2>3. (IF exp = Off THEN next["expire"]
         ELSE IF clientSide THEN exp + CloseDelay ELSE exp) \in Times
    BY <1>n, Constants DEF Typed
  <2>4. nx(first) \in [Ops -> Times] /\ nx(first)["presence"] # Off
    BY <2>3, <1>n, Constants DEF Typed
  <2>5. clientSide /\ exp # Off => exp <= nx(first)["expire"]
    BY <1>n, Constants DEF Typed
  <2> HIDE DEF nx
  <2> QED BY <1>d, <1>u, <2>1, <2>2, <2>4, <2>5, ClockSchedule DEF client, Closed
<1>18. CASE CloseLock
  BY <1>18, <1>d DEF CloseLock, Closed
<1>19. CASE CloseRemove
  BY <1>19, <1>d DEF CloseRemove, Locks, Closed
<1>20. ASSUME NEW r \in closers, Close(r) PROVE Clock'
  <2>1. UNCHANGED <<client, cpc, timer, exp>> /\ kpc' = "lock"
    BY <1>20 DEF Close, expiry
  <2> QED BY <2>1, ClockKept DEF Driven, timer
<1>21. CASE UNCHANGED vars
  BY <1>21 DEF vars, Clock, Driven, client, timer, expiry, closing
<1> QED BY <1>1, <1>2, <1>3, <1>4, <1>5, <1>6, <1>7, <1>8, <1>9, <1>10, <1>11, <1>12,
           <1>13, <1>14, <1>15, <1>16, <1>17, <1>18, <1>19, <1>20, <1>21, SMT
       DEF Next, TimerStep, ConnectStep, CloseStep

\* All of it together.
LEMMA SessionStep ==
    ASSUME SessionInv, [Next]_vars PROVE SessionInv'
  BY TypedStep, LocksStep, EarlyStep, ToldStep, ClockStep DEF SessionInv

\* A new client.
LEMMA SessionStart == Init => SessionInv
<1> SUFFICES ASSUME Init PROVE SessionInv
  OBVIOUS
<1>1. Typed
  BY Constants DEF Init, Typed, Never, Ops, Scheduled, Phases
<1>2. Early
  BY DEF Init, Early, Never, Ops, Scheduled
<1>3. Locks
  <2>1. run["presence"] = "idle"
    BY DEF Init, Ops, Scheduled
  <2> QED BY <2>1 DEF Init, Locks
<1> QED BY <1>1, <1>2, <1>3 DEF Init, SessionInv, Told, EventsInOrder, Clock

\* The mutexes, the schedule and the calls made so far are as SessionInv says,
\* for all intervals and timeouts of the configuration.
THEOREM SessionTheorem == Spec => []SessionInv
  BY SessionStart, SessionStep, PTL DEF Spec

\* triggerConnect, updatePresence and close call the handlers in order: connect first
\* and once, disconnect last, once, and only for who was connected.
THEOREM EventsTheorem == Spec => []EventsInOrder
<1>1. SessionInv => EventsInOrder
  BY DEF SessionInv, Told
<1> QED BY <1>1, SessionTheorem, PTL

\* scheduleNextTimer, expire and the others never leave a connected client without
\* a timer, except after the expiration was taken away.
THEOREM TimerTheorem == Spec => []TimerRuns
<1>1. SessionInv => TimerRuns
  <2>1. {"presence", "ping", "pong"} \subseteq Ops /\ "expire" \in Ops
    BY DEF Ops, Scheduled
  <2> QED BY <2>1 DEF SessionInv, Clock, Driven, TimerRuns, Stopped
<1> QED BY <1>1, SessionTheorem, PTL
=============================================================================
