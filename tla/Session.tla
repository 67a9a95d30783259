------------------------------ MODULE Session ------------------------------
(***************************************************************************)
(* The life of one client connection: the connect command, the timer that  *)
(* serves stale check, presence, expiration, pings and pong checks, the    *)
(* refreshes, and close.  Points in time are kept as what is left of them: *)
(* Tick brings all of them nearer, 0 is reached, Off is never reached.     *)
(***************************************************************************)
EXTENDS Naturals, Sequences, FiniteSets

CONSTANTS
    PingInterval, PongTimeout, PresenceInterval, StaleDelay, CloseDelay,
    MaxTTL,       \* bound: expiration times lie at most this far ahead
    MaxClosers,   \* bound on the goroutines that wait to call close
    Off,          \* larger than all of them
    MaxRefreshes  \* bound on the refreshes that are not asked for

ASSUME SessionAssumption ==
    /\ {PingInterval, PongTimeout, PresenceInterval, StaleDelay} \subseteq Nat \ {0}
    /\ {CloseDelay, MaxTTL, MaxClosers, MaxRefreshes, Off} \subseteq Nat
    /\ \A n \in {PingInterval, PongTimeout, PresenceInterval, StaleDelay,
                 MaxTTL + CloseDelay} : n < Off

Scheduled == {"expire", "presence", "ping", "pong"}
Ops == Scheduled \cup {"stale"}

VARIABLES
    status, authenticated, unusable,
    clientSide,   \* clientSideRefresh; there is a refresh handler
    exp,          \* what is left of c.exp, Off when it is 0
    registered,   \* is the client in the hub's registry of connections
    next,         \* what is left of nextPresence and so on
    timerOp, armed,
    fired,        \* has a timer goroutine been started and not yet read timerOp
    run,          \* goroutines in the operations of the timer
    awaiting,     \* lastPing > 0: a pong is expected
    answered,     \* lastSeen >= lastPing, up to its sign
    justSeen,     \* lastSeen is this very second
    cpc,          \* the connect command
    closers,      \* goroutines about to call close, by kind of disconnect
    kpc,          \* the call of close that has presenceMu
    presenceMu, connectMu,
    events,       \* connect, alive and disconnect handler calls
    refreshes     \* how many there were

client == <<status, authenticated, unusable, registered, clientSide>>
expiry == <<exp, refreshes>>
timer == <<next, timerOp, armed, fired>>
pings == <<awaiting, answered, justSeen>>
closing == <<kpc, presenceMu, connectMu>>
vars == <<client, expiry, timer, run, pings, cpc, closers, closing, events>>

Times == 0..Off
Never == [op \in Ops |-> Off]

\* NewClient starts the timer with the stale check.
Init ==
    /\ status = "connecting" /\ authenticated = FALSE /\ unusable = FALSE
    /\ exp = Off /\ registered = FALSE /\ clientSide = FALSE
    /\ next = [Never EXCEPT !["stale"] = StaleDelay]
    /\ timerOp = "stale" /\ armed = TRUE /\ fired = FALSE
    /\ run = [op \in Ops |-> "idle"]
    /\ awaiting = FALSE /\ answered = TRUE /\ justSeen = FALSE
    /\ cpc = "none" /\ closers = {} /\ kpc = "none"
    /\ presenceMu = "free" /\ connectMu = "free"
    /\ events = <<>> /\ refreshes = 0

Closed == status = "closed"
Nearer(t) == IF t \in {0, Off} THEN t ELSE t - 1

\* Bound: what is due is served within the second.
Tick ==
    /\ ~Closed /\ \A op \in Scheduled : next[op] # 0
    /\ next' = [op \in Ops |-> Nearer(next[op])]
    /\ exp' = Nearer(exp)
    /\ justSeen' = FALSE
    /\ UNCHANGED <<client, timerOp, armed, fired, run, awaiting, answered, cpc,
                   closers, closing, events, refreshes>>

\* Goroutines that call close, through Disconnect or directly.
Closing(rs) == /\ closers' = closers \cup rs
               /\ rs # {} => Cardinality(closers') <= MaxClosers

\* The handler is called; of several alive events in a row one is kept.
Event(e) == events' = IF events # <<>> /\ e = "alive" /\ events[Len(events)] = e
                      THEN events ELSE Append(events, e)

-----------------------------------------------------------------------------
(* The timer                                                                *)

Soonest(nx) ==
    {op \in Scheduled : nx[op] # Off /\ \A o \in Scheduled : nx[op] <= nx[o]}

\* nx replaces next; the timer is set for the operation that comes first.
ScheduleNextTimer(nx) ==
    /\ \/ Closed /\ UNCHANGED <<next, armed, timerOp>>
       \/ ~Closed /\ Soonest(nx) = {} /\ next' = nx /\ armed' = FALSE
          /\ UNCHANGED timerOp
       \/ ~Closed /\ next' = nx /\ armed' = TRUE /\ timerOp' \in Soonest(nx)
    /\ UNCHANGED fired

\* Bound: one goroutine at a time between the start and the read of timerOp.
Fire ==
    /\ armed /\ next[timerOp] = 0 /\ ~fired
    /\ armed' = FALSE /\ fired' = TRUE
    /\ UNCHANGED <<client, expiry, next, timerOp, run, pings, cpc, closers,
                   closing, events>>

\* timerOp is read now: it may have changed since the timer fired.
OnTimerOp ==
    /\ fired /\ run[timerOp] = "idle"
    /\ fired' = FALSE
    /\ run' = IF Closed THEN run ELSE [run EXCEPT ![timerOp] = "start"]
    /\ UNCHANGED <<client, expiry, next, timerOp, armed, pings, cpc, closers,
                   closing, events>>

At(op, p) == run[op] = p
Goto(op, p) == run' = [run EXCEPT ![op] = p]

CloseStale ==
    /\ At("stale", "start")
    /\ Closing(IF (~authenticated \/ unusable) /\ ~Closed THEN {"stale"} ELSE {})
    /\ Goto("stale", "idle")
    /\ UNCHANGED <<client, expiry, timer, pings, cpc, closing, events>>

\* sendPing in its two critical sections.
SendPing ==
    /\ At("ping", "start")
    /\ awaiting' = TRUE /\ answered' = justSeen
    /\ Goto("ping", "sent")
    /\ UNCHANGED <<client, expiry, timer, justSeen, cpc, closers, closing,
                   events>>

\* Mutant: the time of the pong check is not set.
PingSentForgets ==
    /\ At("ping", "sent")
    /\ ScheduleNextTimer([next EXCEPT !["ping"] = PingInterval])
    /\ Goto("ping", "idle")
    /\ UNCHANGED <<client, expiry, pings, cpc, closers, closing, events>>

PingSent ==
    /\ At("ping", "sent")
    /\ ScheduleNextTimer([next EXCEPT !["pong"] = PongTimeout,
                                      !["ping"] = PingInterval])
    /\ Goto("ping", "idle")
    /\ UNCHANGED <<client, expiry, pings, cpc, closers, closing, events>>

CheckPong ==
    /\ At("pong", "start")
    /\ IF answered THEN Goto("pong", "clear") /\ UNCHANGED closers
       ELSE Goto("pong", "idle") /\ Closing({"nopong"})
    /\ UNCHANGED <<client, expiry, timer, pings, cpc, closing, events>>

ClearPong ==
    /\ At("pong", "clear")
    /\ ScheduleNextTimer([next EXCEPT !["pong"] = Off])
    /\ Goto("pong", "idle")
    /\ UNCHANGED <<client, expiry, pings, cpc, closers, closing, events>>

\* A pong; one that was not asked for is a bad request.
Pong ==
    /\ authenticated /\ ~Closed
    /\ \/ /\ awaiting
          /\ awaiting' = FALSE /\ answered' = TRUE /\ justSeen' = TRUE
          /\ UNCHANGED closers
       \/ /\ ~awaiting
          /\ Closing({"other"})
          /\ UNCHANGED <<awaiting, answered, justSeen>>
    /\ UNCHANGED <<client, expiry, timer, run, cpc, closing, events>>

\* Mutant: the status is not looked at.
PresenceLockUnchecked ==
    /\ At("presence", "start")
    /\ presenceMu = "free"
    /\ presenceMu' = "presence"
    /\ Event("alive")
    /\ Goto("presence", "update")
    /\ UNCHANGED <<client, expiry, timer, pings, cpc, closers, kpc, connectMu>>

\* updatePresence holds presenceMu throughout.
PresenceLock ==
    /\ At("presence", "start")
    /\ presenceMu = "free"
    /\ IF Closed \/ unusable
       THEN /\ Closing(IF Closed THEN {} ELSE {"stale"})
            /\ Goto("presence", "idle")
            /\ UNCHANGED <<presenceMu, events>>
       ELSE /\ presenceMu' = "presence"
            /\ Event("alive")
            /\ Goto("presence", "update")
            /\ UNCHANGED closers
    /\ UNCHANGED <<client, expiry, timer, pings, cpc, kpc, connectMu>>

\* The channels' presence, expiration and position have been looked at: expired
\* subscriptions may close the client, an insufficient position ends the update.
PresenceEnd ==
    /\ At("presence", "update")
    /\ \/ /\ \E rs \in {{}, {"other"}} : Closing(rs)
          /\ ScheduleNextTimer([next EXCEPT !["presence"] = PresenceInterval])
       \/ Closing({"other"}) /\ UNCHANGED timer
    /\ presenceMu' = "free"
    /\ Goto("presence", "idle")
    /\ UNCHANGED <<client, expiry, pings, cpc, kpc, connectMu, events>>

-----------------------------------------------------------------------------
(* Expiration.  A reply of the refresh handler is an error, says expired, or *)
(* gives a new time; Off stands for ExpireAt = 0.                           *)

Expire ==
    /\ At("expire", "start")
    /\ Goto("expire", IF Closed \/ exp = Off THEN "idle"
                      ELSE IF clientSide THEN "check" ELSE "handler")
    /\ UNCHANGED <<client, expiry, timer, pings, cpc, closers, closing, events>>

NewExpiration == 0..MaxTTL \cup {Off}

ExpireReply ==
    /\ At("expire", "handler")
    /\ \/ /\ \E r \in {"other", "expired"} : Closing({r})
          /\ Goto("expire", "idle")
          /\ UNCHANGED exp
       \/ \E t \in NewExpiration :
              /\ exp' = IF t = Off THEN exp ELSE t
              /\ Goto("expire", "check")
              /\ UNCHANGED closers
    /\ UNCHANGED <<client, refreshes, timer, pings, cpc, closing, events>>

CheckExpired ==
    /\ At("expire", "check")
    /\ Goto("expire", "idle")
    /\ Closing(IF exp = 0 /\ ~Closed THEN {"expired"} ELSE {})
    /\ IF exp \notin {0, Off} /\ ~clientSide /\ ~Closed
       THEN ScheduleNextTimer([next EXCEPT !["expire"] = exp])
       ELSE UNCHANGED timer
    /\ UNCHANGED <<client, expiry, pings, cpc, closing, events>>

\* A new expiration time arrives, with its timer.
Refreshed(t) ==
    /\ exp' = t
    /\ ScheduleNextTimer([next EXCEPT !["expire"] = t + CloseDelay])
    /\ UNCHANGED closers

\* Client.Refresh, called by the application for a registered client.
Refresh ==
    /\ registered /\ refreshes < MaxRefreshes
    /\ refreshes' = refreshes + 1
    /\ \/ \E t \in 1..MaxTTL : Refreshed(t)
       \/ Closing({"expired"}) /\ UNCHANGED <<exp, timer>>
       \/ exp' = Off /\ UNCHANGED <<closers, timer>>
    /\ UNCHANGED <<client, run, pings, cpc, closing, events>>

\* The refresh command; an error, or ExpireAt = 0, changes nothing.
HandleRefresh ==
    /\ clientSide /\ authenticated /\ ~Closed /\ refreshes < MaxRefreshes
    /\ refreshes' = refreshes + 1
    /\ \/ \E t \in 1..MaxTTL : Refreshed(t)
       \/ Closing({"expired"}) /\ UNCHANGED <<exp, timer>>
       \/ UNCHANGED <<exp, closers, timer>>
    /\ UNCHANGED <<client, run, pings, cpc, closing, events>>

-----------------------------------------------------------------------------
(* The connect command                                                      *)

\* It returns an error, which the client is told: it is unusable from then on.
ErrorReply == unusable' = TRUE /\ UNCHANGED closers

\* It returns a disconnect.  On a unidirectional transport every error is made
\* one.
ErrorDisconnect == Closing({"other"}) /\ UNCHANGED unusable

ConnectFails == cpc' = "failed" /\ (ErrorReply \/ ErrorDisconnect)

Connect ==
    /\ cpc = "none" /\ ~Closed
    /\ cpc' = "handler"
    /\ UNCHANGED <<client, expiry, timer, run, pings, closers, closing, events>>

ConnectingReply ==
    /\ cpc = "handler"
    /\ \/ ConnectFails
       \/ cpc' = "check" /\ UNCHANGED <<unusable, closers>>
    /\ UNCHANGED <<status, authenticated, clientSide, registered, expiry,
                   timer, run, pings, closing, events>>

\* The credentials' expiration is stored, and the status looked at once more.
ConnectCheck ==
    /\ cpc = "check"
    /\ exp' \in (0..MaxTTL) \cup {Off}
    /\ clientSide' \in BOOLEAN
    /\ IF Closed THEN cpc' = "failed" /\ UNCHANGED <<unusable, closers>>
       ELSE \/ ConnectFails   \* connection limit, or expired already
            \/ cpc' = "authenticate" /\ UNCHANGED <<unusable, closers>>
    /\ UNCHANGED <<status, authenticated, registered, timer, run, pings, closing,
                   events, refreshes>>

Authenticate ==
    /\ cpc = "authenticate"
    /\ authenticated' = TRUE
    /\ cpc' = "add"
    /\ UNCHANGED <<status, clientSide, unusable, registered, expiry, timer, run, pings,
                   closers, closing, events>>

\* The hub's registry of connections.
HubAdd == registered' = TRUE
HubRemove == registered' = FALSE

AddClient ==
    /\ cpc = "add"
    /\ HubAdd
    /\ cpc' = "subs"
    /\ UNCHANGED <<status, authenticated, clientSide, unusable, expiry, timer,
                   run, pings, closers, closing, events>>

\* The server-side subscriptions and the reply.
ConnectSubs ==
    /\ cpc = "subs"
    /\ \/ ConnectFails
       \/ cpc' = "trigger" /\ UNCHANGED <<unusable, closers>>
    /\ UNCHANGED <<status, authenticated, clientSide, registered, expiry,
                   timer, run, pings, closing, events>>

\* triggerConnect runs the connect handler under connectMu.
TriggerConnect ==
    /\ cpc = "trigger" /\ connectMu = "free"
    /\ IF status = "connecting"
       THEN connectMu' = "connect" /\ Event("connect") /\ cpc' = "triggered"
       ELSE cpc' = "timers" /\ UNCHANGED <<connectMu, events>>
    /\ UNCHANGED <<client, expiry, timer, run, pings, closers, kpc, presenceMu>>

ConnectTriggered ==
    /\ cpc = "triggered"
    /\ status' = "connected"
    /\ connectMu' = "free"
    /\ cpc' = "timers"
    /\ UNCHANGED <<authenticated, clientSide, unusable, registered, expiry,
                   timer, run, pings, closers, kpc, presenceMu, events>>

\* Mutant: the points in time are set, the timer is not.
OnConnectTimersUnset ==
    /\ cpc = "timers"
    /\ next' = [next EXCEPT !["presence"] = PresenceInterval]
    /\ cpc' = "done"
    /\ UNCHANGED <<client, expiry, timerOp, armed, fired, run, pings, closers,
                   closing, events>>

\* The first ping comes after a random part of the interval.
ScheduleOnConnectTimers ==
    /\ cpc = "timers"
    /\ \E first \in 0..PingInterval - 1 :
           ScheduleNextTimer([next EXCEPT
               !["presence"] = PresenceInterval,
               !["ping"] = first,
               !["expire"] = IF exp = Off THEN @
                             ELSE IF clientSide THEN exp + CloseDelay ELSE exp])
    /\ cpc' = "done"
    /\ UNCHANGED <<client, expiry, run, pings, closers, closing, events>>

-----------------------------------------------------------------------------
(* close, which takes presenceMu and then connectMu                         *)

\* The transport's handler ends, or the application disconnects the client.
TransportEnds ==
    /\ ~Closed
    /\ Closing({"other"})
    /\ UNCHANGED <<client, expiry, timer, run, pings, cpc, closing, events>>

Close(r) ==
    /\ r \in closers /\ presenceMu = "free"
    /\ closers' = closers \ {r}
    /\ presenceMu' = "close" /\ kpc' = "lock"
    /\ UNCHANGED <<client, expiry, timer, run, pings, cpc, connectMu, events>>

CloseEnd == presenceMu' = "free" /\ connectMu' = "free" /\ kpc' = "none"

\* Who comes second finds the client closed.  From here on nobody looks at the
\* points in time: they are forgotten.
CloseLock ==
    /\ kpc = "lock" /\ connectMu = "free"
    /\ IF Closed
       THEN CloseEnd /\ UNCHANGED <<status, armed, next, exp>>
       ELSE /\ kpc' = IF status = "connected" THEN "remove" ELSE "removeEarly"
            /\ connectMu' = "close"
            /\ status' = "closed" /\ armed' = FALSE
            /\ next' = Never /\ exp' = Off
            /\ UNCHANGED presenceMu
    /\ UNCHANGED <<authenticated, clientSide, unusable, registered, timerOp,
                   fired, run, pings, cpc, closers, events, refreshes>>

CloseRemove ==
    /\ kpc \in {"remove", "removeEarly"}
    /\ IF authenticated THEN HubRemove ELSE UNCHANGED registered
    /\ IF kpc = "remove" THEN Event("disconnect") ELSE UNCHANGED events
    /\ CloseEnd
    /\ UNCHANGED <<status, authenticated, clientSide, unusable, expiry, timer,
                   run, pings, cpc, closers>>

-----------------------------------------------------------------------------
TimerStep == OnTimerOp \/ CloseStale \/ SendPing \/ PingSent \/ CheckPong
             \/ ClearPong \/ PresenceLock \/ PresenceEnd \/ Expire \/ ExpireReply
             \/ CheckExpired

ConnectStep == \/ ConnectingReply \/ ConnectCheck \/ Authenticate \/ AddClient
               \/ ConnectSubs \/ TriggerConnect \/ ConnectTriggered
               \/ ScheduleOnConnectTimers

CloseStep == CloseLock \/ CloseRemove \/ \E r \in closers : Close(r)

Next == \/ Tick \/ Fire \/ TimerStep \/ ConnectStep \/ CloseStep
        \/ Connect \/ Pong \/ Refresh \/ HandleRefresh \/ TransportEnds

Spec == Init /\ [][Next]_vars

\* Time passes, timers fire, goroutines run, handlers return, and mutexes are
\* granted to whoever waits for them.
FairSpec ==
    /\ Spec /\ WF_vars(Tick) /\ WF_vars(Fire) /\ WF_vars(ConnectStep)
    /\ WF_vars(CloseStep) /\ SF_vars(CloseLock) /\ SF_vars(\E r \in closers : Close(r))
    /\ WF_vars(OnTimerOp \/ CloseStale \/ SendPing \/ PingSent \/ CheckPong
               \/ ClearPong)
    /\ WF_vars(PresenceLock \/ PresenceEnd)
    /\ WF_vars(Expire \/ ExpireReply \/ CheckExpired)

-----------------------------------------------------------------------------
TypeOK ==
    /\ status \in {"connecting", "connected", "closed"}
    /\ {authenticated, unusable, registered, armed, fired, awaiting, answered,
        justSeen, clientSide} \subseteq BOOLEAN
    /\ exp \in Times /\ next \in [Ops -> Times]
    /\ refreshes \in 0..MaxRefreshes /\ timerOp \in Ops
    /\ run \in [Ops -> {"idle", "start", "sent", "clear", "update", "handler",
                        "check"}]
    /\ cpc \in {"none", "handler", "check", "authenticate", "add", "subs",
                "trigger", "triggered", "timers", "done", "failed"}
    /\ closers \subseteq {"stale", "nopong", "expired", "other"}
    /\ kpc \in {"none", "lock", "remove", "removeEarly"}
    /\ presenceMu \in {"free", "presence", "close"}
    /\ connectMu \in {"free", "connect", "close"}
    /\ events \in Seq({"connect", "alive", "disconnect"})

\* The connect handler is called first and once, the disconnect handler last,
\* once, and for a client whose connect handler was called; the alive handler in
\* between (presenceMu and connectMu are there for that).
EventsInOrder ==
    events \in {<<>>, <<"connect">>, <<"connect", "alive">>,
                <<"connect", "disconnect">>, <<"connect", "alive", "disconnect">>}

\* Client.Refresh took the expiration away and left its deadline: once that has
\* passed, it stays the soonest, and expire returns without scheduling anything.
Stopped == exp = Off /\ next["expire"] = 0

\* The timer of a connected client never stops, unless in the case above: some
\* operation is always scheduled, under way, or about to close the client.
TimerRuns ==
    status = "connected" /\ cpc = "done" /\ closers = {} /\ kpc = "none" =>
        armed \/ fired \/ Stopped \/ \E op \in Ops : run[op] # "idle"

\* The timer does what it is for.  A client that does not answer a ping is closed
\* (checkPong), unless the timer has stopped; a connection that expires is refreshed
\* or closed (expire); a client whose connect command does not come, does not end or
\* fails before it is authenticated, is closed (closeStale).
DeadIsClosed ==
    /\ awaiting ~> ~awaiting \/ Closed \/ Stopped
    /\ status = "connected" /\ exp = 0 ~> exp # 0 \/ Closed
    /\ ~authenticated ~> authenticated \/ Closed
=============================================================================
