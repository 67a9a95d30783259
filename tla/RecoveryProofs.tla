--------------------------- MODULE RecoveryProofs ---------------------------
(***************************************************************************)
(* What one step of Recovery does, for any set of clients and any bounds,  *)
(* with or without loss of publications: it keeps the types; a step of a   *)
(* client's subscribe flow or unsubscribe touches only that client's       *)
(* entries (Own); and FlowMove, UnsubMove and StreamMove say what it does  *)
(* to them.  So every step keeps what the subscribe flow knows true, and   *)
(* the server's position and the client's view together: SafetyInv is      *)
(* invariant, and TypeOK and PositionIsView follow.                        *)
(*                                                                         *)
(* When PUB/SUB loses nothing, a recovered reply has no gap and a quiet    *)
(* subscriber is caught up. LosslessInv is inductive relative to           *)
(* SafetyInv; Visited(c), how far the broadcast is with a client, ties the *)
(* progress of the hub loop to the client's buffer and position.           *)
(***************************************************************************)
EXTENDS Recovery, TLAPS

\* Zenon proves what only takes logic and sets; the leaves that need more say SMT.
USE Zenon

-----------------------------------------------------------------------------
(* What one step does to a client.                                          *)

\* The step leaves the local variables of the client's flow alone.
SameLocals(d) ==
    /\ req'[d] = req[d] /\ latest'[d] = latest[d]
    /\ recovered'[d] = recovered[d] /\ recoveredPubs'[d] = recoveredPubs[d]

\* The step leaves the client alone.
Alone(d) ==
    /\ fpc'[d] = fpc[d] /\ SameLocals(d) /\ view'[d] = view[d]
    /\ channels'[d] = channels[d] /\ position'[d] = position[d]
    /\ inSubscribe'[d] = inSubscribe[d] /\ pubBuffer'[d] = pubBuffer[d]
    /\ pubBufferLocked'[d] = pubBufferLocked[d]
    /\ reading'[d] = reading[d] /\ deleting'[d] = deleting[d]
    /\ (d \in subs') = (d \in subs)

\* The step leaves the stream and the progress of the broadcast alone.
SameStream == UNCHANGED <<epoch, top, sent, btodo, bcur>>

\* The step is the client's own.
Own(c) == SameStream /\ \A d \in Clients \ {c} : Alone(d)

\* The variables that hold a value per client.
Tables ==
    /\ DOMAIN fpc = Clients /\ DOMAIN req = Clients /\ DOMAIN latest = Clients
    /\ DOMAIN recovered = Clients /\ DOMAIN recoveredPubs = Clients
    /\ DOMAIN view = Clients
    /\ DOMAIN channels = Clients /\ DOMAIN position = Clients
    /\ DOMAIN inSubscribe = Clients /\ DOMAIN pubBuffer = Clients
    /\ DOMAIN pubBufferLocked = Clients
    /\ DOMAIN reading = Clients /\ DOMAIN deleting = Clients

LEMMA TablesType == TypeOK => Tables
BY DEF TypeOK, Tables

\* A subscribe command and the steps of its flow are the client's own.
LEMMA FlowIsOwn ==
    ASSUME Tables, NEW c \in Clients, SubscribeCommand(c) \/ FlowStep(c)
    PROVE  Own(c)
<1> USE DEF Tables, Own, SameStream, Alone, SameLocals, Goto,
            stream, broadcast, context, sync, flow, unsubs
<1>1. CASE HandlerReply(c)
  BY <1>1, SMT DEF HandlerReply, Leave
<1>2. CASE StartBuffering(c)
  BY <1>2 DEF StartBuffering
<1>3. CASE AddSubscription(c)
  BY <1>3, SMT DEF AddSubscription
<1>4. CASE SubscribeError(c) \/ MergeFails(c) \/ FinishSubscribe(c)
  BY <1>4, SMT DEF SubscribeError, MergeFails, FinishSubscribe, Leave, StopBuffering
<1>5. CASE ReadHistory(c)
  BY <1>5 DEF ReadHistory
<1>6. CASE LockAndMerge(c)
  BY <1>6 DEF LockAndMerge
<1>7. CASE WriteReply(c)
  BY <1>7 DEF WriteReply
<1>8. CASE SetChannelContext(c)
  BY <1>8 DEF SetChannelContext
<1>9. CASE ForgetChannel(c)
  BY <1>9 DEF ForgetChannel
<1>10. CASE LeaveHub(c)
  BY <1>10, SMT DEF LeaveHub
<1>11. CASE SubscribeCommand(c)
  <2>1. PICK recover, o : Subscribe(c, recover, o)
    BY <1>11 DEF SubscribeCommand
  <2>2. QED BY <2>1 DEF Subscribe
<1> HIDE DEF Own
<1>12. QED
  BY <1>1, <1>2, <1>3, <1>4, <1>5, <1>6, <1>7, <1>8, <1>9, <1>10, <1>11
  DEF FlowStep

\* What unsubscribe goroutines and position checks do to their client: they
\* delete the channel context or take the client out of the hub, or only count.
UnsubMove(c) ==
    /\ UNCHANGED <<sync, flow, view, bpc>>
    /\ subs' \subseteq subs /\ (subs' = subs \/ bpc = "idle")
    /\ \/ channels'[c] = "none" /\ position'[c] \in {position[c], NoPosition}
       \/ /\ UNCHANGED <<channels, position>>
          /\ \/ c \notin subs'
             \/ /\ subs' = subs
                /\ reading'[c] + deleting'[c] >= reading[c] + deleting[c]

\* The steps of unsubscribe goroutines and position checks are their client's.
LEMMA UnsubIsOwn ==
    ASSUME Tables, NEW c \in Clients, reading[c] \in Nat, deleting[c] \in Nat,
           Unsubscribe(c) \/ UnsubStep(c) \/ CheckStep(c)
    PROVE  Own(c) /\ UnsubMove(c)
<1> USE DEF Tables, Own, SameStream, Alone, SameLocals, UnsubMove, HubFree,
            stream, broadcast, context, sync, flow, unsubs
<1>1. CASE Unsubscribe(c)
  BY <1>1, SMT DEF Unsubscribe, Spawn
<1>2. CASE UnsubRead(c)
  BY <1>2, SMT DEF UnsubRead
<1>3. CASE UnsubDelete(c)
  BY <1>3 DEF UnsubDelete
<1>4. CASE UnsubRemove(c)
  BY <1>4, SMT DEF UnsubRemove
<1>5. CASE CheckPosition(c)
  BY <1>5, SMT DEF CheckPosition
<1>6. CASE ComparePosition(c)
  BY <1>6, SMT DEF ComparePosition, Spawn
<1> HIDE DEF Own, UnsubMove
<1>7. QED
  BY <1>1, <1>2, <1>3, <1>4, <1>5, <1>6 DEF UnsubStep, CheckStep

\* What publishing, broadcasting and the removal of a stream leave alone.
StreamMove ==
    /\ UNCHANGED <<subs, channels, inSubscribe, pubBufferLocked, flow>>
    /\ SyncBuffer \/ UNCHANGED pubBuffer
    /\ Deliver \/ UNCHANGED <<position, unsubs>>
    /\ Enqueue \/ UNCHANGED view
    /\ Publish \/ RemoveStream \/ UNCHANGED top
    /\ RemoveStream \/ UNCHANGED epoch
StreamStep ==
    \/ ClearHistory \/ Publish \/ LosePublication \/ RemoveStream
    \/ BroadcastStep

LEMMA StreamMoves == ASSUME StreamStep PROVE StreamMove
<1> USE DEF StreamMove, stream, broadcast, context, sync
<1>1. CASE ClearHistory \/ LosePublication
  BY <1>1 DEF ClearHistory, LosePublication
<1>2. CASE Publish
  BY <1>2 DEF Publish
<1>3. CASE RemoveStream
  BY <1>3 DEF RemoveStream
<1>4. CASE SyncBuffer
  BY <1>4 DEF SyncBuffer
<1>5. CASE Deliver
  BY <1>5 DEF Deliver
<1>6. CASE Enqueue
  BY <1>6 DEF Enqueue
<1>7. CASE BroadcastStep /\ ~SyncBuffer /\ ~Deliver /\ ~Enqueue
  BY <1>7 DEF BroadcastStep, BroadcastStart, BroadcastEnd, BroadcastNext
<1> HIDE DEF StreamMove
<1>8. QED BY <1>1, <1>2, <1>3, <1>4, <1>5, <1>6, <1>7 DEF StreamStep

\* Where the flow of one client is decides about its subscribeState and its
\* channel context.
SyncOk(c) ==
    /\ inSubscribe[c] <=> fpc[c] \in Buffering
    /\ pubBufferLocked[c] <=> fpc[c] \in Locked
    /\ pubBuffer[c] # {} => fpc[c] \in Buffering \ Locked
    /\ \A n \in pubBuffer[c] : n <= top
    /\ channels[c] = "subscribed" => fpc[c] \in {"idle", "stop"}

\* How a step of the flow takes the client past the broadcast: it enters and
\* leaves the hub between two broadcasts, stops a broadcast's wait for the
\* buffer lock, and reads the history only once it is in the hub.
PastHub == {"history", "lock", "reply", "set", "stop"}
HubOk(c) ==
    /\ subs' = subs \/ bpc = "idle"
    /\ \/ bpc' = bpc /\ (inSubscribe[c] => inSubscribe'[c])
       \/ /\ bpc' = IF bpc = "sync" /\ bcur = c THEN "deliver" ELSE bpc
          /\ fpc'[c] \notin PastHub
    /\ bpc # "idle" /\ fpc'[c] \in PastHub => fpc[c] \in PastHub

\* What a step of the flow does to the client's reply and subscription.
FlowMove(c) ==
    /\ \/ fpc'[c] \notin {"lock"} \cup Locked
       \/ ReadHistory(c) \/ LockAndMerge(c) \/ WriteReply(c)
       \/ SetChannelContext(c)
    /\ \/ SetChannelContext(c)
       \/ /\ position'[c] \in {position[c], NoPosition}
          /\ \/ channels'[c] # "subscribed"
             \/ channels'[c] = channels[c] /\ position'[c] = position[c]
    /\ c \in subs' => c \in subs \/ fpc[c] = "addsub"
    /\ WriteReply(c) \/ UNCHANGED view
    /\ UNCHANGED unsubs

\* A step of the flow keeps its subscribeState in step with it.
LEMMA FlowOwn ==
    ASSUME Tables, NEW c \in Clients, SyncOk(c),
           SubscribeCommand(c) \/ FlowStep(c)
    PROVE  SyncOk(c)' /\ HubOk(c) /\ FlowMove(c)
<1> USE DEF Tables, SyncOk, HubOk, FlowMove, PastHub, Buffering, Locked, Goto, HubFree,
            stream, broadcast, context, sync
<1>1. CASE HandlerReply(c)
  <2>1. /\ fpc[c] = "handler" /\ fpc'[c] \in {"start", "cleanup"}
        /\ UNCHANGED <<top, bpc, subs, context, sync, view, unsubs>>
    BY <1>1, SMT DEF HandlerReply, Leave
  <2>2. QED BY <2>1
<1>2. CASE StartBuffering(c)
  BY <1>2 DEF StartBuffering
<1>3. CASE AddSubscription(c)
  BY <1>3 DEF AddSubscription
<1>4. CASE SubscribeError(c) \/ MergeFails(c) \/ FinishSubscribe(c)
  BY <1>4, SMT DEF SubscribeError, MergeFails, FinishSubscribe, Leave, StopBuffering
<1>5. CASE ReadHistory(c)
  <2>1. /\ fpc[c] = "history" /\ fpc'[c] = "lock"
        /\ UNCHANGED <<top, bpc, subs, context, sync, view, unsubs>>
    BY <1>5 DEF ReadHistory
  <2>2. QED BY <1>5, <2>1
<1>6. CASE LockAndMerge(c)
  <2>1. /\ fpc[c] = "lock" /\ fpc'[c] = "reply"
        /\ pubBuffer'[c] = {} /\ pubBufferLocked'[c] = TRUE
        /\ UNCHANGED <<top, bpc, subs, context, inSubscribe, view, unsubs>>
    BY <1>6 DEF LockAndMerge
  <2>2. QED BY <1>6, <2>1
<1>7. CASE WriteReply(c)
  BY <1>7 DEF WriteReply
<1>8. CASE SetChannelContext(c)
  BY <1>8 DEF SetChannelContext
<1>9. CASE ForgetChannel(c)
  BY <1>9 DEF ForgetChannel
<1>10. CASE LeaveHub(c)
  BY <1>10 DEF LeaveHub
<1>11. CASE SubscribeCommand(c)
  <2>1. PICK recover, o : Subscribe(c, recover, o)
    BY <1>11 DEF SubscribeCommand
  <2>2. QED BY <2>1 DEF Subscribe
<1> HIDE DEF SyncOk, HubOk, FlowMove
<1>12. QED
  BY <1>1, <1>2, <1>3, <1>4, <1>5, <1>6, <1>7, <1>8, <1>9, <1>10, <1>11
  DEF FlowStep

LEMMA SyncParts == SyncInv <=> \A c \in Clients : SyncOk(c)
BY DEF SyncInv, SyncOk

\* The kinds of steps the invariants are checked for.
FlowSteps  == \E c \in Clients : SubscribeCommand(c) \/ FlowStep(c)
UnsubSteps == \E c \in Clients : Unsubscribe(c) \/ UnsubStep(c) \/ CheckStep(c)
StepCase   == FlowSteps \/ UnsubSteps \/ StreamStep \/ UNCHANGED vars

LEMMA StepCases == [Next]_vars => StepCase
BY DEF Next, StepCase, FlowSteps, UnsubSteps, StreamStep

\* What the invariant says about the step of a flow, of an unsubscribe goroutine
\* or of a position check.
LEMMA FlowEffect ==
    ASSUME SafetyInv, FlowSteps
    PROVE  \E c \in Clients : /\ SubscribeCommand(c) \/ FlowStep(c)
                              /\ Own(c) /\ SyncOk(c)' /\ HubOk(c) /\ FlowMove(c)
<1>1. Tables /\ \A c \in Clients : SyncOk(c)
  BY TablesType, SyncParts DEF SafetyInv
<1>2. QED BY <1>1, FlowIsOwn, FlowOwn DEF FlowSteps

LEMMA UnsubEffect ==
    ASSUME SafetyInv, UnsubSteps
    PROVE  \E c \in Clients : Own(c) /\ UnsubMove(c)
<1>1. Tables /\ \A c \in Clients : reading[c] \in Nat /\ deleting[c] \in Nat
  BY TablesType DEF SafetyInv, TypeOK
<1>2. QED BY <1>1, UnsubIsOwn DEF UnsubSteps

\* subscribeState and channel context follow the subscribe flow.
LEMMA SyncInvStep ==
    ASSUME SafetyInv, [Next]_vars, TypeOK'
    PROVE  SyncInv'
<1>1. BroadcastInv /\ \A c \in Clients : SyncOk(c)
  BY SyncParts DEF SafetyInv
<1>t. /\ top \in Nat /\ top' \in Nat /\ sent \in Nat /\ bcur \in Clients
      /\ pubBuffer \in [Clients -> SUBSET Nat]
  BY BoundsAssumption, SMT DEF SafetyInv, TypeOK, Offsets
<1> SUFFICES ASSUME NEW d \in Clients PROVE SyncOk(d)'
  BY DEF SyncInv, SyncOk
<1>2. SyncOk(d)
  BY <1>1
<1>3. Alone(d) /\ UNCHANGED top => SyncOk(d)'
  BY <1>2 DEF SyncOk, Alone
<1>4. CASE FlowSteps
  BY <1>3, <1>4, FlowEffect DEF Own, SameStream
<1>5. CASE UnsubSteps
  <2>1. PICK c \in Clients : Own(c) /\ UnsubMove(c)
    BY <1>5, UnsubEffect
  <2>2. CASE d = c
    BY <1>2, <2>1, <2>2 DEF UnsubMove, SyncOk, sync, flow, Own, SameStream
  <2>3. CASE d # c
    BY <1>3, <2>1, <2>3 DEF Own, SameStream
  <2>4. QED BY <2>2, <2>3
<1>6. CASE SyncBuffer
  <2>1. /\ pubBuffer' = [pubBuffer EXCEPT ![bcur] = @ \cup {sent + 1}]
        /\ ~pubBufferLocked[bcur] /\ bpc = "sync"
        /\ UNCHANGED <<top, fpc, channels, inSubscribe, pubBufferLocked>>
    BY <1>6 DEF SyncBuffer, bpub, stream, flow, context
  <2>2. inSubscribe[bcur] /\ sent + 1 <= top
    BY <1>1, <1>t, <2>1, SMT DEF BroadcastInv
  <2>3. QED BY <1>1, <1>t, <2>1, <2>2 DEF SyncOk
<1>7. CASE StreamStep /\ ~SyncBuffer
  <2>1. UNCHANGED <<fpc, channels, inSubscribe, pubBuffer, pubBufferLocked>>
    BY <1>7, StreamMoves DEF StreamMove, flow
  <2>2. CASE RemoveStream
    BY <1>2, <2>1, <2>2 DEF RemoveStream, SyncOk
  <2>3. CASE ~RemoveStream
    <3>1. top <= top'
      BY <1>t, <1>7, <2>3, StreamMoves, SMT DEF StreamMove, Publish
    <3>2. QED BY <1>2, <1>t, <2>1, <3>1, SMT DEF SyncOk
  <2>4. QED BY <2>2, <2>3
<1>8. CASE UNCHANGED vars
  BY <1>2, <1>8 DEF vars, SyncOk, stream, context, sync, flow
<1>9. QED BY <1>4, <1>5, <1>6, <1>7, <1>8, StepCases DEF StepCase

\* The broadcast stays within the hub's clients: addSub and removeSub wait for
\* the hub lock it holds.
LEMMA BroadcastInvStep ==
    ASSUME SafetyInv, [Next]_vars, TypeOK'
    PROVE  BroadcastInv'
<1>1. BroadcastInv /\ \A c \in Clients : SyncOk(c)
  BY SyncParts DEF SafetyInv
<1>t. top \in Nat /\ sent \in Nat /\ bcur \in Clients /\ btodo \subseteq Clients
  BY BoundsAssumption, SMT DEF SafetyInv, TypeOK, Offsets
<1>2. CASE FlowSteps
  <2>1. PICK c \in Clients : Own(c) /\ HubOk(c)
    BY <1>2, FlowEffect
  <2>2. /\ UNCHANGED <<top, sent, btodo, bcur>>
        /\ bcur # c => UNCHANGED <<fpc[bcur], inSubscribe[bcur], bpc>>
    BY <1>t, <2>1 DEF Own, SameStream, Alone, HubOk
  <2>3. (bpc' = "idle") = (bpc = "idle")
    BY <2>1 DEF HubOk
  <2>4. QED BY <1>1, <2>1, <2>2, <2>3 DEF BroadcastInv, HubOk, PastHub
<1>3. CASE UnsubSteps
  <2>1. PICK c \in Clients : Own(c) /\ UnsubMove(c)
    BY <1>3, UnsubEffect
  <2>2. QED BY <1>1, <2>1 DEF BroadcastInv, UnsubMove, Own, SameStream, sync, flow
<1>4. CASE Publish \/ LosePublication \/ RemoveStream \/ ClearHistory
           \/ UNCHANGED vars
  BY <1>1, <1>t, <1>4, SMT DEF Publish, LosePublication, RemoveStream, ClearHistory,
     vars, BroadcastInv, stream, broadcast, sync, flow
<1>5. CASE BroadcastStart \/ BroadcastEnd
  BY <1>1, <1>t, <1>5 DEF BroadcastStart, BroadcastEnd, BroadcastInv, stream
<1>6. CASE SyncBuffer \/ Deliver \/ Enqueue
  <2>1. CASE SyncBuffer
    BY <1>1, <2>1 DEF SyncBuffer, BroadcastInv, stream, flow
  <2>2. CASE Deliver
    BY <1>1, <2>2 DEF Deliver, BroadcastInv, stream, sync, flow
  <2>3. CASE Enqueue
    BY <1>1, <2>3 DEF Enqueue, BroadcastInv, stream, sync, flow
  <2>4. QED BY <1>6, <2>1, <2>2, <2>3
<1>7. ASSUME NEW c \in Clients, BroadcastNext(c) PROVE BroadcastInv'
  <2>1. SyncOk(c)
    BY <1>1
  <2>2. QED BY <1>1, <1>7, <2>1 DEF BroadcastNext, BroadcastInv, SyncOk, Buffering,
     stream, sync, flow
<1>8. QED BY <1>2, <1>3, <1>4, <1>5, <1>6, <1>7, StepCases
      DEF StepCase, StreamStep, BroadcastStep

\* The offset of one position may be replaced.
LEMMA OffsetUpdate ==
    ASSUME NEW f \in [Clients -> Position], NEW c \in Clients,
          NEW n \in Offsets
    PROVE  [f EXCEPT ![c].offset = n] \in [Clients -> Position]
<1>1. [f[c] EXCEPT !.offset = n] \in Position
  BY DEF Position
<1>2. QED BY <1>1

\* A subscribe command asks for an offset of the stream.
LEMMA SubscribeArguments ==
    ASSUME TypeOK, NEW c \in Clients, SubscribeCommand(c)
    PROVE  \E recover \in BOOLEAN, o \in Offsets : Subscribe(c, recover, o)
<1>1. CASE Subscribe(c, FALSE, 0)
  <2>1. FALSE \in BOOLEAN /\ 0 \in Offsets
    BY BoundsAssumption, SMT DEF Offsets
  <2>2. QED BY <1>1, <2>1
<1>2. CASE \E o \in 0..view[c].offset : Subscribe(c, TRUE, o)
  <2>1. view[c].offset \in Offsets
    BY DEF TypeOK, Position
  <2>2. 0..view[c].offset \subseteq Offsets
    BY <2>1, BoundsAssumption, SMT DEF Offsets
  <2>3. QED BY <1>2, <2>2
<1>3. QED BY <1>1, <1>2 DEF SubscribeCommand

\* The values a step writes have the types of the variables.
LEMMA ValueTypes ==
    ASSUME TypeOK
    PROVE  /\ NoPosition \in Position /\ StreamTop \in Position
           /\ NoRequest \in [recover : BOOLEAN, epoch : 0..MaxEpoch,
                             offset : Offsets]
           /\ sent < top => bpub \in Position
           /\ \A n \in Nat : HistorySince(n) \in SUBSET Offsets
           /\ \A c \in Clients : /\ view[c].epoch \in 0..MaxEpoch
                                 /\ view[c].offset \in Offsets
                                 /\ req[c].epoch \in 0..MaxEpoch
                                 /\ req[c].offset \in Nat
<1> USE BoundsAssumption DEF TypeOK, Offsets
<1>1. NoPosition \in Position /\ StreamTop \in Position
  BY SMT DEF NoPosition, StreamTop, Position
<1>2. NoRequest \in [recover : BOOLEAN, epoch : 0..MaxEpoch, offset : Offsets]
  BY SMT DEF NoRequest
<1>3. sent < top => bpub \in Position
  BY SMT DEF bpub, Position
<1>4. \A n \in Nat : HistorySince(n) \in SUBSET Offsets
  BY SMT DEF HistorySince
<1>5. \A c \in Clients : view[c] \in Position
  OBVIOUS
<1>6. QED BY <1>1, <1>2, <1>3, <1>4, <1>5, SMT DEF Position

\* The local variables of the flows have their types.
LocalsType ==
    /\ fpc \in [Clients -> FlowPoints]
    /\ req \in [Clients -> [recover : BOOLEAN, epoch : 0..MaxEpoch,
                             offset : Offsets]]
    /\ latest \in [Clients -> Position]
    /\ recovered \in [Clients -> BOOLEAN]
    /\ recoveredPubs \in [Clients -> SUBSET Offsets]

LEMMA LeaveType ==
    ASSUME TypeOK, NEW c \in Clients, NEW p \in FlowPoints, Leave(c, p)
    PROVE  LocalsType'
BY ValueTypes DEF TypeOK, LocalsType, Leave, Goto

\* Every step of a flow keeps the variables within their types.
LEMMA FlowTypeStep ==
    ASSUME TypeOK, NEW c \in Clients, SubscribeCommand(c) \/ FlowStep(c)
    PROVE  TypeOK'
<1>v. /\ NoPosition \in Position /\ StreamTop \in Position
      /\ NoRequest \in [recover : BOOLEAN, epoch : 0..MaxEpoch,
                        offset : Offsets]
  BY ValueTypes
<1> USE <1>v DEF TypeOK, FlowPoints, stream, broadcast, context, sync, flow, unsubs,
                 Goto
<1>1. CASE HandlerReply(c)
  <2>1. CASE Leave(c, "cleanup")
    <3>1. LocalsType'
      BY <2>1, LeaveType
    <3>2. QED BY <1>1, <3>1 DEF HandlerReply, LocalsType
  <2>2. CASE Goto(c, "start") /\ UNCHANGED <<req, latest, recovered, recoveredPubs>>
    BY <1>1, <2>2 DEF HandlerReply
  <2>3. QED BY <1>1, <2>1, <2>2 DEF HandlerReply
<1>2. CASE StartBuffering(c)
  BY <1>2 DEF StartBuffering
<1>3. CASE AddSubscription(c)
  BY <1>3 DEF AddSubscription
<1>4. CASE SubscribeError(c) \/ MergeFails(c) \/ FinishSubscribe(c)
  <2>1. LocalsType'
    BY <1>4, LeaveType DEF SubscribeError, MergeFails, FinishSubscribe
  <2>2. /\ StopBuffering(c) /\ UNCHANGED <<stream, sent, btodo, bcur, subs>>
        /\ UNCHANGED <<context, unsubs, checked, view>>
    BY <1>4 DEF SubscribeError, MergeFails, FinishSubscribe
  <2>3. QED BY <2>1, <2>2 DEF StopBuffering, LocalsType
<1>5. CASE ReadHistory(c)
  <2>1. recoveredPubs' \in [Clients -> SUBSET Offsets]
    BY <1>5, ValueTypes DEF ReadHistory
  <2>2. QED BY <1>5, <2>1 DEF ReadHistory
<1>6. CASE LockAndMerge(c)
  <2>1. PICK n \in Offsets : latest' = [latest EXCEPT ![c].offset = n]
    BY <1>6 DEF LockAndMerge
  <2>2. latest' \in [Clients -> Position]
    BY <2>1, OffsetUpdate
  <2>3. QED BY <1>6, <2>2 DEF LockAndMerge
<1>7. CASE WriteReply(c)
  <2>1. \A n \in Offsets : [epoch |-> req[c].epoch, offset |-> n] \in Position
    BY ValueTypes DEF Position
  <2>2. view' \in [Clients -> Position]
    BY <1>7, <2>1, SMT DEF WriteReply
  <2>3. QED BY <1>7, <2>2 DEF WriteReply
<1>8. CASE SetChannelContext(c)
  BY <1>8 DEF SetChannelContext
<1>9. CASE ForgetChannel(c)
  BY <1>9 DEF ForgetChannel
<1>10. CASE LeaveHub(c)
  BY <1>10 DEF LeaveHub
<1>11. CASE SubscribeCommand(c)
  <2>1. PICK recover \in BOOLEAN, o \in Offsets : Subscribe(c, recover, o)
    BY <1>11, SubscribeArguments
  <2>2. QED BY <2>1, ValueTypes DEF Subscribe
<1> HIDE DEF TypeOK
<1>12. QED
  BY <1>1, <1>2, <1>3, <1>4, <1>5, <1>6, <1>7, <1>8, <1>9, <1>10, <1>11
  DEF FlowStep

\* So do the unsubscribe goroutines and the position checks.
LEMMA UnsubTypeStep ==
    ASSUME TypeOK, NEW c \in Clients,
           Unsubscribe(c) \/ UnsubStep(c) \/ CheckStep(c)
    PROVE  TypeOK'
<1>v. NoPosition \in Position /\ StreamTop \in Position
  BY ValueTypes
<1> USE <1>v DEF TypeOK, stream, broadcast, context, sync, flow, unsubs
<1>1. CASE Unsubscribe(c)
  BY <1>1, SMT DEF Unsubscribe, Spawn
<1>2. CASE UnsubRead(c)
  BY <1>2, SMT DEF UnsubRead
<1>3. CASE UnsubDelete(c)
  BY <1>3, SMT DEF UnsubDelete
<1>4. CASE UnsubRemove(c)
  BY <1>4, SMT DEF UnsubRemove
<1>5. CASE CheckPosition(c)
  BY <1>5 DEF CheckPosition
<1>6. CASE ComparePosition(c)
  <2>1. UNCHANGED unsubs \/ Spawn(c)
    BY <1>6 DEF ComparePosition
  <2>2. CASE Spawn(c)
    BY <1>6, <2>2, SMT DEF ComparePosition, Spawn
  <2>3. CASE UNCHANGED unsubs
    BY <1>6, <2>3 DEF ComparePosition
  <2>4. QED BY <2>1, <2>2, <2>3
<1> HIDE DEF TypeOK
<1>7. QED BY <1>1, <1>2, <1>3, <1>4, <1>5, <1>6 DEF UnsubStep, CheckStep

\* So do publishing and broadcasting.
LEMMA StreamTypeStep ==
    ASSUME TypeOK, BroadcastInv,
           \/ ClearHistory \/ Publish \/ LosePublication \/ RemoveStream
           \/ BroadcastStep
    PROVE  TypeOK'
<1>v. bpc # "idle" => bpub \in Position
  BY ValueTypes DEF BroadcastInv
<1> USE <1>v DEF TypeOK, stream, broadcast, context, sync, flow, unsubs
<1>1. CASE ClearHistory \/ Publish \/ LosePublication \/ RemoveStream
  <2>1. CASE Publish
    BY <1>1, <2>1, BoundsAssumption, SMT DEF Publish, Trim, Offsets
  <2>2. CASE ClearHistory \/ LosePublication \/ RemoveStream
    BY <2>2, BoundsAssumption, SMT DEF ClearHistory, LosePublication, RemoveStream,
       Offsets
  <2>3. QED BY <1>1, <2>1, <2>2
<1>2. CASE BroadcastStart \/ BroadcastEnd
  BY <1>2, BoundsAssumption, SMT DEF BroadcastStart, BroadcastEnd, BroadcastInv,
     Offsets
<1>3. CASE SyncBuffer
  BY <1>3, BoundsAssumption, SMT DEF SyncBuffer, bpub, BroadcastInv, Offsets
<1>4. CASE Deliver
  <2>1. \/ UNCHANGED position
        \/ position' = [position EXCEPT ![bcur] = bpub]
    BY <1>4 DEF Deliver
  <2>2. UNCHANGED <<reading, deleting, removing>> \/ Spawn(bcur)
    BY <1>4 DEF Deliver
  <2>3. bpc # "idle" /\ bpc' \in {"bcast", "enqueue"}
    BY <1>4 DEF Deliver
  <2>4. position' \in [Clients -> Position]
    BY <2>1, <2>3
  <2>5. /\ reading' \in [Clients -> Nat] /\ deleting' \in [Clients -> Nat]
        /\ removing' \in [Clients -> Nat]
    BY <2>2, SMT DEF Spawn
  <2>6. QED BY <1>4, <2>3, <2>4, <2>5 DEF Deliver
<1>5. CASE Enqueue
  BY <1>5 DEF Enqueue
<1>6. ASSUME NEW c \in Clients, BroadcastNext(c) PROVE TypeOK'
  BY <1>6 DEF BroadcastNext
<1> HIDE DEF TypeOK
<1>7. QED BY <1>1, <1>2, <1>3, <1>4, <1>5, <1>6 DEF BroadcastStep

\* Every step keeps the variables within their types.
LEMMA TypeStep ==
    ASSUME SafetyInv, [Next]_vars
    PROVE  TypeOK'
<1>1. TypeOK /\ BroadcastInv
  BY DEF SafetyInv
<1>2. CASE UNCHANGED vars
  BY <1>1, <1>2 DEF vars, TypeOK, stream, broadcast, context, sync, flow, unsubs
<1>3. QED
  BY <1>1, <1>2, FlowTypeStep, UnsubTypeStep, StreamTypeStep DEF Next

-----------------------------------------------------------------------------
(* The safety invariant                                                     *)

\* A step that changes nothing a flow has.
SameFlow(d) ==
    /\ fpc'[d] = fpc[d] /\ req'[d] = req[d] /\ latest'[d] = latest[d]
    /\ recovered'[d] = recovered[d] /\ recoveredPubs'[d] = recoveredPubs[d]
    /\ view'[d] = view[d]

\* The facts about a flow last while its variables and the stream do.
LEMMA FlowFrame ==
    ASSUME NEW d \in Clients, FlowOk(d), SameFlow(d), UNCHANGED <<epoch, top>>
    PROVE  FlowOk(d)'
BY DEF FlowOk, SameFlow, IsMax

\* When isRecovered accepts what a history read returned, that is everything
\* between the requested offset and the stream top.
LEMMA RecoveredIsComplete ==
    ASSUME SafetyInv, NEW offset \in Offsets,
           IsRecovered(HistorySince(offset), top, offset)
    PROVE  /\ offset <= top
           /\ \A n \in Offsets : offset < n
                 /\ n <= top => n \in HistorySince(offset)
<1> DEFINE pubs == HistorySince(offset)
<1>0. offset \in Nat /\ top \in Nat /\ low \in Nat /\ RecoveryLimit \in Nat
  BY BoundsAssumption, SMT DEF SafetyInv, TypeOK, Offsets
<1>1. CASE pubs = {}
  BY <1>0, <1>1, SMT DEF IsRecovered, Offsets
<1>2. CASE pubs # {}
  <2>1. offset + 1 \in pubs /\ top \in pubs
    BY <1>2 DEF IsRecovered
  <2>2. offset + 1 >= low /\ offset + 1 <= top
    BY <1>0, <2>1, SMT DEF HistorySince
  <2>3. RecoveryLimit = 0 \/ top < offset + 1 + RecoveryLimit
    BY <1>0, <2>1, <2>2, SMT DEF HistorySince
  <2>4. QED BY <1>0, <2>2, <2>3, SMT DEF HistorySince, Offsets
<1>3. QED BY <1>1, <1>2

\* Types of what the merge looks at.
LEMMA FlowTypes ==
    ASSUME TypeOK, NEW c \in Clients
    PROVE  /\ latest[c] \in Position /\ latest[c].offset \in Nat
           /\ req[c].offset \in Nat /\ top \in Nat
           /\ Offsets \subseteq Nat
           /\ recoveredPubs[c] \subseteq Offsets
                 /\ pubBuffer[c] \subseteq Offsets
BY BoundsAssumption, SMT DEF TypeOK, Position, Offsets

\* What the merge does.
LEMMA MergeEffect ==
    ASSUME SafetyInv, NEW c \in Clients, LockAndMerge(c)
    PROVE  LET merged == recoveredPubs[c] \cup pubBuffer[c] IN
           /\ IsMax(latest'[c].offset, merged \cup {latest[c].offset})
           /\ latest'[c].offset \in Offsets /\ latest'[c].epoch = latest[c].epoch
           /\ fpc[c] = "lock" /\ fpc'[c] = "reply" /\ recoveredPubs'[c] = merged
           /\ UNCHANGED <<epoch, top, req, recovered, subs, sent, bpc, btodo, bcur>>
<1>1. Tables /\ latest[c] \in Position
  BY TablesType, FlowTypes DEF SafetyInv
<1>2. PICK n \in Offsets :
         /\ IsMax(n, recoveredPubs[c] \cup pubBuffer[c] \cup {latest[c].offset})
         /\ latest' = [latest EXCEPT ![c].offset = n]
  BY DEF LockAndMerge
<1>3. latest'[c].offset = n /\ latest'[c].epoch = latest[c].epoch
  BY <1>1, <1>2 DEF Tables, Position
<1>4. QED BY <1>1, <1>2, <1>3 DEF LockAndMerge, Goto, Tables, stream, broadcast

\* After the merge the position to continue from is the last publication of the
\* reply, or the requested offset when the reply has none.
LEMMA MergeKeepsFlow ==
    ASSUME SafetyInv, NEW c \in Clients, LockAndMerge(c)
    PROVE  FlowOk(c)'
<1> DEFINE merged == recoveredPubs[c] \cup pubBuffer[c]
           old    == latest[c].offset
           from   == req[c].offset
           n      == latest'[c].offset
<1>1. /\ n \in Offsets /\ IsMax(n, merged \cup {old})
      /\ latest'[c].epoch = latest[c].epoch
      /\ fpc[c] = "lock" /\ fpc'[c] = "reply" /\ recoveredPubs'[c] = merged
      /\ UNCHANGED <<epoch, top, req, recovered>>
  BY MergeEffect
<1>2. FlowOk(c) /\ \A k \in pubBuffer[c] : k <= top
  BY DEF SafetyInv, FlowInv, SyncInv
<1> HIDE DEF n
<1>3. /\ old \in Nat /\ from \in Nat /\ n \in Nat /\ top \in Nat
      /\ merged \subseteq Nat /\ old \in Offsets
  BY <1>1, FlowTypes DEF SafetyInv, Position
<1>4. /\ old <= top /\ latest[c].epoch = epoch
      /\ \A k \in recoveredPubs[c] : k <= old
  BY <1>1, <1>2 DEF FlowOk
<1>5. old <= n /\ n <= top
  BY <1>1, <1>2, <1>3, <1>4, SMT DEF IsMax
<1>6. ASSUME recovered[c]
      PROVE  /\ req[c].epoch = epoch /\ from <= n
             /\ IsMax(n, merged \cup {from})
  <2>1. /\ req[c].epoch = epoch /\ from <= old
        /\ \A k \in Offsets : from < k /\ k <= old => k \in recoveredPubs[c]
    BY <1>1, <1>2, <1>6 DEF FlowOk
  <2>2. from = old \/ old \in merged
    BY <1>3, <2>1, SMT
  <2>3. n \in merged \cup {from}
    BY <1>1, <2>2 DEF IsMax
  <2>4. \A k \in merged \cup {from} : k <= n
    BY <1>1, <1>3, <1>5, <2>1, SMT DEF IsMax
  <2>5. QED BY <1>3, <1>5, <2>1, <2>3, <2>4 DEF IsMax
<1>7. QED BY <1>1, <1>4, <1>5, <1>6 DEF FlowOk, Locked, IsMax, n

\* A reply takes the client to the position the server continues from.
LEMMA ReplyIsLatest ==
    ASSUME SafetyInv, NEW c \in Clients, WriteReply(c)
    PROVE  view'[c] = latest[c]
<1>0. fpc[c] = "reply" /\ FlowOk(c) /\ view \in [Clients -> Position]
  BY DEF WriteReply, SafetyInv, FlowInv, TypeOK
<1>1. CASE recovered[c]
  <2>1. PICK n \in Offsets :
           /\ IsMax(n, recoveredPubs[c] \cup {req[c].offset})
           /\ view' = [view EXCEPT ![c] = [epoch |-> req[c].epoch, offset |-> n]]
    BY <1>1 DEF WriteReply
  <2>2. /\ IsMax(latest[c].offset, recoveredPubs[c] \cup {req[c].offset})
        /\ req[c].epoch = epoch /\ latest[c].epoch = epoch
    BY <1>0, <1>1 DEF FlowOk, Locked
  <2>3. n = latest[c].offset
    <3>1. n \in Nat /\ latest[c].offset \in Nat
      BY FlowTypes DEF SafetyInv
    <3>2. n <= latest[c].offset /\ latest[c].offset <= n
      BY <2>1, <2>2 DEF IsMax
    <3>3. QED BY <3>1, <3>2, SMT
  <2>4. latest[c] = [epoch |-> epoch, offset |-> n]
    BY <2>2, <2>3, FlowTypes DEF Position, SafetyInv
  <2>5. QED BY <1>0, <2>1, <2>2, <2>4
<1>2. CASE ~recovered[c]
  BY <1>0, <1>2 DEF WriteReply
<1>3. QED BY <1>1, <1>2

\* A step that leaves all flows alone keeps the facts about them.
LEMMA FlowsFrame ==
    ASSUME FlowInv, UNCHANGED <<epoch, top, flow, view>>
    PROVE  FlowInv'
<1> SUFFICES ASSUME NEW d \in Clients PROVE FlowOk(d)'
  BY DEF FlowInv
<1>1. FlowOk(d) /\ SameFlow(d)
  BY DEF FlowInv, SameFlow, flow
<1>2. QED BY <1>1, FlowFrame

\* So does a step of one flow when they hold for that flow afterwards.
LEMMA OneFlow ==
    ASSUME FlowInv, NEW c \in Clients, Own(c), FlowOk(c)'
    PROVE  FlowInv'
<1> SUFFICES ASSUME NEW d \in Clients, d # c PROVE FlowOk(d)'
  BY DEF FlowInv
<1>1. FlowOk(d) /\ SameFlow(d) /\ UNCHANGED <<epoch, top>>
  BY DEF FlowInv, Own, SameStream, Alone, SameLocals, SameFlow
<1>2. QED BY <1>1, FlowFrame

\* What a history read knows about the stream.
LEMMA ReadKeepsFlow ==
    ASSUME SafetyInv, NEW c \in Clients, ReadHistory(c)
    PROVE  FlowOk(c)'
<1> DEFINE cmd  == req[c]
           pubs == recoveredPubs'[c]
<1>1. Tables /\ cmd.offset \in Offsets /\ top \in Nat
  BY TablesType, BoundsAssumption, SMT DEF SafetyInv, TypeOK, Offsets
<1>2. /\ fpc'[c] = "lock" /\ latest'[c] = StreamTop /\ req'[c] = cmd
      /\ UNCHANGED <<epoch, top>>
  BY <1>1 DEF ReadHistory, Goto, Tables, stream
<1>3. recovered'[c] => /\ cmd.epoch = epoch
                       /\ pubs = HistorySince(cmd.offset)
                       /\ IsRecovered(pubs, top, cmd.offset)
  BY <1>1 DEF ReadHistory, Tables
<1>4. pubs = {} \/ pubs = HistorySince(cmd.offset)
  BY <1>1 DEF ReadHistory, Tables
<1>5. \A n \in pubs : n <= top
  BY <1>4, BoundsAssumption, SMT DEF HistorySince, SafetyInv, TypeOK, Offsets
<1>6. ASSUME recovered'[c]
      PROVE  /\ cmd.offset <= top
             /\ \A n \in Offsets : cmd.offset < n /\ n <= top => n \in pubs
  BY <1>1, <1>3, <1>6, RecoveredIsComplete DEF cmd
<1>7. latest'[c].epoch = epoch /\ latest'[c].offset = top /\ top <= top
  BY <1>1, <1>2, SMT DEF StreamTop
<1> HIDE DEF pubs, cmd
<1>8. QED BY <1>2, <1>3, <1>5, <1>6, <1>7 DEF FlowOk, pubs, cmd, Locked

\* The facts about a reply last until the subscription has its position.
LEMMA ReplyKeepsFlow ==
    ASSUME SafetyInv, NEW c \in Clients, WriteReply(c) \/ SetChannelContext(c)
    PROVE  FlowOk(c)'
<1>1. Tables /\ FlowOk(c)
  BY TablesType DEF SafetyInv, FlowInv
<1>2. CASE WriteReply(c)
  <2>1. /\ fpc'[c] = "set" /\ fpc[c] = "reply"
        /\ UNCHANGED <<epoch, top, latest>>
    BY <1>1, <1>2 DEF WriteReply, Goto, Tables, stream
  <2>2. view'[c] = latest[c]
    BY <1>2, ReplyIsLatest
  <2>3. QED BY <1>1, <2>1, <2>2 DEF FlowOk, Locked
<1>3. CASE SetChannelContext(c)
  <2>1. /\ fpc'[c] = "stop" /\ fpc[c] = "set"
        /\ UNCHANGED <<epoch, top, latest, view>>
    BY <1>1, <1>3 DEF SetChannelContext, Goto, Tables, stream
  <2>2. QED BY <1>1, <2>1 DEF FlowOk, Locked
<1>4. QED BY <1>2, <1>3

\* Every step keeps what the flow's local variables say about the stream.
LEMMA FlowInvStep ==
    ASSUME SafetyInv, [Next]_vars, TypeOK'
    PROVE  FlowInv'
<1>0. FlowInv
  BY DEF SafetyInv
<1>1. CASE FlowSteps
  <2>1. PICK c \in Clients : Own(c) /\ FlowMove(c)
    BY <1>1, FlowEffect
  <2>2. FlowOk(c)'
    <3>1. CASE fpc'[c] \notin {"lock"} \cup Locked
      BY <3>1 DEF FlowOk, Locked
    <3>2. CASE ReadHistory(c)
      BY <3>2, ReadKeepsFlow
    <3>3. CASE LockAndMerge(c)
      BY <3>3, MergeKeepsFlow
    <3>4. CASE WriteReply(c) \/ SetChannelContext(c)
      BY <3>4, ReplyKeepsFlow
    <3>5. QED BY <2>1, <3>1, <3>2, <3>3, <3>4 DEF FlowMove
  <2>3. QED BY <1>0, <2>1, <2>2, OneFlow
<1>2. CASE UnsubSteps
  <2>1. UNCHANGED <<epoch, top, flow, view>>
    BY <1>2, UnsubEffect DEF Own, SameStream, UnsubMove
  <2>2. QED BY <1>0, <2>1, FlowsFrame
<1>3. CASE Publish
  <2>1. top' = top + 1 /\ UNCHANGED <<epoch, flow, view>>
    BY <1>3 DEF Publish
  <2>2. TypeOK
    BY DEF SafetyInv
  <2> SUFFICES ASSUME NEW d \in Clients PROVE FlowOk(d)'
    BY DEF FlowInv
  <2>3. top \in Nat /\ latest[d].offset \in Nat
    BY <2>2, FlowTypes
  <2>4. FlowOk(d) /\ (latest[d].offset <= top => latest[d].offset <= top + 1)
    BY <1>0, <2>3, SMT DEF FlowInv
  <2>5. QED BY <2>1, <2>4 DEF FlowOk, flow, IsMax
<1>4. CASE RemoveStream
  BY <1>4 DEF RemoveStream, FlowInv, FlowOk, Locked, flow
<1>5. CASE Enqueue
  <2>1. fpc[bcur] \notin {"set", "stop"} /\ bcur \in Clients /\ Tables
    BY <1>5, TablesType DEF Enqueue, SafetyInv, TypeOK, BroadcastInv
  <2>2. \A d \in Clients \ {bcur} : view'[d] = view[d]
    BY <2>1, <1>5 DEF Enqueue, Tables
  <2>3. UNCHANGED <<epoch, top, fpc, req, latest, recovered, recoveredPubs>>
    BY <1>5 DEF Enqueue, stream, flow
  <2> SUFFICES ASSUME NEW d \in Clients PROVE FlowOk(d)'
    BY DEF FlowInv
  <2>4. FlowOk(d)
    BY <1>0 DEF FlowInv
  <2>5. QED BY <2>1, <2>2, <2>3, <2>4 DEF FlowOk, IsMax
<1>6. CASE StreamStep /\ ~Publish /\ ~RemoveStream /\ ~Enqueue
  BY <1>0, <1>6, StreamMoves, FlowsFrame DEF StreamMove
<1>7. CASE UNCHANGED vars
  BY <1>0, <1>7, FlowsFrame DEF vars, stream
<1>8. QED
  BY <1>1, <1>2, <1>3, <1>4, <1>5, <1>6, <1>7, StepCases DEF StepCase

\* A step that leaves positions and views alone, and does not put the broadcast
\* before or after its enqueue.
SameView ==
    /\ UNCHANGED <<epoch, channels, position, view>>
    /\ UNCHANGED <<sent, bpc, bcur>> \/ (bpc # "enqueue" /\ bpc' # "enqueue")

LEMMA ViewFrame ==
    ASSUME ViewInv, SameView
    PROVE  ViewInv'
<1>1. CASE UNCHANGED <<sent, bpc, bcur>>
  BY <1>1 DEF SameView, ViewInv, PositionIsView, bpub
<1>2. CASE bpc # "enqueue" /\ bpc' # "enqueue"
  BY <1>2 DEF SameView, ViewInv, PositionIsView
<1>3. QED BY <1>1, <1>2 DEF SameView

\* The step of one client keeps positions and views together when that client's
\* do afterwards, and it changes neither while its push is being enqueued.
ViewOk(c) ==
    /\ channels'[c] = "subscribed" => position'[c] = view'[c]
    /\ position'[c].epoch <= epoch

LEMMA OneView ==
    ASSUME ViewInv, NEW c \in Clients, Own(c),
           (bpc' = "enqueue") = (bpc = "enqueue"),
           \/ bpc # "enqueue" \/ bcur # c
           \/ /\ view'[c] = view[c]
              /\ channels'[c] = "subscribed" =>
                    channels[c] = "subscribed" /\ position'[c] = position[c],
           ViewOk(c) \/ (bpc = "enqueue" /\ bcur = c),
           position'[c].epoch <= epoch, bcur \in Clients
    PROVE  ViewInv'
<1>1. /\ UNCHANGED <<epoch, sent, bcur>>
      /\ \A d \in Clients \ {c} : /\ channels'[d] = channels[d]
                                 /\ position'[d] = position[d]
                                 /\ view'[d] = view[d]
  BY DEF Own, SameStream, Alone
<1>2. PositionIsView'
  BY <1>1 DEF ViewInv, PositionIsView, ViewOk
<1>3. QED BY <1>1, <1>2 DEF ViewInv, bpub

\* Every step keeps the server's position and the client's view together.
LEMMA ViewInvStep ==
    ASSUME SafetyInv, [Next]_vars, TypeOK'
    PROVE  ViewInv'
<1>0. ViewInv /\ BroadcastInv /\ Tables /\ \A c \in Clients : SyncOk(c)
  BY TablesType, SyncParts DEF SafetyInv
<1>t. /\ epoch \in Nat /\ sent \in Nat /\ bcur \in Clients
      /\ position \in [Clients -> Position] /\ view \in [Clients -> Position]
      /\ \A p \in Position : p.epoch \in Nat /\ p.offset \in Nat
  BY BoundsAssumption, SMT DEF SafetyInv, TypeOK, Position, Offsets
<1>1. CASE FlowSteps
  <2>1. PICK c \in Clients : Own(c) /\ HubOk(c) /\ FlowMove(c)
    BY <1>1, FlowEffect
  <2>2. (bpc' = "enqueue") = (bpc = "enqueue")
    BY <2>1 DEF HubOk
  <2>3. position[c].epoch <= epoch /\ NoPosition.epoch <= epoch
    BY <1>0, <1>t, SMT DEF ViewInv, NoPosition
  <2>4. CASE WriteReply(c)
    <3>1. /\ fpc[c] = "reply" /\ UNCHANGED <<channels, position>>
      BY <2>4 DEF WriteReply, context
    <3>2. channels[c] # "subscribed" /\ ~(bpc = "enqueue" /\ bcur = c)
      BY <1>0, <3>1 DEF SyncOk, BroadcastInv
    <3>3. QED BY <1>0, <1>t, <2>1, <2>2, <2>3, <3>1, <3>2, OneView DEF ViewOk
  <2>5. CASE SetChannelContext(c)
    <3>1. fpc[c] = "set" /\ position'[c] = latest[c] /\ UNCHANGED view
      BY <1>0, <2>5 DEF SetChannelContext, Tables
    <3>2. view[c] = latest[c] /\ latest[c].epoch = epoch
      BY <3>1 DEF SafetyInv, FlowInv, FlowOk, Locked
    <3>3. ~(bpc = "enqueue" /\ bcur = c)
      BY <1>0, <3>1 DEF BroadcastInv
    <3>4. ViewOk(c) /\ position'[c].epoch <= epoch
      BY <1>t, <3>1, <3>2, SMT DEF ViewOk
    <3>5. QED BY <1>0, <1>t, <2>1, <2>2, <3>3, <3>4, OneView
  <2>6. CASE ~WriteReply(c) /\ ~SetChannelContext(c)
    <3>1. /\ view'[c] = view[c] /\ position'[c] \in {position[c], NoPosition}
          /\ channels'[c] = "subscribed" =>
                channels[c] = "subscribed" /\ position'[c] = position[c]
      BY <2>1, <2>6 DEF FlowMove
    <3>2. /\ position'[c].epoch <= epoch
          /\ ViewOk(c) \/ (bpc = "enqueue" /\ bcur = c)
      BY <1>0, <2>3, <3>1 DEF ViewOk, ViewInv, PositionIsView
    <3>3. QED BY <1>0, <1>t, <2>1, <2>2, <3>1, <3>2, OneView
  <2>7. QED BY <2>4, <2>5, <2>6
<1>2. CASE UnsubSteps
  <2>1. PICK c \in Clients : Own(c) /\ UnsubMove(c)
    BY <1>2, UnsubEffect
  <2>2. /\ UNCHANGED <<bpc, view>> /\ position'[c] \in {position[c], NoPosition}
        /\ channels'[c] = "subscribed" =>
              channels[c] = "subscribed" /\ position'[c] = position[c]
    BY <2>1 DEF UnsubMove
  <2>3. /\ position'[c].epoch <= epoch
        /\ ViewOk(c) \/ (bpc = "enqueue" /\ bcur = c)
    BY <1>0, <1>t, <2>2, SMT DEF ViewOk, ViewInv, PositionIsView, NoPosition
  <2>4. QED BY <1>0, <1>t, <2>1, <2>2, <2>3, OneView
<1>3. CASE RemoveStream
  BY <1>0, <1>t, <1>3, SMT DEF RemoveStream, ViewInv, PositionIsView, context
<1>4. CASE Deliver
  <2>1. CASE ~(channels[bcur] = "subscribed" /\ NextExpected(bcur))
    BY <1>0, <1>4, <2>1, ViewFrame DEF Deliver, SameView, stream
  <2>2. CASE channels[bcur] = "subscribed" /\ NextExpected(bcur)
    <3>1. /\ position' = [position EXCEPT ![bcur] = bpub]
          /\ bpc = "deliver" /\ bpc' = "enqueue"
          /\ UNCHANGED <<epoch, sent, bcur, view, channels>>
      BY <1>4, <2>2 DEF Deliver, stream
    <3>2. position[bcur] = view[bcur]
      BY <1>0, <1>t, <2>2, <3>1 DEF ViewInv, PositionIsView
    <3>3. position[bcur].epoch = epoch /\ position[bcur].offset = sent
      <4>1. epoch = position[bcur].epoch /\ sent + 1 = position[bcur].offset + 1
        BY <2>2 DEF NextExpected, bpub
      <4>2. position[bcur].offset \in Nat
        BY <1>t
      <4>3. QED BY <1>t, <4>1, <4>2, SMT
    <3>4. view[bcur] = [epoch |-> epoch, offset |-> sent]
      BY <1>t, <3>2, <3>3 DEF Position
    <3>5. /\ position'[bcur] = bpub
          /\ \A d \in Clients : d # bcur => position'[d] = position[d]
      BY <1>t, <3>1
    <3>6. PositionIsView'
      BY <1>0, <3>1, <3>4, <3>5 DEF ViewInv, PositionIsView
    <3>7. \A d \in Clients : position'[d].epoch <= epoch
      BY <1>0, <1>t, <3>5, SMT DEF ViewInv, bpub
    <3>8. QED BY <3>1, <3>5, <3>6, <3>7 DEF ViewInv, bpub
  <2>3. QED BY <2>1, <2>2
<1>5. CASE Enqueue
  <2>1. /\ view' = [view EXCEPT ![bcur] = bpub]
        /\ bpc = "enqueue" /\ bpc' = "bcast"
        /\ UNCHANGED <<epoch, channels, position>>
    BY <1>5 DEF Enqueue, stream, context
  <2>2. QED BY <1>0, <1>t, <2>1 DEF ViewInv, PositionIsView
<1>6. CASE StreamStep /\ ~RemoveStream /\ ~Deliver /\ ~Enqueue
  <2>1. UNCHANGED <<epoch, channels, position, view>>
    BY <1>6, StreamMoves DEF StreamMove
  <2>2. UNCHANGED <<sent, bpc, bcur>> \/ (bpc # "enqueue" /\ bpc' # "enqueue")
    BY <1>6 DEF StreamStep, ClearHistory, Publish, LosePublication,
       BroadcastStep, BroadcastStart, BroadcastEnd, BroadcastNext, SyncBuffer,
       broadcast
  <2>3. QED BY <1>0, <2>1, <2>2, ViewFrame DEF SameView
<1>7. CASE UNCHANGED vars
  BY <1>0, <1>7, ViewFrame DEF vars, SameView, stream, broadcast, context
<1>8. QED
  BY <1>1, <1>2, <1>3, <1>4, <1>5, <1>6, <1>7, StepCases DEF StepCase

\* The initial states satisfy the invariant.
LEMMA SafetyInit == Init => SafetyInv
<1> SUFFICES ASSUME Init PROVE SafetyInv
  OBVIOUS
<1> USE ClientsAssumption, BoundsAssumption
    DEF Init, Offsets, Position, NoPosition, NoRequest
<1>1. TypeOK
  BY SMT DEF TypeOK, FlowPoints
<1>2. BroadcastInv /\ SyncInv
  BY DEF BroadcastInv, SyncInv, Buffering, Locked
<1>3. FlowInv
  BY DEF FlowInv, FlowOk, Locked
<1>4. ViewInv
  BY SMT DEF ViewInv, PositionIsView
<1>5. QED BY <1>1, <1>2, <1>3, <1>4 DEF SafetyInv

\* Every step keeps the invariant.
LEMMA SafetyStep == SafetyInv /\ [Next]_vars => SafetyInv'
<1> SUFFICES ASSUME SafetyInv, [Next]_vars PROVE SafetyInv'
  OBVIOUS
<1>1. TypeOK'
  BY TypeStep
<1>2. BroadcastInv' /\ SyncInv' /\ FlowInv' /\ ViewInv'
  BY <1>1, BroadcastInvStep, SyncInvStep, FlowInvStep, ViewInvStep
<1>3. QED BY <1>1, <1>2 DEF SafetyInv

\* The inductive invariant holds in every reachable state.
THEOREM SafetyTheorem == Spec => []SafetyInv
BY SafetyInit, SafetyStep, PTL DEF Spec

\* Every variable of stream, broadcast, hub, flows and goroutines keeps its type.
THEOREM TypeTheorem == Spec => []TypeOK
<1>1. SafetyInv => TypeOK
  BY DEF SafetyInv
<1>2. QED BY SafetyTheorem, <1>1, PTL

\* The position subscribeCmd and writePublicationUpdatePosition keep for a
\* subscription is the one the client has after everything enqueued to it, even
\* when PUB/SUB loses publications.
THEOREM PositionIsViewTheorem == Spec => []PositionIsView
<1>1. SafetyInv => PositionIsView
  BY DEF SafetyInv, ViewInv
<1>2. QED BY SafetyTheorem, <1>1, PTL

-----------------------------------------------------------------------------
(* Without loss                                                            *)

\* The step leaves the client's buffer alone, or its flow locked.
KeepsBuffer(d) ==
    /\ \/ fpc'[d] = fpc[d] /\ pubBuffer'[d] = pubBuffer[d]
       \/ fpc[d] \in Locked /\ fpc'[d] \in Locked
    /\ latest'[d] = latest[d]
    /\ d \in subs' => d \in subs

\* A step as the buffer of a client sees it.
BufferMove(d) ==
    \/ fpc'[d] \notin {"lock"} \cup Locked
    \/ ReadHistory(d) \/ LockAndMerge(d) \/ (SyncBuffer /\ d = bcur)
    \/ KeepsBuffer(d)

\* The step leaves the client's subscription alone.
KeepsContext(d) ==
    /\ channels'[d] = channels[d] /\ position'[d] = position[d]
    /\ epoch' = epoch /\ top <= top'
    /\ d \in subs
    /\ reading'[d] + deleting'[d] >= reading[d] + deleting[d]

\* A step as the subscription of a client sees it.
ContextMove(d) ==
    \/ channels'[d] # "subscribed" \/ d \notin subs'
    \/ SetChannelContext(d) \/ RemoveStream \/ (Deliver /\ d = bcur)
    \/ KeepsContext(d)

\* A step as the reply of a client sees it.
ReplyMove(d) ==
    \/ fpc'[d] # "reply" \/ LockAndMerge(d)
    \/ fpc[d] = "reply" /\ SameLocals(d)

\* What a step does to the progress of the broadcast with a client.
VisitedMove(d) ==
    \/ Visited(d)' = Visited(d) \/ RemoveStream
    \/ d = bcur /\ (SyncBuffer \/ Deliver)

\* The broadcast never passes the top of the stream.
LEMMA VisitedBound ==
    ASSUME SafetyInv, NEW d \in Clients
    PROVE  Visited(d) \in Offsets /\ Visited(d) <= top
<1>1. top \in Nat /\ sent \in 0..top /\ top \in 0..MaxOffset
      /\ MaxOffset \in Nat
  BY BoundsAssumption, SMT DEF SafetyInv, TypeOK, Offsets
<1>2. bpc # "idle" => sent < top
  BY DEF SafetyInv, BroadcastInv
<1>3. QED BY <1>1, <1>2, SMT DEF Visited, Offsets

\* What the broadcast has passed for a client of the hub changes only when it
\* buffers for that client, delivers to it, or a new stream begins.
LEMMA VisitedStep ==
    ASSUME SafetyInv, [Next]_vars, ~Lossy,
           NEW d \in Clients, d \in subs'
    PROVE  VisitedMove(d)
<1>1. BroadcastInv
  BY DEF SafetyInv
<1>2. CASE FlowSteps
  BY <1>2, FlowEffect DEF Own, SameStream, HubOk, Visited, VisitedMove
<1>3. CASE UnsubSteps
  BY <1>3, UnsubEffect DEF Own, SameStream, UnsubMove, Visited, VisitedMove
<1>4. CASE ClearHistory \/ Publish \/ UNCHANGED vars
  BY <1>4 DEF ClearHistory, Publish, vars, broadcast, Visited, VisitedMove
<1>5. CASE BroadcastStart \/ BroadcastEnd
  BY <1>1, <1>5 DEF BroadcastStart, BroadcastEnd, Visited, VisitedMove
<1>6. CASE SyncBuffer \/ Deliver \/ Enqueue
  BY <1>1, <1>6 DEF SyncBuffer, Deliver, Enqueue, Visited, VisitedMove
<1>7. ASSUME NEW c \in Clients, BroadcastNext(c) PROVE VisitedMove(d)
  BY <1>1, <1>7 DEF BroadcastNext, BroadcastInv, Visited, VisitedMove
<1>8. ~LosePublication
  BY DEF LosePublication
<1>9. QED BY <1>2, <1>3, <1>4, <1>5, <1>6, <1>7, <1>8, StepCases
      DEF StepCase, StreamStep, BroadcastStep, VisitedMove

\* What a step can do to a client's buffer.
LEMMA BufferMoves ==
    ASSUME SafetyInv, [Next]_vars, NEW d \in Clients
    PROVE  BufferMove(d)
<1>1. CASE FlowSteps
  <2>1. PICK c \in Clients : Own(c) /\ FlowMove(c)
    BY <1>1, FlowEffect
  <2>2. CASE d # c
    BY <2>1, <2>2 DEF Own, Alone, SameLocals, BufferMove, KeepsBuffer
  <2>3. CASE d = c /\ (WriteReply(c) \/ SetChannelContext(c))
    <3>1. Tables
      BY TablesType DEF SafetyInv
    <3>2. QED BY <2>3, <3>1 DEF WriteReply, SetChannelContext, Goto, Tables,
             Locked, BufferMove, KeepsBuffer
  <2>4. QED BY <2>1, <2>2, <2>3 DEF FlowMove, BufferMove
<1>2. CASE UnsubSteps
  <2>1. PICK c \in Clients : Own(c) /\ UnsubMove(c)
    BY <1>2, UnsubEffect
  <2>2. CASE d # c
    BY <2>1, <2>2 DEF Own, Alone, SameLocals, BufferMove, KeepsBuffer
  <2>3. CASE d = c
    <3>1. c \in subs' => c \in subs
      BY <2>1 DEF UnsubMove
    <3>2. QED BY <2>1, <2>3, <3>1 DEF UnsubMove, BufferMove, KeepsBuffer, sync,
          flow
  <2>4. QED BY <2>2, <2>3
<1>3. CASE SyncBuffer
  <2>1. /\ bcur \in Clients /\ DOMAIN pubBuffer = Clients
        /\ pubBuffer' = [pubBuffer EXCEPT ![bcur] = @ \cup {bpub.offset}]
        /\ UNCHANGED <<fpc, latest, subs>>
    BY <1>3, TablesType DEF SyncBuffer, flow, SafetyInv, TypeOK, Tables
  <2>2. QED BY <1>3, <2>1 DEF BufferMove, KeepsBuffer
<1>4. CASE StreamStep /\ ~SyncBuffer
  BY <1>4, StreamMoves DEF StreamMove, BufferMove, KeepsBuffer, flow
<1>5. CASE UNCHANGED vars
  BY <1>5 DEF vars, BufferMove, KeepsBuffer, sync, flow
<1>6. QED BY <1>1, <1>2, <1>3, <1>4, <1>5, StepCases DEF StepCase

\* What a step can do to a client's subscription.
LEMMA ContextMoves ==
    ASSUME SafetyInv, [Next]_vars, NEW d \in Clients
    PROVE  ContextMove(d)
<1>1. TypeOK /\ Tables /\ SyncOk(d)
  BY TablesType, SyncParts DEF SafetyInv
<1>t. /\ top \in Nat /\ reading[d] \in Nat /\ deleting[d] \in Nat
      /\ bcur \in Clients
  BY <1>1, BoundsAssumption, SMT DEF TypeOK, Offsets
<1>2. ASSUME Alone(d), SameStream PROVE ContextMove(d)
  BY <1>t, <1>2, SMT DEF Alone, SameStream, ContextMove, KeepsContext
<1>3. CASE FlowSteps
  <2>1. PICK c \in Clients : Own(c) /\ FlowMove(c)
    BY <1>3, FlowEffect
  <2>2. CASE d # c
    BY <1>2, <2>1, <2>2 DEF Own
  <2>3. CASE d = c
    <3>1. SUFFICES ASSUME ~SetChannelContext(c), channels'[c] = "subscribed",
                          c \in subs'
                   PROVE  KeepsContext(c)
      BY <2>3 DEF ContextMove
    <3>2. channels'[c] = channels[c] /\ position'[c] = position[c] /\ c \in subs
      BY <1>1, <2>1, <2>3, <3>1 DEF FlowMove, SyncOk
    <3>3. QED BY <1>t, <2>1, <2>3, <3>2, SMT
              DEF FlowMove, unsubs, Own, SameStream, KeepsContext
  <2>4. QED BY <2>2, <2>3
<1>4. CASE UnsubSteps
  <2>1. PICK c \in Clients : Own(c) /\ UnsubMove(c)
    BY <1>4, UnsubEffect
  <2>2. CASE d # c
    BY <1>2, <2>1, <2>2 DEF Own
  <2>3. CASE d = c
    BY <1>t, <2>1, <2>3, SMT DEF UnsubMove, Own, SameStream, ContextMove, KeepsContext
  <2>4. QED BY <2>2, <2>3
<1>5. CASE Deliver /\ d # bcur
  <2>1. /\ UNCHANGED <<epoch, top, subs, channels>>
        /\ position' = position \/ position' = [position EXCEPT ![bcur] = bpub]
        /\ UNCHANGED <<reading, deleting>> \/ Spawn(bcur)
    BY <1>5 DEF Deliver, stream, unsubs
  <2>2. position'[d] = position[d] /\ UNCHANGED <<reading[d], deleting[d]>>
    BY <1>1, <1>5, <2>1 DEF Tables, Spawn
  <2>3. QED BY <1>t, <2>1, <2>2, SMT DEF ContextMove, KeepsContext
<1>6. CASE StreamStep /\ ~Deliver /\ ~RemoveStream
  <2>1. /\ UNCHANGED <<epoch, subs, channels, position, reading, deleting>>
        /\ top <= top'
    BY <1>t, <1>6, StreamMoves, SMT DEF StreamMove, unsubs, Publish
  <2>2. QED BY <1>t, <2>1, SMT DEF ContextMove, KeepsContext
<1>7. CASE UNCHANGED vars
  BY <1>2, <1>7 DEF vars, Alone, SameLocals, SameStream, stream, broadcast,
     context, sync, flow, unsubs
<1>8. QED BY <1>3, <1>4, <1>5, <1>6, <1>7, StepCases DEF StepCase, ContextMove

\* Only the merge makes a flow write a reply.
LEMMA ReplyMoves ==
    ASSUME SafetyInv, [Next]_vars, NEW d \in Clients
    PROVE  ReplyMove(d)
<1>1. CASE FlowSteps
  <2>1. PICK c \in Clients : Own(c) /\ FlowMove(c)
    BY <1>1, FlowEffect
  <2>2. CASE d # c
    BY <2>1, <2>2 DEF Own, Alone, ReplyMove
  <2>3. CASE d = c
    <3>1. Tables
      BY TablesType DEF SafetyInv
    <3>2. WriteReply(c) \/ SetChannelContext(c) \/ ReadHistory(c) => fpc'[c] # "reply"
      BY <3>1 DEF WriteReply, SetChannelContext, ReadHistory, Goto, Tables
    <3>3. QED BY <2>1, <2>3, <3>2 DEF FlowMove, ReplyMove, Locked
  <2>4. QED BY <2>2, <2>3
<1>2. CASE UnsubSteps
  BY <1>2, UnsubEffect DEF UnsubMove, ReplyMove, SameLocals, flow
<1>3. CASE StreamStep
  BY <1>3, StreamMoves DEF StreamMove, ReplyMove, SameLocals, flow
<1>4. CASE UNCHANGED vars
  BY <1>4 DEF vars, ReplyMove, SameLocals, flow
<1>5. QED BY <1>1, <1>2, <1>3, <1>4, StepCases DEF StepCase

\* Types of what the buffer facts are about.
LEMMA BufferTypes ==
    ASSUME SafetyInv, NEW d \in Clients
    PROVE  /\ latest[d].offset \in Nat /\ latest[d].offset \in Offsets
           /\ pubBuffer[d] \subseteq Offsets
                 /\ recoveredPubs[d] \subseteq Offsets
           /\ Offsets \subseteq Nat
           /\ Visited(d) \in Offsets /\ Visited(d) <= top
           /\ sent \in Nat /\ top \in Nat
<1>1. Visited(d) \in Offsets /\ Visited(d) <= top
  BY VisitedBound
<1>2. QED BY <1>1, BoundsAssumption, SMT DEF SafetyInv, TypeOK, Position, Offsets

\* Every step keeps BufferOk.
LEMMA BufferStep ==
    ASSUME SafetyInv, SafetyInv', [Next]_vars, ~Lossy,
           NEW d \in Clients, BufferOk(d)
    PROVE  BufferOk(d)'
<1>t. Tables
  BY TablesType DEF SafetyInv
<1>1. BufferMove(d)
  BY BufferMoves
<1>2. CASE fpc'[d] \notin {"lock"} \cup Locked
  BY <1>2 DEF BufferOk
<1>3. CASE ReadHistory(d)
  <2>1. /\ fpc'[d] = "lock" /\ latest'[d].offset = top
        /\ pubBuffer' = pubBuffer /\ top' = top /\ Visited(d)' = Visited(d)
    BY <1>t, <1>3 DEF ReadHistory, Goto, StreamTop, Tables, stream, sync,
                      broadcast, Visited
  <2>2. \A n \in pubBuffer[d] : n <= top
    BY DEF SafetyInv, SyncInv
  <2>3. QED BY <2>1, <2>2, BufferTypes, SMT DEF BufferOk, Locked
<1>4. CASE LockAndMerge(d)
  <2> DEFINE n == latest'[d].offset
  <2>1. /\ n \in Offsets /\ \A k \in pubBuffer[d] : k <= n
        /\ latest[d].offset <= n
        /\ fpc[d] = "lock" /\ fpc'[d] = "reply" /\ subs' = subs
        /\ UNCHANGED <<sent, bpc, btodo, bcur>>
    BY <1>4, MergeEffect DEF IsMax
  <2>2. Visited(d)' = Visited(d)
    BY <2>1 DEF Visited
  <2> HIDE DEF n
  <2>3. ASSUME d \in subs PROVE Visited(d) <= n
    <3>1. CASE Visited(d) <= latest[d].offset
      <4>1. n \in Nat /\ latest[d].offset \in Nat /\ Visited(d) \in Nat
        BY <2>1, BufferTypes
      <4>2. QED BY <2>1, <3>1, <4>1, SMT
    <3>2. CASE latest[d].offset < Visited(d)
      <4>1. Visited(d) \in pubBuffer[d]
        BY <2>1, <2>3, <3>2, BufferTypes, SMT DEF BufferOk
      <4>2. QED BY <2>1, <4>1
    <3>3. QED BY <3>1, <3>2, BufferTypes, SMT
  <2>4. QED BY <2>1, <2>2, <2>3 DEF BufferOk, Locked, n
<1>5. CASE SyncBuffer /\ d = bcur
  <2>1. /\ fpc' = fpc /\ latest' = latest /\ subs' = subs
        /\ pubBuffer'[d] = pubBuffer[d] \cup {sent + 1}
    BY <1>t, <1>5 DEF SyncBuffer, flow, Tables, bpub
  <2>2. /\ Visited(d) = sent /\ Visited(d)' = sent + 1
        /\ d \in subs /\ fpc[d] \notin Locked
    <3>1. bpc = "sync" /\ bpc' = "bcast" /\ UNCHANGED <<sent, btodo>>
      BY <1>5 DEF SyncBuffer
    <3>2. d \in subs /\ d \notin btodo /\ fpc[d] \notin Locked
      BY <1>5, <3>1 DEF SafetyInv, BroadcastInv, SyncInv, SyncBuffer
    <3>3. QED BY <1>5, <3>1, <3>2 DEF Visited
  <2>3. \A k \in Offsets : fpc[d] = "lock" /\ latest[d].offset < k /\ k <= sent
                              => k \in pubBuffer[d]
    BY <2>2 DEF BufferOk
  <2>4. \A k \in Offsets : fpc[d] = "lock" /\ latest[d].offset < k
        /\ k <= sent + 1
                              => k \in pubBuffer'[d]
    BY <2>1, <2>3, BufferTypes, SMT
  <2>5. \A n \in pubBuffer'[d], k \in Offsets :
           fpc[d] = "lock" /\ latest[d].offset < k
                 /\ k <= n => k \in pubBuffer'[d]
    BY <2>1, <2>4 DEF BufferOk
  <2>6. QED BY <2>1, <2>2, <2>4, <2>5 DEF BufferOk
<1>6. CASE /\ fpc'[d] \in {"lock"} \cup Locked /\ KeepsBuffer(d)
           /\ ~(SyncBuffer /\ d = bcur)
  <2>1. ~RemoveStream
    BY <1>6 DEF RemoveStream, flow, Locked
  <2>2. ~(Deliver /\ d = bcur)
    BY <1>6 DEF Deliver, flow, Locked, SafetyInv, BroadcastInv
  <2>3. d \in subs' => Visited(d)' = Visited(d)
    BY <1>6, <2>1, <2>2, VisitedStep DEF VisitedMove
  <2>4. QED BY <1>6, <2>3 DEF KeepsBuffer, BufferOk, Locked
<1>7. QED BY <1>1, <1>2, <1>3, <1>4, <1>5, <1>6 DEF BufferMove

\* Every step keeps NoGap: the merge joins the history read and the buffer
\* without a gap.
LEMMA NoGapStep ==
    ASSUME SafetyInv, SafetyInv', [Next]_vars, ~Lossy,
           NEW d \in Clients, NoGap(d), BufferOk(d)
    PROVE  NoGap(d)'
<1>1. CASE fpc'[d] # "reply"
  BY <1>1 DEF NoGap
<1>2. CASE LockAndMerge(d)
  <2> DEFINE merged == recoveredPubs[d] \cup pubBuffer[d]
             old    == latest[d].offset
             from   == req[d].offset
             n      == latest'[d].offset
  <2>1. /\ n \in Offsets /\ IsMax(n, merged \cup {old})
        /\ fpc[d] = "lock" /\ recovered' = recovered /\ req' = req
        /\ recoveredPubs'[d] = merged /\ latest'[d].epoch = latest[d].epoch
    BY <1>2, MergeEffect
  <2>3. SUFFICES ASSUME recovered[d]
                 PROVE  /\ req[d].epoch = latest[d].epoch
                        /\ \A k \in Offsets : from < k
                              /\ k <= n => k \in merged
                        /\ \A k \in merged : k <= n
    BY <2>1 DEF NoGap
  <2> HIDE DEF n
  <2>4. FlowOk(d)
    BY DEF SafetyInv, FlowInv
  <2>5. /\ \A k \in Offsets : from < k /\ k <= old => k \in recoveredPubs[d]
        /\ \A k \in recoveredPubs[d] : k <= old
        /\ req[d].epoch = latest[d].epoch
    BY <2>1, <2>3, <2>4 DEF FlowOk
  <2>6. ASSUME NEW k \in Offsets, from < k, k <= n PROVE k \in merged
    <3>1. CASE k <= old
      BY <2>5, <2>6, <3>1
    <3>2. CASE old < k
      <4>1. old < n
        <5>1. n \in Nat /\ old \in Nat /\ k \in Nat
          BY <2>1, BufferTypes
        <5>2. QED BY <2>6, <3>2, <5>1, SMT
      <4>2. n \in pubBuffer[d]
        <5>1. n # old
          BY <4>1, BufferTypes, SMT
        <5>2. n \in recoveredPubs[d] => n <= old
          BY <2>5
        <5>3. QED BY <2>1, <4>1, <5>1, <5>2, BufferTypes, SMT DEF IsMax
      <4>3. QED BY <2>1, <2>6, <3>2, <4>2 DEF BufferOk
    <3>3. QED BY <3>1, <3>2, BufferTypes, SMT
  <2>7. QED BY <2>1, <2>5, <2>6 DEF IsMax
<1>3. CASE /\ fpc[d] = "reply" /\ recovered'[d] = recovered[d]
           /\ req'[d] = req[d] /\ latest'[d] = latest[d]
           /\ recoveredPubs'[d] = recoveredPubs[d]
  BY <1>3 DEF NoGap
<1>4. ReplyMove(d)
  BY ReplyMoves
<1>5. QED BY <1>1, <1>2, <1>3, <1>4 DEF ReplyMove, SameLocals

\* Every step keeps CaughtUp.
LEMMA CaughtUpStep ==
    ASSUME SafetyInv, SafetyInv', [Next]_vars, ~Lossy,
           NEW d \in Clients, BufferOk(d), CaughtUp(d)
    PROVE  CaughtUp(d)'
<1>0. /\ reading[d] \in Nat /\ deleting[d] \in Nat
      /\ reading'[d] \in Nat /\ deleting'[d] \in Nat
      /\ top \in Nat /\ top' \in Nat /\ sent \in Nat /\ epoch \in Nat
      /\ position[d].offset \in Nat /\ position[d].epoch \in Nat
      /\ Visited(d) \in Nat
  <2>1. TypeOK /\ TypeOK' /\ MaxOffset \in Nat
    BY BoundsAssumption DEF SafetyInv
  <2>2. /\ reading[d] \in Nat /\ deleting[d] \in Nat
        /\ epoch \in Nat /\ position[d] \in Position
    BY <2>1, SMT DEF TypeOK
  <2>3. reading'[d] \in Nat /\ deleting'[d] \in Nat /\ top' \in Nat
    BY <2>1, SMT DEF TypeOK, Offsets
  <2>4. top \in Nat /\ sent \in Nat /\ Visited(d) \in Nat
    BY BufferTypes
  <2>5. QED BY <2>1, <2>2, <2>3, <2>4, SMT DEF Position, Offsets
<1>t. Tables
  BY TablesType DEF SafetyInv
<1>1. ContextMove(d)
  BY ContextMoves
<1>2. CASE channels'[d] # "subscribed" \/ d \notin subs'
  BY <1>2 DEF CaughtUp
<1>3. CASE SetChannelContext(d)
  <2>1. /\ fpc[d] = "set" /\ position'[d] = latest[d] /\ subs' = subs
        /\ UNCHANGED <<epoch, top, sent, bpc, btodo, bcur>>
    BY <1>t, <1>3 DEF SetChannelContext, Tables, stream, broadcast
  <2>2. Visited(d)' = Visited(d)
    BY <2>1 DEF Visited
  <2>3. d \in subs => Visited(d) <= latest[d].offset
    BY <2>1 DEF BufferOk, Locked
  <2>4. latest[d].epoch = epoch /\ latest[d].offset <= top
    BY <2>1 DEF SafetyInv, FlowInv, FlowOk, Locked
  <2>5. QED BY <2>1, <2>2, <2>3, <2>4 DEF CaughtUp
<1>4. CASE RemoveStream
  <2>1. Visited(d)' = 0
    BY <1>4 DEF RemoveStream, Visited
  <2>2. position'[d].epoch # epoch'
    BY <1>0, <1>4, SMT DEF RemoveStream, context, SafetyInv, ViewInv
  <2>3. QED BY <2>1, <2>2 DEF CaughtUp
<1>5. CASE Deliver /\ d = bcur
  <2>1. CASE NextExpected(d) /\ channels[d] = "subscribed"
    <3>1. /\ position'[d] = bpub /\ epoch' = epoch /\ top' = top
          /\ sent' = sent /\ bpc # "idle" /\ bpc' = "enqueue"
      BY <1>t, <1>5, <2>1 DEF Deliver, Tables, stream
    <3>2. position'[d].epoch = epoch' /\ position'[d].offset = sent + 1
      BY <3>1, SMT DEF bpub
    <3>3. sent + 1 <= top
      BY <1>0, <3>1, SMT DEF SafetyInv, BroadcastInv
    <3>4. Visited(d)' <= sent + 1
      BY <1>0, <3>1, SMT DEF Visited
    <3>5. QED BY <3>1, <3>2, <3>3, <3>4 DEF CaughtUp
  <2>2. CASE ~NextExpected(d) /\ channels[d] = "subscribed"
    <3>1. Spawn(d)
      BY <1>5, <2>2 DEF Deliver
    <3>2. reading'[d] = reading[d] + 1
      BY <1>t, <3>1 DEF Spawn, Tables
    <3>3. QED BY <1>0, <3>2, SMT DEF CaughtUp
  <2>3. CASE channels[d] # "subscribed"
    BY <1>5, <2>3 DEF Deliver, CaughtUp
  <2>4. QED BY <2>1, <2>2, <2>3
<1>6. CASE KeepsContext(d) /\ channels'[d] = "subscribed" /\ d \in subs'
           /\ ~RemoveStream /\ ~(Deliver /\ d = bcur)
  <2>1. ~(SyncBuffer /\ d = bcur)
    BY <1>6 DEF KeepsContext, SyncBuffer, SafetyInv, BroadcastInv, SyncInv,
                Buffering, Locked
  <2>2. Visited(d)' = Visited(d)
    BY <1>6, <2>1, VisitedStep DEF VisitedMove
  <2>3. /\ channels[d] = "subscribed" /\ d \in subs
        /\ position'[d] = position[d] /\ epoch' = epoch /\ top <= top'
        /\ reading'[d] + deleting'[d] >= reading[d] + deleting[d]
    BY <1>6 DEF KeepsContext
  <2>4. CASE reading[d] + deleting[d] > 0
    <3>1. reading'[d] + deleting'[d] > 0
      BY <1>0, <2>3, <2>4, SMT
    <3>2. QED BY <3>1 DEF CaughtUp
  <2>5. CASE /\ position[d].epoch = epoch
             /\ Visited(d) <= position[d].offset /\ position[d].offset <= top
    <3>1. position'[d].offset <= top'
      BY <1>0, <2>3, <2>5, SMT
    <3>2. QED BY <2>2, <2>3, <2>5, <3>1 DEF CaughtUp
  <2>6. CASE position[d].epoch # epoch /\ Visited(d) = 0
    BY <2>2, <2>3, <2>6 DEF CaughtUp
  <2>7. QED BY <2>3, <2>4, <2>5, <2>6 DEF CaughtUp
<1>7. QED BY <1>1, <1>2, <1>3, <1>4, <1>5, <1>6 DEF ContextMove

\* The invariant of lossless PUB/SUB is kept by every step.
LEMMA LosslessStep ==
    SafetyInv /\ SafetyInv' /\ LosslessInv /\ [Next]_vars => LosslessInv'
<1> SUFFICES ASSUME SafetyInv, SafetyInv', LosslessInv, [Next]_vars, ~Lossy,
                    NEW d \in Clients
             PROVE  (NoGap(d) /\ BufferOk(d) /\ CaughtUp(d))'
  BY DEF LosslessInv
<1>1. NoGap(d) /\ BufferOk(d) /\ CaughtUp(d)
  BY DEF LosslessInv
<1>2. QED BY <1>1, NoGapStep, BufferStep, CaughtUpStep

\* It holds in every reachable state.
THEOREM LosslessTheorem == Spec => []LosslessInv
<1>1. Init => LosslessInv
  BY DEF Init, LosslessInv, NoGap, BufferOk, CaughtUp, Locked
<1>2. QED BY <1>1, SafetyTheorem, LosslessStep, PTL DEF Spec

\* A subscribe reply that says recovered carries every publication between the
\* requested position and the position the server continues from (subscribeCmd),
\* when PUB/SUB loses nothing.
THEOREM NoGapTheorem ==
    ASSUME ~Lossy
    PROVE  Spec => []RecoveredHasNoGap
<1>1. LosslessInv => RecoveredHasNoGap
  BY DEF LosslessInv, RecoveredHasNoGap
<1>2. QED BY LosslessTheorem, <1>1, PTL

\* Once everything published has been broadcast, a subscribed client of the hub
\* that nobody is about to unsubscribe has the top of the stream, when PUB/SUB
\* loses nothing.
THEOREM CaughtUpTheorem ==
    ASSUME ~Lossy
    PROVE  Spec => []QuietIsCaughtUp
<1>1. SafetyInv /\ LosslessInv => QuietIsCaughtUp
  <2> SUFFICES ASSUME SafetyInv, LosslessInv, NEW c \in Clients,
                      sent = top, bpc = "idle", c \in subs,
                      channels[c] = "subscribed", Outstanding(c) = 0
               PROVE  position[c] = StreamTop
                         \/ (top = 0 /\ position[c].epoch # epoch)
    BY DEF QuietIsCaughtUp
  <2>1. /\ reading[c] \in Nat /\ deleting[c] \in Nat /\ removing[c] \in Nat
        /\ position[c] \in Position /\ top \in Nat
        /\ position[c].offset \in Nat
    BY BoundsAssumption, SMT DEF SafetyInv, TypeOK, Position, Offsets
  <2>2. ~(reading[c] + deleting[c] > 0)
    BY <2>1, SMT DEF Outstanding
  <2>3. Visited(c) = top
    BY DEF Visited
  <2>4. CaughtUp(c)
    BY DEF LosslessInv
  <2>5. CASE position[c].epoch = epoch
    <3>1. position[c].offset = top
      BY <2>1, <2>2, <2>3, <2>4, <2>5, SMT DEF CaughtUp
    <3>2. QED BY <2>1, <2>5, <3>1 DEF StreamTop, Position
  <2>6. CASE position[c].epoch # epoch
    BY <2>2, <2>3, <2>4, <2>6 DEF CaughtUp
  <2>7. QED BY <2>5, <2>6
<1>2. QED BY SafetyTheorem, LosslessTheorem, <1>1, PTL

=============================================================================
