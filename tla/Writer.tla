------------------------------- MODULE Writer -------------------------------
(***************************************************************************)
(* The writer of a connection: goroutines enqueue messages, one goroutine  *)
(* takes them from the queue and writes them in frames, and Client.close   *)
(* pushes the disconnect, flushes or drops what is left and closes the     *)
(* transport.  The queue's operations are those of Queue.                  *)
(***************************************************************************)
EXTENDS Queue, FiniteSets

CONSTANTS
    Bye,           \* the disconnect push
    Producers,     \* goroutines that call transportEnqueue
    MaxInFrame,    \* maxMessagesInFrame, -1 means no limit
    WriteDelay,    \* is writeDelay > 0
    MaxQueueSize,  \* writerConfig.MaxQueueSize, 0 means no limit
    Reasons        \* disconnects somebody may call Client.close with

ASSUME WriterAssumption ==
    /\ Bye \in Items
    /\ MaxQueueSize \in Int

VARIABLES
    ppc,        \* producer: idle, or between Add and Size of enqueue
    wpc,        \* the writer goroutine
    batch,      \* messages it has taken
    left,       \* messageCount: how many more it will try to take
    mu,         \* who has writer.mu
    status,     \* Client.status
    closing,    \* disconnects of the goroutines about to call Client.close
    cpc, reason,\* the call that closes, and its disconnect
    remaining,  \* what CloseRemaining returned to it
    broken,     \* the transport has failed a write; so will every later one
    tclosed,    \* the transport is closed
    accepted, written   \* what Add has accepted, what was written

writer == <<wpc, batch, left>>
closer == <<status, cpc, reason, remaining, tclosed>>
wvars == <<qvars, ppc, writer, mu, closing, closer, broken, accepted, written>>

\* What is enqueued, once each; the queue holds the disconnect push as well.
Messages == Items \ {Bye}

\* Disconnects after which the rest of the queue is written.
Flushes(r) == r \notin {"closed", "slow"}

WInit ==
    /\ Init
    /\ ppc = [p \in Producers |-> "idle"]
    /\ wpc = "wait" /\ batch = <<>> /\ left = 0
    /\ mu = "free"
    /\ status = "open" /\ closing = {} /\ cpc = "idle" /\ reason = "none"
    /\ remaining = <<>>
    /\ broken = FALSE /\ tclosed = FALSE
    /\ accepted = <<>> /\ written = <<>>

-----------------------------------------------------------------------------
(* Producers: transportEnqueue calls writer.enqueue, which adds and, in a   *)
(* second critical section of the queue, compares the size.                 *)

\* Mutant of Wake: Add and Close do not signal.
WakeNobody == wpc' = wpc

\* cond.Signal and cond.Broadcast: Wait returns.
Wake == wpc' = IF wpc = "asleep" THEN "delay" ELSE wpc

IsAccepted(m) == \E k \in 1..Len(accepted) : accepted[k] = m

Enqueue(p, m) ==
    /\ ppc[p] = "idle"
    /\ ~closed
    /\ ~IsAccepted(m)
    /\ Add(m)
    /\ Wake
    /\ accepted' = Append(accepted, m)
    /\ ppc' = [ppc EXCEPT ![p] = "size"]
    /\ UNCHANGED <<batch, left, mu, closing, closer, broken, written>>

\* Mutant of TooBig: messages are counted, not bytes.
TooBigByCount == MaxQueueSize > 0 /\ cnt > MaxQueueSize

TooBig == MaxQueueSize > 0 /\ size > MaxQueueSize

CheckSize(p) ==
    /\ ppc[p] = "size"
    /\ ppc' = [ppc EXCEPT ![p] = "idle"]
    /\ closing' = IF TooBig THEN closing \cup {"slow"} ELSE closing
    /\ UNCHANGED <<qvars, writer, mu, closer, broken, accepted, written>>

\* Add has returned false.
EnqueueClosed(p) ==
    /\ ppc[p] = "idle"
    /\ closed
    /\ "closed" \notin closing
    /\ closing' = closing \cup {"closed"}
    /\ UNCHANGED <<qvars, ppc, writer, mu, closer, broken, accepted, written>>

-----------------------------------------------------------------------------
(* The goroutine in writer.run: waitSendMessage until it returns false.     *)

WLeave(p) ==
    /\ wpc' = p /\ mu' = "free" /\ batch' = <<>> /\ left' = 0

Wait ==
    /\ wpc = "wait"
    /\ wpc' = IF closed THEN "done" ELSE IF cnt # 0 THEN "delay" ELSE "asleep"
    /\ UNCHANGED <<qvars, ppc, batch, left, mu, closing, closer, broken,
                   accepted, written>>

\* The write delay passes, or the writer is closed meanwhile.
Delay ==
    /\ wpc = "delay"
    /\ \/ wpc' = "lock"
       \/ WriteDelay /\ cpc \in {"transport", "done"} /\ wpc' = "done"
    /\ UNCHANGED <<qvars, ppc, batch, left, mu, closing, closer, broken,
                   accepted, written>>

Lock ==
    /\ wpc = "lock"
    /\ mu = "free"
    /\ mu' = "writer"
    /\ wpc' = "take"
    /\ UNCHANGED <<qvars, ppc, batch, left, closing, closer, broken, accepted,
                   written>>

TakeFirst ==
    /\ wpc = "take"
    /\ IF cnt = 0
       THEN /\ WLeave(IF closed THEN "done" ELSE "wait")
            /\ UNCHANGED qvars
       ELSE /\ Remove
            /\ batch' = <<nodes[head]>>
            /\ wpc' = "count"
            /\ UNCHANGED <<left, mu>>
    /\ UNCHANGED <<ppc, closing, closer, broken, accepted, written>>

CountMore ==
    /\ wpc = "count"
    /\ left' = IF MaxInFrame = 1 THEN 0 ELSE cnt
    /\ wpc' = "more"
    /\ UNCHANGED <<qvars, ppc, batch, mu, closing, closer, broken, accepted,
                   written>>

InFrame == MaxInFrame = -1 \/ Len(batch) < MaxInFrame

\* A Remove that fails ends the frame, or the goroutine when the queue is closed.
TakeMore ==
    /\ wpc = "more"
    /\ IF left = 0 \/ ~InFrame
       THEN wpc' = "write" /\ UNCHANGED <<qvars, batch, left, mu>>
       ELSE IF cnt > 0
       THEN /\ Remove
            /\ batch' = Append(batch, nodes[head])
            /\ left' = left - 1
            /\ UNCHANGED <<wpc, mu>>
       ELSE /\ UNCHANGED qvars
            /\ IF closed THEN WLeave("done")
               ELSE wpc' = "write" /\ UNCHANGED <<batch, left, mu>>
    /\ UNCHANGED <<ppc, closing, closer, broken, accepted, written>>

\* WriteFn or WriteManyFn; an error closes the client in a goroutine.
Write ==
    /\ wpc = "write"
    /\ \/ /\ ~broken
          /\ written' = written \o batch
          /\ WLeave("wait")
          /\ UNCHANGED <<closing, broken>>
       \/ /\ broken' = TRUE
          /\ closing' = closing \cup {"write"}
          /\ WLeave("done")
          /\ UNCHANGED written
    /\ UNCHANGED <<qvars, ppc, closer, accepted>>

-----------------------------------------------------------------------------
(* Client.close, as far as the writer is concerned.                         *)

\* Somebody disconnects the client.
Disconnect(r) ==
    /\ r \notin closing
    /\ status = "open"
    /\ closing' = closing \cup {r}
    /\ UNCHANGED <<qvars, ppc, writer, mu, closer, broken, accepted, written>>

\* Only the first call goes on; the others return.
BeginClose(r) ==
    /\ r \in closing
    /\ cpc \in {"idle", "done"}
    /\ closing' = closing \ {r}
    /\ IF status = "closed"
       THEN UNCHANGED <<status, cpc, reason>>
       ELSE status' = "closed" /\ cpc' = "push" /\ reason' = r
    /\ UNCHANGED <<qvars, ppc, writer, mu, remaining, broken, tclosed,
                   accepted, written>>

\* The disconnect push is enqueued, unless the connection is already gone; its
\* size check may find the queue too big.
PushDisconnect ==
    /\ cpc = "push"
    /\ cpc' = "lock"
    /\ IF reason = "closed"
       THEN UNCHANGED <<qvars, wpc, accepted, closing>>
       ELSE /\ Add(Bye)
            /\ Wake
            /\ accepted' = Append(accepted, Bye)
            /\ closing' = IF MaxQueueSize > 0 /\ size' > MaxQueueSize
                          THEN closing \cup {"slow"} ELSE closing
    /\ UNCHANGED <<ppc, batch, left, mu, status, reason, remaining, broken,
                   tclosed, written>>

CloseLock ==
    /\ cpc = "lock"
    /\ mu = "free"
    /\ mu' = "closer"
    /\ cpc' = "queue"
    /\ UNCHANGED <<qvars, ppc, writer, closing, status, reason, remaining,
                   broken, tclosed, accepted, written>>

\* Mutant of CloseQueue: nothing is flushed.
CloseQueueDrops ==
    /\ cpc = "queue"
    /\ Close /\ remaining' = <<>>
    /\ Wake
    /\ cpc' = "flush"
    /\ UNCHANGED <<ppc, batch, left, mu, closing, status, reason, broken,
                   tclosed, accepted, written>>

CloseQueue ==
    /\ cpc = "queue"
    /\ IF Flushes(reason)
       THEN CloseRemaining /\ remaining' = Remaining
       ELSE Close /\ remaining' = <<>>
    /\ Wake
    /\ cpc' = "flush"
    /\ UNCHANGED <<ppc, batch, left, mu, closing, status, reason, broken,
                   tclosed, accepted, written>>

\* Mutant of Flush: what remains is written once more.
FlushTwice ==
    /\ cpc = "flush"
    /\ ~broken
    /\ written' = written \o remaining \o remaining
    /\ cpc' = "transport"
    /\ mu' = "free"
    /\ UNCHANGED <<qvars, ppc, writer, status, reason, remaining, tclosed,
                   accepted, broken, closing>>

\* WriteManyFn of what remains, close(closeCh) and the end of writer.close.
Flush ==
    /\ cpc = "flush"
    /\ \/ /\ remaining = <<>> \/ ~broken
          /\ written' = written \o remaining
          /\ UNCHANGED <<broken, closing>>
       \/ /\ remaining # <<>>
          /\ broken' = TRUE
          /\ closing' = closing \cup {"write"}
          /\ UNCHANGED written
    /\ cpc' = "transport"
    /\ mu' = "free"
    /\ UNCHANGED <<qvars, ppc, writer, status, reason, remaining, tclosed,
                   accepted>>

CloseTransport ==
    /\ cpc = "transport"
    /\ tclosed' = TRUE
    /\ cpc' = "done"
    /\ UNCHANGED <<qvars, ppc, writer, mu, closing, status, reason, remaining,
                   broken, accepted, written>>

-----------------------------------------------------------------------------
ProducerStep ==
    \E p \in Producers : \/ \E m \in Messages : Enqueue(p, m)
                         \/ EnqueueClosed(p)
SizeStep == \E p \in Producers : CheckSize(p)

WriterStep ==
    Wait \/ Delay \/ Lock \/ TakeFirst \/ CountMore \/ TakeMore \/ Write

CloseStep ==
    \/ \E r \in closing : BeginClose(r)
    \/ PushDisconnect \/ CloseLock \/ CloseQueue \/ Flush \/ CloseTransport

WNext == \/ ProducerStep \/ SizeStep \/ WriterStep \/ CloseStep
        \/ \E r \in Reasons : Disconnect(r)

WSpec == WInit /\ [][WNext]_wvars

\* Goroutines run and transport writes end, by success or by the write timeout.
FairSpec == /\ WSpec
            /\ WF_wvars(SizeStep) /\ WF_wvars(WriterStep) /\ WF_wvars(CloseStep)

-----------------------------------------------------------------------------
IsPrefix(s, t) == Len(s) <= Len(t) /\ SubSeq(t, 1, Len(s)) = s

WTypeOK ==
    /\ TypeOK
    /\ ppc \in [Producers -> {"idle", "size"}]
    /\ wpc \in {"wait", "asleep", "delay", "lock", "take", "count", "more",
                "write", "done"}
    /\ left \in Nat
    /\ mu \in {"free", "writer", "closer"}
    /\ status \in {"open", "closed"}
    /\ cpc \in {"idle", "push", "lock", "queue", "flush", "transport", "done"}
    /\ tclosed \in BOOLEAN /\ broken \in BOOLEAN
    /\ batch \in Seq(Items) /\ remaining \in Seq(Items)
    /\ accepted \in Seq(Items) /\ written \in Seq(Items)

\* Who is where in waitSendMessage, writer.close and Client.close, and who holds
\* writer.mu: the queue is not closed while the goroutine has taken messages.
Taken == {"count", "more", "write"}
WhoIsWhere ==
    /\ mu = "writer" <=> wpc \in {"take"} \cup Taken
    /\ mu = "closer" <=> cpc \in {"queue", "flush"}
    /\ closed <=> cpc \in {"flush", "transport", "done"}
    /\ closed => wpc \notin Taken
    /\ batch # <<>> => wpc \in Taken
    /\ status = "open" <=> cpc = "idle"
    /\ tclosed => cpc = "done"

\* Where what was accepted is: written, taken, queued or about to be flushed.
WhatIsWhere ==
    /\ IsPrefix(written, accepted)
    /\ ~broken /\ ~closed => accepted = written \o batch \o Remaining
    /\ ~broken /\ closed /\ Flushes(reason) =>
          accepted = IF cpc = "flush" THEN written \o remaining ELSE written
    /\ cpc = "flush" /\ ~Flushes(reason) => remaining = <<>>

\* The transport gets what was enqueued in the order it was enqueued, nothing
\* twice and nothing left out in between, whatever frames it is written in and
\* however the close interleaves with the writer goroutine.  While the client is
\* open every accepted message is written, in the hands of the writer goroutine
\* or in the queue; and when a close that flushes has closed the transport, and
\* no write has failed, everything ever accepted was written, the disconnect
\* last.
WrittenInOrder ==
    /\ IsPrefix(written, accepted)
    /\ status = "open" /\ ~broken => accepted = written \o batch \o Remaining
    /\ tclosed /\ Flushes(reason) /\ ~broken => written = accepted

\* A queue above its limit never goes unnoticed: somebody is about to compare
\* the size, or has asked to disconnect the slow client.  What is compared is
\* the size of what the queue holds.
OverflowIsNoticed ==
    /\ SizeIsSum
    /\ MaxQueueSize > 0 /\ size > MaxQueueSize =>
          \/ \E p \in Producers : ppc[p] = "size"
          \/ "slow" \in closing
          \/ status = "closed"

\* Nobody sleeps through a message or a close: what is accepted gets written
\* unless the client is closed, and a client that is to be closed is closed and its
\* writer goroutine ends.
Delivered ==
    /\ \A m \in Messages :
           IsAccepted(m) ~> \/ \E k \in 1..Len(written) : written[k] = m
                            \/ status = "closed"
    /\ closing # {} ~> tclosed /\ wpc = "done"
=============================================================================
