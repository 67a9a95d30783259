----------------------------- MODULE WebSocket ------------------------------
(***************************************************************************)
(* A WebSocket connection: the server's end with its transport and handler,*)
(* and a client of the same package.  Messages are cut into frames, frames *)
(* of messages and of control (ping, pong, close) are written by several   *)
(* goroutines, masked by the client, and parsed by the other end, which    *)
(* reads into buffers of any size.  A byte is a bit: XOR is addition.      *)
(***************************************************************************)
EXTENDS Naturals, Sequences, SequencesExt

CONSTANTS
    Plans,      \* what the two ends are to do, see WSInit
    Keys,       \* mask keys: KeySize bytes each
    KeySize,    \* 4
    WordSize,   \* the bytes of a uintptr: 8, or 4
    BufSize,    \* room for data in the client's writeBuf
    Base,       \* 256: what a byte of a length counts to
    Short,      \* 125: the longest payload with a length of one byte
    MaxRead     \* bound: the longest buffer given to Read

ASSUME WebSocketAssumption ==
    /\ KeySize \in Nat \ {0} /\ Keys \subseteq [0..(KeySize - 1) -> {0, 1}]
    /\ WordSize \in Nat \ {0} /\ WordSize % KeySize = 0
    /\ BufSize \in Nat \ {0} /\ MaxRead \in Nat \ {0}
    /\ Base \in Nat \ {0, 1} /\ Short + 1 < Base * Base

Sides == {"server", "client"}
Peer(s) == IF s = "server" THEN "client" ELSE "server"
isServer(s) == s = "server"

VARIABLES
    plan,      \* what happens in this behaviour
    todo,      \* messages an end has yet to write
    mw,        \* its messageWriter
    wire,      \* headers and bytes it has written and the other has not read
    writeErr,
    rd,        \* its reading side: the fields of Conn and the message so far
    readErr,
    got,       \* messages it has read
    pings,     \* pings it has yet to send
    pongs,     \* payloads of the pongs it got
    net,       \* its net.Conn
    gone,      \* the client vanished: no byte or close of its comes any more
    tpc,       \* websocketTransport.Close
    hpc        \* the handler's goroutine

writing == <<todo, mw, wire, writeErr>>
reading == <<rd, readErr, got, pongs>>
ending == <<net, gone, tpc, hpc>>
wsvars == <<plan, writing, reading, pings, ending>>

NoWriter == [op |-> "none", rest |-> <<>>]
NoKey == [k \in 0..(KeySize - 1) |-> 0]

\* out: the messages of each end; pings: the payloads of its pings; may: what may happen
\* ("fail": a write fails, "vanish", "reject": the handler refuses a command, "server" or
\* "client": that end closes, "framePing": useFramePingPong, "shutdown": the node is shut
\* down already, "noClient": NewClient fails); limit: the SetReadLimit.
WSInit ==
    /\ plan \in Plans
    /\ todo = plan.out /\ pings = plan.pings
    /\ mw = [s \in Sides |-> NoWriter]
    /\ wire = [s \in Sides |-> <<>>]
    /\ writeErr = [s \in Sides |-> "none"]
    /\ rd = [s \in Sides |-> [remaining |-> 0, final |-> TRUE, pos |-> 0,
                              key |-> NoKey, length |-> 0, open |-> FALSE, msg |-> <<>>]]
    /\ readErr = [s \in Sides |-> "none"]
    /\ got = [s \in Sides |-> <<>>] /\ pongs = [s \in Sides |-> <<>>]
    /\ net = [s \in Sides |-> "open"] /\ gone = FALSE
    /\ tpc = "no" /\ hpc = "start"

-----------------------------------------------------------------------------
(* Frames                                                                   *)

\* n as w digits, the most significant first, and back.
PutUint(n, w) == [i \in 1..w |-> (n \div Base ^ (w - i)) % Base]
Uint(ds) == FoldLeft(LAMBDA n, d : n * Base + d, 0, ds)

\* The seven bits of a length, and the bytes that follow.
LengthOf(n) ==
    IF n >= Base * Base THEN <<Short + 2, PutUint(n, 8)>>
    ELSE IF n > Short THEN <<Short + 1, PutUint(n, 2)>> ELSE <<n, <<>>>>

\* Of n bytes at an address that is addr beyond a word's: those masked one by one before
\* the first word, and those masked in words.
Unaligned(n, addr) == IF n < 2 * WordSize THEN n ELSE (WordSize - addr) % WordSize
Words(n, addr) == ((n - Unaligned(n, addr)) \div WordSize) * WordSize

\* The masking does not count the words: they are made of whole keys.
maskBytes(key, pos, b, addr) ==
    LET first == Unaligned(Len(b), addr)
        words == Words(Len(b), addr)
        k == [i \in 0..(WordSize - 1) |-> key[(pos + first + i) % KeySize]]
        mask(i) == CASE i < first -> key[(pos + i) % KeySize]
                     [] i >= first /\ i < first + words -> k[(i - first) % WordSize]
                     [] OTHER -> key[(pos + i - words) % KeySize]
    IN  [i \in DOMAIN b |-> (b[i] + mask(i - 1)) % 2]

isControl(op) == op \in {"close", "ping", "pong"}

\* flushFrame and WriteControl: a header and the payload, masked unless by a server.
Frame(s, op, final, key, payload, addr) ==
    <<[op |-> op, final |-> final, mask |-> ~isServer(s), len |-> LengthOf(Len(payload)),
       key |-> key]>>
    \o IF isServer(s) THEN payload ELSE maskBytes(key, 0, payload, addr)

\* Someone will read what s writes; what nobody reads is left out of wire.
Heard(s) == net[Peer(s)] = "open" /\ (isServer(s) => ~gone)

MayFail(s) == "fail" \in plan.may \/ ~Heard(s) \/ net[s] = "closed"

Cuts(s, b) == IF Heard(s) THEN 0..Len(b) ELSE {0, Len(b)}

\* Conn.write and WriteControl with mu held: the first n elements of b get through, and
\* all that comes after an error or a close frame is refused.  w is wire before.
write(w, s, op, b, n) ==
    /\ writeErr[s] = "none"
    /\ n < Len(b) => MayFail(s)
    /\ net[s] = "closed" => n = 0
    /\ wire' = IF Heard(s) THEN [w EXCEPT ![s] = @ \o SubSeq(b, 1, n)] ELSE w
    /\ writeErr' = [writeErr EXCEPT ![s] =
                       IF n < Len(b) THEN "failed" ELSE IF op = "close" THEN "sent" ELSE @]

newMaskKey(s) == IF isServer(s) THEN {NoKey} ELSE Keys

\* Where bytes that are to be masked may lie.
Addresses(masks) == IF masks THEN 0..(WordSize - 1) ELSE {0}

\* err is what it returns; it may time out waiting for mu.
WriteControl(w, s, op, payload, err) ==
    \/ /\ writeErr[s] # "none" /\ err = writeErr[s]
       /\ wire' = w /\ UNCHANGED writeErr
    \/ /\ "fail" \in plan.may /\ err = "timeout"
       /\ wire' = w /\ UNCHANGED writeErr
    \/ \E key \in newMaskKey(s), addr \in Addresses(~isServer(s)) :
          LET b == Frame(s, op, TRUE, key, payload, addr)
          IN  \E n \in Cuts(s, b) : /\ write(w, s, op, b, n)
                                   /\ err = IF n < Len(b) THEN "failed" ELSE "nil"

Errors == {"nil", "sent", "failed", "timeout"}

-----------------------------------------------------------------------------
(* Writing                                                                  *)

Alive(s) == s = "client" => ~gone

Closing == IF tpc = "no" THEN "frame" ELSE tpc

\* A write returned an error: no more messages, and the server's Client is closed.
WriteError(s) ==
    /\ todo' = [todo EXCEPT ![s] = <<>>]
    /\ mw' = [mw EXCEPT ![s] = NoWriter]
    /\ tpc' = IF isServer(s) THEN Closing ELSE tpc

\* websocketTransport.Write, WriteMany and ping do nothing once closeCh is closed.
Silent(s) == isServer(s) /\ tpc # "no"

\* WriteMessage and NextWriter up to beginMessage.
beginMessage(s) ==
    /\ mw[s] = NoWriter /\ todo[s] # <<>> /\ Alive(s) /\ (isServer(s) => hpc \notin {"start", "lost"})
    /\ IF Silent(s)
       THEN todo' = [todo EXCEPT ![s] = Tail(@)] /\ UNCHANGED <<mw, tpc>>
       ELSE IF writeErr[s] # "none" THEN WriteError(s)
       ELSE /\ todo' = [todo EXCEPT ![s] = Tail(@)]
            /\ mw' = [mw EXCEPT ![s] = [op |-> "text", rest |-> Head(todo[s])]]
            /\ UNCHANGED tpc
    /\ UNCHANGED <<plan, wire, writeErr, reading, pings, net, gone, hpc>>

\* WriteMessage of a server: the message is one frame.
FastPath(s) == isServer(s)

\* A client fills writeBuf, and flushes it when there is more to copy.
ncopy(s) == IF FastPath(s) \/ Len(mw[s].rest) < BufSize THEN Len(mw[s].rest) ELSE BufSize

\* Mutant of NextFrame: the next frame has the type of the first.
NextFrameSameType(m, n) == [m EXCEPT !.rest = SubSeq(@, n + 1, Len(@))]

NextFrame(m, n) == [op |-> "continuation", rest |-> SubSeq(m.rest, n + 1, Len(m.rest))]

flushFrame(s) ==
    /\ mw[s] # NoWriter /\ Alive(s)
    /\ LET k == ncopy(s)
           final == k = Len(mw[s].rest)
       IN  \/ /\ writeErr[s] # "none"
              /\ WriteError(s) /\ UNCHANGED <<wire, writeErr>>
           \/ \E key \in newMaskKey(s), addr \in Addresses(~isServer(s)) :
                 LET b == Frame(s, mw[s].op, final, key, SubSeq(mw[s].rest, 1, k), addr)
                 IN  \E n \in Cuts(s, b) :
                        /\ write(wire, s, mw[s].op, b, n)
                        /\ IF n < Len(b) THEN WriteError(s)
                           ELSE /\ mw' = [mw EXCEPT ![s] =
                                             IF final THEN NoWriter ELSE NextFrame(@, k)]
                                /\ UNCHANGED <<todo, tpc>>
    /\ UNCHANGED <<plan, reading, pings, net, gone, hpc>>

\* The ping timer of the transport, or a ping of the client.
ping(s) ==
    /\ pings[s] # <<>> /\ Alive(s)
    /\ IF Silent(s)
       THEN pings' = [pings EXCEPT ![s] = <<>>] /\ UNCHANGED <<wire, writeErr, tpc>>
       ELSE \E err \in Errors :
               /\ WriteControl(wire, s, "ping", Head(pings[s]), err)
               /\ pings' = [pings EXCEPT ![s] = IF err = "nil" THEN Tail(@) ELSE <<>>]
               /\ tpc' = IF isServer(s) /\ err # "nil" THEN Closing ELSE tpc
    /\ UNCHANGED <<plan, todo, mw, reading, net, gone, hpc>>

-----------------------------------------------------------------------------
(* Reading                                                                  *)

Code == <<1, 0>>    \* a valid close code: two bytes

Reads(s) == readErr[s] = "none" /\ Alive(s) /\ (isServer(s) => hpc \in {"read", "drain"})

\* NextReader, or messageReader.Read at the end of a frame, wants another frame.
WantsFrame(s) == ~rd[s].open \/ (rd[s].remaining = 0 /\ ~rd[s].final)

Header(s) == wire[Peer(s)][rd[s].remaining + 1]

ReadLength(h) == IF h.len[1] > Short THEN Uint(h.len[2]) ELSE h.len[1]

\* The remainder of the frame before, the header and, of control, the payload are there.
HasFrame(s) ==
    /\ Len(wire[Peer(s)]) > rd[s].remaining
    /\ isControl(Header(s).op) =>
          Len(wire[Peer(s)]) > rd[s].remaining + ReadLength(Header(s))

\* What is wrong with the first two bytes of a header.
BadHeader(s, h) ==
    \/ isControl(h.op) /\ (h.len[1] > Short \/ ~h.final)
    \/ h.op = "text" /\ ~rd[s].final
    \/ h.op = "continuation" /\ rd[s].final
    \/ h.mask # isServer(s)

\* An int64 that is negative.
Overflows(n) == n >= (Base ^ 8) \div 2

OverLimit(s, n) == isServer(s) /\ plan.limit > 0 /\ n > plan.limit

\* The fields of Conn after the header of a frame of n bytes.
AtFrame(s, h, n) ==
    [rd[s] EXCEPT !.remaining = IF isControl(h.op) THEN 0 ELSE n,
                  !.final = IF isControl(h.op) THEN @ ELSE h.final,
                  !.pos = IF h.mask THEN 0 ELSE @, !.key = IF h.mask THEN h.key ELSE @,
                  !.length = IF isControl(h.op) THEN @ ELSE @ + n]

\* NextReader returns with a message; the loop that waits for the close frame drops it.
Opened(s, r, h) ==
    IF h.op # "text" THEN r
    ELSE IF isServer(s) /\ hpc = "drain" THEN [r EXCEPT !.length = 0]
    ELSE [r EXCEPT !.open = TRUE, !.msg = <<>>]

\* A message whose length so far is n is refused.
Refused(s, h, n) == ~isControl(h.op) /\ (Overflows(n) \/ OverLimit(s, n))

\* What a frame is answered with: a ping with a pong; a close, a bad header and a message
\* over the limit with a close.
Answer(w, s, h, r, payload, err) ==
    CASE \/ BadHeader(s, h) \/ h.op = "close"
         \/ Refused(s, h, r.length) /\ ~Overflows(r.length) -> WriteControl(w, s, "close", Code, err)
      [] h.op = "ping" /\ ~BadHeader(s, h) -> WriteControl(w, s, "pong", payload, err)
      [] OTHER -> err = "nil" /\ wire' = w /\ UNCHANGED writeErr

\* The error NextReader or Read returns for it, err being that of the answer.
FrameError(s, h, r, err) ==
    CASE BadHeader(s, h) -> "protocol"
      [] Refused(s, h, r.length) /\ ~BadHeader(s, h) -> "limit"
      [] h.op = "close" /\ ~BadHeader(s, h) -> "close"
      [] h.op = "ping" /\ ~BadHeader(s, h) /\ err = "failed" -> err
      [] OTHER -> "none"

advanceFrame(s) ==
    /\ Reads(s) /\ WantsFrame(s) /\ HasFrame(s) /\ net[s] = "open"
    /\ LET h == Header(s)
           n == ReadLength(h)
           r == AtFrame(s, h, n)
           first == rd[s].remaining + 2
           after == IF isControl(h.op) THEN first + n ELSE first
           w == [wire EXCEPT ![Peer(s)] = SubSeq(@, after, Len(@))]
           bytes == SubSeq(wire[Peer(s)], first, first + n - 1)
           payload(addr) == IF isServer(s) THEN maskBytes(h.key, 0, bytes, addr) ELSE bytes
       IN  \E err \in Errors, addr \in Addresses(isServer(s) /\ isControl(h.op)) :
              /\ Answer(w, s, h, r, payload(addr), err)
              /\ readErr' = [readErr EXCEPT ![s] = FrameError(s, h, r, err)]
              /\ rd' = [rd EXCEPT ![s] = Opened(s, r, h)]
              /\ pongs' = [pongs EXCEPT ![s] =
                              IF h.op = "pong" THEN Append(@, payload(addr)) ELSE @]
    /\ UNCHANGED <<plan, todo, mw, got, pings, ending>>

\* Mutant of MaskPos: every read starts with the first byte of the key.
MaskPosKept(s, n, addr) == rd[s].pos

\* readMaskPos after n bytes more.
MaskPos(s, n, addr) == (rd[s].pos + n - Words(n, addr)) % KeySize

\* messageReader.Read with a buffer of some size gets what is there.
Read(s) ==
    /\ Reads(s) /\ rd[s].open /\ rd[s].remaining > 0 /\ net[s] = "open"
    /\ \E n \in 1..MaxRead, addr \in Addresses(isServer(s)) :
          LET b == SubSeq(wire[Peer(s)], 1, n)
              m == IF isServer(s) THEN maskBytes(rd[s].key, rd[s].pos, b, addr) ELSE b
          IN  /\ n <= rd[s].remaining /\ n <= Len(wire[Peer(s)])
              /\ wire' = [wire EXCEPT ![Peer(s)] = SubSeq(@, n + 1, Len(@))]
              /\ rd' = [rd EXCEPT ![s].msg = @ \o m, ![s].remaining = @ - n,
                                  ![s].pos = IF isServer(s) THEN MaskPos(s, n, addr) ELSE @]
    /\ UNCHANGED <<plan, todo, mw, writeErr, readErr, got, pongs, pings, ending>>

\* messageReader.Read returns EOF: the message is whole.
ReadEOF(s) ==
    /\ Reads(s) /\ rd[s].open /\ rd[s].remaining = 0 /\ rd[s].final
    /\ got' = [got EXCEPT ![s] = Append(@, rd[s].msg)]
    /\ rd' = [rd EXCEPT ![s].open = FALSE, ![s].msg = <<>>, ![s].length = 0]
    /\ UNCHANGED <<plan, writing, readErr, pongs, pings, ending>>

Starved(s) == IF WantsFrame(s) THEN ~HasFrame(s)
              ELSE rd[s].remaining > 0 /\ wire[Peer(s)] = <<>>

\* Nothing can come any more, or the read deadline passes.
ReadFails(s) ==
    /\ Reads(s)
    /\ \/ net[s] = "closed"
       \/ Starved(s) /\ net[Peer(s)] = "closed" /\ ~gone
       \/ Starved(s) /\ isServer(s) /\ ("framePing" \in plan.may \/ hpc = "drain")
    /\ readErr' = [readErr EXCEPT ![s] = "eof"]
    /\ UNCHANGED <<plan, writing, rd, got, pongs, pings, ending>>

-----------------------------------------------------------------------------
(* The handler, the transport and the client                                *)

\* The goroutine of the handler has its transport. A node that is shut down closes it, and
\* nobody reads; without a Client nothing is closed.
HandlerStarts ==
    /\ hpc = "start"
    /\ \/ hpc' = "read" /\ UNCHANGED tpc
       \/ "shutdown" \in plan.may /\ hpc' = "end" /\ tpc' = Closing
       \/ "noClient" \in plan.may /\ hpc' = "lost" /\ UNCHANGED tpc
    /\ UNCHANGED <<plan, writing, reading, pings, net, gone>>

\* HandleReadFrame returns false: the client is disconnected, what comes is dropped.
Reject ==
    /\ "reject" \in plan.may /\ hpc = "read" /\ rd["server"].open
    /\ hpc' = "drain" /\ tpc' = Closing
    /\ rd' = [rd EXCEPT !["server"].open = FALSE, !["server"].length = 0]
    /\ UNCHANGED <<plan, writing, readErr, got, pongs, pings, net, gone>>

\* The loops end with the read error: close(graceCh), then closeFn.
HandlerEnds ==
    /\ hpc \in {"read", "drain"} /\ readErr["server"] # "none"
    /\ hpc' = "end" /\ tpc' = IF tpc = "no" THEN "net" ELSE tpc
    /\ UNCHANGED <<plan, writing, reading, pings, net, gone>>

\* Client.close with a reason of the application's: closeCh is closed.
CloseBegin ==
    /\ "server" \in plan.may /\ tpc = "no" /\ hpc \notin {"start", "lost"}
    /\ tpc' = "frame"
    /\ UNCHANGED <<plan, writing, reading, pings, net, gone, hpc>>

CloseFrame ==
    /\ tpc = "frame"
    /\ \E err \in Errors : /\ WriteControl(wire, "server", "close", Code, err)
                           /\ tpc' = IF err = "nil" THEN "wait" ELSE "net"
    /\ UNCHANGED <<plan, todo, mw, reading, pings, net, gone, hpc>>

\* Mutant of CloseWaits: without the timer.
CloseWaitsForever ==
    /\ tpc = "wait" /\ hpc = "end"
    /\ tpc' = "net"
    /\ UNCHANGED <<plan, writing, reading, pings, net, gone, hpc>>

\* Until graceCh is closed or the timer of closeFrameWait fires, as it may at any time.
CloseWaits ==
    /\ tpc = "wait"
    /\ tpc' = "net"
    /\ UNCHANGED <<plan, writing, reading, pings, net, gone, hpc>>

CloseNet ==
    /\ tpc = "net"
    /\ tpc' = "done" /\ net' = [net EXCEPT !["server"] = "closed"]
    /\ wire' = [wire EXCEPT !["client"] = <<>>]
    /\ UNCHANGED <<plan, todo, mw, writeErr, reading, pings, gone, hpc>>

\* A client starts the closing handshake; hangs up after an error; vanishes.
ClientCloses ==
    /\ "client" \in plan.may /\ ~gone /\ net["client"] = "open" /\ writeErr["client"] = "none"
    /\ mw["client"] = NoWriter
    /\ \E err \in Errors : WriteControl(wire, "client", "close", Code, err)
    /\ UNCHANGED <<plan, todo, mw, reading, pings, ending>>

ClientEnds ==
    /\ ~gone /\ net["client"] = "open"
    /\ readErr["client"] # "none" \/ writeErr["client"] = "failed"
    /\ net' = [net EXCEPT !["client"] = "closed"]
    /\ wire' = [wire EXCEPT !["server"] = <<>>]
    /\ UNCHANGED <<plan, todo, mw, writeErr, reading, pings, gone, tpc, hpc>>

Vanish ==
    /\ "vanish" \in plan.may /\ ~gone
    /\ gone' = TRUE
    /\ wire' = [wire EXCEPT !["server"] = <<>>]
    /\ UNCHANGED <<plan, todo, mw, writeErr, reading, pings, net, tpc, hpc>>

ConnStep(s) == \/ beginMessage(s) \/ flushFrame(s) \/ ping(s)
               \/ advanceFrame(s) \/ Read(s) \/ ReadEOF(s) \/ ReadFails(s)

TransportStep == HandlerStarts \/ HandlerEnds \/ CloseFrame \/ CloseWaits \/ CloseNet \/ ClientEnds

WSNext == \/ \E s \in Sides : ConnStep(s)
          \/ TransportStep
          \/ Reject \/ CloseBegin \/ ClientCloses \/ Vanish

WSSpec == WSInit /\ [][WSNext]_wsvars

\* Every goroutine runs, deadlines and timers pass.
WSFairness == WF_wsvars((\E s \in Sides : ConnStep(s)) \/ TransportStep)

WSFairSpec == WSSpec /\ WSFairness

-----------------------------------------------------------------------------
(* Properties                                                               *)

\* What an end reads (messageReader.Read) is what the other wrote (WriteMessage): whole
\* messages in order, whatever the frames, masks, lengths and read buffers, and with
\* control frames between the fragments; a pong carries the payload of its ping; no
\* message over SetReadLimit is read.
MessagesIntact ==
    \A s \in Sides :
        LET q == plan.out[Peer(s)]
        IN  /\ IsPrefix(got[s], q)
            /\ rd[s].open => Len(got[s]) < Len(q) /\ IsPrefix(rd[s].msg, q[Len(got[s]) + 1])
            /\ IsPrefix(pongs[s], plan.pings[s])
            /\ \A i \in DOMAIN got[s] : ~OverLimit(s, Len(got[s][i]))

\* Whatever goroutines write, fail to write or close at the same time, what is on the wire
\* is a sequence of frames: advanceFrame never finds a protocol error, and refuses a
\* message (ErrReadLimit) only if it is over the limit.
OnlyOverLimitRefused ==
    \A s \in Sides :
        /\ readErr[s] # "protocol"
        /\ readErr[s] = "limit" => \E i \in DOMAIN plan.out[Peer(s)] : OverLimit(s, Len(plan.out[Peer(s)][i]))

Ended == /\ net["server"] = "closed" /\ tpc = "done" /\ hpc \in {"end", "lost"}
         /\ net["client"] = "closed" \/ gone

\* A connection that an end closes, that fails, that comes to a node shut down, or whose
\* client vanishes while the server pings, is closed at both ends and its handler returns
\* (websocketTransport.Close waits for graceCh no longer than its timer); where none of
\* that happens every message is read and every ping answered. Only a handler that got
\* no Client leaves the connection open (handler_websocket.go:187).
ConnectionEnds ==
    <>[](\/ Ended
         \/ hpc = "lost" /\ tpc = "no"
         \/ /\ tpc = "no" /\ readErr["server"] = "none" /\ ~("framePing" \in plan.may)
            /\ gone \/ \A s \in Sides :
                         /\ readErr[s] = "none" /\ got[s] = plan.out[Peer(s)]
                         /\ "fail" \in plan.may \/ pongs[s] = plan.pings[s])
=============================================================================
