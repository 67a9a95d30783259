---------------------------- MODULE ControlCodec ----------------------------
(***************************************************************************)
(* The encoding of the commands nodes send each other (internal/controlpb).*)
(* The generated code has three functions per message: MarshalToSizedBuffer*)
(* VT, SizeVT and UnmarshalVT.  Here each of them is the table of fields it*)
(* goes through, and what all of them do with a field of a kind is written *)
(* once.  Bytes are numbers, strings are sequences of bytes.               *)
(***************************************************************************)
EXTENDS Integers, Sequences, SequencesExt

CONSTANTS Nil,   \* no message
          Err    \* what a decoder that fails returns

(* Unsigned 64-bit numbers are ten groups of seven bits, least significant *)
(* first; the tenth group has one bit.                                     *)
Uint(n) == [k \in 1..10 |-> IF k <= 4 THEN (n \div 128^(k - 1)) % 128 ELSE 0]
Zero == Uint(0)

\* A length as an int: above Huge every length is refused, whether it is negative,
\* overflows when it is added to the index or only exceeds the input.
Huge == 128^4
Length(g) == IF \E k \in 5..10 : g[k] # 0 THEN Huge
          ELSE g[1] + 128 * g[2] + 128^2 * g[3] + 128^3 * g[4]

\* uint32(x)
Low32(g) == [k \in 1..10 |-> IF k <= 4 THEN g[k] ELSE IF k = 5 THEN g[k] % 16 ELSE 0]

\* int32(wire >> 3), where every negative number is -1
FieldNum(g) == IF g[5] >= 64 THEN -1
               ELSE g[1] \div 8 + 16 * g[2] + 2048 * g[3] + 2^18 * g[4] + 2^25 * g[5]

-----------------------------------------------------------------------------
(* The tables.  A kind of field is "bytes" (strings too), "uint32",        *)
(* "uint64" (int64 too), "bool", "double", "strings", "map" or the name of *)
(* a message.                                                              *)

\* What MarshalToSizedBufferVT writes: field, tag byte, kind.  The code fills the
\* buffer from its end, so it goes through a table backwards.
CommandMarshal ==
    << <<"Uid", 10, "bytes">>, <<"Node", 34, "Node">>,
       <<"Unsubscribe", 42, "Unsubscribe">>, <<"Disconnect", 50, "Disconnect">>,
       <<"Shutdown", 58, "Shutdown">>, <<"SurveyRequest", 66, "SurveyRequest">>,
       <<"SurveyResponse", 74, "SurveyResponse">>,
       <<"Subscribe", 82, "Subscribe">>,
       <<"Notification", 90, "Notification">>, <<"Refresh", 98, "Refresh">> >>
ShutdownMarshal == << >>
NodeMarshal ==
    << <<"Uid", 10, "bytes">>, <<"Name", 18, "bytes">>,
       <<"Version", 26, "bytes">>, <<"NumClients", 32, "uint32">>,
       <<"NumUsers", 40, "uint32">>, <<"NumChannels", 48, "uint32">>,
       <<"Uptime", 56, "uint32">>, <<"Metrics", 66, "Metrics">>,
       <<"Data", 74, "bytes">>, <<"NumSubs", 80, "uint32">> >>
MetricsMarshal == << <<"Interval", 9, "double">>, <<"Items", 18, "map">> >>
SubscribeMarshal ==
    << <<"User", 10, "bytes">>, <<"Channel", 18, "bytes">>,
       <<"EmitPresence", 24, "bool">>, <<"EmitJoinLeave", 32, "bool">>,
       <<"ExpireAt", 40, "uint64">>, <<"Position", 48, "bool">>,
       <<"Recover", 56, "bool">>, <<"ChannelInfo", 66, "bytes">>,
       <<"Client", 74, "bytes">>, <<"Data", 82, "bytes">>,
       <<"RecoverSince", 90, "StreamPosition">>, <<"Session", 98, "bytes">>,
       <<"PushJoinLeave", 104, "bool">>, <<"Source", 112, "uint32">> >>
StreamPositionMarshal == << <<"Offset", 8, "uint64">>, <<"Epoch", 18, "bytes">> >>
UnsubscribeMarshal ==
    << <<"Channel", 10, "bytes">>, <<"User", 18, "bytes">>,
       <<"Client", 26, "bytes">>, <<"Session", 34, "bytes">>,
       <<"Code", 40, "uint32">>, <<"Reason", 50, "bytes">> >>
DisconnectMarshal ==
    << <<"User", 10, "bytes">>, <<"Whitelist", 18, "strings">>,
       <<"Code", 24, "uint32">>, <<"Reason", 34, "bytes">>,
       <<"Reconnect", 40, "bool">>, <<"Client", 50, "bytes">>,
       <<"Session", 58, "bytes">> >>
SurveyRequestMarshal ==
    << <<"Id", 8, "uint64">>, <<"Op", 18, "bytes">>, <<"Data", 26, "bytes">> >>
SurveyResponseMarshal ==
    << <<"Id", 8, "uint64">>, <<"Code", 16, "uint32">>, <<"Data", 26, "bytes">> >>
NotificationMarshal == << <<"Op", 10, "bytes">>, <<"Data", 18, "bytes">> >>
RefreshMarshal ==
    << <<"User", 10, "bytes">>, <<"Client", 18, "bytes">>,
       <<"Expired", 24, "bool">>, <<"ExpireAt", 32, "uint64">>,
       <<"Info", 42, "bytes">>, <<"Session", 50, "bytes">> >>

\* What SizeVT counts: fields by kind.
CommandSize ==
    [Uid |-> "bytes", Node |-> "Node", Unsubscribe |-> "Unsubscribe",
     Disconnect |-> "Disconnect", Shutdown |-> "Shutdown",
     SurveyRequest |-> "SurveyRequest", SurveyResponse |-> "SurveyResponse",
     Subscribe |-> "Subscribe", Notification |-> "Notification",
     Refresh |-> "Refresh"]
ShutdownSize == << >>
NodeSize ==
    [Uid |-> "bytes", Name |-> "bytes", Version |-> "bytes",
     NumClients |-> "uint32", NumUsers |-> "uint32", NumChannels |-> "uint32",
     Uptime |-> "uint32", Metrics |-> "Metrics", Data |-> "bytes",
     NumSubs |-> "uint32"]
MetricsSize == [Interval |-> "double", Items |-> "map"]
SubscribeSize ==
    [User |-> "bytes", Channel |-> "bytes", EmitPresence |-> "bool",
     EmitJoinLeave |-> "bool", ExpireAt |-> "uint64", Position |-> "bool",
     Recover |-> "bool", ChannelInfo |-> "bytes", Client |-> "bytes",
     Data |-> "bytes", RecoverSince |-> "StreamPosition", Session |-> "bytes",
     PushJoinLeave |-> "bool", Source |-> "uint32"]
StreamPositionSize == [Offset |-> "uint64", Epoch |-> "bytes"]
UnsubscribeSize ==
    [Channel |-> "bytes", User |-> "bytes", Client |-> "bytes",
     Session |-> "bytes", Code |-> "uint32", Reason |-> "bytes"]
DisconnectSize ==
    [User |-> "bytes", Whitelist |-> "strings", Code |-> "uint32",
     Reason |-> "bytes", Reconnect |-> "bool", Client |-> "bytes",
     Session |-> "bytes"]
SurveyRequestSize == [Id |-> "uint64", Op |-> "bytes", Data |-> "bytes"]
SurveyResponseSize == [Id |-> "uint64", Code |-> "uint32", Data |-> "bytes"]
NotificationSize == [Op |-> "bytes", Data |-> "bytes"]
RefreshSize ==
    [User |-> "bytes", Client |-> "bytes", Expired |-> "bool",
     ExpireAt |-> "uint64", Info |-> "bytes", Session |-> "bytes"]

\* The cases of UnmarshalVT's switch: number, field, kind.  A long switch is given
\* in consecutive parts.
CommandUnmarshalTo5 ==
    {<<1, "Uid", "bytes">>, <<4, "Node", "Node">>,
     <<5, "Unsubscribe", "Unsubscribe">>}
CommandUnmarshalTo9 ==
    {<<6, "Disconnect", "Disconnect">>, <<7, "Shutdown", "Shutdown">>,
     <<8, "SurveyRequest", "SurveyRequest">>,
     <<9, "SurveyResponse", "SurveyResponse">>}
CommandUnmarshalTo12 ==
    {<<10, "Subscribe", "Subscribe">>, <<11, "Notification", "Notification">>,
     <<12, "Refresh", "Refresh">>}
ShutdownUnmarshal == {}
NodeUnmarshalTo4 ==
    {<<1, "Uid", "bytes">>, <<2, "Name", "bytes">>, <<3, "Version", "bytes">>,
     <<4, "NumClients", "uint32">>}
NodeUnmarshalTo10 ==
    {<<5, "NumUsers", "uint32">>, <<6, "NumChannels", "uint32">>,
     <<7, "Uptime", "uint32">>, <<8, "Metrics", "Metrics">>,
     <<9, "Data", "bytes">>, <<10, "NumSubs", "uint32">>}
MetricsUnmarshal == {<<1, "Interval", "double">>, <<2, "Items", "map">>}
SubscribeUnmarshalTo4 ==
    {<<1, "User", "bytes">>, <<2, "Channel", "bytes">>,
     <<3, "EmitPresence", "bool">>, <<4, "EmitJoinLeave", "bool">>}
SubscribeUnmarshalTo9 ==
    {<<5, "ExpireAt", "uint64">>, <<6, "Position", "bool">>,
     <<7, "Recover", "bool">>, <<8, "ChannelInfo", "bytes">>,
     <<9, "Client", "bytes">>}
SubscribeUnmarshalTo14 ==
    {<<10, "Data", "bytes">>, <<11, "RecoverSince", "StreamPosition">>,
     <<12, "Session", "bytes">>, <<13, "PushJoinLeave", "bool">>,
     <<14, "Source", "uint32">>}
StreamPositionUnmarshal == {<<1, "Offset", "uint64">>, <<2, "Epoch", "bytes">>}
UnsubscribeUnmarshalTo3 ==
    {<<1, "Channel", "bytes">>, <<2, "User", "bytes">>, <<3, "Client", "bytes">>}
UnsubscribeUnmarshalTo6 ==
    {<<4, "Session", "bytes">>, <<5, "Code", "uint32">>, <<6, "Reason", "bytes">>}
DisconnectUnmarshalTo3 ==
    {<<1, "User", "bytes">>, <<2, "Whitelist", "strings">>, <<3, "Code", "uint32">>}
DisconnectUnmarshalTo7 ==
    {<<4, "Reason", "bytes">>, <<5, "Reconnect", "bool">>,
     <<6, "Client", "bytes">>, <<7, "Session", "bytes">>}
SurveyRequestUnmarshal ==
    {<<1, "Id", "uint64">>, <<2, "Op", "bytes">>, <<3, "Data", "bytes">>}
SurveyResponseUnmarshal ==
    {<<1, "Id", "uint64">>, <<2, "Code", "uint32">>, <<3, "Data", "bytes">>}
NotificationUnmarshal == {<<1, "Op", "bytes">>, <<2, "Data", "bytes">>}
RefreshUnmarshalTo3 ==
    {<<1, "User", "bytes">>, <<2, "Client", "bytes">>, <<3, "Expired", "bool">>}
RefreshUnmarshalTo6 ==
    {<<4, "ExpireAt", "uint64">>, <<5, "Info", "bytes">>, <<6, "Session", "bytes">>}

Marshals ==
    [Command |-> CommandMarshal, Shutdown |-> ShutdownMarshal,
     Node |-> NodeMarshal, Metrics |-> MetricsMarshal,
     Subscribe |-> SubscribeMarshal, StreamPosition |-> StreamPositionMarshal,
     Unsubscribe |-> UnsubscribeMarshal, Disconnect |-> DisconnectMarshal,
     SurveyRequest |-> SurveyRequestMarshal,
     SurveyResponse |-> SurveyResponseMarshal,
     Notification |-> NotificationMarshal, Refresh |-> RefreshMarshal]
Sizes ==
    [Command |-> CommandSize, Shutdown |-> ShutdownSize, Node |-> NodeSize,
     Metrics |-> MetricsSize, Subscribe |-> SubscribeSize,
     StreamPosition |-> StreamPositionSize, Unsubscribe |-> UnsubscribeSize,
     Disconnect |-> DisconnectSize, SurveyRequest |-> SurveyRequestSize,
     SurveyResponse |-> SurveyResponseSize, Notification |-> NotificationSize,
     Refresh |-> RefreshSize]
Unmarshals ==
    [Command |-> CommandUnmarshalTo5 \cup CommandUnmarshalTo9
                 \cup CommandUnmarshalTo12,
     Shutdown |-> ShutdownUnmarshal,
     Node |-> NodeUnmarshalTo4 \cup NodeUnmarshalTo10,
     Metrics |-> MetricsUnmarshal,
     Subscribe |-> SubscribeUnmarshalTo4 \cup SubscribeUnmarshalTo9
                   \cup SubscribeUnmarshalTo14,
     StreamPosition |-> StreamPositionUnmarshal,
     Unsubscribe |-> UnsubscribeUnmarshalTo3 \cup UnsubscribeUnmarshalTo6,
     Disconnect |-> DisconnectUnmarshalTo3 \cup DisconnectUnmarshalTo7,
     SurveyRequest |-> SurveyRequestUnmarshal,
     SurveyResponse |-> SurveyResponseUnmarshal,
     Notification |-> NotificationUnmarshal,
     Refresh |-> RefreshUnmarshalTo3 \cup RefreshUnmarshalTo6]

\* The zero value of a kind, and the message that has only these.
ZeroOf(kind) ==
    CASE kind \in {"bytes", "strings"} -> << >>
      [] kind = "map" -> {}
      [] kind \in {"uint32", "uint64"} -> Zero
      [] kind = "bool" -> FALSE
      [] kind = "double" -> [k \in 1..8 |-> 0]
      [] OTHER -> Nil
New(type) == [f \in DOMAIN Sizes[type] \cup {"unknownFields"} |->
                 IF f = "unknownFields" THEN << >> ELSE ZeroOf(Sizes[type][f])]

-----------------------------------------------------------------------------
(* Encoding.                                                               *)

\* The bytes of a varint: one per group up to the highest that is not zero.
sov(g) == LET ks == {k \in 1..10 : g[k] # 0} IN IF ks = {} THEN 1 ELSE Max(ks)

encodeVarint(g) ==
    [k \in 1..sov(g) |-> g[k] + (IF k < sov(g) THEN 128 ELSE 0)]

Delimited(bytes) == encodeVarint(Uint(Len(bytes))) \o bytes

\* An entry <<key, value>> of a map.
MapEntry(tag, e) == <<tag>> \o Delimited(<<10>> \o Delimited(e[1]) \o <<17>> \o e[2])

\* Go goes through a map in an order of its own each time: items is that order for the
\* one map of these messages, Metrics.Items.
RECURSIVE MarshalToSizedBufferVT(_, _, _)
MarshalToSizedBufferVT(type, m, items) ==
    LET field(f, tag, kind) ==
            CASE m[f] = ZeroOf(kind) -> << >>
              [] kind = "bytes" -> <<tag>> \o Delimited(m[f])
              [] kind \in {"uint32", "uint64"} -> <<tag>> \o encodeVarint(m[f])
              [] kind = "bool" -> <<tag, 1>>
              [] kind = "double" -> <<tag>> \o m[f]
              [] kind = "strings" ->
                    FlattenSeq([k \in DOMAIN m[f] |-> <<tag>> \o Delimited(m[f][k])])
              [] kind = "map" ->
                    FlattenSeq([k \in DOMAIN items |-> MapEntry(tag, items[k])])
              [] OTHER -> <<tag>> \o Delimited(MarshalToSizedBufferVT(kind, m[f], items))
        t == Marshals[type]
    IN  FlattenSeq([k \in DOMAIN t |-> field(t[k][1], t[k][2], t[k][3])])
        \o m.unknownFields

\* A tag, a length and that many bytes.
Sized(l) == 1 + l + sov(Uint(l))

RECURSIVE SizeVT(_, _)
SizeVT(type, m) ==
    LET field(f) ==
            LET kind == Sizes[type][f] IN
            CASE m[f] = ZeroOf(kind) -> 0
              [] kind = "bytes" -> Sized(Len(m[f]))
              [] kind \in {"uint32", "uint64"} -> 1 + sov(m[f])
              [] kind = "bool" -> 2
              [] kind = "double" -> 9
              [] kind = "strings" ->
                    MapThenSumSet(LAMBDA k : Sized(Len(m[f][k])), DOMAIN m[f])
              [] kind = "map" ->
                    MapThenSumSet(LAMBDA e : Sized(Sized(Len(e[1])) + 9), m[f])
              [] OTHER -> Sized(SizeVT(kind, m[f]))
    IN  MapThenSumSet(field, DOMAIN Sizes[type]) + Len(m.unknownFields)

\* The buffer has SizeVT bytes and is filled from its end; as many bytes as were
\* written are taken from its start.  A buffer that is too short is a panic.
MarshalVT(type, m, items) ==
    LET written == MarshalToSizedBufferVT(type, m, items)
        size    == SizeVT(type, m)
    IN  IF Len(written) > size THEN Err
        ELSE SubSeq([k \in 1..(size - Len(written)) |-> 0] \o written,
                    1, Len(written))

-----------------------------------------------------------------------------
(* Decoding.  Positions are Go's: d[i + 1] is dAtA[i].                     *)

\* A decoder goes on with what it has just read, unless that failed.
Then(r, Op(_)) == IF r = Err THEN Err ELSE Op(r)
With(r, Op(_)) == Then(r, LAMBDA x : [x EXCEPT !.val = Op(@)])

\* The varint at position i: its value, and the position after it.
Varint(d, i) ==
    LET ends == {k \in 1..10 : i + k <= Len(d) /\ d[i + k] < 128}
    IN  IF ends = {} THEN Err
        ELSE LET n == Min(ends)
             IN  [val |-> [k \in 1..10 |->
                              IF k > n THEN 0
                              ELSE d[i + k] % (IF k = 10 THEN 2 ELSE 128)],
                  next |-> i + n]

Fixed(d, i, n) == IF i + n > Len(d) THEN Err
                  ELSE [val |-> SubSeq(d, i + 1, i + n), next |-> i + n]

\* Mutant of Bytes: a length beyond the end means the rest.
BytesClipped(d, i) ==
    Then(Varint(d, i),
         LAMBDA v : Fixed(d, v.next, Min({Length(v.val), Len(d) - v.next})))

\* The bytes a length at position i announces.
Bytes(d, i) == Then(Varint(d, i), LAMBDA v : Fixed(d, v.next, Length(v.val)))

\* Where the field at position i ends; a group ends with its own end.
RECURSIVE skipFrom(_, _, _)
skipFrom(d, i, depth) ==
    Then(Varint(d, i), LAMBDA v :
        LET wireType == v.val[1] % 8
            deep == depth + CASE wireType = 3 -> 1 [] wireType = 4 -> -1 [] OTHER -> 0
            after ==
                CASE wireType = 0 -> Then(Varint(d, v.next), LAMBDA w : w.next)
                  [] wireType = 1 -> v.next + 8
                  [] wireType = 2 -> Then(Varint(d, v.next),
                                          LAMBDA w : w.next + Length(w.val))
                  [] wireType \in {3, 4} -> v.next
                  [] wireType = 5 -> v.next + 4
                  [] OTHER -> Err
        IN  IF deep < 0 THEN Err
            ELSE Then(after, LAMBDA n : IF deep = 0 THEN n ELSE skipFrom(d, n, deep)))
skip(d, i) == skipFrom(d, i, 0)

\* The entry of a map between i and post: the loop stops there, but what it reads
\* is only compared with the end of the input.  Keys and values are not checked
\* for their wire type.
RECURSIVE EntryFrom(_, _, _, _)
EntryFrom(d, i, post, e) ==
    IF i >= post THEN e
    ELSE Then(Varint(d, i), LAMBDA v :
        LET num == FieldNum(v.val)
            r   == CASE num = 1 -> Bytes(d, v.next)
                     [] num = 2 -> Fixed(d, v.next, 8)
                     [] OTHER -> Then(skip(d, i), LAMBDA n :
                                    IF n > post THEN Err
                                    ELSE [val |-> << >>, next |-> n])
        IN  Then(r, LAMBDA x :
                EntryFrom(d, x.next, post, CASE num = 1 -> <<x.val, e[2]>>
                                             [] num = 2 -> <<e[1], x.val>>
                                             [] OTHER -> e)))

MapField(d, i, items) ==
    Then(Varint(d, i), LAMBDA v :
        LET post == v.next + Length(v.val)
        IN  IF post > Len(d) THEN Err
            ELSE Then(EntryFrom(d, v.next, post, <<ZeroOf("bytes"), ZeroOf("double")>>),
                      LAMBDA e : [val |-> {x \in items : x[1] # e[1]} \cup {e},
                                  next |-> post]))

WireType(kind) ==
    CASE kind \in {"uint32", "uint64", "bool"} -> 0
      [] kind = "double" -> 1
      [] OTHER -> 2

RECURSIVE UnmarshalFrom(_, _, _, _)
\* A field of a kind at position i, when the message has the value old.  A message
\* that comes twice is merged, a list grows, anything else is replaced.
Field(kind, old, d, i) ==
    CASE kind = "bytes" -> Bytes(d, i)
      [] kind = "uint32" -> With(Varint(d, i), Low32)
      [] kind = "uint64" -> Varint(d, i)
      [] kind = "bool" -> With(Varint(d, i), LAMBDA g : g # Zero)
      [] kind = "double" -> Fixed(d, i, 8)
      [] kind = "strings" -> With(Bytes(d, i), LAMBDA b : Append(old, b))
      [] kind = "map" -> MapField(d, i, old)
      [] OTHER ->
            LET to == IF old = Nil THEN New(kind) ELSE old
            IN  Then(Bytes(d, i), LAMBDA b :
                    Then(UnmarshalFrom(kind, to, b.val, 0),
                         LAMBDA read : [b EXCEPT !.val = read]))

UnmarshalFrom(type, m, d, i) ==
    IF i >= Len(d) THEN m
    ELSE Then(Varint(d, i), LAMBDA v :
        LET num      == FieldNum(v.val)
            wireType == v.val[1] % 8
            cases    == {c \in Unmarshals[type] : c[1] = num}
            known    == CHOOSE c \in cases : TRUE
        IN  IF wireType = 4 \/ num <= 0 THEN Err
            ELSE IF cases = {}
            THEN Then(skip(d, i), LAMBDA n :
                    IF n > Len(d) THEN Err
                    ELSE UnmarshalFrom(type, [m EXCEPT !.unknownFields =
                                                 @ \o SubSeq(d, i + 1, n)], d, n))
            ELSE IF wireType # WireType(known[3]) THEN Err
            ELSE Then(Field(known[3], m[known[2]], d, v.next), LAMBDA r :
                    UnmarshalFrom(type, [m EXCEPT ![known[2]] = r.val], d, r.next)))

\* Mutant of UnmarshalVT: the fields it does not know are skipped.
UnmarshalVTSkips(type, d) ==
    Then(UnmarshalFrom(type, New(type), d, 0),
         LAMBDA m : [m EXCEPT !.unknownFields = << >>])

UnmarshalVT(type, d) == UnmarshalFrom(type, New(type), d, 0)

\* The orders a command may be encoded in.
Orders(cmd) ==
    IF cmd.Node = Nil THEN {<< >>}
    ELSE IF cmd.Node.Metrics = Nil THEN {<< >>} ELSE SetToSeqs(cmd.Node.Metrics.Items)

EncodeCommand(cmd, items) == MarshalVT("Command", cmd, items)
DecodeCommand(d) == UnmarshalVT("Command", d)
=============================================================================
