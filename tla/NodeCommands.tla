---------------------------- MODULE NodeCommands ----------------------------
(***************************************************************************)
(* What a node does for all nodes: a call of Subscribe, Unsubscribe,       *)
(* Disconnect, Refresh, Notify, Survey and so on acts on this node's hub   *)
(* and publishes a command; the broker hands the command to every node,    *)
(* the sender included; handleControl turns it back into a call.           *)
(***************************************************************************)
EXTENDS ControlCodec, FiniteSets

CONSTANTS
    Operations,  \* calls: records with op and the arguments
    Newer,       \* bytes of fields a later version may add to a message
    Self, Other, \* the uids of the node that is called and of another node
    MaxCut       \* bound: a command is cut within so many bytes of its ends

VARIABLES
    kop,     \* the operation that was called, Nil before
    kmsg,    \* its command, as the broker hands it over
    kto,     \* nodes that have yet to get it
    kcut,    \* nodes that got only the first bytes of it
    kdone    \* what each node did for it

kvars == <<kop, kmsg, kto, kcut, kdone>>
Peers == {Self, Other}

KInit ==
    /\ kop = Nil
    /\ kmsg = << >>
    /\ kto = {} /\ kcut = {}
    /\ kdone = [n \in Peers |-> << >>]

-----------------------------------------------------------------------------
(* The commands.  The field that holds the message comes with its value.   *)

pubSubscribe(o) ==
    <<"Subscribe",
      [New("Subscribe") EXCEPT
         !.User = o.user, !.Channel = o.ch,
         !.EmitPresence = o.opts.EmitPresence,
         !.EmitJoinLeave = o.opts.EmitJoinLeave,
         !.PushJoinLeave = o.opts.PushJoinLeave,
         !.ChannelInfo = o.opts.ChannelInfo,
         !.Position = o.opts.EnablePositioning,
         !.Recover = o.opts.EnableRecovery,
         !.ExpireAt = o.opts.ExpireAt,
         !.Client = o.opts.clientID, !.Session = o.opts.sessionID,
         !.Data = o.opts.Data, !.Source = o.opts.Source,
         !.RecoverSince = IF o.opts.RecoverSince = Nil THEN Nil
                          ELSE [New("StreamPosition") EXCEPT
                                  !.Offset = o.opts.RecoverSince.Offset,
                                  !.Epoch = o.opts.RecoverSince.Epoch]]>>

pubRefresh(o) ==
    <<"Refresh",
      [New("Refresh") EXCEPT
         !.User = o.user, !.Expired = o.opts.Expired,
         !.ExpireAt = o.opts.ExpireAt, !.Client = o.opts.clientID,
         !.Session = o.opts.sessionID, !.Info = o.opts.Info]>>

pubUnsubscribe(o) ==
    <<"Unsubscribe",
      [New("Unsubscribe") EXCEPT
         !.User = o.user, !.Channel = o.ch, !.Code = o.unsubscribe.Code,
         !.Reason = o.unsubscribe.Reason, !.Client = o.clientID,
         !.Session = o.sessionID]>>

pubDisconnect(o) ==
    <<"Disconnect",
      [New("Disconnect") EXCEPT
         !.User = o.user, !.Whitelist = o.whitelist,
         !.Code = o.disconnect.Code, !.Reason = o.disconnect.Reason,
         !.Client = o.clientID, !.Session = o.sessionID]>>

pubNode(o) == <<"Node", o.node>>

pubShutdown(o) == <<"Shutdown", New("Shutdown")>>

Notify(o) ==
    <<"Notification", [New("Notification") EXCEPT !.Op = o.name, !.Data = o.data]>>

SurveyRequest(o) ==
    <<"SurveyRequest", [New("SurveyRequest") EXCEPT
                          !.Id = o.id, !.Op = o.name, !.Data = o.data]>>

SurveyAnswer(o) ==
    <<"SurveyResponse", [New("SurveyResponse") EXCEPT
                           !.Id = o.id, !.Code = o.code, !.Data = o.data]>>

Published(o) ==
    CASE o.op = "subscribe" -> pubSubscribe(o)
      [] o.op = "refresh" -> pubRefresh(o)
      [] o.op = "unsubscribe" -> pubUnsubscribe(o)
      [] o.op = "disconnect" -> pubDisconnect(o)
      [] o.op = "node" -> pubNode(o)
      [] o.op = "shutdown" -> pubShutdown(o)
      [] o.op = "notify" -> Notify(o)
      [] o.op = "survey" -> SurveyRequest(o)
      [] o.op = "answer" -> SurveyAnswer(o)

-----------------------------------------------------------------------------
(* The calls.  Subscribe's options are applied one by one to fresh options.*)

SubscribeOptions(o) ==
    [ExpireAt |-> o.ExpireAt, ChannelInfo |-> o.ChannelInfo,
     EmitPresence |-> o.EmitPresence, EmitJoinLeave |-> o.EmitJoinLeave,
     PushJoinLeave |-> o.PushJoinLeave,
     EnablePositioning |-> o.EnablePositioning,
     EnableRecovery |-> o.EnableRecovery, Data |-> o.Data,
     RecoverSince |-> o.RecoverSince, Source |-> o.Source,
     HistoryMetaTTL |-> o.HistoryMetaTTL]

\* What the call does on the node that is called: the hub's method with these
\* arguments, or the handler.  For Shutdown and the surveys it is what the other
\* nodes are asked to do.
Local(o) ==
    CASE o.op = "subscribe" ->
            <<"subscribe", o.user, o.ch, o.opts.clientID, o.opts.sessionID,
              SubscribeOptions(o.opts)>>
      [] o.op = "refresh" ->
            <<"refresh", o.user, o.opts.clientID, o.opts.sessionID,
              o.opts.Expired, o.opts.ExpireAt, o.opts.Info>>
      [] o.op = "unsubscribe" ->
            <<"unsubscribe", o.user, o.ch, o.unsubscribe, o.clientID, o.sessionID>>
      [] o.op = "disconnect" ->
            <<"disconnect", o.user, o.disconnect, o.clientID, o.sessionID,
              o.whitelist>>
      [] o.op = "node" -> <<"nodeCmd", o.node>>
      [] o.op = "shutdown" -> <<"shutdownCmd", Self>>
      [] o.op = "notify" -> <<"notification", Self, o.name, o.data>>
      [] o.op = "survey" -> <<"survey", Self, o.id, o.name, o.data>>
      [] o.op = "answer" -> <<"answer", Self, o.id, o.code, o.data>>

\* Mutant of recoverSince: a position that is not set becomes zero.
recoverSinceZero(c) ==
    IF c.RecoverSince = Nil THEN [Offset |-> Zero, Epoch |-> << >>]
    ELSE [Offset |-> c.RecoverSince.Offset, Epoch |-> c.RecoverSince.Epoch]

recoverSince(c) ==
    IF c.RecoverSince = Nil THEN Nil
    ELSE [Offset |-> c.RecoverSince.Offset, Epoch |-> c.RecoverSince.Epoch]

\* What handleControl calls for a command, the first it finds in this order;
\* nothing for a command without any.
handleControl(cmd) ==
    CASE cmd.Node # Nil -> << <<"nodeCmd", cmd.Node>> >>
      [] cmd.Shutdown # Nil -> << <<"shutdownCmd", cmd.Uid>> >>
      [] cmd.Unsubscribe # Nil ->
            LET c == cmd.Unsubscribe IN
            << <<"unsubscribe", c.User, c.Channel,
                 [Code |-> c.Code, Reason |-> c.Reason], c.Client, c.Session>> >>
      [] cmd.Subscribe # Nil ->
            LET c == cmd.Subscribe IN
            << <<"subscribe", c.User, c.Channel, c.Client, c.Session,
                 [ExpireAt |-> c.ExpireAt, ChannelInfo |-> c.ChannelInfo,
                  EmitPresence |-> c.EmitPresence,
                  EmitJoinLeave |-> c.EmitJoinLeave,
                  PushJoinLeave |-> c.PushJoinLeave,
                  EnablePositioning |-> c.Position, EnableRecovery |-> c.Recover,
                  Data |-> c.Data, Source |-> c.Source,
                  HistoryMetaTTL |-> Zero,
                  RecoverSince |-> recoverSince(c)]>> >>
      [] cmd.Disconnect # Nil ->
            LET c == cmd.Disconnect IN
            << <<"disconnect", c.User, [Code |-> c.Code, Reason |-> c.Reason],
                 c.Client, c.Session, c.Whitelist>> >>
      [] cmd.SurveyRequest # Nil ->
            LET c == cmd.SurveyRequest IN
            << <<"survey", cmd.Uid, c.Id, c.Op, c.Data>> >>
      [] cmd.SurveyResponse # Nil ->
            LET c == cmd.SurveyResponse IN
            << <<"answer", cmd.Uid, c.Id, c.Code, c.Data>> >>
      [] cmd.Notification # Nil ->
            LET c == cmd.Notification IN
            << <<"notification", cmd.Uid, c.Op, c.Data>> >>
      [] cmd.Refresh # Nil ->
            LET c == cmd.Refresh IN
            << <<"refresh", c.User, c.Client, c.Session, c.Expired, c.ExpireAt,
                 c.Info>> >>
      [] OTHER -> << >>

-----------------------------------------------------------------------------
\* The node is called.  It acts itself first; the command then goes to all nodes.
\* A node of a later version may write fields this one does not know, in the
\* command and in the message.
Call(o, u) ==
    /\ kop = Nil
    /\ LET p == Published(o)
           m == [p[2] EXCEPT !.unknownFields = u]
           c == [New("Command") EXCEPT !.Uid = Self, ![p[1]] = m, !.unknownFields = u]
       IN  \E items \in Orders(c) : kmsg' = EncodeCommand(c, items)
    /\ kop' = o
    /\ kdone' = [kdone EXCEPT ![Self] = <<Local(o)>>]
    /\ kto' = IF kmsg' = Err THEN {} ELSE Peers
    /\ UNCHANGED kcut

\* hub.subscribe, hub.refresh or hub.disconnect returns an error: nobody is told.
CallFails(o) ==
    /\ kop = Nil
    /\ o.op \in {"subscribe", "refresh", "disconnect"}
    /\ kop' = o
    /\ UNCHANGED <<kmsg, kto, kcut, kdone>>

\* A node gets the command, or only its first n bytes.
ReceiveControl(p, n) ==
    /\ p \in kto
    /\ \/ n = Len(kmsg)
       \/ p = Other /\ (n <= MaxCut \/ n >= Len(kmsg) - MaxCut)
    /\ kto' = kto \ {p}
    /\ kcut' = IF n < Len(kmsg) THEN kcut \cup {p} ELSE kcut
    /\ LET cmd == DecodeCommand(SubSeq(kmsg, 1, n))
       IN  kdone' = IF cmd = Err THEN kdone
                    ELSE IF cmd.Uid = p THEN kdone
                    ELSE [kdone EXCEPT ![p] = @ \o handleControl(cmd)]
    /\ UNCHANGED <<kop, kmsg>>

KNext ==
    \/ kop = Nil /\ \E o \in Operations : (\E u \in Newer : Call(o, u)) \/ CallFails(o)
    \/ \E p \in kto : \E n \in 0..Len(kmsg) : ReceiveControl(p, n)

-----------------------------------------------------------------------------
\* What the other node was asked to do, HistoryMetaTTL apart, which the command
\* does not carry.
Remote(o) ==
    IF o.op = "subscribe" THEN [Local(o) EXCEPT ![6].HistoryMetaTTL = Zero]
    ELSE Local(o)

\* What was done, without the fields of a later version nobody looks at.
Done(p) ==
    [k \in DOMAIN kdone[p] |->
        IF kdone[p][k][1] = "nodeCmd"
        THEN [kdone[p][k] EXCEPT ![2].unknownFields = << >>] ELSE kdone[p][k]]

\* A command that arrives whole makes the other node do what the call did on this
\* node, with the same arguments down to the last option, also when a later version
\* has added fields; it does nothing more on the node that sent it and gets it back.
\* pubSubscribe and its like, the encoder, the decoder and handleControl have to
\* agree on every field for this.
RemoteDoesTheSame ==
    kop # Nil /\ kmsg # << >> =>
        /\ kmsg # Err
        /\ Done(Self) = <<Local(kop)>>
        /\ Other \notin kto \cup kcut => Done(Other) = <<Remote(kop)>>

\* A command of which only a part arrives is refused, or does what it would have
\* done as a whole: never something else.
AllOrNothing ==
    Other \in kcut => Done(Other) \in {<< >>, <<Remote(kop)>>}

\* A node that decodes a command and encodes it again, in whatever order it goes
\* through a map (control_vtproto.pb.go:313), makes bytes that mean the same command,
\* and in one order the very bytes it got: nothing it knows is lost, and the fields of a
\* later version are kept (unknownFields).
Relayed ==
    kto = Peers =>
        LET cmd == DecodeCommand(kmsg)
            again == {EncodeCommand(cmd, items) : items \in Orders(cmd)}
        IN  /\ cmd # Err
            /\ kmsg \in again
            /\ \A bytes \in again : bytes # Err /\ DecodeCommand(bytes) = cmd
=============================================================================
