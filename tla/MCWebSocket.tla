---------------------------- MODULE MCWebSocket -----------------------------
(***************************************************************************)
(* Both ends of a connection, with lengths of one, two and eight digits.   *)
(***************************************************************************)
EXTENDS WebSocket

Key1 == [k \in 0..1 |-> k]
Key2 == [k \in 0..1 |-> 1 - k]
MCKeys == {Key1, Key2}

Plan(server, client, serverPings, clientPings, may) ==
    [out |-> [s \in Sides |-> IF s = "server" THEN server ELSE client],
     pings |-> [s \in Sides |-> IF s = "server" THEN serverPings ELSE clientPings],
     may |-> may, limit |-> 6]

M1 == <<1>>
M3 == <<1, 0, 0>>
M5 == <<0, 1, 1, 0, 1>>
M6 == <<0, 1, 0, 0, 1, 1>>
M7 == <<1, 1, 0, 1, 0, 0, 1>>

MCPlans == {
    Plan(<<M5, M1>>, <<M6>>, <<<<>>>>, <<>>, {}),
    Plan(<<>>, <<M6, M1>>, <<>>, <<<<1, 0>>>>, {"server"}),
    Plan(<<M3>>, <<M6>>, <<>>, <<>>, {"fail", "client"}),
    Plan(<<M1>>, <<M5, M7>>, <<>>, <<>>, {"server"}),
    Plan(<<>>, <<M6, M1>>, <<>>, <<>>, {"reject", "client"}),
    Plan(<<M1>>, <<M5>>, <<<<>>>>, <<>>, {"vanish", "framePing"}),
    Plan(<<M1>>, <<M1>>, <<<<>>>>, <<>>, {"vanish", "server", "fail"}),
    Plan(<<M1>>, <<M1>>, <<<<>>>>, <<>>, {"shutdown", "noClient", "client", "fail"})}
=============================================================================
