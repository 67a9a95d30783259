----------------------------- MODULE MCConnect ------------------------------
(***************************************************************************)
(* Two connections of a user, from their handlers on, and calls of the     *)
(* node's methods for the user.                                            *)
(***************************************************************************)
EXTENDS Connections, TLC

CONSTANTS c, d, n, m

Together == [x \in {c, d} |-> n]
Apart == (c :> n) @@ (d :> m)

Plan(home, calls, hangs, downs, limit, room, pushes) ==
    [home |-> home, calls |-> calls, hangs |-> hangs, downs |-> downs, limit |-> limit,
     room |-> room, pushes |-> pushes]

MCPlans ==
    {Plan(Apart, <<"subscribe", o>>, {d}, {}, 0, 2, FALSE) : o \in Kinds}
    \cup {Plan(Together, <<"disconnect">>, {d}, {}, 0, 2, TRUE),
          Plan(Together, <<"disconnect">>, {}, {n}, 0, 2, TRUE),
          Plan(Apart, <<"subscribe", "subscribe">>, {}, {}, 0, 1, TRUE),
          Plan(Together, <<"subscribe">>, {d}, {}, 1, 2, TRUE),
          Plan(Together, <<"subscribe">>, {}, {n}, 0, 2, FALSE)}

\* One connection more than the user may have.
LimitPlans == {Plan(Together, <<>>, {}, {}, 1, 2, TRUE)}
=============================================================================
