-------------------------------- MODULE Fifo --------------------------------
(***************************************************************************)
(* What internal/queue and internal/dissolve promise of their queues: an   *)
(* unbounded first-in-first-out queue that can be closed once, either      *)
(* dropping what it holds or handing it over.                              *)
(***************************************************************************)
EXTENDS Naturals, Sequences

CONSTANT Items

VARIABLES
    items,    \* what was added and not removed, oldest first
    isClosed,
    ret       \* items the last operation returned

vars == <<items, isClosed, ret>>

Init == items = <<>> /\ isClosed = FALSE /\ ret = <<>>

Add(i) ==
    /\ ~isClosed
    /\ items' = Append(items, i)
    /\ ret' = <<>>
    /\ UNCHANGED isClosed

\* Add to a closed queue and Remove from an empty one do nothing.
Refuse ==
    /\ isClosed \/ items = <<>>
    /\ ret' = <<>>
    /\ UNCHANGED <<items, isClosed>>

Remove ==
    /\ items # <<>>
    /\ ret' = <<Head(items)>>
    /\ items' = Tail(items)
    /\ UNCHANGED isClosed

Close ==
    /\ isClosed' = TRUE
    /\ items' = <<>>
    /\ ret' \in {<<>>, items}

Next == (\E i \in Items : Add(i)) \/ Refuse \/ Remove \/ Close

Spec == Init /\ [][Next]_vars
=============================================================================
