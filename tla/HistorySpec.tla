---------------------------- MODULE HistorySpec ----------------------------
(***************************************************************************)
(* What a broker promises about the history of a channel (Broker.Publish,  *)
(* History and RemoveHistory in broker.go): numbered publications of which *)
(* a tail is kept, and a new epoch whenever numbering starts again.        *)
(***************************************************************************)
EXTENDS Naturals, Sequences

CONSTANT Channels

VARIABLES
    live,    \* is there a stream
    epoch,   \* how many streams there have been
    top,     \* offset of the last publication
    kept     \* offsets still in the stream, in order

hvars == <<live, epoch, top, kept>>

HInit == /\ live = [ch \in Channels |-> FALSE]
         /\ epoch = [ch \in Channels |-> 0]
         /\ top = [ch \in Channels |-> 0]
         /\ kept = [ch \in Channels |-> <<>>]

Tails(s) == {SubSeq(s, n, Len(s)) : n \in 1..Len(s) + 1}

\* A publication gets the next offset; old ones may go, or it may itself expire at once.
Add(ch) ==
    /\ live[ch]
    /\ top' = [top EXCEPT ![ch] = @ + 1]
    /\ \E s \in Tails(Append(kept[ch], top[ch] + 1)) : kept' = [kept EXCEPT ![ch] = s]
    /\ UNCHANGED <<live, epoch>>

\* A read, or the first publication, begins a stream.
Begin(ch) ==
    /\ ~live[ch]
    /\ live' = [live EXCEPT ![ch] = TRUE]
    /\ epoch' = [epoch EXCEPT ![ch] = @ + 1]
    /\ \E first \in {<<>>, <<1>>}, s \in {<<>>, <<1>>} :
           /\ Len(s) <= Len(first)
           /\ top' = [top EXCEPT ![ch] = Len(first)]
           /\ kept' = [kept EXCEPT ![ch] = s]

\* Publications expire or are removed, of several channels at once; numbering
\* goes on.
Expire(chs) ==
    /\ kept' = [ch \in Channels |-> IF ch \in chs THEN <<>> ELSE kept[ch]]
    /\ UNCHANGED <<live, epoch, top>>

\* Streams are forgotten.
Forget(chs) ==
    /\ live' = [ch \in Channels |-> live[ch] /\ ch \notin chs]
    /\ top' = [ch \in Channels |-> IF ch \in chs THEN 0 ELSE top[ch]]
    /\ kept' = [ch \in Channels |-> IF ch \in chs THEN <<>> ELSE kept[ch]]
    /\ UNCHANGED epoch

HNext == \/ \E ch \in Channels : Add(ch) \/ Begin(ch)
         \/ \E chs \in SUBSET Channels : Expire(chs) \/ Forget(chs)

HSpec == HInit /\ [][HNext]_hvars
=============================================================================
