---------------------------- MODULE HistoryReads ----------------------------
(***************************************************************************)
(* What the reads of both brokers return, against what a filter asks for.  *)
(***************************************************************************)
EXTENDS Brokers, SequencesExt

CONSTANT UintMax    \* the largest offset

ASSUME ReadsAssumption ==
    UintMax \in Nat /\ \A n \in {MaxOffset, RedisMaxOffset} : UintMax > n + 2

NoLimit == 99     \* stands for Limit < 0
FirstN(s, n) == SubSeq(s, 1, IF n < Len(s) THEN n ELSE Len(s))

\* Forward: what follows the position, oldest first; backward: what precedes it,
\* newest first.  Without a position: from the beginning or from the end.
Since(s, o) == SelectSeq(s, LAMBDA x : x > o)
Before(s, o) == Reverse(SelectSeq(s, LAMBDA x : x < o))

-----------------------------------------------------------------------------
(* The memory broker                                                        *)

\* Mutant: a trimmed offset is not found.
StreamGetExact(s, useOffset, offset, limit, reverse) ==
    LET el == IF useOffset THEN {i \in DOMAIN s.list : s.list[i] = offset}
              ELSE IF reverse THEN {Len(s.list)} ELSE {1}
    IN  IF s.list = <<>> \/ el = {} \/ limit = 0 THEN <<>>
        ELSE LET i == Min(el) IN
             FirstN(IF reverse THEN Reverse(SubSeq(s.list, 1, i))
                    ELSE SubSeq(s.list, i, Len(s.list)), limit)

\* memstream.Stream.Get: an offset that is not in the stream stands, forward, for
\* its first element.
StreamGet(s, useOffset, offset, limit, reverse) ==
    LET el == IF useOffset
              THEN LET at == {i \in DOMAIN s.list : s.list[i] = offset}
                   IN  IF at = {} /\ ~reverse THEN {1} ELSE at
              ELSE IF reverse THEN {Len(s.list)} ELSE {1}
    IN  IF useOffset /\ offset >= s.top + 1 THEN <<>>
        ELSE IF s.list = <<>> \/ el = {} \/ limit = 0 THEN <<>>
        ELSE LET i == Min(el) IN
             FirstN(IF reverse THEN Reverse(SubSeq(s.list, 1, i))
                    ELSE SubSeq(s.list, i, Len(s.list)), limit)

\* The publications historyHub.get returns.  Offsets are unsigned.
MemPubs(s, f) ==
    IF f.since = {} THEN StreamGet(s, FALSE, 0, f.limit, f.reverse)
    ELSE LET pos == Min(f.since)
         IN  IF ~f.reverse /\ s.top = pos /\ f.sameEpoch THEN <<>>
             ELSE StreamGet(s, TRUE, (pos + IF f.reverse THEN UintMax ELSE 1)
                                         % (UintMax + 1), f.limit, f.reverse)

-----------------------------------------------------------------------------
(* The Redis broker                                                         *)

\* The publications historyStream returns.
StreamPubs(f) ==
    LET offset == IF f.since = {} THEN 0
                  ELSE (Min(f.since) + IF f.reverse THEN UintMax ELSE 1) % (UintMax + 1)
        get    == IF offset = 0 THEN meta.s ELSE offset
    IN  IF f.limit = 0 \/ (f.since # {} /\ f.reverse /\ offset = 0) THEN <<>>
        ELSE FirstN(IF f.reverse
                    THEN Reverse(SelectSeq(pubs.list, LAMBDA x : x <= get))
                    ELSE SelectSeq(pubs.list, LAMBDA x : x >= offset), f.limit)

\* The publications historyList returns: it looks for the position, or the one
\* after it, and returns everything when it finds neither.
ListPubs(f) ==
    LET pos   == Min(f.since)
        at    == {i \in 1..Len(pubs.list) + 1 :
                      \/ i > 1 /\ pubs.list[i - 1] = pos
                      \/ i <= Len(pubs.list) /\ pubs.list[i] = pos + 1}
        start == IF at = {} THEN 1 ELSE Min(at)
    IN  IF f.limit = 0 THEN <<>>
        ELSE IF f.since = {} THEN FirstN(pubs.list, f.limit)
        ELSE IF meta.s < pos \/ (meta.s = pos /\ f.sameEpoch) THEN <<>>
        ELSE FirstN(SubSeq(pubs.list, start, Len(pubs.list)), f.limit)

RedisPubs(f) == IF useLists THEN ListPubs(f) ELSE StreamPubs(f)

-----------------------------------------------------------------------------
\* A read returns what the filter asks for: what follows the position, or what
\* precedes it in reverse, up to the limit.  Left out: positions behind the end of
\* the stream in reverse, and the largest offset, where since + 1 is 0.
MemReadIsExact ==
    \A ch \in {x \in Channels : streams[x].epoch # 0}, reverse, sameEpoch \in BOOLEAN,
       limit \in {0, 1, 2, NoLimit},
       since \in {{}} \cup {{o} : o \in 0..MaxOffset + 1} :
        LET s == streams[ch]
            asked == IF since = {} THEN (IF reverse THEN Reverse(s.list) ELSE s.list)
                     ELSE IF reverse THEN Before(s.list, Min(since))
                     ELSE Since(s.list, Min(since))
        IN  since = {} \/ ~reverse \/ Min(since) <= s.top + 1 =>
                MemPubs(s, [since |-> since, limit |-> limit, reverse |-> reverse,
                            sameEpoch |-> sameEpoch]) = FirstN(asked, limit)

\* A read returns what the filter asks for.  Left out: lists do not read in
\* reverse; streams, for since.Offset 0 in reverse, and for the largest offset.
RedisReadIsExact ==
  R!Exists(meta) \/ R!Exists(pubs) =>
    \A reverse \in {FALSE, ~useLists}, sameEpoch \in BOOLEAN, limit \in {0, 1, 2, NoLimit},
       since \in {{}} \cup {{o} : o \in 0..RedisMaxOffset + 1} :
        LET l == pubs.list
            asked == IF since = {} THEN (IF reverse THEN Reverse(l) ELSE l)
                     ELSE IF reverse THEN Before(l, Min(since))
                     ELSE Since(l, Min(since))
        IN  ~(reverse /\ since = {0}) =>
            RedisPubs([since |-> since, limit |-> limit, reverse |-> reverse,
                       sameEpoch |-> sameEpoch]) = FirstN(asked, limit)

\* A read returns what the filter asks for (memstream, historyStream, historyList).
ReadsAreExact == MemReadIsExact /\ RedisReadIsExact
=============================================================================
