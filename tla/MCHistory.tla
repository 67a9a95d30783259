----------------------------- MODULE MCHistory ------------------------------
EXTENDS HistoryReads

\* Both channels have the same pubLock.
OneLock(ch) == 0

\* Nothing tells channels, or publishers, apart.
Symmetry == Permutations(Channels) \cup Permutations(Publishers)
=============================================================================
