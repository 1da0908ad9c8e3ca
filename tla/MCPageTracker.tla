---------------------------- MODULE MCPageTracker ----------------------------
EXTENDS PageTracker, TLC

CONSTANTS t1

MCThreads == {t1}
\* Region 1 hashes to bucket 0; regions 2 and 3 collide on bucket 1, so
\* region 3 probes on to bucket 0 and a slice holding all three is full.
\* The page of region 3, whose chain wraps round the slice.
MCWatched == <<3, 0>>

MCRegionHash == (1 :> 0) @@ (2 :> 1) @@ (3 :> 1)
=============================================================================
