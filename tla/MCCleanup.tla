------------------------------ MODULE MCCleanup ------------------------------
(* Two caches on a disk each, of ten units; two artifacts on the first, one   *)
(* on the second.  The least recently used one cannot be deleted.             *)
EXTENDS Cleanup, TLC

CONSTANTS t1, t2, d1, d2, i1, i2, i3

OwnDisks == t1 :> d1 @@ t2 :> d2
Totals == d1 :> 10 @@ d2 :> 10
Others == d1 :> 4 @@ d2 :> 7

\* The deployment of docker-compose.yml: the volumes share a disk of twenty.
OneDisk == t1 :> d1 @@ t2 :> d1
SharedTotals == d1 :> 20 @@ d2 :> 1
SharedOthers == d1 :> 11 @@ d2 :> 0

CacheOf == i1 :> t1 @@ i2 :> t1 @@ i3 :> t2
Sizes == i1 :> 2 @@ i2 :> 3 @@ i3 :> 2
Ranks == i1 :> 1 @@ i2 :> 2 @@ i3 :> 3
=============================================================================
