----------------------- MODULE MCClusterDropDatabase -----------------------
(***************************************************************************)
(* Three shards, s1 the primary; collection n1 has chunks on s1 and s2,   *)
(* n2 on s3 alone, so a shard other than the primary holds the database  *)
(* only through each collection.  Three attempts let a client retry twice *)
(* after failures at any step.                                            *)
(***************************************************************************)
EXTENDS ClusterDropDatabase

CONSTANTS s1, s2, s3, n1, n2

MCShards == {s1, s2, s3}
MCNss == {n1, n2}
MCChunkShards == [n \in MCNss |-> IF n = n1 THEN {s1, s2} ELSE {s3}]
=============================================================================
