------------------------- MODULE ClusterDropDatabase -------------------------
(***************************************************************************)
(* The mongos dropDatabase command (s/commands/cluster_drop_database_cmd):*)
(* under the database's distributed lock, drop every sharded collection   *)
(* of the database from the config metadata (collecting the shards that   *)
(* held its chunks), send dropDatabase to the primary shard, then to each *)
(* collected shard, and finally remove the database's config entry.       *)
(* Every remote step may fail and throw, ending the command with an error *)
(* and releasing the lock; a remote dropDatabase may fail after the shard *)
(* has dropped (its write concern fails).  The client retries an error,   *)
(* one attempt at a time (the distributed lock serialises drops).         *)
(*                                                                         *)
(* Shard state is the set of shards on which the database exists and, per *)
(* sharded collection, the shards holding its data.  The config server's  *)
(* dropCollection (not in the repository) removes the collection's        *)
(* metadata and drops it on its shards, or fails having done neither.     *)
(***************************************************************************)
EXTENDS Naturals, FiniteSets

CONSTANTS
  Shards,       \* shard ids
  Primary,      \* the database's primary shard
  Nss,          \* the database's sharded collections
  ChunkShards,  \* ChunkShards[n]: shards owning chunks of collection n
  MaxAttempts   \* bound on the client's attempts

ASSUME Primary \in Shards /\ ChunkShards \in [Nss -> SUBSET Shards]

VARIABLES
  configDb,     \* config.databases holds the database
  configColls,  \* sharded collections of the database in config metadata
  dbOn,         \* shards on which the database exists
  collOn,       \* collOn[n]: shards holding data of collection n
  pc,           \* "idle", "colls" (config loop, then primary) or "shards"
  attempts,     \* commands sent so far
  namespaces,   \* sharded collections the attempt has still to drop
  allShardIds,  \* shards collected from the dropped collections
  pending,      \* collected shards not yet sent dropDatabase
  result        \* the last attempt's reply: "none", "ok" or "error"

vars == <<configDb, configColls, dbOn, collOn, pc, attempts, namespaces,
          allShardIds, pending, result>>

clusterVars == <<configDb, configColls, dbOn, collOn>>

Init ==
  /\ configDb = TRUE
  /\ configColls = Nss
  /\ collOn = ChunkShards
  /\ dbOn = {Primary} \cup UNION {ChunkShards[n] : n \in Nss}
  /\ pc = "idle"
  /\ attempts = 0
  /\ namespaces = {}
  /\ allShardIds = {}
  /\ pending = {}
  /\ result = "none"

\* A remote step threw: the command returns the error to the client.
Fail ==
  /\ pc' = "idle"
  /\ result' = "error"
  /\ UNCHANGED <<namespaces, allShardIds, pending>>

\* The catalog cache is not invalidated first: the attempt works from a
\* stale list of sharded collections.
StartStale ==
  /\ pc = "idle" /\ attempts < MaxAttempts
  /\ attempts' = attempts + 1
  /\ \/ /\ Fail
     \/ /\ ~configDb
        /\ pc' = "idle" /\ result' = "ok"
        /\ UNCHANGED <<namespaces, allShardIds, pending>>
     \/ /\ configDb
        /\ pc' = "colls"
        /\ namespaces' \in SUBSET configColls
        /\ allShardIds' = {} /\ pending' = {}
        /\ UNCHANGED result
  /\ UNCHANGED clusterVars

\* The attempt starts from the shard list a failed attempt left behind.
StartKeepsPending ==
  /\ pc = "idle" /\ attempts < MaxAttempts
  /\ attempts' = attempts + 1
  /\ \/ /\ Fail
     \/ /\ ~configDb
        /\ pc' = "idle" /\ result' = "ok"
        /\ UNCHANGED <<namespaces, allShardIds, pending>>
     \/ /\ configDb
        /\ pc' = "colls"
        /\ namespaces' = configColls
        /\ allShardIds' = {}
        /\ UNCHANGED <<pending, result>>
  /\ UNCHANGED clusterVars

\* run() up to the loop: take the distributed lock (which may time out),
\* invalidate the cached database, and return "database does not exist"
\* when config has no entry for it; else read its sharded collections.
Start ==
  /\ pc = "idle" /\ attempts < MaxAttempts
  /\ attempts' = attempts + 1
  /\ \/ /\ Fail                               \* lock not acquired
     \/ /\ ~configDb                          \* NamespaceNotFound: ok
        /\ pc' = "idle" /\ result' = "ok"
        /\ UNCHANGED <<namespaces, allShardIds, pending>>
     \/ /\ configDb
        /\ pc' = "colls"
        /\ namespaces' = configColls
        /\ allShardIds' = {} /\ pending' = {}
        /\ UNCHANGED result
  /\ UNCHANGED clusterVars

\* One turn of the loop: _dropShardedCollectionFromConfig(n) skips a
\* collection config no longer has, throws if the refresh or the config
\* dropCollection fails, else returns the shards that held its chunks.
DropShardedCollectionFromConfig(n) ==
  /\ pc = "colls" /\ n \in namespaces
  /\ \/ /\ n \notin configColls
        /\ namespaces' = namespaces \ {n}
        /\ UNCHANGED <<configColls, collOn, pc, allShardIds, pending, result>>
     \/ /\ n \in configColls
        /\ configColls' = configColls \ {n}
        /\ collOn' = [collOn EXCEPT ![n] = {}]
        /\ namespaces' = namespaces \ {n}
        /\ allShardIds' = allShardIds \cup ChunkShards[n]
        /\ UNCHANGED <<pc, pending, result>>
     \/ /\ Fail
        /\ UNCHANGED <<configColls, collOn>>
  /\ UNCHANGED <<configDb, dbOn, attempts>>

\* _dropDatabaseFromShard(s): the shard drops the database (idempotent),
\* and the command or its write concern may still report a failure.
ShardDrops(s) ==
  /\ dbOn' = dbOn \ {s}
  /\ collOn' = [n \in Nss |-> collOn[n] \ {s}]

\* Drop the database from the primary shard first.
DropFromPrimary ==
  /\ pc = "colls" /\ namespaces = {}
  /\ \/ /\ ShardDrops(Primary)
        /\ pc' = "shards"
        /\ pending' = allShardIds
        /\ UNCHANGED <<namespaces, allShardIds, result>>
     \/ /\ ShardDrops(Primary) \/ UNCHANGED <<dbOn, collOn>>
        /\ Fail
  /\ UNCHANGED <<configDb, configColls, attempts>>

\* Then from each of the shards collected from the collections.
DropFromShard(s) ==
  /\ pc = "shards" /\ s \in pending
  /\ \/ /\ ShardDrops(s)
        /\ pending' = pending \ {s}
        /\ UNCHANGED <<pc, namespaces, allShardIds, result>>
     \/ /\ ShardDrops(s) \/ UNCHANGED <<dbOn, collOn>>
        /\ Fail
  /\ UNCHANGED <<configDb, configColls, attempts>>

\* Remove the database entry from config.databases; on success invalidate
\* the cache, log the change and reply "dropped".
RemoveConfigDocuments ==
  /\ pc = "shards" /\ pending = {}
  /\ \/ /\ configDb' = FALSE
        /\ pc' = "idle" /\ result' = "ok"
        /\ UNCHANGED <<namespaces, allShardIds, pending>>
     \/ /\ Fail
        /\ UNCHANGED configDb
  /\ UNCHANGED <<configColls, dbOn, collOn, attempts>>

Next ==
  \/ Start
  \/ \E n \in Nss : DropShardedCollectionFromConfig(n)
  \/ DropFromPrimary
  \/ \E s \in Shards : DropFromShard(s)
  \/ RemoveConfigDocuments

Spec == Init /\ [][Next]_vars

-----------------------------------------------------------------------------
(* Properties                                                              *)

TypeOK ==
  /\ configDb \in BOOLEAN /\ configColls \subseteq Nss
  /\ dbOn \subseteq Shards /\ collOn \in [Nss -> SUBSET Shards]
  /\ pc \in {"idle", "colls", "shards"} /\ attempts \in 0..MaxAttempts
  /\ namespaces \subseteq Nss
  /\ allShardIds \subseteq Shards /\ pending \subseteq allShardIds
  /\ result \in {"none", "ok", "error"}

\* The database's config entry goes last: once it is gone, config holds no
\* sharded collection of the database and no shard holds data of one,
\* however many attempts failed part way (metadata dropped before data).
NoShardedCollOutlivesDb ==
  ~configDb => configColls = {} /\ \A n \in Nss : collOn[n] = {}

\* What the command's comments promise: a database the command reports
\* dropped ("dropped", or "database does not exist" once its entry is
\* gone) exists on no shard, the primary or one that held its chunks.
NoOrphanedShardDb ==
  result = "ok" => dbOn = {}
=============================================================================
