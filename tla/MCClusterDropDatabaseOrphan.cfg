CONSTANTS
  s1 = s1
  s2 = s2
  s3 = s3
  n1 = n1
  n2 = n2
  Shards <- MCShards
  Primary = s1
  Nss <- MCNss
  ChunkShards <- MCChunkShards
  MaxAttempts = 3
SPECIFICATION Spec


\* The client stops once it has used its attempts.
INVARIANT NoOrphanedShardDb
CHECK_DEADLOCK FALSE
