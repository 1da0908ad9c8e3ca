CONSTANTS
  t1 = t1
  t2 = t2
  Threads <- MCThreads
  Docs = 2
  MaxWCE = 1
  MaxStepDowns = 1
SPECIFICATION FairSpec
INVARIANT TypeOK
INVARIANT CollectionPointerValid
PROPERTY AllBatchesFinish
\* Both batches end; after them only drops (while the database exists) and
\* the one stepdown and stepup can run, and the node may stop.
CHECK_DEADLOCK FALSE
