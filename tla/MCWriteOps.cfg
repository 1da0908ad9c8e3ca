CONSTANTS
  i1 = i1
  u1 = u1
  InsertThreads <- MCInsertThreads
  ItemThreads <- MCItemThreads
  Docs = 2
  MaxWCE = 1
  MaxStepDowns = 1
SPECIFICATION FairSpec
INVARIANT TypeOK
INVARIANT DefeatOnlyAfterRace
PROPERTY AllBatchesFinish
PROPERTY AllItemsFinish
\* The threads end; afterwards only drops and stepdowns happen, and those
\* stop once the database is gone.
CHECK_DEADLOCK FALSE
