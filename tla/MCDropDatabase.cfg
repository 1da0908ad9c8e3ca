CONSTANTS
  d1 = d1
  d2 = d2
  c1 = c1
  c2 = c2
  c3 = c3
  Callers <- MCCallers
  Colls <- MCColls
  Unreplicated <- MCUnreplicated
  MaxOpTime = 5
  MaxAttempts = 3
  MaxWCE = 1
  MaxStepDowns = 1
SPECIFICATION Spec
INVARIANT TypeOK
INVARIANT NoStuckDropPending
PROPERTY NoLiveCollectionAtDbDrop
\* The server goes idle once the clients have stopped calling dropDatabase
\* and no collection drop is left to replicate or reap.
CHECK_DEADLOCK FALSE
