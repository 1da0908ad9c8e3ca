CONSTANTS
  MaxItems = 4
  MaxWriteBatchSize = 3
  MaxVersion = 3
  MaxStepDowns = 1
SPECIFICATION Spec
INVARIANT TypeOK
INVARIANT NoAppliedItemReportedFailed
INVARIANT InsertWithinNormalized
\* A batch ends once it is answered.
CHECK_DEADLOCK FALSE
