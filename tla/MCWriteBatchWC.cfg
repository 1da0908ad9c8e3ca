CONSTANTS
  MaxItems = 4
  MaxWriteBatchSize = 3
  MaxVersion = 3
  MaxStepDowns = 1
SPECIFICATION Spec
INVARIANT UnorderedSuccessAwaitsWC
\* A batch ends once it is answered.
CHECK_DEADLOCK FALSE
