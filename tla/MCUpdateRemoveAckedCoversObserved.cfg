CONSTANTS
  t1 = t1
  t2 = t2
  Threads <- MCThreads
  MaxWCE = 1
  MaxStepDowns = 1
SPECIFICATION Spec
PROPERTY AckedCoversObserved
CHECK_DEADLOCK FALSE
