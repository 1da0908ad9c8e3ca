CONSTANTS
  Recs = {1, 2, 3}
  RecSize <- MCRecSize
  Limits = {0, 2}
  Budgets = {2, 4}
  MaxAdds = 5

SPECIFICATION Spec

INVARIANT TypeOK
INVARIANT OutputComplete
INVARIANT NoReadOfDeletedRun
INVARIANT NoLeakedFile
PROPERTY SortRefinement

\* The sort's life ends once the caller has destroyed the sorter and the
\* iterator: no operation is left then.
CHECK_DEADLOCK FALSE
