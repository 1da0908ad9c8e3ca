CONSTANTS
  t1 = t1
  NoPage = NoPage
  Threads <- MCThreads
  Regions = {1, 2, 3}
  Offsets = {0, 1}
  RegionHash <- MCRegionHash
  NumSlices = 2
  SliceSize = 2
  MaxChain = 2
  CacheSize = 1
  Watched <- MCWatched
SPECIFICATION Spec
INVARIANT AccessedIsKnown
