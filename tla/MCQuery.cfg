CONSTANTS
  t1 = t1
  NoPage = NoPage
  Threads <- MCThreads
  Regions = {1, 2, 3}
  Offsets = {0, 1}
  RegionHash <- MCRegionHash
  NumSlices = 2
  SliceSize = 2
  MaxChain = 2
  CacheSize = 1
  Watched <- MCWatched
  Levels <- MCLevels
  NoLevel = NoLevel
  InputDocs <- MCInputDocs
  LongBits = 12
  MaxDocs = 4
  CountArgs <- MCCountArgs
  FormatChars <- MCFormatChars
  MaxFormatLen = 5
  CellsOf <- MCCellsOf
  GeoHash <- MCGeoHash
  S2FieldSets <- MCS2FieldSets
  GeoElements <- MCGeoElements
  OtherSets <- MCOtherSets
  ElementHash <- MCElementHash
  KeyCalls <- MCKeyCalls
SPECIFICATION QuerySpec
INVARIANTS NoPrunedContentReturned StreamComplete
INVARIANTS CountMatchesReference SecondsAgreeWithDateParts WeekCountsSundays FormatValidIffTokens
INVARIANTS PageTypeOK KnownOnlyIfRecent
INVARIANTS S2KeysAreProduct TwoDFollowsGrammar HashedKeyPerDocument
\* The stream ends: getNext has returned none or the expression failed; a
\* count returns; 2d key generation returns or throws; a date or S2 call is a
\* single state.  (The page tracker always has a lookup to take.)
CHECK_DEADLOCK FALSE
