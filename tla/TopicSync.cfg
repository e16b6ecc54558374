SPECIFICATION SyncSpec
CONSTANTS
  k1 = k1
  k2 = k2
  small = small
  large = large
  NULL_VALUE = NULL_VALUE
  Keys <- MCKeys
  Values <- MCValues
  KeySize <- MCKeySize
  ValueSize <- MCValueSize
  MaxUpdates = 5
INVARIANTS
  LogIndexesEntries
  ProcessedMeansKnown
