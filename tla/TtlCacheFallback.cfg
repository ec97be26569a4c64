\* A background refresh fails for waiters that have an expired entry.
CONSTANTS
  swrKey = swrKey
  plainKey = plainKey
  Caller = {c1, c2}
  Fetch = {f1, f2}
  FetchKey = {swrKey}
  DirectKey = {}
  StaleTtl <- MCStaleTtl
  CacheStaleTtl = 60
  MaxCacheSize = 3
  EvictBatch = 1
  MaxVersion = 0
  MaxDisconnects = 0
  NoEntry = NoEntry
  NoKey = NoKey
  NoFetch = NoFetch
  Background = Background
SPECIFICATION Spec
PROPERTIES FailureFallsBack
