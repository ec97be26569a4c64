\* Two clients of one key with a stale window and direct writes of one more, room for
\* one: every mix of leaders, followers, background refreshes, removals, evictions and
\* cancelled tasks; everyone is answered.
CONSTANTS
  swrKey = swrKey
  plainKey = plainKey
  Caller = {c1, c2}
  Fetch = {f1, f2}
  FetchKey = {swrKey}
  DirectKey = {d1}
  StaleTtl <- MCStaleTtl
  CacheStaleTtl = 60
  MaxCacheSize = 1
  EvictBatch = 1
  MaxVersion = 1
  MaxDisconnects = 2
  NoEntry = NoEntry
  NoKey = NoKey
  NoFetch = NoFetch
  Background = Background
SPECIFICATION FairSpec
INVARIANTS Bounded SingleFlight InflightLive FallbackCurrent CancelledOnlyIfCut
PROPERTIES RequestsEnd NeverRegresses ImplementsReads
