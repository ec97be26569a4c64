\* Every task of lifespan, from startup through shutdown, without route fetches.
CONSTANTS
  Task = {t1, t2}
  Reader = {}
  MaxAge = 1
  FleetCacheMaxAge = 1
  MaxPeriodic = 4
  Cooldown = 1
  MaxMoves = 1
  Empty = Empty
  NoTask = NoTask
SPECIFICATION LifeSpec
INVARIANTS QuietWhenClosed
PROPERTIES SnapshotsInOrder ShutdownEnds PollersGoOn
