SPECIFICATION Spec
CONSTANTS
  Key = {k1}
  NShards = 1
  ShardOf <- LastShard
  Cap = 1
  Client = {c1}
  Refresher = {r1}
  Sec = 1
  LazyTtl = 3
  LazyReplyTtl = 1
  Timeout = 1
  RefreshTimeout = 1
  Answers <- LongExtra
  Horizon = 6
  MaxFlushes = 0
INVARIANT LazyReplyIsShort
