SPECIFICATION FairSpec
CONSTANTS
  Key = {k1}
  NShards = 1
  ShardOf <- LastShard
  Cap = 1
  Client = {c1, c2}
  Refresher = {r1}
  Sec = 1
  LazyTtl = 3
  LazyReplyTtl = 1
  Timeout = 1
  RefreshTimeout = 2
  Answers <- MCAnswers
  Horizon = 7
  MaxFlushes = 0
PROPERTIES RefreshEnds QueriesEnd
