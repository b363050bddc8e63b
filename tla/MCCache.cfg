SPECIFICATION Spec
CONSTANTS
  Key = {k1}
  NShards = 2
  ShardOf <- LastShard
  Cap = 1
  Client = {c1, c2}
  Refresher = {r1, r2}
  Sec = 2
  LazyTtl = 3
  LazyReplyTtl = 1
  Timeout = 1
  RefreshTimeout = 1
  Answers <- MCAnswers
  Horizon = 7
SYMMETRY Symmetric
INVARIANTS TypeOK InflightExact BoundedStaleness FlushBarrier
CONSTANT MaxFlushes = 1
