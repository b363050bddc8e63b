CONSTANTS
  a = a
  b = b
  c = c
  d = d
  Tag = {a, b, c, d}
  Configs <- MCConfigs
  MaxDepth = 3
SPECIFICATION Spec
INVARIANTS RequestDepthBounded MemoRanksCalls
PROPERTY ImplementsChainCheck
CHECK_DEADLOCK FALSE
