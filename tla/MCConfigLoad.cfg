CONSTANTS
  File <- MCFile
  Main = "m"
  Name <- MCName
  Canon <- MCCanon
  Trees <- MCTrees
  MaxIncludeDepth = 3
SPECIFICATION LoadSpec
INVARIANT MergedInOrder
PROPERTY LoadImplementsChainCheck
CHECK_DEADLOCK FALSE
