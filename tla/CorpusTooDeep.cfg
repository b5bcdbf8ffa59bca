CONSTANTS
  Trees <- MCDeepTrees
  Nodes <- MCNodes
  Base = "base"
  StackFiles <- MCStackFiles
  Registry <- MCRegistry
  MAX_CURRENT_DEPTH_PATH = 2
  SizeModulus = 8
  MaxSize = 6
  MaxLong = 15
  MaxParses = 1
SPECIFICATION CorpusSpec
INVARIANT LoadedIsSuccess
CHECK_DEADLOCK FALSE
