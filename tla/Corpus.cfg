CONSTANTS
  Trees <- MCTrees
  Nodes <- MCNodes
  Base = "base"
  StackFiles <- MCStackFiles
  Registry <- MCRegistry
  MAX_CURRENT_DEPTH_PATH = 2
  SizeModulus = 8
  MaxSize = 6
  MaxLong = 15
  MaxParses = 2
SPECIFICATION CorpusFairSpec
INVARIANTS CorpusTypeOK OutcomeByTree EverythingLoaded
  GateIsComplete CleanIsUsable CleanIsReadExactly
PROPERTIES FirstWins ProgramsReturn
CHECK_DEADLOCK FALSE
