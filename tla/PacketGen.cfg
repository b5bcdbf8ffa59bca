CONSTANTS
  Procs = {"gen", "dec"}
  CommandLines <- MCCommandLines
  Meaning <- MCMeaning
  Interfaces <- MCInterfaces
  Stacks <- MCStacks
  SocketCapacity = 2
  MaxRounds = 3
  MaxNoise = 1
SPECIFICATION FairSpec
INVARIANTS TypeOK SuccessMeansDone PrintedBeforeSent DecodesInOrder
PROPERTIES DecodesAll ProcessesEnd
CHECK_DEADLOCK FALSE
