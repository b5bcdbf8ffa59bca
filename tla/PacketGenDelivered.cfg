CONSTANTS
  Procs = {"gen", "dec"}
  CommandLines <- MisspeltLine
  Meaning <- MCMeaning
  Interfaces <- MCInterfaces
  Stacks <- MCStacks
  SocketCapacity = 2
  MaxRounds = 3
  MaxNoise = 0
SPECIFICATION Spec
INVARIANT Delivered
CHECK_DEADLOCK FALSE
