CONSTANTS
  WordBits = 4
  Refs <- MCRefs
  Names <- MCNames
  ShortName <- MCShortName
  VarDb <- MCVarDb
  Programs <- MCPrograms
  Cuts <- MCCuts
  Interfaces <- MCInterfaces
  ServiceLogic <- MCServiceLogic
  Registry <- MCRegistry
  Family <- MCFamily
  kSubtypeAecp <- MCSubtypeAecp
  kSubtypeAdp <- MCSubtypeAdp
  kEthertype1722 <- MCEthertype
  StackFiles <- MCStackFiles
  ForeignFrames <- MCForeignFrames
  FrameCuts <- MCFrameCuts
  MaxCalls = 2
SPECIFICATION SessionSpec
INVARIANT DecodeValidatesSelectors
CHECK_DEADLOCK FALSE
