SPECIFICATION Spec
CONSTANTS
  Cases = 2
  Sources <- MCSources
  Worlds <- MCWorlds
  Leftovers <- MCLeftovers
  MinDrivers = 2
INVARIANTS
  ReadyMeansChecked
  PrintedIsTrue
  AcceptedIsTrue
CHECK_DEADLOCK FALSE
