SPECIFICATION BuiltFairSpec
CONSTANTS
  N = 3
  Ids = {f, g, h}
  Components = {"C"}
  Resources = {"R"}
  CommandSentinel = "CommandSentinel"
  Access <- MCAccess
INVARIANTS BuiltOK Sorted CircularMeansCycle KeepsOrder NoRace SerialResult AfterRespected NeverLockedTwice
PROPERTIES StageEnds
CHECK_DEADLOCK FALSE
