SPECIFICATION Spec
CONSTANTS
  MaxSystems = 2
  Ids = {e1, e2}
  Values = {v1}
  None = None
  SmallSort = 2
  Written <- MCWritten
  MaxCommands = 3
INVARIANTS TypeOK ReservedHasInit StagesSeeCommands
PROPERTIES EntitiesFirst BatchAsIssued CommandsKept
SYMMETRY Symmetry
