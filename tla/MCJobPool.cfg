SPECIFICATION FairSpec
CONSTANTS
  Workers = {w1, w2}
  Main = main
  NoChild = NoChild
  MaxFails = 2
  Handles = {"h"}
  Jobs <- PoolJobs
  Inline <- PoolInline
  Edges <- PoolEdges
  Program <- PoolProgram
INVARIANTS TypeOK OnePlace CountersExact WaitsCovered InlineOutlives
PROPERTIES GraphSpec EveryJobFinishes MainReturns
