SPECIFICATION FairSpec
CONSTANTS
  Workers = {w1}
  Main = main
  NoChild = NoChild
  MaxFails = 2
  Handles = {}
  Jobs <- BlockOnJobs
  Inline = {}
  Edges = {}
  Program <- BlockOnProgram
PROPERTIES EveryJobFinishes
