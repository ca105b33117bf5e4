SPECIFICATION Spec
CONSTANTS
  Workers = {w1}
  Main = main
  NoChild = NoChild
  MaxFails = 2
  Handles = {"h"}
  Jobs <- MapJobs
  Inline <- MapJobs
  Edges = {}
  Program <- MapProgram
INVARIANTS InlineOutlives
