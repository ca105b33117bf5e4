SPECIFICATION Spec
CONSTANTS
  Entities = {e1, e2, e3}
  Components = {A, B}
  Values = {v1, v2}
  Systems <- MCSystems
  Parallelism = {3}
  Avoid = {"same_archetype", "duplicate_archetype", "vacuum_in_use"}
INVARIANTS TypeOK IndexAgrees QueriesAgree ParallelOnce WritesUnseen
PROPERTIES StoreSpec StaysVisible MergeMovesOthers
SYMMETRY Symmetry
