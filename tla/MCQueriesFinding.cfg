SPECIFICATION Spec
CONSTANTS
  Entities = {e1, e2, e3}
  Components = {A, B}
  Values = {v1, v2}
  Systems <- TwiceSystems
  Parallelism = {1}
  Avoid = {"same_archetype", "duplicate_archetype", "failed_batch"}
INVARIANTS BorrowedOnce
SYMMETRY Symmetry
