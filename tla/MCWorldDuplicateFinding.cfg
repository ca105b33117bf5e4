SPECIFICATION Spec
CONSTANTS
  Entities = {e1, e2, e3}
  Components = {A, B}
  Values = {v1, v2}
  Systems <- MCSystems
  Parallelism = {1}
  Avoid = {"same_archetype", "failed_batch"}
PROPERTIES NeverReplaced
SYMMETRY Symmetry
