SPECIFICATION Spec
CONSTANTS
  Threads = {w1, w2}
  Bindings <- MCBindings
  NoBinding = NoBinding
  Projects = {p1}
  Environments <- MCEnvironments
  Deletions <- MCDeletions
  MaxOrchestrators = 3
SYMMETRY MCSymmetry
INVARIANTS
  LifeTypeOK
  BindingHolds
  StrictKeepsEverything
  StoredIsFound
