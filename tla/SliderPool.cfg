SPECIFICATION Spec
CONSTANTS
  Commands = {w1, w2}
  Challenges = {c1}
  Images = {i1, i2}
  PoolSize = 1
  Rotation = 2
  RefreshLead = 1
  Retention = 0
  MaxTime = 1
SYMMETRY MCSymmetry
INVARIANTS
  UnreadableHasCause
PROPERTY
  PrewarmRepairs
