SPECIFICATION Spec
CONSTANTS
  Installers = {i1, i2}
  Statements = 2
  Chunks = 2
  Cards = {c1}
  Batch = 1
  MaxStops = 1
INVARIANTS
  SystemKeySurvives
  ForeignKeyRestored
  IndexedWhole
  LockMeansInstalled
  ShownTokenWorks
PROPERTY
  InstallCompletes
