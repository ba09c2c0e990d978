SPECIFICATION Spec
CONSTANTS
  None = None
  disk = disk
  oss = oss
  b1 = b1
  b2 = b2
  f1 = f1
  f2 = f2
  t1 = t1
  w1 = w1
  w2 = w2
  Local = disk
  Remotes <- MCRemotes
  Buckets <- MCBuckets
  Files <- MCFiles
  Tickets <- MCTickets
  Saves <- MCSaves
  Workers <- MCWorkers
  TicketTTL = 0
  MaxTime = 2
SYMMETRY MCSymmetry
INVARIANTS
  OneFilePerTicket
  OfferedFileHasObject
  ObjectsAccountedFor
PROPERTIES
  OneDefaultKept
  SecretErasedOnlyByStaleSave
