SPECIFICATION Spec
CONSTANTS
  None = None
  app1 = app1
  v1 = v1
  v2 = v2
  theme = theme
  console = console
  caller = caller
  t1 = t1
  n1 = n1
  Apps <- MCApps
  VariableIds <- MCVariableIds
  VariableNames <- MCVariableNames
  Actors <- MCActors
  Requests <- MCRequests
  Tokens <- MCTokens
  Signed <- MCSigned
  Untils = {2}
  Window = 0
  MaxTime = 2
SYMMETRY MCSymmetry
INVARIANTS
  TypeOK
  LogNeverOverstates
PROPERTIES
  OnceSpec
  ReadableByRequest
