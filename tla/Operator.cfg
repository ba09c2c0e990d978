SPECIFICATION Spec
CONSTANTS
  None = None
  n1 = n1
  n2 = n2
  p1 = p1
  p2 = p2
  t1 = t1
  t2 = t2
  s1 = s1
  s2 = s2
  w1 = w1
  w2 = w2
  b1 = b1
  x1 = x1
  Names <- MCNames
  Passes <- MCPasses
  Tokens <- MCTokens
  SessionIds <- MCSessionIds
  Workers <- MCWorkers
  Browsers <- MCBrowsers
  Requests <- MCRequests
  Ops <- MCOps
  SessionTTL = 0
  RememberTTL = 1
  ProofTTL = 0
  Window = 0
  MaxTime = 2
SYMMETRY MCSymmetry
INVARIANTS
  LiveSessionIsCurrent
  RememberedIsCurrent
PROPERTIES
  OnceSpec
