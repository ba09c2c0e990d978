SPECIFICATION Spec
CONSTANTS
  Operators = {o1, o2}
  Switchers = {o1}
  r1 = r1
  r2 = r2
  p1 = p1
  p2 = p2
  RustReleases = {r1, r2}
  PhpReleases = {p1, p2}
  PhpTargets = {p1}
  First <- MCFirst
  FirstCurrent = r1
  MaxTime = 5
  Keep = 1
  NoRelease = NoRelease
INVARIANTS
  TypeOK
  CurrentPresent
  SwitchedIsServed
PROPERTY
  PhpReleaseKept
