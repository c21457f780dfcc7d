SPECIFICATION Safety
CONSTANTS
  p1 = p1
  p2 = p2
  p3 = p3
  Procs = {p1, p2, p3}
  Mortal = {p1, p2}
  Signalled = {p2, p3}
  MaxOwed = 2
INVARIANT MutualExclusion
