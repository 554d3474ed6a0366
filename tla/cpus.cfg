SPECIFICATION Spec
CONSTANTS
  CPUs = {c1, c2}
  Spaces = {A, B}
  Initiators = {c1, c2}
  Panickers = {c1, c2}
  None = None
INVARIANTS ShootdownFree  
CHECK_DEADLOCK FALSE
