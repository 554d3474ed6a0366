SPECIFICATION Spec
CONSTANTS
  CPUs = {c1, c2}
  Tasks = {t1, t2}
  Waiters = {t1}
  Resetters = {}
  Idle = Idle
  None = None
INVARIANT EnqueueUnlinked
