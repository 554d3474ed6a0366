SPECIFICATION LiveSpec
CONSTANTS
  c1 = c1 c2 = c2 t1 = t1 t2 = t2 t3 = t3 i1 = i1
  k1 = k1 k2 = k2 r1 = r1 r2 = r2 r3 = r3 w1 = w1 w3 = w3
  CPUs = {c1, c2} Tasks = {t1, t2} Waiters = {t1} Resetters = {}
  Works = {w1, w2, w3} Immediate = {w1, w2} Delayed = {w3}
  Threads = {p1, p2} MaxDelay = 2
  Idle = Idle None = None NoWork = NoWork
PROPERTIES NoStarvation WorkEnds OrphansReaped
CHECK_DEADLOCK FALSE
