SPECIFICATION FairSpec
CONSTANTS
  CPUs = {c1}
  Tasks = {t1, t2}
  MaxWaiters = 1
  MaxSeq = 2
  Idle = Idle
  None = None
PROPERTY ChangeNoticed
