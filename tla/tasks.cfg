SPECIFICATION MCSpec
CONSTANTS
  N = 3 MAX_DROPPED = 2 Events = {a, b} Zero = Zero
  Tasks = {i1, t1, t2} Init1 = i1 Mortal = {t1, t2} Readers = {i1, t1, t2} QUEUE_SIZE = 1 UP = FALSE
  i1 = i1 t1 = t1 t2 = t2 t3 = t3 f1 = f1 f2 = f2 g1 = g1 g2 = g2 root = root n1 = n1 Handler = Handler None = None
SYMMETRY Sym
INVARIANTS NoLostNotice  LeaseExact
PROPERTIES TreeKept InboxSpec DescriptorsExact FaultsInTurn
CHECK_DEADLOCK FALSE
