\* Page 1 is stack, 2 its guard page and 3 free for mmap.
SPECIFICATION MCSpec
CONSTANTS
  t1 = t1 t2 = t2 s1 = s1 s2 = s2 s3 = s3 p1 = p1 p2 = p2 p3 = p3 None = None
  Tasks = {t1, t2} Spaces = {s1, s2, s3} VPages = {1, 2, 3} Phys = {p1, p2, p3}
  Image = {} Stack = {1} Guard = {2} Values = {0, 1} Zero = 0
  CloneModes = {"cow"} MAX_REF = 4 PKU = FALSE UP = FALSE
SYMMETRY Sym
INVARIANTS FramesExact ThreadsKept
PROPERTY PrivateSpec
CHECK_DEADLOCK FALSE
