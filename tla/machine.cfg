SPECIFICATION Spec
CONSTANTS
  c1 = c1 c2 = c2 p1 = p1 p2 = p2 p3 = p3 p4 = p4 NoValue = NoValue
INVARIANTS  WindowsExact  AreasExact UsbTreeExact  UsbDiskExact PartitionsSound
PROPERTY ModulesExact
CHECK_DEADLOCK FALSE
