\* Two pods and every kind of trouble, but a backend that can say if a VM is there.
SPECIFICATION Spec
CONSTANTS
  p1 = p1  p2 = p2
  None = None
  Pods = {p1, p2}
  Disks = {"shared"}
  DiskOf <- SharedDisk
  MaxWork = 1
  MaxWindow = 2
  Trouble = {"crash", "abandon", "step", "vanish", "unreachable", "lookup"}
SYMMETRY Interchangeable
VIEW WithoutHistory
INVARIANTS TypeOK BilledOnce NoOrphanVM
PROPERTY ReviveRestores
CHECK_DEADLOCK FALSE
