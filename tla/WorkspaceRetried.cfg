\* One pod whose steps are abandoned, whose guests may not answer and whose reads may fail.
SPECIFICATION Spec
CONSTANTS
  p1 = p1  p2 = p2
  None = None
  Pods = {p1}
  Disks = {"shared"}
  DiskOf <- SharedDisk
  MaxWork = 2
  MaxWindow = 4
  Trouble = {"abandon", "unreachable", "lookup"}
INVARIANTS WorkKeptThroughReruns
PROPERTY WindowsAreBilled
CHECK_DEADLOCK FALSE
