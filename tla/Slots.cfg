\* Two pods, one slot more than one and one sandbox more than slots.
SPECIFICATION Spec
CONSTANTS
  p1 = p1  p2 = p2
  s1 = s1  s2 = s2  s3 = s3
  None = None
  Sandboxes = {s1, s2, s3}
  Pods = {p1, p2}
  Limit = 2
SYMMETRY Interchangeable
INVARIANTS TypeOK WithinLimit ReviveAssured
CHECK_DEADLOCK FALSE
