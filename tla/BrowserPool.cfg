\* Two sessions of a tenant that may have one browser; two callers, one restart.
SPECIFICATION Spec
CONSTANTS
  s1 = s1  s2 = s2
  c1 = c1  c2 = c2
  n1 = n1  n2 = n2  n3 = n3
  Sessions = {s1, s2}
  TenantOf <- OneTenant
  Calls = {c1, c2}
  Reaper = Reaper
  Names = {n1, n2, n3}
  MaxPods = 2
  MaxIdle = 1
  Limit = 1
  None = None
  MaxRestarts = 1
SYMMETRY Interchangeable
INVARIANTS TypeOK LeasesAreBound CleanHandover CapacityKept LimitKept LeasedIsMetered NothingLeaks WaitsAreForWork
CHECK_DEADLOCK FALSE
