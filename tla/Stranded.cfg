\* A request during creation leaves a running row no one claims.
SPECIFICATION FairSpec
CONSTANTS
  p1 = p1  p2 = p2
  None = None
  Sandboxes = {s1}
  Pods = {p1}
  Slots = {1}
  Checkers = {"health", "idle"}
  MaxAttempts = 2
  MaxRecovery = 1
  StepsOutliveLease = FALSE
  DirectDestroyAllowed = FALSE


PROPERTY NotStranded
CHECK_DEADLOCK FALSE
