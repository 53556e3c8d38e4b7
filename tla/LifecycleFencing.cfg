\* Two pods, one worker each; steps may outlive their lease, sessions may be
\* destroyed directly.
SPECIFICATION Spec
CONSTANTS
  p1 = p1  p2 = p2
  None = None
  Sandboxes = {s1}
  Pods = {p1, p2}
  Slots = {1}
  Checkers = {"idle", "health"}
  MaxAttempts = 2
  MaxRecovery = 1
  StepsOutliveLease = TRUE
  DirectDestroyAllowed = TRUE
SYMMETRY Interchangeable
INVARIANTS TypeOK IntentHonoured RetryBudget
PROPERTIES StaleResultDiscarded KeepsPromise
CHECK_DEADLOCK FALSE
