\* Two pods of two workers whose steps end before their lease does; no symmetry,
\* since liveness is checked.
SPECIFICATION FairSpec
CONSTANTS
  p1 = p1  p2 = p2
  None = None
  Sandboxes = {s1}
  Pods = {p1, p2}
  Slots = {1, 2}
  Checkers = {"archive", "delete", "special"}
  MaxAttempts = 2
  MaxRecovery = 1
  StepsOutliveLease = FALSE
  DirectDestroyAllowed = FALSE
INVARIANT OneStepperPerRow
PROPERTIES SteppedAlone ConvergenceEnds RetriesEnd
CHECK_DEADLOCK FALSE
