SPECIFICATION FairSpec
CONSTANTS
  a1 = a1
  a2 = a2
  Activations <- Pair
  Type = "webhook"
  Workflow = FALSE
  MaxRetries = 1
  MaxConcurrent = 2
  Trouble = {"record", "complete", "circuit"}
  MaxLost = 1
INVARIANTS TypeOK RunningRowsAreReal FailingOpens
PROPERTIES OpenEnds ActivationsEnd CircuitHeals
