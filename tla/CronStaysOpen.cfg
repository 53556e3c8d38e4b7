SPECIFICATION FairSpec
CONSTANTS
  a1 = a1
  a2 = a2
  Activations <- Pair
  Type = "cron"
  Workflow = FALSE
  MaxRetries = 0
  MaxConcurrent = 1
  Trouble = {}
  MaxLost = 0
PROPERTIES OpenEnds
