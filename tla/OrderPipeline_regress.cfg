SPECIFICATION PipelineSpec
CONSTANTS
  Orders = {o1}
  Chains = {c1}
  Operators = {"ship"}
  Faults = {}
  MaxRetries = 1
  MaxPapers = 1
  MaxPurchases = 1
PROPERTY StagesAdvance
CHECK_DEADLOCK FALSE
