SPECIFICATION FairSpec
CONSTANTS
  Cases = {c1}
  Triages <- AllTriages
  BillingReports <- ManyBillingReports
  RiskReports <- ManyRiskReports
  MaxFaults = 0
  MaxRedeliveries = 1
INVARIANT ApprovalIsBacked
PROPERTY PromiseKept
CHECK_DEADLOCK FALSE
