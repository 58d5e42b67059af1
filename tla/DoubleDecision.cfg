SPECIFICATION Spec
CONSTANTS
  Cases = {c1}
  Triages <- RefundTriages
  BillingReports <- OneBillingReport
  RiskReports <- OneRiskReport
  MaxFaults = 1
  MaxRedeliveries = 0
INVARIANT DecideOnce
CHECK_DEADLOCK FALSE
