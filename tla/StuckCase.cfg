SPECIFICATION FairSpec
CONSTANTS
  Cases = {c1}
  Triages <- RefundTriages
  BillingReports <- OneBillingReport
  RiskReports <- OneRiskReport
  MaxFaults = 1
  MaxRedeliveries = 0
PROPERTY NoCaseStaysOpen
CHECK_DEADLOCK FALSE
