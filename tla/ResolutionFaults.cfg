SPECIFICATION FairSpec
CONSTANTS
  Cases = {c1}
  Triages <- TwoTriages
  BillingReports <- FaultyBillingReports
  RiskReports <- FaultyRiskReports
  MaxFaults = 2
  MaxRedeliveries = 1
INVARIANT TypeOK
INVARIANT ClaimIsExclusive
INVARIANT EscalationReasonHolds
INVARIANT ReadyCaseHasDecider
INVARIANT ClaimInvariant
PROPERTY SettledStaysSettled
PROPERTY OpinionsFrozenOnceSettled
PROPERTY WaitingCaseSettles
CHECK_DEADLOCK FALSE
