SPECIFICATION Spec
CONSTANTS
  Purchases <- AllPurchases
  SamplePurchases <- FewPurchases
  Customers <- AllCustomers
  SampleCustomers <- FewCustomers
  UsageUnits <- TriedUsage
  Amounts <- TriedAmounts
  UsualAmount = 29
INVARIANT ApprovalIsEarned
INVARIANT ChargebackIsNeverPaid
INVARIANT AutomaticMeansUnderstood
INVARIANT PeersSpeakPlainly
INVARIANT OrderOnlyMattersToDenials
PROPERTY NothingBadHelps
CHECK_DEADLOCK FALSE
