SPECIFICATION Spec
CONSTANTS
  Purchases <- AllPurchases
  SamplePurchases <- FewPurchases
  Customers <- AllCustomers
  SampleCustomers <- FewCustomers
  UsageUnits <- TriedUsage
  Amounts <- TriedAmounts
  UsualAmount = 29
INVARIANT CreditIsForHeavyUsage
CHECK_DEADLOCK FALSE
