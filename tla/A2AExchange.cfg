SPECIFICATION FairExchange
CONSTANTS
  Tasks = {t1, t2}
  Awaited = {t1}
  Wants <- MCWants
  t1 = t1
  t2 = t2
  LRU_SIZE = 1
  MaxFaults = 1
  MaxStops = 1
INVARIANT ExchangeTypeOK
INVARIANT OneRepeatPerLoss
INVARIANT SkippedMeansAnswered
INVARIANT AnswersAgree
PROPERTY ProcessedStaysProcessed
PROPERTY RequestsAreAnswered
PROPERTY CardComesBack
PROPERTY SubmitEnds
CHECK_DEADLOCK FALSE
