SPECIFICATION FairSpec
CONSTANTS
  MaxCalls = 3
  Requests <- MCRequests
  Classifications <- MCClassifications
  Drafts <- MCDrafts
  Narratives <- MCNarratives
  LRU_SIZE = 1
  Settings <- MCSettings
  MaxCrashes = 1
INVARIANT TypeOK
INVARIANT CallsAreBounded
INVARIANT NoSecondReasoning
INVARIANT ReplayIsAnAnswer
INVARIANT FailureKeepsTriage
INVARIANT DraftIsSafe
INVARIANT SummaryNeverFailsTask
PROPERTY CallsEnd
CHECK_DEADLOCK FALSE
