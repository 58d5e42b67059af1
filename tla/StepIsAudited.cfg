SPECIFICATION Spec
CONSTANTS
  MaxCalls = 2
  Requests <- MCRequests
  Classifications <- MCClassifications
  Drafts <- MCDrafts
  Narratives <- MCNarratives
  LRU_SIZE = 2
  Settings <- PublishingSettings
  MaxCrashes = 0
INVARIANT StepIsAudited
CHECK_DEADLOCK FALSE
