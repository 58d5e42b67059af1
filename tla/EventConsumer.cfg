SPECIFICATION FairSpec
CONSTANTS
  MaxCases = 2
  MaxResults = 1
  EventKinds = {"good", "invalid", "garbage"}
  Modes <- MCModes
  LRU_SIZE = 1
  PARKED_MAX = 1
  MaxFaults = 1
  MaxStops = 1
INVARIANT TypeOK
INVARIANT LossIsExplained
INVARIANT AuditIsTrue
INVARIANT ParkedMeansForgotten
PROPERTY ReplayHasNoEffect
PROPERTY EventsAreTaken
CHECK_DEADLOCK FALSE
