SPECIFICATION Spec
CHECK_DEADLOCK FALSE
CONSTANTS
  LastSkipped = 2
  NumCores = 2
  MaxCandidates = 4
  MaxNumber = 4
  ForkedAt <- Second
  MissingAt <- Fourth
  SessionsAt <- Third
  IdleAt <- Fourth
  Patience = 1
  Disputes <- TwoDisputes
  DisputedAt <- Second
INVARIANT TypeOK
INVARIANT TrackerFollowsChain
INVARIANT OneCandidatePerCore
INVARIANT IncludedOnce
INVARIANT DroppedHasLeft
 
INVARIANT BlockTimesAddUp
INVARIANT InclusionTimesAddUp
 
