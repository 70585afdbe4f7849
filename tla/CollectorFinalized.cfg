SPECIFICATION Spec
CONSTANTS
  LastBlock = 6
  ForkedAt = {}
  SessionLength = 3
  MaxBlocks = 4
  Followed = "Finalized"
  HrmpChannels = TRUE
  Capacity = 1
  MaxRepeats = 1
  MaxLead = 1
  Candidates <- OneCandidate
  Blocks <- MCBlocks
  Heads <- MCHeads
  NumberOf <- MCNumberOf
  AncestorsOf <- MCAncestorsOf
  SessionOf <- MCSessionOf
  SessionKey <- MCSessionKey
  RelayParentOf <- MCRelayParentOf
  Keys <- MCKeys
  Absent = Absent
INVARIANT EveryBlockTraced
INVARIANT TypeOK
INVARIANT RecordsTogether
INVARIANT ReportsFaithful
