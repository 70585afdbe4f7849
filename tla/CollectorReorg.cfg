SPECIFICATION Spec
CONSTANTS
  LastBlock = 3
  ForkedAt = {1, 2}
  SessionLength = 2
  MaxBlocks = 3
  Followed = "Best"
  HrmpChannels = FALSE
  Capacity = 1
  MaxRepeats = 1
  MaxLead = 2
  Candidates <- OneCandidate
  Blocks <- MCBlocks
  Heads <- MCHeads
  NumberOf <- MCNumberOf
  AncestorsOf <- MCAncestorsOf
  SessionOf <- MCSessionOf
  SessionKey <- MCSessionKey
  RelayParentOf <- MCRelayParentOf
  Keys <- MCKeys
  Absent = Absent
INVARIANT ReportsFaithful
