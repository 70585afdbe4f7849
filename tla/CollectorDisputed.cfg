SPECIFICATION Spec
CONSTANTS
  LastBlock = 3
  ForkedAt = {}
  SessionLength = 2
  MaxBlocks = 3
  Followed = "Finalized"
  HrmpChannels = FALSE
  Capacity = 1
  MaxRepeats = 1
  MaxLead = 1
  Candidates <- OneCandidate
  Blocks <- MCBlocks
  Heads <- MCHeads
  NumberOf <- MCNumberOf
  AncestorsOf <- MCAncestorsOf
  SessionOf <- MCSessionOf
  SessionKey <- MCSessionKey
  RelayParentOf <- MCRelayParentOf
  Keys <- MCKeys
  Absent = Absent
PROPERTY DisputedKept
