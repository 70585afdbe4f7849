SPECIFICATION Spec
CONSTANTS
  HeadBlocks = 3
  AllBlocks = 2
  HistoricalTo = 3
  CommandLines <- OneRange
  Faults = {}
  QueueSize = 1
  Capacity = 1
INVARIANT HistoricalComplete
CHECK_DEADLOCK FALSE
