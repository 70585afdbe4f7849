SPECIFICATION Spec
CONSTANTS
  HeadBlocks = 3
  AllBlocks = 2
  HistoricalTo = 3
  CommandLines <- OneParachain
  Faults = {"decode"}
  QueueSize = 1
  Capacity = 1
PROPERTY AbnormalStops
CHECK_DEADLOCK FALSE
