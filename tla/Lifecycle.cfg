SPECIFICATION Spec
CONSTANTS
  HeadBlocks = 2
  AllBlocks = 2
  HistoricalTo = 3
  CommandLines <- EveryCommandLine
  Faults = {"ctrl_c", "rpc", "bounds", "stream", "stall", "decode", "inject"}
  QueueSize = 1
  Capacity = 1
INVARIANT TypeOK
INVARIANT DeliveredInOrder
INVARIANT PanicsOnlyInShutdown
 
 
CHECK_DEADLOCK FALSE
