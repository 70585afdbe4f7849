SPECIFICATION ServicesSpec
CONSTANTS
  p1 = p1
  p2 = p2
  k1 = k1
  k2 = k2
  collector = collector
  reader = reader
  http = http
  Keys = {k1, k2}
  Blocks = {1, 2}
  MaxBlocks = 1
  TypesOf <- PersistentApart
  NoRecord = NoRecord
  Prefixes = {p1, p2}
  Slots <- SharedSlots
  Deletable <- OneDeleted
  UsedTypes = {"Onchain"}
  Services = {"plain", "prefixed", "executor", "websocket"}
  CandidatePrefixes = {p1}
  Writer = collector
  Readers = {reader}
  Clients = {http}
  QueueSize = 1
  Nodes = {"n1", "n2"}
  Urls = {"n1", "n2", "other"}
  Frontends = {"f1", "f2"}
  Requests = {"GetSessionIndexNow"}
  MaxCount = 1
  Endpoints = {"n1"}
  Tree <- FourHeights
  NoBlock = NoBlock
  Modes = {"Cli", "Prometheus"}
  ChartWidth = 3
  MaxUpdates = 3
  Paras = {1, 2}
  MaxParachainStall = 0
  EvictAfter = 1
  MaxGap = 1
  MaxNumber = 5
  Capacity = 1
  TrackerCapacity = 1
  Disputed = {"c1"}
  ValidatorCounts = {0, 1, 2, 3, 4, 7}
  LastBlock = 3
  NotConcluded = NotConcluded
  WsClients = {"w1", "w2"}
  UpdatesRoom = 1
  MaxEvents = 4
 
 
PROPERTY CollectorStops
CHECK_DEADLOCK FALSE
