SPECIFICATION Spec
CONSTANTS
  p1 = p1
  p2 = p2
  k1 = k1
  k2 = k2
  k3 = k3
  Prefixes = {p1, p2}
  Keys = {k1, k2, k3}
  Slots <- MixedSlots
  Deletable <- OneDeleted
  UsedTypes = {"Onchain", "Persistent"}
  Blocks = {1, 2, 3, 4}
  MaxBlocks = 2
  NoRecord = NoRecord
INVARIANT IndexBounded
INVARIANT NothingLeaks
PROPERTY ImplementsWindow
