SPECIFICATION FairSpec
CONSTANTS
  k1 = k1
  k2 = k2
  k3 = k3
  Keys = {k1, k2, k3}
  NSlots = 3
  SlotForKey <- SlotOfKey
  Contents = {"text", "members"}
  Strings = {"text"}
  Deadlines = {1}
  Counts = {0, 2}
  Filters <- FilterChoices
  KeyLists <- Lists
  SlotsPerTick = 2
  MaxExpiredKeysPerSlot = 1
  InitialMaps <- SomeMaps
  MaxTime = 1
  MaxWrites = 1
INVARIANTS ScanReturnsHeldOnce ScanFindsStable ReadsAreHeld
PROPERTIES ScanEnds EverySlotSwept
CHECK_DEADLOCK FALSE
