\* What the allocator leaves when it fails.
SPECIFICATION PciSpec
CONSTANTS
  Scripts <- MCScripts
  Slots = 3
  Lists <- MCLists
  Positions = 2
  WalkLimit = 3
  Capacity = 1
  MaxErrors = 2
  BarKinds = {"assign", "range32", "range64", "n1"}
  Types = {"mem32", "mem32prefetch", "mem64", "io"}
  Limit = 16
  HighLimit = 2
  Gran = 4
  BarPage = 8
  Windows <- MCWindows
  Regions <- MCRegions
  BarErrors = 1
  BarLost = 1
  Stages = {"m2", "m3", "m4", "m5", "m6", "m7", "m8", "m9"}
  StagePage = 16
  Offsets = {0, 10, 14}
  SlowDevices = {TRUE, FALSE}
INVARIANT AssignRollsBack
CHECK_DEADLOCK FALSE
