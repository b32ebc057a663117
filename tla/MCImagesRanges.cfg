\* What the parser says of the memory range of a segment.
SPECIFICATION ImagesSpec
CONSTANTS
  WordSize = 16
  ImageSizes = {8}
  Programs <- MCPrograms
  Entries <- MCEntries
  MaxPrograms = 3
  MaxLoads = 2
  MaxNeeded = 1
  NameMax = 4
  Wanted <- MCWanted
  MaxEntries = 3
  MaxMembers = 5
  MaxHurt = 3
  HeaderSize = 6
  WordMax = 63
  Oddities = {0, 1, 2, 5, 63}
INVARIANT MemoryRangesValid
CHECK_DEADLOCK FALSE
