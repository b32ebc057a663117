SPECIFICATION Spec
CONSTANTS
  Sections <- MCSections
  Symbols <- MCSymbols
  Relocations <- MCRelocations
  Records <- MCRecords
  Exports <- MCExports
  LoadBase = 16
  Memory = 8
  Reach = 18
  MaxSections = 4
INVARIANTS PlacedApart WritesStayInside RelocationIsExact EntryEarned
CHECK_DEADLOCK FALSE
