\* Root stops for good at a fault, and idles when it is done.
SPECIFICATION RootSpec
CONSTANTS
  Profiles <- EveryProfile
  Failing <- EveryStep
  Requests = {"exact", "other"}
  TokenModulus = 4
INVARIANTS EndsMeet TokensIdentify WiredInOrder NxProbeCorrect
PROPERTY BootEnds
CHECK_DEADLOCK FALSE
