\* Any sequence of DMA calls and of requests past the API, with every teardown step free to fail.
\* Deadlock is checked: a driver can always make another call.
SPECIFICATION Spec
CONSTANTS
  Token = 1
  LeaseAddr = 2
  LeaseSize = 3
  SupportedMask = 7
  Masks <- MCMasks
  Sizes <- MCSizes
  RawTuples <- MCRawTuples
  FailingSteps <- MCAllSteps
INVARIANTS LeaseIsTrue BufferAddressable
PROPERTY FreeAnswered
