\* What the design document says of a free request with a wrong tuple.
SPECIFICATION Spec
CONSTANTS
  Token = 1
  LeaseAddr = 2
  LeaseSize = 3
  SupportedMask = 7
  Masks <- MCMasks
  Sizes <- MCSizes
  RawTuples <- MCRawTuples
  FailingSteps <- MCAllSteps
PROPERTY WrongTupleRefused
