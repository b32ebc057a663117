\* The edu life cycle, with any kernel invocation of the services failing.
\* A wait for a line whose acknowledgement failed never ends.
SPECIFICATION ProbeSpec
CONSTANTS
  Irq = 11
  Token = 1
  LeaseAddr = 2
  LeaseSize = 3
  SupportedMask = 7
  Masks = {7, 8}
  Sizes = {3}
  RawTuples = {}
  Failing = {"revoke", "delete", "ack"}
  FailingSteps = {1, 2, 3}
INVARIANTS MediationSucceeds NoTransferWithoutLease ResidueIsAgreed
PROPERTY ProbeEnds
CHECK_DEADLOCK FALSE
