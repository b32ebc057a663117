\* Any legal sequence of interrupt-API calls, of a driver that drains its
\* interrupts and of one that does not, with failing capability operations.
\* The driver may really stop: it faults on a revoked notification, or waits
\* for an interrupt nobody raises.
SPECIFICATION Spec
CONSTANTS
  Irq = 11
  Token = 1
  Failing = {"revoke", "delete"}
  Disciplines = {TRUE, FALSE}
INVARIANTS RegistrationAgrees NoLostInterrupt
PROPERTY ImplementsLine
CHECK_DEADLOCK FALSE
