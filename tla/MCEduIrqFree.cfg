\* A driver that does not drain its interrupts; no kernel invocation fails.
SPECIFICATION Spec
CONSTANTS
  Irq = 11
  Token = 1
  Failing = {}
  Disciplines = {FALSE}
PROPERTY FreeIrqAnswered
CHECK_DEADLOCK FALSE
