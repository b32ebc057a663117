\* A fixture stops when its program is over, and yields for ever otherwise.
SPECIFICATION FixturesSpec
CONSTANTS
  Services = {"objectd", "memd", "dynamic"}
  Clients = {"c1", "c2"}
  Probes = {TRUE, FALSE}
  MaxCalls = 3
  Bundles = {"lifecycle", "reservation", "opaque", "tcb_lease", "tcb_resume"}
  Failing = {"prepare", "spawn", "suspend", "resume"}
INVARIANTS HolderAgrees BundlesSafe
PROPERTIES ImplementsOneSlot ProbesAnswered ChildIsLeased
CHECK_DEADLOCK FALSE
