\* memd alone, with one client: what a request after the duplicate gets.
SPECIFICATION FixturesSpec
CONSTANTS
  Services = {"memd"}
  Clients = {"c1"}
  Probes = {FALSE}
  MaxCalls = 3
  Bundles = {"opaque"}
  Failing = {}
PROPERTY MalformedAnswered
CHECK_DEADLOCK FALSE
