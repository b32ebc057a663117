\* The four build profiles, each with its program and with any holder of the
\* request endpoint, every step able to fail; and both clients of the volatile
\* record in every interleaving, where romfsd's archive check, the spawn of the
\* Linux probe and root's VSpace operations may fail.  Root suspends itself when
\* the boot fails, a client may stop calling, romfsd waits for requests.
SPECIFICATION RootSpec
CONSTANTS
  Milestones <- AllMilestones
  ClientKinds = {TRUE, FALSE}
  Failing <- EveryStep
  GatewayFailing = {"archive", "spawn", "map", "provision", "tls"}
INVARIANTS ReplyIsTrue ProbeNeverLoops RecordIsolates
PROPERTIES CallsAnswered ImplementsChildControl GatewayDecides
CHECK_DEADLOCK FALSE
