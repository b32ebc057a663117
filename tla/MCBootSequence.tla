--------------------------- MODULE MCBootSequence ---------------------------
(***************************************************************************)
(* Builds with and without the two optional probes root waits for and the  *)
(* device experiments, on machines with none to three edu devices, on      *)
(* different interrupt lines and on one, with a kernel, an NX child and an *)
(* archive that answer root's waits or do not.  The NX probe is one step   *)
(* of the boot; a behaviour runs the boot, or that step from within.       *)
(***************************************************************************)
EXTENDS BootSequence

VARIABLES
  part,      \* "boot" or "nx": what this behaviour runs
  world, at, owns, flags, childMap, alias, child, witnessed, victim, success

nxVars == <<world, at, owns, flags, childMap, alias, child, witnessed, victim, success>>

Machines == {<<>>, <<10>>, <<10, 11>>, <<10, 10>>, <<10, 11, 10>>}
EveryProfile ==
  {p \in [dynamic : BOOLEAN, experiments : BOOLEAN, nx : BOOLEAN, honours : BOOLEAN,
          strays : BOOLEAN, archive : BOOLEAN, edu : Machines] :
     ~p.nx => p.honours /\ ~p.strays}
EveryStep == {"environment", "experiment", "prepare", "dma", "token", "irq", "wire",
              "spawn", "await", "priority"}
EveryNxStep == {"configure", "endpoint", "copy_endpoint", "spawn", "fault_endpoint",
                "frame", "slot", "copy_frame", "map_nx", "write", "resume", "unmap",
                "map_exec"}

Nx == INSTANCE NxProbe
        WITH Honoured <- BOOLEAN, Strays <- BOOLEAN, Failing <- EveryNxStep, held <- owns

ASSUME NxAssumption ==
  Nx!HonouredAssumption /\ Nx!FailingAssumption /\ Nx!StraysAssumption

RootInit ==
  /\ part \in {"boot", "nx"}
  /\ part # "boot" => profile = CHOOSE p \in Profiles : p.nx
  /\ part # "nx" => world = [honours |-> TRUE, strays |-> FALSE]
  /\ Init
  /\ Nx!Init

RootNext ==
  \/ part = "boot" /\ Next /\ UNCHANGED <<part, nxVars>>
  \/ part = "nx" /\ Nx!Next /\ UNCHANGED <<part, vars>>

RootSpec ==
  /\ RootInit
  /\ [][RootNext]_<<part, vars, nxVars>>
  /\ part = "boot" => Fairness
  /\ part = "nx" => Nx!Fairness

\* Whoever calls runs after whoever answers, with all its caps
\* (BootSequence: ServersFirst, WiredBeforeRun).
WiredInOrder == ServersFirst /\ WiredBeforeRun

\* The boot stops only over a fault and answers the dispatch client, and it ends
\* unless it hangs in a wait that nothing is bound to end (BootSequence:
\* OnlyFaultsStop, DispatchAnswered, BootSettles); and the NX probe returns to it
\* from a kernel that honours the attribute and a child that does not stray
\* (NxProbe: ProbeReturns).
BootEnds ==
  /\ [](TypeOK /\ OnlyFaultsStop)
  /\ DispatchAnswered
  /\ part = "boot" => BootSettles
  /\ part = "nx" => Nx!ProbeReturns

\* The NX probe tears its mappings down on every path, leaks only what is known,
\* and reports success only of both paths (NxProbe).
NxProbeCorrect ==
  /\ Nx!TypeOK
  /\ Nx!MappingsTornDown
  /\ Nx!ResidueIsKnown
  /\ Nx!SuccessIsPaired
  /\ Nx!NeverWritableAndExecutable
=============================================================================
