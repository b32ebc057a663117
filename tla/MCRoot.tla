------------------------------- MODULE MCRoot -------------------------------
(***************************************************************************)
(* What root answers: the system calls of the Linux probe, and requests to *)
(* construct and lease in the four build profiles.  Root starts the        *)
(* construction's client before it serves the probe, and receives requests *)
(* only after that; until then the client can at most have sent one.  The  *)
(* two share no object, so a behaviour runs one part, and the other stays  *)
(* as it began.                                                            *)
(***************************************************************************)
EXTENDS RootConstruct

CONSTANT GatewayFailing

VARIABLES
  part,      \* "construct" or "gateway": what this behaviour runs
  server, word, open, msg, ans, probe, probe_pc, gateway, at, space,
  linux, lpc, syscall, rax, page, inside, touched, refused

gatewayVars == <<server, word, open, msg, ans, probe, probe_pc, gateway, at, space,
                 linux, lpc, syscall, rax, page, inside, touched, refused>>

AllMilestones == 1..4
EveryStep == BundleSteps \cup ConstructSteps

Abi == INSTANCE AbiGateway
         WITH pc <- probe_pc, root <- gateway, failed <- refused,
              Failing <- GatewayFailing

ASSUME GatewayAssumption == Abi!FailingAssumption

RootInit ==
  /\ part \in {"construct", "gateway"}
  /\ part # "construct" => /\ milestone = CHOOSE m \in Milestones : TRUE
                           /\ scripted = CHOOSE c \in ClientKinds : TRUE
  /\ Init
  /\ Abi!Init

RootNext ==
  \/ part = "construct" /\ Next /\ UNCHANGED <<part, gatewayVars>>
  \/ part = "gateway" /\ Abi!Next /\ UNCHANGED <<part, vars>>

RootSpec ==
  /\ RootInit
  /\ [][RootNext]_<<part, vars, gatewayVars>>
  /\ part = "construct" => Fairness
  /\ part = "gateway" => Abi!Fairness

\* Every call root has taken is answered and every milestone's program ends
\* (RootConstruct: CallsEnd).
CallsAnswered == part = "construct" => CallsEnd

\* Root answers the Linux probe only what it expects, so the probe never spins
\* (AbiGateway: NeverLoops).
ProbeNeverLoops == Abi!NeverLoops

\* A client of romfsd's one volatile record fails only if another one's call met
\* its lifecycle, or an operation failed (AbiGateway: Isolation).
RecordIsolates == Abi!Isolation

\* The gateway reaches a verdict unless romfsd is gone (AbiGateway: BootDecides).
GatewayDecides == part = "gateway" => Abi!BootDecides
=============================================================================
