----------------------------- MODULE MCFixtures -----------------------------
(***************************************************************************)
(* The task, object and memory fixtures root starts one after the other:   *)
(* the bundles of taskd and the one-slot inventories.  Root allocates the  *)
(* objects of each of them anew, so a behaviour runs one part, and the     *)
(* other stays as root found it.                                           *)
(***************************************************************************)
EXTENDS Inventory

CONSTANTS Bundles, Failing

VARIABLES
  part,      \* "inventory" or "bundle": what this behaviour runs
  bundle, probing, root, spawned, status, pc, caller, asked, control, pending

bundleVars ==
  <<bundle, probing, root, spawned, status, pc, caller, asked, control, pending>>

Bundle == INSTANCE TaskFixtures WITH scripted <- probing

ASSUME BundleAssumption ==
  Bundle!BundlesAssumption /\ Bundle!ProbesAssumption /\ Bundle!FailingAssumption

FixturesInit ==
  /\ part \in {"inventory", "bundle"}
  /\ part # "inventory" => service = "memd" /\ users = Clients /\ scripted = FALSE
  /\ part # "bundle" => bundle = "opaque" /\ probing = FALSE
  /\ Init
  /\ Bundle!Init

FixturesNext ==
  \/ part = "inventory" /\ Next /\ UNCHANGED <<part, bundleVars>>
  \/ part = "bundle" /\ Bundle!Next /\ UNCHANGED <<part, vars>>

FixturesSpec ==
  /\ FixturesInit
  /\ [][FixturesNext]_<<part, vars, bundleVars>>
  /\ part = "inventory" => Fairness
  /\ part = "bundle" => Bundle!Fairness

\* A service answers its clients and its probe passes (Inventory); nothing that
\* taskd reserved is stranded, and the probe of a bundle gets its success
\* (TaskFixtures).
ProbesAnswered ==
  /\ EveryCallAnswered
  /\ ProbePasses
  /\ Bundle!ReservationNotStranded
  /\ Bundle!ProbeSucceeds

\* No success that is not earned, nothing touched by a refused request, no start
\* merged with the one before (TaskFixtures).
BundlesSafe ==
  /\ Bundle!TypeOK
  /\ Bundle!SuccessIsEarned
  /\ Bundle!RefusalTouchesNothing
  /\ Bundle!StartNeverMerged

\* A child is leased and resumed as ChildControl says (TaskFixtures).
ChildIsLeased == Bundle!ImplementsChildControl
=============================================================================
