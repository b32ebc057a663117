-------------------------------- MODULE MCPci --------------------------------
(***************************************************************************)
(* Root's work on PCI while it boots: the scans of configuration space,    *)
(* the BAR transactions and the virtio-blk stages.  Root is one thread and *)
(* each has returned before the next begins, with its own copy of what it  *)
(* was given (PciScan: PairAgrees says of what); a behaviour runs one.     *)
(***************************************************************************)
EXTENDS PciScan

CONSTANTS BarKinds, Types, Limit, HighLimit, Gran, BarPage, Windows, Regions,
          BarErrors, BarLost,                        \* of PciBar
          Stages, StagePage, Offsets, SlowDevices    \* of VirtioStage

VARIABLES
  part,      \* "scan", "bar" or "stage": what this behaviour runs
  size, type, bar, decoding, kind, barTodo, input, saved, mask, flags, resource,
  barErrors, lost, before,
  stage, stageTodo, held, success, pageOffset, zeroed, common, slow, status,
  resetting, queueSize, queueAddr, queueEnable

barVars == <<size, type, bar, decoding, kind, barTodo, input, saved, mask, flags,
             resource, barErrors, lost, before>>
stageVars == <<stage, stageTodo, held, success, pageOffset, zeroed, common, slow,
               status, resetting, queueSize, queueAddr, queueEnable>>

\* M0, M1 and two of the stages M8 to M10, each of which scans for itself; N0
MCScripts == {<<"virtio", "common", "notify", "recheck", "stage",
                "common", "notify", "recheck", "stage", "edu">>,
              <<"e1000", "edu">>}

List(head, kinds_, bars, nexts) ==
  [head |-> head,
   caps |-> [p \in 1..2 |-> [kind |-> kinds_[p], bar |-> bars[p], next |-> nexts[p]]]]
\* Whole, crossed, broken and looping lists, with the same and different BARs
MCLists ==
  {List(1, <<"common", "notify">>, <<0, 0>>, <<2, 0>>),
   List(2, <<"common", "notify">>, <<1, 1>>, <<2, 1>>),
   List(1, <<"common", "notify">>, <<0, 1>>, <<2, 2>>),
   List(1, <<"other", "common">>, <<0, 0>>, <<2, 1>>),
   List(1, <<"vendor", "common">>, <<0, 0>>, <<9, 0>>),
   List(1, <<"notify", "vendor">>, <<0, 0>>, <<1, 0>>),
   List(1, <<"other", "other">>, <<0, 0>>, <<2, 1>>),
   List(0, <<"other", "other">>, <<0, 0>>, <<0, 0>>)}

\* For a BAR register of 16 dwords under a high dword of one bit: policy windows on
\* and off its alignments, and virtio regions at both ends of a BAR and across a
\* page of 8 dwords.
MCWindows == {<<0, 16>>, <<4, 16>>, <<3, 12>>, <<6, 9>>, <<9, 16>>}
MCRegions == {[offset |-> o, length |-> n] : o \in {0, 3, 7}, n \in {2, 9}}

Bar == INSTANCE PciBar
         WITH Kinds <- BarKinds, Page <- BarPage, MaxErrors <- BarErrors, MaxLost <- BarLost,
              todo <- barTodo, errors <- barErrors

\* Every stage over a device that resets at once and over a slow one.
Staged == INSTANCE VirtioStage WITH Page <- StagePage, todo <- stageTodo

ASSUME BarAssumption ==
  /\ Bar!KindsAssumption /\ Bar!LimitAssumption /\ Bar!TypesAssumption
  /\ Bar!WindowAssumption /\ Bar!RegionAssumption /\ Bar!BoundAssumption
  /\ Bar!SizeAssumption
ASSUME StageAssumption ==
  /\ Staged!PageAssumption /\ Staged!OffsetsAssumption
  /\ Staged!SlowAssumption /\ Staged!StagesAssumption

PciInit ==
  /\ part \in {"scan", "bar", "stage"}
  /\ part # "scan" =>
       /\ kinds = [s \in 1..Slots |-> "none"]
       /\ lists = [s \in 1..Slots |-> CHOOSE l \in Lists : TRUE]
       /\ script = <<"e1000", "edu">>
  /\ part # "bar" => type = "mem32" /\ size = 0 /\ decoding = FALSE
  /\ part # "stage" =>
       /\ pageOffset = 0 /\ slow = FALSE /\ status = {}
       /\ queueAddr = "none" /\ queueEnable = FALSE
  /\ Init
  /\ Bar!Init
  /\ Staged!Init

PciNext ==
  \/ part = "scan" /\ Next /\ UNCHANGED <<part, barVars, stageVars>>
  \/ part = "bar" /\ Bar!Next /\ UNCHANGED <<part, vars, stageVars>>
  \/ part = "stage" /\ Staged!Next /\ UNCHANGED <<part, vars, barVars>>

PciSpec ==
  /\ PciInit
  /\ [][PciNext]_<<part, vars, barVars, stageVars>>
  /\ part = "scan" => WF_vars(Next)

\* The scans of a boot end, whatever the lists look like (PciScan: ScansEnd).
WalksEnd == part = "scan" => ScansEnd

\* A range read leaves the configuration as it was, reports what the function
\* decodes and decodes nothing but a real BAR meanwhile, where no write that
\* matters is lost and at most one access fails; the allocator reports the truth
\* and, where no access fails, decodes nothing else either.  What it leaves when
\* one does is PciBar's AssignRollsBack, which is false.
TransactionsCorrect ==
  /\ Bar!TypeOK
  /\ Bar!SuccessLeavesConfiguration
  /\ Bar!ReportIsTrue
  /\ Bar!FailureRollsBack
  /\ Bar!DecodesOnlyRealBar

\* A stage returns everything it took and its success means a finished reset, for
\* any device; where the device resets at once, no queue is left running over
\* memory that is not root's and every exit resets it (VirtioStage).
StagesCorrect ==
  /\ []Staged!TypeOK
  /\ []Staged!NothingHeldOnReturn
  /\ []Staged!LiveQueueIsOwned
  /\ []Staged!SuccessMeansReset
  /\ Staged!ResetOnEveryExit

\* "Read-back match, rollback on failure" of the allocator
\* (docs/pci_resource_allocator_m0_gate.md:12), which an access that fails inside
\* the size probe breaks.
AssignRollsBack == Bar!AssignRollsBack

\* The allocator accepts a prefetchable BAR as it does a plain one, which the
\* code does not.
PrefetchableAccepted == Bar!PrefetchableAccepted
=============================================================================
