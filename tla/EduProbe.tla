------------------------------ MODULE EduProbe ------------------------------
(***************************************************************************)
(* One edu driver domain from pci_register_driver to the end of            *)
(* pci_unregister_driver: the program of edu_kapi_probe.c (main, edu_probe,*)
(* edu_remove) run over the interrupt path (EduIrq) and the DMA lease      *)
(* (EduDma), which share the driver thread and the shadow device's token.  *)
(*                                                                         *)
(* A step of the program makes one API call; when the call has ended the   *)
(* program compares its result with the one it wants and branches.         *)
(***************************************************************************)
EXTENDS EduDma

CONSTANTS Irq,
          Failing   \* irqd's kernel invocations that may fail

VARIABLES
  drains, registered_irq, irqd, todo, ntfn, request, reply, handler,
  completion, last_status, drvNtfn, drvCap, status, dmaBusy, masked, handled,
  flags,     \* shadow_pdev.dev.selinos_flags
  active,    \* selinos_pci_binding.active
  probing,   \* selinos_pci_binding.probing
  step,      \* the program's next or current call
  running,   \* the call of this step has been made
  failed     \* a kernel invocation of irqd or dmad has failed (history)

\* The request of forged_dma_token_is_rejected.
ForgedFree == [token |-> Token + 1, addr |-> LeaseAddr, size |-> LeaseSize]

\* The program keeps its own discipline: the interrupt path imposes none.
I == INSTANCE EduIrq WITH Disciplines <- {FALSE}

ASSUME LineAssumption == I!IrqAssumption /\ I!FailingAssumption

threadVars == <<call, ret>>
irqVars == <<drains, registered_irq, irqd, todo, ntfn, request, reply, handler,
             completion, last_status, drvNtfn, drvCap, status, dmaBusy, masked,
             handled>>
dmaVars == <<leaseVars, ipcVars, dmadVars>>
pciVars == <<flags, active, probing>>
probeVars == <<threadVars, token, irqVars, dmaVars, pciVars, step, running, failed>>

ProbeInit ==
  /\ I!Init
  /\ Init
  /\ flags = {}
  /\ active = FALSE
  /\ probing = FALSE
  /\ step = "register"
  /\ running = FALSE
  /\ failed = FALSE

-----------------------------------------------------------------------------
(* The program text.                                                       *)

Call(op, want, good, bad) == [op |-> op, want |-> want, good |-> good, bad |-> bad]

\* What each step calls, the result it wants ("any" for what returns none), and
\* where it goes.  Two successors are a check of device registers that may go
\* either way.
Program == [
  register   |-> Call("register",   "any",    {"enable"},     {"exit"}),
  enable     |-> Call("enable",     "ok",     {"mask"},       {"undo_pci"}),
  mask       |-> Call("mask",       "ok",     {"forge"},      {"undo_pci"}),
  forge      |-> Call("forge",      "ok",     {"request"},    {"undo_pci"}),
  request    |-> Call("request",    "ok",     {"alloc"},      {"undo_pci"}),
  alloc      |-> Call("alloc",      "ok",     {"dma_forge"},  {"undo_irq"}),
  dma_forge  |-> Call("dma_forge",  "ok",     {"duplicate"},  {"undo_dma"}),
  duplicate  |-> Call("request",    "einval", {"untrusted"},  {"undo_dma"}),
  untrusted  |-> Call("untrusted",  "einval", {"wide"},       {"undo_dma"}),
  wide       |-> Call("wide",       "einval", {"second"},     {"undo_dma"}),
  second     |-> Call("alloc",      "einval", {"dma_out", "dma_free"}, {"undo_dma"}),
  dma_out    |-> Call("start_dma",  "any",    {"wait_out"},   {"raise"}),
  wait_out   |-> Call("dispatch",   "ok",     {"dma_in"},     {"raise"}),
  dma_in     |-> Call("start_dma",  "any",    {"wait_in"},    {"raise"}),
  wait_in    |-> Call("dispatch",   "ok",     {"raise"},      {"raise"}),
  raise      |-> Call("raise",      "any",    {"wait_raise"}, {"wait_raise"}),
  wait_raise |-> Call("dispatch",   "ok",     {"dma_free"},   {"dma_free"}),
  dma_free   |-> Call("dma_free",   "ok",     {"realloc"},    {"realloc"}),
  realloc    |-> Call("alloc",      "einval", {"remask"},     {"probe_failed"}),
  remask     |-> Call("mask",       "einval", {"activate"},   {"probe_failed"}),
  activate   |-> Call("activate",   "ok",     {"remove"},     {"remove"}),
  remove     |-> Call("free_irq",   "ok",     {"disable"},    {"disable"}),
  disable    |-> Call("disable",    "ok",     {"unregister"}, {"unregister"}),
  unregister |-> Call("unregister", "any",    {"done"},       {"done"}),
  undo_dma   |-> Call("dma_free",   "ok",     {"undo_irq"},   {"undo_irq"}),
  undo_irq   |-> Call("free_irq",   "ok",     {"undo_pci"},   {"undo_pci"}),
  undo_pci   |-> Call("disable",    "ok",     {"probe_failed"}, {"probe_failed"}),
  probe_failed |-> Call("probe_failed", "any",{"exit"},       {"exit"})]

Final == {"done", "exit"}
Waits == [wait_out |-> "dma", wait_in |-> "dma", wait_raise |-> "factorial"]

\* wait_mediated_irq also wants the expected status bit, and edu_dma_roundtrip
\* an idle DMA engine.
Passed ==
  /\ Program[step].want \in {ret, "any"}
  /\ step \in DOMAIN Waits => Waits[step] \in last_status
  /\ step \in {"wait_out", "wait_in"} => ~dmaBusy

-----------------------------------------------------------------------------
(* Calls on the PCI binding.                                               *)

\* pci_register_driver up to the call of probe: deviced matches the edu ID.
PciRegister ==
  /\ ~active
  /\ BindDevice
  /\ probing' = TRUE
  /\ flags' = {}
  /\ UNCHANGED <<irqVars, active>>

\* pci_enable_device and pci_set_master.
PciEnable ==
  /\ IF (active \/ probing) /\ token # 0
     THEN flags' = {"enabled", "master"} /\ ret' = "ok"
     ELSE flags' = flags /\ ret' = "einval"
  /\ UNCHANGED <<call, token, irqVars, dmaVars, active, probing>>

PciDisable ==
  /\ flags' = {}
  /\ ret' = "ok"
  /\ UNCHANGED <<call, token, irqVars, dmaVars, active, probing>>

\* probe returned 0.
PciActivate ==
  /\ probing' = FALSE
  /\ active' = TRUE
  /\ ret' = "ok"
  /\ UNCHANGED <<call, token, irqVars, dmaVars, flags>>

\* probe returned an error.
PciProbeFailed ==
  /\ probing' = FALSE
  /\ flags' = {}
  /\ ProbeFails
  /\ UNCHANGED <<irqVars, active>>

\* Mutant: unregistration leaves the lease bound to the zeroed shadow device.
PciUnregisterKeepsLease ==
  /\ active
  /\ token' = 0
  /\ active' = FALSE
  /\ flags' = {}
  /\ UNCHANGED <<call, ret, irqVars, dmaVars, probing>>

\* pci_unregister_driver after remove.
PciUnregister ==
  /\ active
  /\ UnbindDevice
  /\ active' = FALSE
  /\ flags' = {}
  /\ UNCHANGED <<irqVars, probing>>

IrqCall(A) == A /\ UNCHANGED <<dmaVars, pciVars>>
DmaCall(A) == A /\ UNCHANGED <<irqVars, pciVars>>

Perform(op) ==
  \/ op = "register"     /\ PciRegister
  \/ op = "enable"       /\ PciEnable
  \/ op = "disable"      /\ PciDisable
  \/ op = "activate"     /\ PciActivate
  \/ op = "probe_failed" /\ PciProbeFailed
  \/ op = "unregister"   /\ PciUnregister
  \/ op = "forge"        /\ IrqCall(I!ForgedRegister)
  \/ op = "request"      /\ IrqCall(I!RequestIrq \/ I!RequestIrqInvalid)
  \/ op = "free_irq"     /\ IrqCall(I!FreeIrq \/ I!FreeIrqInvalid)
  \/ op = "dispatch"     /\ IrqCall(I!Dispatch \/ I!DispatchInvalid)
  \/ op = "start_dma"    /\ IrqCall(I!StartDma)
  \/ op = "raise"        /\ IrqCall(I!RaiseIrq)
  \/ op = "mask"         /\ DmaCall(\/ SetMask("shadow", SupportedMask)
                                    \/ SetMaskInvalid("shadow", SupportedMask))
  \/ op = "untrusted"    /\ DmaCall(\/ SetMask("other", SupportedMask)
                                    \/ SetMaskInvalid("other", SupportedMask))
  \/ op = "wide"         /\ DmaCall(\/ SetMask("shadow", SupportedMask + 1)
                                    \/ SetMaskInvalid("shadow", SupportedMask + 1))
  \/ op = "alloc"        /\ DmaCall(\/ AllocCoherent("shadow", LeaseSize)
                                    \/ AllocCoherentInvalid("shadow", LeaseSize))
  \/ op = "dma_forge"    /\ DmaCall(RawFree(ForgedFree))
  \/ op = "dma_free"     /\ DmaCall(\/ FreeCoherent("shadow", LeaseSize, LeaseAddr)
                                    \/ FreeCoherentInvalid("shadow", LeaseSize, LeaseAddr))

\* The program makes the call of its current step ...
Begin ==
  /\ step \notin Final
  /\ call = "idle"
  /\ ~running
  /\ Perform(Program[step].op)
  /\ running' = TRUE
  /\ UNCHANGED <<step, failed>>

\* ... and branches on the result once the call has ended.
Advance ==
  /\ step \notin Final
  /\ call = "idle"
  /\ running
  /\ step' \in IF Passed THEN Program[step].good ELSE Program[step].bad
  /\ running' = FALSE
  /\ UNCHANGED <<threadVars, token, irqVars, dmaVars, pciVars, failed>>

\* After its last step the domain yields forever or has exited.
Yield == step \in Final /\ UNCHANGED probeVars

programVars == <<pciVars, step, running>>
InsideIrqCall == I!DriverRuns /\ UNCHANGED <<dmaVars, programVars, failed>>
InsideDmaCall == DriverRuns /\ UNCHANGED <<irqVars, programVars, failed>>
Hardware == I!Hardware /\ UNCHANGED <<dmaVars, programVars, failed>>

Irqd ==
  /\ I!IrqdRuns
  /\ failed' = \/ failed
               \/ I!HandleUnregisterFails /\ I!UnregisterAcceptable
               \/ irqd = "ack" /\ masked'
  /\ UNCHANGED <<dmaVars, programVars>>

DmadRuns ==
  /\ Dmad
  /\ failed' = (failed \/ (Releasable /\ dmaReply' = "rejected"))
  /\ UNCHANGED <<irqVars, programVars>>

Driver == Begin \/ Advance \/ InsideIrqCall \/ InsideDmaCall

ProbeNext == Driver \/ Irqd \/ DmadRuns \/ Hardware \/ Yield

\* seL4 schedules the four threads; a transfer ends and an asserted line fires.
ProbeFairness ==
  /\ WF_probeVars(Driver) /\ WF_probeVars(Irqd)
  /\ WF_probeVars(DmadRuns) /\ WF_probeVars(Hardware)

ProbeSpec == ProbeInit /\ [][ProbeNext]_probeVars /\ ProbeFairness

-----------------------------------------------------------------------------
(* Properties.                                                             *)

(* The whole life cycle comes to its end: no call of the probe or of the   *)
(* remove path waits for ever on irqd, dmad, the device or a notification, *)
(* unless an acknowledgement of the line failed and left it masked         *)
(* (irqd.c:106,129, kapi_core.c:266,293,337,424).                          *)
ProbeEnds == <>(step \in Final \/ (failed /\ masked))

(* Every interrupt wait of the program meets the interrupt it waits for:   *)
(* the handler has read the expected status bit and no transfer is running *)
(* (edu_kapi_probe.c:95-99,188,195,296, kapi_core.c:328-344).              *)
MediationSucceeds ==
  step \in DOMAIN Waits /\ running /\ call = "idle" => Passed

(* The lease is never torn down under a running transfer: dmad itself does *)
(* not quiesce the device, so this rests on the order of the program's     *)
(* calls (dmad.c:72-93, edu_kapi_probe.c:285-306).                         *)
NoTransferWithoutLease == dmaBusy => lease_active /\ mapped

(* Whatever fails, the program ends either with both services released or  *)
(* with a refusal behind it: a registration or an allocation that outlives *)
(* the program is one irqd or dmad refused to release, and both sides      *)
(* agree on it.  If nothing failed, nothing of the device is left: no      *)
(* registration, handler, lease, mapping, bus mastering or token, and the  *)
(* line open with the device quiet (edu_kapi_probe.c:306-327,              *)
(* kapi_core.c:189-207, docs/m3_tokenized_device_lifecycle_design.md).     *)
ResidueIsAgreed ==
  step \in Final =>
    /\ handler <=> registered_irq = Irq
    /\ allocated <=> ~revoked
    /\ revoked => frameCap = "gone"
    /\ step = "done" /\ ~failed =>
         /\ registered_irq = 0 /\ ~drvCap
         /\ ~lease_active /\ ~mapped /\ frameCap = "gone"
         /\ device = "null" /\ selected_mask = 0
         /\ ~active /\ ~probing /\ token = 0 /\ flags = {}
         /\ status = {} /\ (masked => irqd = "ack")

=============================================================================
