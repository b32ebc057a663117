------------------------------- MODULE EduIrq -------------------------------
(***************************************************************************)
(* The mediated interrupt path of one QEMU edu instance: the service       *)
(* selinos-irqd (servers/irqd.c), the interrupt half of the Linux-shaped   *)
(* driver API (kapi/src/kapi_core.c), the driver thread that calls it, the *)
(* kernel's mask bit for the line and the device's interrupt status.       *)
(*                                                                         *)
(* Three agents interleave: irqd, the driver thread, and the hardware      *)
(* (device plus kernel).  They share irqd's ONE notification, on which the *)
(* register badge, the unregister badge and the unbadged hardware          *)
(* interrupt are merged; the request and completion endpoints, which are   *)
(* rendezvous; and the driver's notification.                              *)
(*                                                                         *)
(* A driver that drains, like edu_probe, leaves no interrupt of its device  *)
(* outstanding when it makes another call, and sends no malformed          *)
(* completion; any other makes any sequence of calls the API accepts.      *)
(***************************************************************************)
EXTENDS Naturals

CONSTANTS Irq,          \* the interrupt line bound by selinos_kapi_bind_irq
          Token,        \* the device token root gave irqd and deviced
          Failing,      \* the kernel invocations of irqd that may return an error
          Disciplines   \* the kinds of driver considered: TRUE drains, see above

ASSUME IrqAssumption == Irq \in Nat \ {0}
ASSUME TokenAssumption == Token \in Nat \ {0}
ASSUME FailingAssumption == Failing \subseteq {"revoke", "delete", "ack"}
ASSUME DisciplinesAssumption == Disciplines \subseteq BOOLEAN

VARIABLES
  drains,          \* the driver drains its interrupts before its next call
  registered_irq,  \* irqd: the registered line, 0 when there is none
  irqd,            \* irqd: where its loop stands
  todo,            \* irqd: control badges of the last Wait still to be served
  ntfn,            \* irqd's notification: active or not, and the badges ORed in it
  request,         \* the message of the driver blocked in Call(request_endpoint)
  reply,           \* irqd's answer to that Call, until the driver takes it
  call,            \* the driver thread: "idle" or where it is inside a call
  ret,             \* the driver thread: the result of its last call
  handler,         \* KAPI: a handler is installed in selinos_irq_binding
  token,           \* KAPI: selinos_irq_binding.device_token, 0 when unbound
  completion,      \* the completion message the driver is about to send
  last_status,     \* the driver's edu_last_irq_status
  drvNtfn,         \* the driver's notification is pending
  drvCap,          \* the driver's CSpace still holds that notification
  status,          \* device: its interrupt status bits
  dmaBusy,         \* device: a DMA transfer with completion interrupt is running
  masked,          \* kernel: the line is masked, waiting for IRQHandler_Ack
  handled          \* history: the handler has acknowledged the device since
                   \* the kernel last delivered the line

irqdVars   == <<registered_irq, irqd, todo>>
controlVars == <<request, reply>>
kapiVars   == <<handler, token>>
driverVars == <<call, ret, completion, last_status>>
drvNtfnVars == <<drvNtfn, drvCap>>
deviceVars == <<status, dmaBusy>>
kernelVars == <<masked, handled>>
vars == <<drains, irqdVars, ntfn, controlVars, kapiVars, driverVars, drvNtfnVars,
          deviceVars, kernelVars>>

Badges      == {"register", "unregister"}
StatusBits  == {"factorial", "dma"}
Calls       == {"idle", "request", "free", "forge", "wait", "read", "ack",
                "complete", "faulted"}
IrqdStates  == {"wait", "control", "hardware", "complete", "ack"}
Notification == [active : BOOLEAN, badges : SUBSET Badges]
Message     == [kind : Badges, irq : {Irq}, token : {Token, Token + 1}]
NoMessage   == [kind |-> "none", irq |-> 0, token |-> 0]
Quiet       == [active |-> FALSE, badges |-> {}]

(* Every variable is in range: irqd registers the line root gave it or none *)
(* and takes no badge but the two of its control endpoint (irqd.c:45-93).   *)
TypeOK ==
  /\ drains \in Disciplines
  /\ registered_irq \in {0, Irq}
  /\ irqd \in IrqdStates
  /\ todo \in SUBSET Badges
  /\ ntfn \in Notification
  /\ request \in Message \cup {NoMessage}
  /\ reply \in {"none", "accepted", "rejected"}
  /\ call \in Calls
  /\ ret \in {"ok", "einval"}
  /\ handler \in BOOLEAN
  /\ token \in {0, Token}
  /\ completion \in {"good", "malformed"}
  /\ last_status \in SUBSET StatusBits
  /\ drvNtfn \in BOOLEAN
  /\ drvCap \in BOOLEAN
  /\ status \in SUBSET StatusBits
  /\ dmaBusy \in BOOLEAN
  /\ masked \in BOOLEAN
  /\ handled \in BOOLEAN

\* main() of irqd before its loop, and the driver after
\* selinos_kapi_bind_irq: transport capabilities bound, no token yet.
Init ==
  /\ drains \in Disciplines
  /\ registered_irq = 0
  /\ irqd = "wait"
  /\ todo = {}
  /\ ntfn = Quiet
  /\ request = NoMessage
  /\ reply = "none"
  /\ call = "idle"
  /\ ret = "ok"
  /\ handler = FALSE
  /\ token = 0
  /\ completion = "good"
  /\ last_status = {}
  /\ drvNtfn = FALSE
  /\ drvCap = TRUE
  /\ status = {}
  /\ dmaBusy = FALSE
  /\ masked = FALSE
  /\ handled = FALSE

-----------------------------------------------------------------------------
(* The driver thread: calls of the interrupt API.                          *)

\* An interrupt of the device is raised, or will be when its DMA completes.
Outstanding == status # {} \/ dmaBusy
MayCall     == call = "idle" /\ (drains => ~Outstanding)

\* seL4_Signal on the badged control capability followed by seL4_Call on the
\* request endpoint.  irqd blocks in Recv until the Call, so the two are one step.
Control(kind, tok) ==
  /\ ntfn' = [active |-> TRUE, badges |-> ntfn.badges \cup {kind}]
  /\ request' = [kind |-> kind, irq |-> Irq, token |-> tok]

\* pci_register_driver stores the matched device's token in the binding, and
\* pci_unregister_driver (or a failed probe) clears it, whatever is registered.
BindToken ==
  /\ call = "idle"
  /\ token = 0
  /\ token' = Token
  /\ UNCHANGED <<drains, irqdVars, ntfn, controlVars, handler, driverVars, drvNtfnVars,
                 deviceVars, kernelVars>>

ClearToken ==
  /\ call = "idle"
  /\ token # 0
  /\ token' = 0
  /\ UNCHANGED <<drains, irqdVars, ntfn, controlVars, handler, driverVars, drvNtfnVars,
                 deviceVars, kernelVars>>

RequestIrqGuard == ~handler /\ token # 0

RequestIrq ==
  /\ MayCall
  /\ RequestIrqGuard
  /\ Control("register", token)
  /\ call' = "request"
  /\ UNCHANGED <<drains, irqdVars, reply, kapiVars, ret, completion, last_status,
                 drvNtfnVars, deviceVars, kernelVars>>

RequestIrqInvalid ==
  /\ MayCall
  /\ ~RequestIrqGuard
  /\ ret' = "einval"
  /\ UNCHANGED <<drains, irqdVars, ntfn, controlVars, kapiVars, call, completion,
                 last_status, drvNtfnVars, deviceVars, kernelVars>>

RequestIrqReturns ==
  /\ call = "request"
  /\ reply # "none"
  /\ handler' = (reply = "accepted")
  /\ ret' = IF reply = "accepted" THEN "ok" ELSE "einval"
  /\ call' = "idle"
  /\ reply' = "none"
  /\ UNCHANGED <<drains, irqdVars, ntfn, request, token, completion, last_status,
                 drvNtfnVars, deviceVars, kernelVars>>

FreeIrqGuard == handler /\ token # 0

FreeIrq ==
  /\ MayCall
  /\ FreeIrqGuard
  /\ Control("unregister", token)
  /\ call' = "free"
  /\ UNCHANGED <<drains, irqdVars, reply, kapiVars, ret, completion, last_status,
                 drvNtfnVars, deviceVars, kernelVars>>

\* free_irq is void: its early returns leave no trace but the end of the call.
FreeIrqInvalid ==
  /\ MayCall
  /\ ~FreeIrqGuard
  /\ ret' = "ok"
  /\ UNCHANGED <<drains, irqdVars, ntfn, controlVars, kapiVars, call, completion,
                 last_status, drvNtfnVars, deviceVars, kernelVars>>

\* Mutant: the handler is dropped whatever irqd answered.
FreeIrqReturnsUnchecked ==
  /\ call = "free"
  /\ reply # "none"
  /\ handler' = FALSE
  /\ ret' = "ok"
  /\ call' = "idle"
  /\ reply' = "none"
  /\ UNCHANGED <<drains, irqdVars, ntfn, request, token, completion, last_status,
                 drvNtfnVars, deviceVars, kernelVars>>

FreeIrqReturns ==
  /\ call = "free"
  /\ reply # "none"
  /\ handler' = (reply # "accepted")
  /\ ret' = "ok"
  /\ call' = "idle"
  /\ reply' = "none"
  /\ UNCHANGED <<drains, irqdVars, ntfn, request, token, completion, last_status,
                 drvNtfnVars, deviceVars, kernelVars>>

\* forged_irq_token_is_rejected: the raw register request with token + 1.
ForgedRegister ==
  /\ MayCall
  /\ token # 0
  /\ Control("register", token + 1)
  /\ call' = "forge"
  /\ UNCHANGED <<drains, irqdVars, reply, kapiVars, ret, completion, last_status,
                 drvNtfnVars, deviceVars, kernelVars>>

ForgedRegisterReturns ==
  /\ call = "forge"
  /\ reply # "none"
  /\ ret' = IF reply = "rejected" THEN "ok" ELSE "einval"
  /\ call' = "idle"
  /\ reply' = "none"
  /\ UNCHANGED <<drains, irqdVars, ntfn, request, kapiVars, completion, last_status,
                 drvNtfnVars, deviceVars, kernelVars>>

-----------------------------------------------------------------------------
(* The driver thread: selinos_kapi_dispatch_one_irq and edu_irq_handler.   *)

\* Mutant: dispatch returns without waiting for the notification.
DispatchWithoutWait ==
  /\ call = "idle"
  /\ handler
  /\ ret' = "ok"
  /\ UNCHANGED <<drains, irqdVars, ntfn, controlVars, kapiVars, call, completion,
                 last_status, drvNtfnVars, deviceVars, kernelVars>>

Dispatch ==
  /\ call = "idle"
  /\ drains => Outstanding
  /\ handler
  /\ call' = "wait"
  /\ UNCHANGED <<drains, irqdVars, ntfn, controlVars, kapiVars, ret, completion,
                 last_status, drvNtfnVars, deviceVars, kernelVars>>

DispatchInvalid ==
  /\ call = "idle"
  /\ ~handler
  /\ ret' = "einval"
  /\ UNCHANGED <<drains, irqdVars, ntfn, controlVars, kapiVars, call, completion,
                 last_status, drvNtfnVars, deviceVars, kernelVars>>

DispatchWakes ==
  /\ call = "wait"
  /\ drvCap
  /\ drvNtfn
  /\ drvNtfn' = FALSE
  /\ call' = "read"
  /\ UNCHANGED <<drains, irqdVars, ntfn, controlVars, kapiVars, ret, completion,
                 last_status, drvCap, deviceVars, kernelVars>>

\* seL4_Wait on the slot irqd emptied is a capability fault; nobody resumes
\* the thread.
DispatchFaults ==
  /\ call = "wait"
  /\ ~drvCap
  /\ call' = "faulted"
  /\ UNCHANGED <<drains, irqdVars, ntfn, controlVars, kapiVars, ret, completion,
                 last_status, drvNtfnVars, deviceVars, kernelVars>>

\* Mutant: the device is acknowledged first and its status read afterwards.
HandlerReadsTooLate ==
  /\ call = "read"
  /\ status' = {}
  /\ last_status' = status'
  /\ call' = "ack"
  /\ UNCHANGED <<drains, irqdVars, ntfn, controlVars, kapiVars, ret, completion,
                 drvNtfnVars, dmaBusy, kernelVars>>

HandlerReadsStatus ==
  /\ call = "read"
  /\ last_status' = status
  /\ call' = "ack"
  /\ UNCHANGED <<drains, irqdVars, ntfn, controlVars, kapiVars, ret, completion,
                 drvNtfnVars, deviceVars, kernelVars>>

HandlerAcksDevice ==
  /\ call = "ack"
  /\ status' = status \ last_status
  /\ handled' = TRUE
  /\ completion' = "good"
  /\ call' = "complete"
  /\ UNCHANGED <<drains, irqdVars, ntfn, controlVars, kapiVars, ret, last_status,
                 drvNtfnVars, dmaBusy, masked>>

\* A driver that holds the completion endpoint and sends something else on it:
\* the case irqd's length and magic check is there for.
MalformedCompletion ==
  /\ call = "idle"
  /\ ~drains
  /\ completion' = "malformed"
  /\ call' = "complete"
  /\ UNCHANGED <<drains, irqdVars, ntfn, controlVars, kapiVars, ret, last_status,
                 drvNtfnVars, deviceVars, kernelVars>>

-----------------------------------------------------------------------------
(* The device and the kernel's side of the line (outside src/).            *)

RaiseIrq ==
  /\ MayCall
  /\ drains => handler
  /\ status' = status \cup {"factorial"}
  /\ UNCHANGED <<drains, irqdVars, ntfn, controlVars, kapiVars, driverVars,
                 drvNtfnVars, dmaBusy, kernelVars>>

StartDma ==
  /\ MayCall
  /\ drains => handler
  /\ ~dmaBusy
  /\ dmaBusy' = TRUE
  /\ UNCHANGED <<drains, irqdVars, ntfn, controlVars, kapiVars, driverVars,
                 drvNtfnVars, status, kernelVars>>

DmaCompletes ==
  /\ dmaBusy
  /\ dmaBusy' = FALSE
  /\ status' = status \cup {"dma"}
  /\ UNCHANGED <<drains, irqdVars, ntfn, controlVars, kapiVars, driverVars,
                 drvNtfnVars, kernelVars>>

\* Level-triggered line (seL4_IRQControl_GetIOAPIC, level 1): the kernel masks
\* it and signals the unbadged hardware notification.
LineFires ==
  /\ status # {}
  /\ ~masked
  /\ masked' = TRUE
  /\ handled' = FALSE
  /\ ntfn' = [ntfn EXCEPT !.active = TRUE]
  /\ UNCHANGED <<drains, irqdVars, controlVars, kapiVars, driverVars, drvNtfnVars,
                 deviceVars>>

-----------------------------------------------------------------------------
(* selinos-irqd.                                                           *)

\* The loop's Wait: any control badge hides a hardware signal merged with it.
IrqdWakes ==
  /\ irqd = "wait"
  /\ ntfn.active
  /\ ntfn' = Quiet
  /\ todo' = ntfn.badges
  /\ irqd' = IF ntfn.badges = {} THEN "hardware" ELSE "control"
  /\ UNCHANGED <<drains, registered_irq, controlVars, kapiVars, driverVars,
                 drvNtfnVars, deviceVars, kernelVars>>

\* reply_control, and on to the next badge of this Wait or back to the loop.
ReplyControl(badge, answer) ==
  /\ reply' = answer
  /\ request' = NoMessage
  /\ todo' = todo \ {badge}
  /\ irqd' = IF todo = {badge} THEN "wait" ELSE "control"

RegisterAcceptable ==
  /\ request.kind = "register"
  /\ request.irq # 0
  /\ request.token = Token
  /\ registered_irq = 0

HandleRegister ==
  /\ irqd = "control"
  /\ "register" \in todo
  /\ request # NoMessage
  /\ IF RegisterAcceptable
     THEN /\ registered_irq' = request.irq
          /\ ReplyControl("register", "accepted")
     ELSE /\ registered_irq' = registered_irq
          /\ ReplyControl("register", "rejected")
  /\ UNCHANGED <<drains, ntfn, kapiVars, driverVars, drvNtfnVars, deviceVars, kernelVars>>

UnregisterAcceptable ==
  /\ request.kind = "unregister"
  /\ registered_irq # 0
  /\ request.irq = registered_irq
  /\ request.token = Token

\* The checks of handle_unregister_request refuse, or CNode_Revoke or CNode_Delete
\* returns an error: nothing is released.
HandleUnregisterFails ==
  /\ irqd = "control"
  /\ todo = {"unregister"}
  /\ request # NoMessage
  /\ UnregisterAcceptable => Failing \cap {"revoke", "delete"} # {}
  /\ ReplyControl("unregister", "rejected")
  /\ UNCHANGED <<drains, registered_irq, ntfn, kapiVars, driverVars, drvNtfnVars,
                 deviceVars, kernelVars>>

HandleUnregister ==
  /\ irqd = "control"
  /\ todo = {"unregister"}
  /\ request # NoMessage
  /\ UnregisterAcceptable
  /\ drvCap' = FALSE
  /\ registered_irq' = 0
  /\ ReplyControl("unregister", "accepted")
  /\ UNCHANGED <<drains, ntfn, kapiVars, driverVars, drvNtfn, deviceVars, kernelVars>>

\* seL4_IRQHandler_Ack; its result is ignored or only logged.
AckKernel == masked' \in {FALSE} \cup (IF "ack" \in Failing THEN {masked} ELSE {})

HardwareUnregistered ==
  /\ irqd = "hardware"
  /\ registered_irq = 0
  /\ AckKernel
  /\ irqd' = "wait"
  /\ UNCHANGED <<drains, registered_irq, todo, ntfn, controlVars, kapiVars, driverVars,
                 drvNtfnVars, deviceVars, handled>>

HardwareDelivers ==
  /\ irqd = "hardware"
  /\ registered_irq # 0
  /\ drvNtfn' = TRUE
  /\ irqd' = "complete"
  /\ UNCHANGED <<drains, registered_irq, todo, ntfn, controlVars, kapiVars, driverVars,
                 drvCap, deviceVars, kernelVars>>

\* Mutant: a malformed completion is followed by the acknowledgement too.
CompletionUnchecked ==
  /\ irqd = "complete"
  /\ call = "complete"
  /\ irqd' = "ack"
  /\ call' = "idle"
  /\ ret' = "ok"
  /\ UNCHANGED <<drains, registered_irq, todo, ntfn, controlVars, kapiVars, completion,
                 last_status, drvNtfnVars, deviceVars, kernelVars>>

\* Recv on the completion endpoint meets the driver's Send, which ends the
\* driver's call; a malformed message leaves the line masked.
CompletionArrives ==
  /\ irqd = "complete"
  /\ call = "complete"
  /\ irqd' = IF completion = "good" THEN "ack" ELSE "wait"
  /\ call' = "idle"
  /\ ret' = "ok"
  /\ UNCHANGED <<drains, registered_irq, todo, ntfn, controlVars, kapiVars, completion,
                 last_status, drvNtfnVars, deviceVars, kernelVars>>

\* Mutant: irqd goes back to its loop without IRQHandler_Ack.
HardwareAckForgotten ==
  /\ irqd = "ack"
  /\ irqd' = "wait"
  /\ UNCHANGED <<drains, registered_irq, todo, ntfn, controlVars, kapiVars, driverVars,
                 drvNtfnVars, deviceVars, kernelVars>>

HardwareAck ==
  /\ irqd = "ack"
  /\ AckKernel
  /\ irqd' = "wait"
  /\ UNCHANGED <<drains, registered_irq, todo, ntfn, controlVars, kapiVars, driverVars,
                 drvNtfnVars, deviceVars, handled>>

-----------------------------------------------------------------------------
(* The next-state relation, by agent.                                      *)

\* What the driver chooses to do between calls.
DriverCalls ==
  \/ BindToken \/ ClearToken
  \/ RequestIrq \/ RequestIrqInvalid
  \/ FreeIrq \/ FreeIrqInvalid
  \/ ForgedRegister
  \/ Dispatch \/ DispatchInvalid
  \/ MalformedCompletion
  \/ RaiseIrq \/ StartDma

\* What it does inside a call.
DriverRuns ==
  \/ RequestIrqReturns \/ FreeIrqReturns \/ ForgedRegisterReturns
  \/ DispatchWakes \/ DispatchFaults
  \/ HandlerReadsStatus \/ HandlerAcksDevice

IrqdRuns ==
  \/ IrqdWakes
  \/ HandleRegister
  \/ HandleUnregisterFails \/ HandleUnregister
  \/ HardwareUnregistered \/ HardwareDelivers
  \/ CompletionArrives \/ HardwareAck

Hardware == DmaCompletes \/ LineFires

Next == DriverCalls \/ DriverRuns \/ IrqdRuns \/ Hardware

\* Each thread is scheduled, a transfer ends and an asserted line interrupts;
\* nothing obliges a driver to make another call.
Fairness == WF_vars(DriverRuns) /\ WF_vars(IrqdRuns) /\ WF_vars(Hardware)

Spec == Init /\ [][Next]_vars /\ Fairness

-----------------------------------------------------------------------------
(* Properties.                                                             *)

(* Between control calls the driver's view and irqd's view of the          *)
(* registration agree: a handler is installed exactly when irqd has the    *)
(* line registered - after forged requests, refused or failing releases,   *)
(* a cleared token, and with the answer still on its way (irqd.c:57,90,    *)
(* kapi_core.c:274,301).                                                   *)
RegistrationAgrees ==
  /\ call \notin {"request", "free"} => (handler <=> registered_irq = Irq)
  /\ call \in {"request", "free"} /\ reply # "none" =>
       ((reply = "accepted") <=> (handler # (registered_irq = Irq)))

(* The path implements the abstract line (IrqLine): while a driver is      *)
(* registered the line is unmasked only after its handler acknowledged the *)
(* device for the interrupt that masked it, and the device is acknowledged *)
(* only while the line is masked, whatever completions are sent and        *)
(* whatever is merged on the notifications (irqd.c:95-116,131-140,         *)
(* docs/m1_mediated_irq_dma.md).                                           *)
Line == INSTANCE IrqLine
          WITH line  <- IF ~masked THEN "open"
                        ELSE IF handled THEN "serviced" ELSE "pending",
               owner <- registered_irq # 0

ImplementsLine == Line!Spec

(* No interrupt is lost: while the line is masked, somebody still has to   *)
(* acknowledge it - the signal is pending without a control badge that     *)
(* would hide it (irqd.c:131-140), or irqd is on its way to the ack.       *)
NoLostInterrupt ==
  drains /\ masked => \/ ntfn.active /\ ntfn.badges = {}
            \/ irqd \in {"hardware", "complete", "ack"}

(* free_irq returns: the unregister call is answered                       *)
(* (docs/m1_mediated_irq_dma.md: free_irq "gets a synchronous unregister   *)
(* reply from selinos-irqd and only then removes the local handler").      *)
FreeIrqAnswered == (call = "free") ~> (call = "idle")

=============================================================================
