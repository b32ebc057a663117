--------------------------- MODULE EduProbeProofs ---------------------------
(***************************************************************************)
(* Safety of the coherent-DMA lease (EduDma), and of the edu life cycle    *)
(* that composes it with the interrupt path (EduProbe).                    *)
(*                                                                         *)
(* The first part is about Spec of EduDma, for every lease, mask, size,    *)
(* request past the API and set of teardown steps that may fail.  The      *)
(* inductive invariant is IInv: the types, what a call in progress and its *)
(* answer say about dmad (CallInv), and what the driver's own record says  *)
(* about the lease (LeaseInv).                                             *)
(*                                                                         *)
(* The second is about ProbeSpec, for every line and every set of failing  *)
(* invocations of irqd too.  ProbeInv says for each step of the program    *)
(* what the thread, the binding, irqd, the device and dmad make of it.     *)
(***************************************************************************)
EXTENDS EduProbe, TLAPS

TornDown == ~lease_active /\ ~mapped /\ frameCap = "gone"

\* A driver in dma_free still holds the buffer, and is told it was accepted only
\* when everything is gone, and by its own request: had one past the API taken
\* the lease before, dmad would have refused.
CallInv ==
  /\ call = "idle" => dmaReply = "none"
  /\ call = "dma_free" => allocated
  /\ call = "dma_free" /\ dmaReply = "accepted" => TornDown /\ ~bypassed

\* A selected mask covers the whole lease, an allocation is one of the bound
\* device under such a mask, and an unused lease is still whole.
LeaseInv ==
  /\ LeaseIsTrue
  /\ selected_mask # 0 => LeaseAddr + LeaseSize - 1 <= selected_mask
                          /\ selected_mask <= SupportedMask
  /\ allocated => device = "shadow" /\ selected_mask # 0 /\ allocated_size <= LeaseSize

IInv == TypeOK /\ CallInv /\ LeaseInv

(* The lease is whole and nobody has it when the driver binds it.          *)
LEMMA InitIInv == Init => IInv
<1> SUFFICES ASSUME Init PROVE IInv
  OBVIOUS
<1>1. TypeOK
  BY TokenAssumption DEF Init, TypeOK, NoRequest, FreeTuple
<1>2. CallInv /\ LeaseInv
  BY DEF Init, CallInv, LeaseInv, LeaseIsTrue
<1>3. QED
  BY <1>1, <1>2 DEF IInv

(* Every step preserves the types.                                         *)
LEMMA TypeStep == TypeOK /\ [Next]_vars => TypeOK'
<1> SUFFICES ASSUME TypeOK, [Next]_vars PROVE TypeOK'
  OBVIOUS
<1> USE TokenAssumption, LeaseAssumption, DriverAssumption, RawAssumption
    DEF TypeOK, leaseVars, dmadVars, ipcVars
<1>1. CASE BindDevice
  BY <1>1 DEF BindDevice
<1>2. CASE UnbindDevice
  BY <1>2 DEF UnbindDevice
<1>3. CASE ProbeFails
  BY <1>3 DEF ProbeFails
<1>4. CASE \E dev \in Devices, mask \in Masks : SetMask(dev, mask)
  BY <1>4 DEF SetMask, MaskAccepted, Return
<1>5. CASE \E dev \in Devices, mask \in Masks : SetMaskInvalid(dev, mask)
  BY <1>5 DEF SetMaskInvalid, Return
<1>6. CASE \E dev \in Devices, size \in Sizes : AllocCoherent(dev, size)
  BY <1>6 DEF AllocCoherent, AllocAccepted, Devices, Return
<1>7. CASE \E dev \in Devices, size \in Sizes : AllocCoherentInvalid(dev, size)
  BY <1>7 DEF AllocCoherentInvalid, Return
<1>8. CASE \E dev \in Devices, size \in Sizes, handle \in Handles : FreeCoherent(dev, size, handle)
  BY <1>8 DEF FreeCoherent, FreeAccepted, FreeTuple, Handles
<1>9. CASE \E dev \in Devices, size \in Sizes, handle \in Handles : FreeCoherentInvalid(dev, size, handle)
  BY <1>9 DEF FreeCoherentInvalid, Return
<1>10. CASE \E tuple \in RawTuples : RawFree(tuple)
  BY <1>10 DEF RawFree, FreeTuple
<1>11. CASE FreeCoherentReturns
  BY <1>11 DEF FreeCoherentReturns
<1>12. CASE RawFreeReturns
  BY <1>12 DEF RawFreeReturns
<1>13. CASE DmadRejects
  BY <1>13 DEF DmadRejects, Waiting, NoRequest, FreeTuple
<1>14. CASE DmadReleases
  <2>1. NoRequest \in FreeTuple
    BY DEF NoRequest, FreeTuple
  <2>2. lease_active' \in BOOLEAN /\ mapped' \in BOOLEAN /\ bypassed' \in BOOLEAN
        /\ frameCap' \in {"whole", "childless", "gone"} /\ dmaReply' \in {"accepted", "rejected"}
    BY <1>14 DEF DmadReleases
  <2>3. dmaRequest' = NoRequest /\ UNCHANGED <<call, ret, token, leaseVars>>
    BY <1>14 DEF DmadReleases
  <2>4. QED
    BY <2>1, <2>2, <2>3
<1>15. CASE UNCHANGED vars
  BY <1>15 DEF vars
<1>16. QED
  BY <1>1, <1>2, <1>3, <1>4, <1>5, <1>6, <1>7, <1>8, <1>9, <1>10, <1>11, <1>12, <1>13, <1>14, <1>15 DEF Next, DriverCalls, DriverRuns, Dmad

(* A step leaves the driver, its request and dmad's answer in agreement.   *)
LEMMA CallStep == IInv /\ [Next]_vars => CallInv'
<1> SUFFICES ASSUME IInv, [Next]_vars PROVE CallInv'
  OBVIOUS
<1> USE TokenAssumption, LeaseAssumption, DriverAssumption, RawAssumption
    DEF TypeOK, leaseVars, dmadVars, ipcVars, IInv, CallInv, LeaseInv, LeaseIsTrue, TornDown
<1>1. CASE BindDevice
  BY <1>1 DEF BindDevice
<1>2. CASE UnbindDevice
  BY <1>2 DEF UnbindDevice
<1>3. CASE ProbeFails
  BY <1>3 DEF ProbeFails
<1>4. CASE \E dev \in Devices, mask \in Masks : SetMask(dev, mask)
  BY <1>4 DEF SetMask, MaskAccepted, Return
<1>5. CASE \E dev \in Devices, mask \in Masks : SetMaskInvalid(dev, mask)
  BY <1>5 DEF SetMaskInvalid, Return
<1>6. CASE \E dev \in Devices, size \in Sizes : AllocCoherent(dev, size)
  BY <1>6 DEF AllocCoherent, AllocAccepted, Devices, Return
<1>7. CASE \E dev \in Devices, size \in Sizes : AllocCoherentInvalid(dev, size)
  BY <1>7 DEF AllocCoherentInvalid, Return
<1>8. CASE \E dev \in Devices, size \in Sizes, handle \in Handles : FreeCoherent(dev, size, handle)
  BY <1>8 DEF FreeCoherent, FreeAccepted, FreeTuple, Handles
<1>9. CASE \E dev \in Devices, size \in Sizes, handle \in Handles : FreeCoherentInvalid(dev, size, handle)
  BY <1>9 DEF FreeCoherentInvalid, Return
<1>10. CASE \E tuple \in RawTuples : RawFree(tuple)
  BY <1>10 DEF RawFree, FreeTuple
<1>11. CASE FreeCoherentReturns
  BY <1>11 DEF FreeCoherentReturns
<1>12. CASE RawFreeReturns
  BY <1>12 DEF RawFreeReturns
<1>13. CASE DmadRejects
  BY <1>13 DEF DmadRejects, Waiting, NoRequest, FreeTuple
<1>14. CASE DmadReleases
  BY <1>14 DEF DmadReleases, Waiting, Releasable, NoRequest, FreeTuple
<1>15. CASE UNCHANGED vars
  BY <1>15 DEF vars
<1>16. QED
  BY <1>1, <1>2, <1>3, <1>4, <1>5, <1>6, <1>7, <1>8, <1>9, <1>10, <1>11, <1>12, <1>13, <1>14, <1>15 DEF Next, DriverCalls, DriverRuns, Dmad

(* A step keeps the driver's record of the lease true of dmad's.           *)
LEMMA LeaseStep == IInv /\ [Next]_vars => LeaseInv'
<1> SUFFICES ASSUME IInv, [Next]_vars PROVE LeaseInv'
  OBVIOUS
<1> USE TokenAssumption, LeaseAssumption, DriverAssumption, RawAssumption
    DEF TypeOK, leaseVars, dmadVars, ipcVars, IInv, CallInv, LeaseInv, LeaseIsTrue, TornDown
<1>1. CASE BindDevice
  BY <1>1 DEF BindDevice
<1>2. CASE UnbindDevice
  BY <1>2 DEF UnbindDevice
<1>3. CASE ProbeFails
  BY <1>3 DEF ProbeFails
<1>4. CASE \E dev \in Devices, mask \in Masks : SetMask(dev, mask)
  BY <1>4 DEF SetMask, MaskAccepted, Return
<1>5. CASE \E dev \in Devices, mask \in Masks : SetMaskInvalid(dev, mask)
  BY <1>5 DEF SetMaskInvalid, Return
<1>6. CASE \E dev \in Devices, size \in Sizes : AllocCoherent(dev, size)
  BY <1>6 DEF AllocCoherent, AllocAccepted, Devices, Return
<1>7. CASE \E dev \in Devices, size \in Sizes : AllocCoherentInvalid(dev, size)
  BY <1>7 DEF AllocCoherentInvalid, Return
<1>8. CASE \E dev \in Devices, size \in Sizes, handle \in Handles : FreeCoherent(dev, size, handle)
  BY <1>8 DEF FreeCoherent, FreeAccepted, FreeTuple, Handles
<1>9. CASE \E dev \in Devices, size \in Sizes, handle \in Handles : FreeCoherentInvalid(dev, size, handle)
  BY <1>9 DEF FreeCoherentInvalid, Return
<1>10. CASE \E tuple \in RawTuples : RawFree(tuple)
  BY <1>10 DEF RawFree, FreeTuple
<1>11. CASE FreeCoherentReturns
  BY <1>11 DEF FreeCoherentReturns
<1>12. CASE RawFreeReturns
  BY <1>12 DEF RawFreeReturns
<1>13. CASE DmadRejects
  BY <1>13 DEF DmadRejects, Waiting, NoRequest, FreeTuple
<1>14. CASE DmadReleases
  BY <1>14 DEF DmadReleases, Waiting, Releasable, NoRequest, FreeTuple
<1>15. CASE UNCHANGED vars
  BY <1>15 DEF vars
<1>16. QED
  BY <1>1, <1>2, <1>3, <1>4, <1>5, <1>6, <1>7, <1>8, <1>9, <1>10, <1>11, <1>12, <1>13, <1>14, <1>15 DEF Next, DriverCalls, DriverRuns, Dmad

(* The invariant is inductive.                                             *)
LEMMA IInvStep == IInv /\ [Next]_vars => IInv'
BY TypeStep, CallStep, LeaseStep DEF IInv

(* Every reachable state satisfies the invariant.                          *)
THEOREM Invariance == Spec => []IInv
BY InitIInv, IInvStep, PTL DEF Spec

(* Every variable keeps its type, whatever the driver calls.               *)
THEOREM TypeCorrect == Spec => []TypeOK
<1>1. IInv => TypeOK
  BY DEF IInv
<1>2. QED
  BY Invariance, <1>1, PTL

(* What the driver and dmad take the lease for is true of it, whichever    *)
(* teardown steps have failed and whatever was sent past the API, the      *)
(* driver's own token with any address and size included: of such a        *)
(* request the driver's record says nothing, but it never calls the lease  *)
(* revoked afterwards (dmad.c:63-93).                                      *)
THEOREM LeaseCorrect == Spec => []LeaseIsTrue
<1>1. IInv => LeaseIsTrue
  BY DEF IInv, LeaseInv
<1>2. QED
  BY Invariance, <1>1, PTL

(* The bytes of an allocation are all under the mask in force, whatever the *)
(* order of mask changes, failed probes and registrations.                 *)
THEOREM BufferCorrect == Spec => []BufferAddressable
<1>1. IInv => BufferAddressable
  BY LeaseAssumption, DriverAssumption
  DEF IInv, TypeOK, LeaseInv, BufferAddressable
<1>2. QED
  BY Invariance, <1>1, PTL

-----------------------------------------------------------------------------
(* The life cycle of the edu driver domain.                                *)

\* The steps the program reaches: no call before the release of the lease goes
\* wrong, so of the undo paths only the one of a lease that stays is left.
Path ==
  {"register", "enable", "mask", "forge", "request", "alloc", "dma_forge", "duplicate",
   "untrusted", "wide", "second", "dma_out", "wait_out", "dma_in", "wait_in", "raise",
   "wait_raise", "dma_free", "realloc", "remask", "activate", "remove", "disable",
   "unregister", "done", "probe_failed", "exit"}

\* The call of the current step has returned.
Ended == running /\ call = "idle"

Starts    == {"dma_out", "dma_in", "raise"}
Unleased  == {"register", "enable", "mask", "forge", "request"}
Leasing   == {"dma_forge", "duplicate", "untrusted", "wide", "second"} \cup Starts
               \cup DOMAIN Waits
Released  == {"realloc", "remask", "activate", "remove", "disable", "unregister", "done",
              "probe_failed", "exit"}
Probing   == {"enable", "mask", "forge", "request", "realloc", "remask", "alloc",
              "dma_free"} \cup Leasing
Unlined   == {"register", "enable", "mask", "forge"}
Unlining  == {"disable", "unregister", "done"}

\* The thread is inside the call its step makes, and the call that has returned
\* gave what the program wants; only dma_set_mask after the release shows
\* whether the lease is gone.
ThreadInv ==
  /\ step \in Path
  /\ step \in Final => ~running
  /\ ~running => call = "idle"
  /\ call # "idle" =>
       \/ call = "request" /\ step = "request"
       \/ call = "forge" /\ step = "forge"
       \/ call = "free" /\ step = "remove"
       \/ call = "dma_raw" /\ step = "dma_forge"
       \/ call = "dma_free" /\ step = "dma_free"
       \/ call \in {"wait", "read", "ack", "complete"} /\ step \in DOMAIN Waits
  /\ Ended /\ step # "remask" => Program[step].want \in {ret, "any"}
  /\ Ended /\ step = "remask" => (ret = "einval" <=> revoked)

\* The token is bound while the driver is being probed or is active.
BindInv ==
  /\ probing <=> \/ step \in Probing
                 \/ step = "register" /\ running
                 \/ step \in {"activate", "probe_failed"} /\ ~running
  /\ active <=> \/ step \in {"remove", "disable"}
                \/ step = "activate" /\ running
                \/ step = "unregister" /\ ~running
  /\ token = IF probing \/ active THEN Token ELSE 0
  /\ step = "done" \/ (step = "unregister" /\ running) => flags = {}

\* What irqd has registered is what the program has asked for so far.
RegisteredInv ==
  /\ registered_irq \in {0, Irq}
  /\ call \notin {"request", "free"} => (handler <=> registered_irq = Irq)
  /\ call = "request" => ~handler /\ (registered_irq = Irq <=> reply = "accepted")
  /\ call = "free" => handler /\ (registered_irq = 0 <=> reply = "accepted")
  /\ call \in {"request", "forge"} => reply # (IF call = "forge" THEN "accepted" ELSE "rejected")
  /\ step \in Unlined \/ (step = "request" /\ ~running) => ~handler
  /\ \/ handler
     \/ call # "idle" /\ step = "request"
     \/ step \in Unlined \cup Unlining
     \/ step = "request" /\ ~running
     \/ step = "remove" /\ running
  /\ step \in Unlining \/ (step = "remove" /\ Ended) => (handler => failed)
  /\ call = "free" /\ reply = "rejected" => failed
  /\ drvCap <=> ~(registered_irq = 0 /\ (step \in Unlining \/ (step = "remove" /\ running)))

\* A control call has its badge with irqd, still pending or being served, until
\* it has its answer; nothing else brings irqd to serve a badge.
ControlInv ==
  /\ reply \in {"none", "accepted", "rejected"}
  /\ call \in {"request", "free", "forge"} /\ reply = "none" =>
       /\ request.kind = (IF call = "free" THEN "unregister" ELSE "register")
       /\ request.irq = Irq
       /\ request.token = Token <=> call # "forge"
       /\ request # I!NoMessage
       /\ \/ irqd = "control" /\ todo = {request.kind} /\ ~ntfn.active /\ ntfn.badges = {}
          \/ irqd \in {"wait", "ack"} /\ todo = {} /\ ntfn.active /\ ntfn.badges = {request.kind}
  /\ call \notin {"request", "free", "forge"} \/ reply # "none" =>
       /\ irqd # "control" /\ todo = {} /\ ntfn.badges = {}
  /\ call \notin {"request", "free", "forge"} => reply = "none"
  /\ reply # "none" => ~ntfn.active
  /\ ntfn \in [active : BOOLEAN, badges : SUBSET {"register", "unregister"}]

\* The program expects an interrupt: it has started what raises one, and its
\* handler has not acknowledged it yet.
Expecting ==
  \/ step \in Starts /\ running
  \/ step \in DOMAIN Waits /\ ~Ended /\ call # "complete"

Expected == IF step \in {"raise", "wait_raise"} THEN "factorial" ELSE "dma"

\* The interrupt expected is the only one there is, and one agent has it: the
\* device, the notification of irqd, irqd, the driver's, or its handler.
DeliveryInv ==
  /\ irqd \in {"wait", "control", "hardware", "complete", "ack"}
  /\ status = IF Expecting /\ ~dmaBusy THEN {Expected} ELSE {}
  /\ dmaBusy => Expecting /\ Expected = "dma"
  /\ call = "ack" \/ (step \in DOMAIN Waits /\ running /\ call \in {"complete", "idle"}) =>
       last_status = {Expected}
  /\ ntfn.active /\ ntfn.badges = {} =>
       irqd = "wait" /\ masked /\ status # {} /\ ~drvNtfn /\ call \in {"idle", "wait"}
  /\ irqd = "hardware" => masked /\ status # {} /\ ~drvNtfn /\ call \in {"idle", "wait"}
  /\ irqd = "complete" => masked /\ (drvNtfn \/ call \in {"read", "ack", "complete"})
  /\ irqd = "ack" => masked /\ ~drvNtfn
  /\ drvNtfn => irqd = "complete" /\ status # {} /\ call \in {"idle", "wait"}
  /\ call \in {"read", "ack", "complete"} => irqd = "complete" /\ ~drvNtfn /\ ~dmaBusy
  /\ completion = "good"
  /\ masked => \/ failed
               \/ ntfn.active /\ ntfn.badges = {}
               \/ irqd \in {"hardware", "complete", "ack"}

\* The lease is whole until its release and, unless dmad has refused or failed
\* a step, torn down after it, and both sides say so.
HeldInv ==
  /\ device = IF step \in {"done", "exit"} \/ (step \in {"unregister", "probe_failed"} /\ running)
                 \/ (step = "register" /\ ~running)
              THEN (IF allocated THEN "shadow" ELSE "null") ELSE "shadow"
  /\ selected_mask =
       IF step \in {"register", "enable"} \/ (step = "mask" /\ ~running)
          \/ ((step = "done" \/ (step = "unregister" /\ running)) /\ ~allocated)
       THEN 0 ELSE SupportedMask
  /\ step \in Unleased \/ (step = "alloc" /\ ~running) => ~allocated
  /\ step \in Leasing \/ (step = "alloc" /\ running) \/ (step = "dma_free" /\ ~Ended) => allocated
  /\ step \in Released \/ (step = "dma_free" /\ Ended) => (allocated <=> ~revoked)
  /\ allocated => ~revoked /\ allocated_size = LeaseSize
  /\ revoked => step \in Released \/ (step = "dma_free" /\ Ended)
  /\ revoked => ~lease_active /\ ~mapped /\ frameCap = "gone"
  /\ step \in Released \/ (step = "dma_free" /\ Ended) => revoked \/ failed
  /\ step \notin Released \cup {"dma_free"} => lease_active /\ mapped

\* What dmad has answered is true: accepted only a whole teardown, refused only
\* a forged request or over a step that failed.
ReleaseInv ==
  /\ dmaReply \in {"none", "accepted", "rejected"}
  /\ mapped \in BOOLEAN
  /\ call \notin {"dma_raw", "dma_free"} => dmaReply = "none"
  /\ call = "dma_raw" => dmaRequest.token # Token /\ dmaReply # "accepted"
  /\ call = "dma_free" /\ dmaReply = "none" =>
       /\ dmaRequest = [token |-> Token, addr |-> LeaseAddr, size |-> LeaseSize]
       /\ lease_active
  /\ call = "dma_free" /\ dmaReply = "accepted" =>
       ~lease_active /\ ~mapped /\ frameCap = "gone"
  /\ call = "dma_free" /\ dmaReply = "rejected" => failed
  /\ step = "dma_free" /\ ~running => lease_active /\ mapped

ProbeInv ==
  /\ ThreadInv /\ BindInv /\ RegisteredInv /\ ControlInv
  /\ DeliveryInv /\ HeldInv /\ ReleaseInv

(* The rows of the program on its path (edu_kapi_probe.c:220-376).         *)
LEMMA Rows ==
  /\ Program["register"] = Call("register", "any", {"enable"}, {"exit"})
  /\ Program["enable"] = Call("enable", "ok", {"mask"}, {"undo_pci"})
  /\ Program["mask"] = Call("mask", "ok", {"forge"}, {"undo_pci"})
  /\ Program["forge"] = Call("forge", "ok", {"request"}, {"undo_pci"})
  /\ Program["request"] = Call("request", "ok", {"alloc"}, {"undo_pci"})
  /\ Program["alloc"] = Call("alloc", "ok", {"dma_forge"}, {"undo_irq"})
  /\ Program["dma_forge"] = Call("dma_forge", "ok", {"duplicate"}, {"undo_dma"})
  /\ Program["duplicate"] = Call("request", "einval", {"untrusted"}, {"undo_dma"})
  /\ Program["untrusted"] = Call("untrusted", "einval", {"wide"}, {"undo_dma"})
  /\ Program["wide"] = Call("wide", "einval", {"second"}, {"undo_dma"})
  /\ Program["second"] = Call("alloc", "einval", {"dma_out", "dma_free"}, {"undo_dma"})
  /\ Program["dma_out"] = Call("start_dma", "any", {"wait_out"}, {"raise"})
  /\ Program["wait_out"] = Call("dispatch", "ok", {"dma_in"}, {"raise"})
  /\ Program["dma_in"] = Call("start_dma", "any", {"wait_in"}, {"raise"})
  /\ Program["wait_in"] = Call("dispatch", "ok", {"raise"}, {"raise"})
  /\ Program["raise"] = Call("raise", "any", {"wait_raise"}, {"wait_raise"})
  /\ Program["wait_raise"] = Call("dispatch", "ok", {"dma_free"}, {"dma_free"})
  /\ Program["dma_free"] = Call("dma_free", "ok", {"realloc"}, {"realloc"})
  /\ Program["realloc"] = Call("alloc", "einval", {"remask"}, {"probe_failed"})
  /\ Program["remask"] = Call("mask", "einval", {"activate"}, {"probe_failed"})
  /\ Program["activate"] = Call("activate", "ok", {"remove"}, {"remove"})
  /\ Program["remove"] = Call("free_irq", "ok", {"disable"}, {"disable"})
  /\ Program["disable"] = Call("disable", "ok", {"unregister"}, {"unregister"})
  /\ Program["unregister"] = Call("unregister", "any", {"done"}, {"done"})
  /\ Program["probe_failed"] = Call("probe_failed", "any", {"exit"}, {"exit"})
BY DEF Program

(* The fields of a row.                                                    *)
LEMMA Fields ==
  \A op, want, good, bad :
    /\ Call(op, want, good, bad).op = op
    /\ Call(op, want, good, bad).want = want
    /\ Call(op, want, good, bad).good = good
    /\ Call(op, want, good, bad).bad = bad
BY DEF Call

(* The steps that wait for an interrupt.                                   *)
LEMMA WaitSteps == DOMAIN Waits = {"wait_out", "wait_in", "wait_raise"}
BY DEF Waits

(* What the program wants of each call on its path.                        *)
LEMMA Wants ==
  /\ \A s \in {"register", "dma_out", "dma_in", "raise", "unregister",
            "probe_failed"} :
       Program[s].want = "any"
  /\ \A s \in {"duplicate", "untrusted", "wide", "second", "realloc", "remask"} :
       Program[s].want = "einval"
  /\ \A s \in {"enable", "mask", "forge", "request", "alloc", "dma_forge",
            "wait_out", "wait_in", "wait_raise", "dma_free",
            "activate", "remove", "disable"} :
       Program[s].want = "ok"
BY Rows, Fields

(* The operation of each step on the path.                                 *)
LEMMA Ops ==
  /\ step = "register" => Program[step].op = "register"
  /\ step = "enable" => Program[step].op = "enable"
  /\ step \in {"mask", "remask"} => Program[step].op = "mask"
  /\ step = "forge" => Program[step].op = "forge"
  /\ step \in {"request", "duplicate"} => Program[step].op = "request"
  /\ step \in {"alloc", "second", "realloc"} => Program[step].op = "alloc"
  /\ step = "dma_forge" => Program[step].op = "dma_forge"
  /\ step = "untrusted" => Program[step].op = "untrusted"
  /\ step = "wide" => Program[step].op = "wide"
  /\ step \in {"dma_out", "dma_in"} => Program[step].op = "start_dma"
  /\ step \in {"wait_out", "wait_in", "wait_raise"} => Program[step].op = "dispatch"
  /\ step = "raise" => Program[step].op = "raise"
  /\ step = "dma_free" => Program[step].op = "dma_free"
  /\ step = "activate" => Program[step].op = "activate"
  /\ step = "remove" => Program[step].op = "free_irq"
  /\ step = "disable" => Program[step].op = "disable"
  /\ step = "unregister" => Program[step].op = "unregister"
  /\ step = "probe_failed" => Program[step].op = "probe_failed"
BY Rows, Fields

(* The guards of the calls the program makes, decided: what it wants to be  *)
(* refused is refused, and the rest is not, but that dma_set_mask after the *)
(* release is refused only if the lease is gone.                           *)
LEMMA Guards ==
  ASSUME ProbeInv, ~running
  PROVE  /\ step = "request" => I!RequestIrqGuard
         /\ step \in {"duplicate"} \cup DOMAIN Waits => ~I!RequestIrqGuard /\ handler
         /\ step = "remove" => I!FreeIrqGuard
         /\ step = "mask" => MaskAccepted("shadow", SupportedMask)
         /\ step = "remask" => (MaskAccepted("shadow", SupportedMask) <=> ~revoked)
         /\ step = "untrusted" => ~MaskAccepted("other", SupportedMask)
         /\ step = "wide" => ~MaskAccepted("shadow", SupportedMask + 1)
         /\ step = "alloc" => AllocAccepted("shadow", LeaseSize)
         /\ step \in {"second", "realloc"} => ~AllocAccepted("shadow", LeaseSize)
         /\ step = "dma_free" => FreeAccepted("shadow", LeaseSize, LeaseAddr)
<1> USE LeaseAssumption, TokenAssumption, WaitSteps DEF ProbeInv
<1>1. step \notin {"register", "done", "exit"} => device = "shadow" /\ token = Token
  BY DEF HeldInv, BindInv, ThreadInv, Path, Probing, Leasing, Starts
<1>2. /\ step = "request" => ~handler
      /\ step \in {"duplicate", "remove"} \cup DOMAIN Waits => handler
  BY DEF ThreadInv, RegisteredInv, Unlined, Unlining
<1>3. /\ step \in {"mask", "alloc"} => ~revoked /\ ~allocated
      /\ step \in {"second", "dma_free"} => allocated
      /\ step = "realloc" => allocated \/ revoked
  BY DEF HeldInv, Leasing, Released, Starts, Unleased, Ended
<1>4. /\ step = "alloc" => selected_mask # 0
      /\ step = "dma_free" => allocated_size = LeaseSize
  BY <1>3 DEF HeldInv
<1>5. /\ step = "request" => I!RequestIrqGuard
      /\ step \in {"duplicate"} \cup DOMAIN Waits => ~I!RequestIrqGuard /\ handler
      /\ step = "remove" => I!FreeIrqGuard
  BY <1>1, <1>2 DEF I!RequestIrqGuard, I!FreeIrqGuard
<1>6. /\ step = "mask" => MaskAccepted("shadow", SupportedMask)
      /\ step = "remask" => (MaskAccepted("shadow", SupportedMask) <=> ~revoked)
      /\ step = "untrusted" => ~MaskAccepted("other", SupportedMask)
      /\ step = "wide" => ~MaskAccepted("shadow", SupportedMask + 1)
  BY <1>1, <1>3 DEF MaskAccepted
<1>7. /\ step = "alloc" => AllocAccepted("shadow", LeaseSize)
      /\ step \in {"second", "realloc"} => ~AllocAccepted("shadow", LeaseSize)
      /\ step = "dma_free" => FreeAccepted("shadow", LeaseSize, LeaseAddr)
  BY <1>1, <1>3, <1>4 DEF AllocAccepted, FreeAccepted
<1>8. QED
  BY <1>5, <1>6, <1>7

(* The call each step on the path makes.                                   *)
LEMMA BeginCases ==
  ASSUME ProbeInv, Begin
  PROVE  /\ ~running /\ call = "idle"
         /\ running' /\ step' = step /\ failed' = failed
         /\ \/ step = "register" /\ PciRegister
            \/ step = "enable" /\ PciEnable
            \/ step = "disable" /\ PciDisable
            \/ step = "activate" /\ PciActivate
            \/ step = "probe_failed" /\ PciProbeFailed
            \/ step = "unregister" /\ PciUnregister
            \/ step = "forge" /\ IrqCall(I!ForgedRegister)
            \/ step = "request" /\ IrqCall(I!RequestIrq)
            \/ step = "duplicate" /\ IrqCall(I!RequestIrqInvalid)
            \/ step = "remove" /\ IrqCall(I!FreeIrq)
            \/ step \in DOMAIN Waits /\ IrqCall(I!Dispatch)
            \/ step \in {"dma_out", "dma_in"} /\ IrqCall(I!StartDma)
            \/ step = "raise" /\ IrqCall(I!RaiseIrq)
            \/ step = "mask" /\ DmaCall(SetMask("shadow", SupportedMask))
            \/ step = "remask" /\ ~revoked /\ DmaCall(SetMask("shadow", SupportedMask))
            \/ step = "remask" /\ revoked /\ DmaCall(SetMaskInvalid("shadow", SupportedMask))
            \/ step = "untrusted" /\ DmaCall(SetMaskInvalid("other", SupportedMask))
            \/ step = "wide" /\ DmaCall(SetMaskInvalid("shadow", SupportedMask + 1))
            \/ step = "alloc" /\ DmaCall(AllocCoherent("shadow", LeaseSize))
            \/ step \in {"second", "realloc"} /\ DmaCall(AllocCoherentInvalid("shadow", LeaseSize))
            \/ step = "dma_forge" /\ DmaCall(RawFree(ForgedFree))
            \/ step = "dma_free" /\ DmaCall(FreeCoherent("shadow", LeaseSize, LeaseAddr))
<1>1. /\ ~running /\ call = "idle"
      /\ running' /\ step' = step /\ failed' = failed
      /\ step \in Path \ Final
      /\ Perform(Program[step].op)
  BY DEF ProbeInv, ThreadInv, Begin
<1> USE <1>1, Ops, WaitSteps DEF Perform
<1>2. CASE step = "register"
  BY <1>2
<1>3. CASE step = "enable"
  BY <1>3
<1>4. CASE step = "disable"
  BY <1>4
<1>5. CASE step = "activate"
  BY <1>5
<1>6. CASE step = "probe_failed"
  BY <1>6
<1>7. CASE step = "unregister"
  BY <1>7
<1>8. CASE step = "forge"
  BY <1>8
<1>9. CASE step = "request"
  BY <1>9, Guards DEF IrqCall, I!RequestIrqInvalid
<1>10. CASE step = "duplicate"
  BY <1>10, Guards DEF IrqCall, I!RequestIrq
<1>11. CASE step = "remove"
  BY <1>11, Guards DEF IrqCall, I!FreeIrqInvalid
<1>12. CASE step \in DOMAIN Waits
  BY <1>12, Guards DEF IrqCall, I!DispatchInvalid
<1>13. CASE step \in {"dma_out", "dma_in"}
  BY <1>13
<1>14. CASE step = "raise"
  BY <1>14
<1>15. CASE step = "mask"
  BY <1>15, Guards DEF DmaCall, SetMaskInvalid
<1>16. CASE step = "remask"
  BY <1>16, Guards DEF DmaCall, SetMask, SetMaskInvalid
<1>17. CASE step = "untrusted"
  BY <1>17, Guards DEF DmaCall, SetMask
<1>18. CASE step = "wide"
  BY <1>18, Guards DEF DmaCall, SetMask
<1>19. CASE step = "alloc"
  BY <1>19, Guards DEF DmaCall, AllocCoherentInvalid
<1>20. CASE step \in {"second", "realloc"}
  BY <1>20, Guards DEF DmaCall, AllocCoherent
<1>21. CASE step = "dma_forge"
  BY <1>21
<1>22. CASE step = "dma_free"
  BY <1>22, Guards DEF DmaCall, FreeCoherentInvalid
<1>23. QED
  BY <1>2, <1>3, <1>4, <1>5, <1>6, <1>7, <1>8, <1>9, <1>10, <1>11, <1>12, <1>13, <1>14, <1>15, <1>16, <1>17, <1>18, <1>19, <1>20, <1>21, <1>22 DEF Path, Final

(* Where each step on the path leads: the check before the activation alone *)
(* can go either way, and it asks whether the lease is gone.               *)
LEMMA AdvanceCases ==
  ASSUME ThreadInv, DeliveryInv, Advance
  PROVE  /\ Ended
         /\ ~running'
         /\ UNCHANGED <<threadVars, token, irqVars, dmaVars, pciVars, failed>>
         /\ \/ step = "register" /\ step' = "enable"
            \/ step = "enable" /\ step' = "mask"
            \/ step = "mask" /\ step' = "forge"
            \/ step = "forge" /\ step' = "request"
            \/ step = "request" /\ step' = "alloc"
            \/ step = "alloc" /\ step' = "dma_forge"
            \/ step = "dma_forge" /\ step' = "duplicate"
            \/ step = "duplicate" /\ step' = "untrusted"
            \/ step = "untrusted" /\ step' = "wide"
            \/ step = "wide" /\ step' = "second"
            \/ step = "second" /\ step' \in {"dma_out", "dma_free"}
            \/ step = "dma_out" /\ step' = "wait_out"
            \/ step = "wait_out" /\ step' = "dma_in"
            \/ step = "dma_in" /\ step' = "wait_in"
            \/ step = "wait_in" /\ step' = "raise"
            \/ step = "raise" /\ step' = "wait_raise"
            \/ step = "wait_raise" /\ step' = "dma_free"
            \/ step = "dma_free" /\ step' = "realloc"
            \/ step = "realloc" /\ step' = "remask"
            \/ step = "remask" /\ step' = (IF revoked THEN "activate" ELSE "probe_failed")
            \/ step = "activate" /\ step' = "remove"
            \/ step = "remove" /\ step' = "disable"
            \/ step = "disable" /\ step' = "unregister"
            \/ step = "unregister" /\ step' = "done"
            \/ step = "probe_failed" /\ step' = "exit"
<1>1. /\ Ended /\ ~running' /\ step \in Path \ Final
      /\ UNCHANGED <<threadVars, token, irqVars, dmaVars, pciVars, failed>>
      /\ step' \in IF Passed THEN Program[step].good ELSE Program[step].bad
  BY DEF ThreadInv, Advance, Ended
<1>2. step # "remask" => Program[step].want \in {ret, "any"}
  BY <1>1 DEF ThreadInv
<1>3. ASSUME step \in DOMAIN Waits
      PROVE  Waits[step] \in last_status /\ ~dmaBusy
  BY <1>1, <1>3, WaitSteps DEF DeliveryInv, Expecting, Expected, Ended, Waits, Starts
<1>4. step # "remask" => Passed
  BY <1>2, <1>3, WaitSteps DEF Passed
<1>5. step = "remask" => (Passed <=> revoked)
  <2>1. SUFFICES ASSUME step = "remask" PROVE Passed <=> revoked
    OBVIOUS
  <2>2. Program[step].want = "einval" /\ step \notin DOMAIN Waits
    BY <2>1, Wants, WaitSteps
  <2>3. ret = "einval" <=> revoked
    BY <1>1, <2>1 DEF ThreadInv
  <2>4. QED
    BY <2>1, <2>2, <2>3 DEF Passed
<1>6. CASE step = "register"
  <2>1. Program[step].good = {"enable"} /\ Program[step].bad = {"exit"}
    BY <1>6, Rows, Fields
  <2>2. QED
    BY <1>1, <1>4, <1>5, <1>6, <2>1
<1>7. CASE step = "enable"
  <2>1. Program[step].good = {"mask"} /\ Program[step].bad = {"undo_pci"}
    BY <1>7, Rows, Fields
  <2>2. QED
    BY <1>1, <1>4, <1>5, <1>7, <2>1
<1>8. CASE step = "mask"
  <2>1. Program[step].good = {"forge"} /\ Program[step].bad = {"undo_pci"}
    BY <1>8, Rows, Fields
  <2>2. QED
    BY <1>1, <1>4, <1>5, <1>8, <2>1
<1>9. CASE step = "forge"
  <2>1. Program[step].good = {"request"} /\ Program[step].bad = {"undo_pci"}
    BY <1>9, Rows, Fields
  <2>2. QED
    BY <1>1, <1>4, <1>5, <1>9, <2>1
<1>10. CASE step = "request"
  <2>1. Program[step].good = {"alloc"} /\ Program[step].bad = {"undo_pci"}
    BY <1>10, Rows, Fields
  <2>2. QED
    BY <1>1, <1>4, <1>5, <1>10, <2>1
<1>11. CASE step = "alloc"
  <2>1. Program[step].good = {"dma_forge"} /\ Program[step].bad = {"undo_irq"}
    BY <1>11, Rows, Fields
  <2>2. QED
    BY <1>1, <1>4, <1>5, <1>11, <2>1
<1>12. CASE step = "dma_forge"
  <2>1. Program[step].good = {"duplicate"} /\ Program[step].bad = {"undo_dma"}
    BY <1>12, Rows, Fields
  <2>2. QED
    BY <1>1, <1>4, <1>5, <1>12, <2>1
<1>13. CASE step = "duplicate"
  <2>1. Program[step].good = {"untrusted"} /\ Program[step].bad = {"undo_dma"}
    BY <1>13, Rows, Fields
  <2>2. QED
    BY <1>1, <1>4, <1>5, <1>13, <2>1
<1>14. CASE step = "untrusted"
  <2>1. Program[step].good = {"wide"} /\ Program[step].bad = {"undo_dma"}
    BY <1>14, Rows, Fields
  <2>2. QED
    BY <1>1, <1>4, <1>5, <1>14, <2>1
<1>15. CASE step = "wide"
  <2>1. Program[step].good = {"second"} /\ Program[step].bad = {"undo_dma"}
    BY <1>15, Rows, Fields
  <2>2. QED
    BY <1>1, <1>4, <1>5, <1>15, <2>1
<1>16. CASE step = "second"
  <2>1. Program[step].good = {"dma_out", "dma_free"} /\ Program[step].bad = {"undo_dma"}
    BY <1>16, Rows, Fields
  <2>2. QED
    BY <1>1, <1>4, <1>5, <1>16, <2>1
<1>17. CASE step = "dma_out"
  <2>1. Program[step].good = {"wait_out"} /\ Program[step].bad = {"raise"}
    BY <1>17, Rows, Fields
  <2>2. QED
    BY <1>1, <1>4, <1>5, <1>17, <2>1
<1>18. CASE step = "wait_out"
  <2>1. Program[step].good = {"dma_in"} /\ Program[step].bad = {"raise"}
    BY <1>18, Rows, Fields
  <2>2. QED
    BY <1>1, <1>4, <1>5, <1>18, <2>1
<1>19. CASE step = "dma_in"
  <2>1. Program[step].good = {"wait_in"} /\ Program[step].bad = {"raise"}
    BY <1>19, Rows, Fields
  <2>2. QED
    BY <1>1, <1>4, <1>5, <1>19, <2>1
<1>20. CASE step = "wait_in"
  <2>1. Program[step].good = {"raise"} /\ Program[step].bad = {"raise"}
    BY <1>20, Rows, Fields
  <2>2. QED
    BY <1>1, <1>4, <1>5, <1>20, <2>1
<1>21. CASE step = "raise"
  <2>1. Program[step].good = {"wait_raise"} /\ Program[step].bad = {"wait_raise"}
    BY <1>21, Rows, Fields
  <2>2. QED
    BY <1>1, <1>4, <1>5, <1>21, <2>1
<1>22. CASE step = "wait_raise"
  <2>1. Program[step].good = {"dma_free"} /\ Program[step].bad = {"dma_free"}
    BY <1>22, Rows, Fields
  <2>2. QED
    BY <1>1, <1>4, <1>5, <1>22, <2>1
<1>23. CASE step = "dma_free"
  <2>1. Program[step].good = {"realloc"} /\ Program[step].bad = {"realloc"}
    BY <1>23, Rows, Fields
  <2>2. QED
    BY <1>1, <1>4, <1>5, <1>23, <2>1
<1>24. CASE step = "realloc"
  <2>1. Program[step].good = {"remask"} /\ Program[step].bad = {"probe_failed"}
    BY <1>24, Rows, Fields
  <2>2. QED
    BY <1>1, <1>4, <1>5, <1>24, <2>1
<1>25. CASE step = "remask"
  <2>1. Program[step].good = {"activate"} /\ Program[step].bad = {"probe_failed"}
    BY <1>25, Rows, Fields
  <2>2. QED
    BY <1>1, <1>4, <1>5, <1>25, <2>1
<1>26. CASE step = "activate"
  <2>1. Program[step].good = {"remove"} /\ Program[step].bad = {"remove"}
    BY <1>26, Rows, Fields
  <2>2. QED
    BY <1>1, <1>4, <1>5, <1>26, <2>1
<1>27. CASE step = "remove"
  <2>1. Program[step].good = {"disable"} /\ Program[step].bad = {"disable"}
    BY <1>27, Rows, Fields
  <2>2. QED
    BY <1>1, <1>4, <1>5, <1>27, <2>1
<1>28. CASE step = "disable"
  <2>1. Program[step].good = {"unregister"} /\ Program[step].bad = {"unregister"}
    BY <1>28, Rows, Fields
  <2>2. QED
    BY <1>1, <1>4, <1>5, <1>28, <2>1
<1>29. CASE step = "unregister"
  <2>1. Program[step].good = {"done"} /\ Program[step].bad = {"done"}
    BY <1>29, Rows, Fields
  <2>2. QED
    BY <1>1, <1>4, <1>5, <1>29, <2>1
<1>30. CASE step = "probe_failed"
  <2>1. Program[step].good = {"exit"} /\ Program[step].bad = {"exit"}
    BY <1>30, Rows, Fields
  <2>2. QED
    BY <1>1, <1>4, <1>5, <1>30, <2>1
<1>31. QED
  BY <1>1, <1>6, <1>7, <1>8, <1>9, <1>10, <1>11, <1>12, <1>13, <1>14, <1>15, <1>16, <1>17, <1>18, <1>19, <1>20, <1>21, <1>22, <1>23, <1>24, <1>25, <1>26, <1>27, <1>28, <1>29, <1>30 DEF Path, Final

(* dmad accepts only a whole teardown (dmad.c:56-95).                      *)
LEMMA DmadAnswers ==
  mapped \in BOOLEAN /\ DmadReleases =>
    /\ ~lease_active' /\ mapped' \in BOOLEAN
    /\ dmaReply' \in {"accepted", "rejected"}
    /\ dmaReply' = "accepted" => ~mapped' /\ frameCap' = "gone"
<1> SUFFICES ASSUME mapped \in BOOLEAN, DmadReleases
             PROVE  /\ ~lease_active' /\ mapped' \in BOOLEAN
                    /\ dmaReply' \in {"accepted", "rejected"}
                    /\ dmaReply' = "accepted" => ~mapped' /\ frameCap' = "gone"
  OBVIOUS
<1>1. PICK done \in 0..3 :
        /\ mapped' = (mapped /\ done = 0)
        /\ frameCap' = IF done = 3 THEN "gone" ELSE IF done = 2 THEN "childless" ELSE frameCap
        /\ dmaReply' = IF done = 3 THEN "accepted" ELSE "rejected"
  BY DEF DmadReleases
<1>2. ~lease_active'
  BY DEF DmadReleases
<1>3. CASE done = 3
  <2>1. ~(done = 0)
    BY <1>3
  <2>2. ~mapped'
    BY <1>1, <2>1, Zenon
  <2>3. QED
    BY <1>1, <1>2, <1>3, <2>2
<1>4. CASE done # 3
  BY <1>1, <1>2, <1>4
<1>5. QED
  BY <1>3, <1>4

(* Every step leaves the thread in the call of its step, and a returned    *)
(* call with the result the program wants (edu_kapi_probe.c:220-327).      *)
LEMMA ThreadStep == ProbeInv /\ [ProbeNext]_probeVars => ThreadInv'
<1> SUFFICES ASSUME ProbeInv, [ProbeNext]_probeVars PROVE ThreadInv'
  OBVIOUS
<1> USE LineAssumption, TokenAssumption, WaitSteps DEF ProbeInv, ThreadInv, BindInv,
        RegisteredInv, ControlInv, DeliveryInv, HeldInv, ReleaseInv, Path, Final, Ended,
        Starts, Unleased, Leasing, Released, Probing, Unlined, Unlining, Expecting,
        Expected, irqVars, dmaVars, pciVars, threadVars, leaseVars, dmadVars, ipcVars,
        I!irqdVars, I!controlVars, I!kapiVars, I!driverVars, I!drvNtfnVars,
        I!deviceVars, I!kernelVars, I!MayCall, I!Outstanding, programVars,
        I!IrqAssumption, I!NoMessage
<1>1. CASE Begin
  <2>0. /\ ~running /\ call = "idle"
        /\ running' /\ step' = step /\ failed' = failed
    BY <1>1, BeginCases
  <2>1. CASE step = "register" /\ PciRegister
    BY <2>0, <2>1, Wants DEF PciRegister, BindDevice
  <2>2. CASE step = "enable" /\ PciEnable
    BY <2>0, <2>2, Wants DEF PciEnable
  <2>3. CASE step = "disable" /\ PciDisable
    BY <2>0, <2>3, Wants DEF PciDisable
  <2>4. CASE step = "activate" /\ PciActivate
    BY <2>0, <2>4, Wants DEF PciActivate
  <2>5. CASE step = "probe_failed" /\ PciProbeFailed
    BY <2>0, <2>5, Wants DEF PciProbeFailed, ProbeFails
  <2>6. CASE step = "unregister" /\ PciUnregister
    BY <2>0, <2>6, Wants DEF PciUnregister, UnbindDevice
  <2>7. CASE step = "forge" /\ IrqCall(I!ForgedRegister)
    BY <2>0, <2>7, Wants DEF IrqCall, I!ForgedRegister, I!Control
  <2>8. CASE step = "request" /\ IrqCall(I!RequestIrq)
    BY <2>0, <2>8, Wants DEF IrqCall, I!RequestIrq, I!RequestIrqGuard, I!Control
  <2>9. CASE step = "duplicate" /\ IrqCall(I!RequestIrqInvalid)
    BY <2>0, <2>9, Wants DEF IrqCall, I!RequestIrqInvalid, I!RequestIrqGuard, I!Control
  <2>10. CASE step = "remove" /\ IrqCall(I!FreeIrq)
    BY <2>0, <2>10, Wants DEF IrqCall, I!FreeIrq, I!FreeIrqGuard, I!Control
  <2>11. CASE step \in DOMAIN Waits /\ IrqCall(I!Dispatch)
    BY <2>0, <2>11, Wants DEF IrqCall, I!Dispatch
  <2>12. CASE step \in {"dma_out", "dma_in"} /\ IrqCall(I!StartDma)
    BY <2>0, <2>12, Wants DEF IrqCall, I!StartDma
  <2>13. CASE step = "raise" /\ IrqCall(I!RaiseIrq)
    BY <2>0, <2>13, Wants DEF IrqCall, I!RaiseIrq
  <2>14. CASE step = "mask" /\ DmaCall(SetMask("shadow", SupportedMask))
    BY <2>0, <2>14, Wants DEF DmaCall, SetMask, MaskAccepted, Return
  <2>15. CASE step = "remask" /\ ~revoked /\ DmaCall(SetMask("shadow", SupportedMask))
    BY <2>0, <2>15, Wants DEF DmaCall, SetMask, MaskAccepted, Return
  <2>16. CASE step = "remask" /\ revoked /\ DmaCall(SetMaskInvalid("shadow",
       SupportedMask))
    BY <2>0, <2>16, Wants DEF DmaCall, SetMaskInvalid, Return
  <2>17. CASE step = "untrusted" /\ DmaCall(SetMaskInvalid("other", SupportedMask))
    BY <2>0, <2>17, Wants DEF DmaCall, SetMaskInvalid, Return
  <2>18. CASE step = "wide" /\ DmaCall(SetMaskInvalid("shadow", SupportedMask + 1))
    BY <2>0, <2>18, Wants DEF DmaCall, SetMaskInvalid, Return
  <2>19. CASE step = "alloc" /\ DmaCall(AllocCoherent("shadow", LeaseSize))
    BY <2>0, <2>19, Wants DEF DmaCall, AllocCoherent, AllocAccepted, Return
  <2>20. CASE step \in {"second", "realloc"} /\ DmaCall(AllocCoherentInvalid("shadow",
       LeaseSize))
    BY <2>0, <2>20, Wants DEF DmaCall, AllocCoherentInvalid, Return
  <2>21. CASE step = "dma_forge" /\ DmaCall(RawFree(ForgedFree))
    BY <2>0, <2>21, Wants DEF DmaCall, RawFree
  <2>22. CASE step = "dma_free" /\ DmaCall(FreeCoherent("shadow", LeaseSize, LeaseAddr))
    BY <2>0, <2>22, Wants DEF DmaCall, FreeCoherent, FreeAccepted
  <2>23. QED
    BY <1>1, BeginCases, <2>1, <2>2, <2>3, <2>4, <2>5, <2>6, <2>7, <2>8, <2>9, <2>10,
       <2>11, <2>12, <2>13, <2>14, <2>15, <2>16, <2>17, <2>18, <2>19, <2>20, <2>21,
       <2>22
<1>2. CASE Advance
  BY <1>2, AdvanceCases, Wants
<1>3. CASE I!RequestIrqReturns /\ InsideIrqCall
  BY <1>3, Wants DEF I!RequestIrqReturns, I!RequestIrqReturns, InsideIrqCall
<1>4. CASE I!FreeIrqReturns /\ InsideIrqCall
  BY <1>4, Wants DEF I!FreeIrqReturns, InsideIrqCall
<1>5. CASE I!ForgedRegisterReturns /\ InsideIrqCall
  BY <1>5, Wants DEF I!ForgedRegisterReturns, InsideIrqCall
<1>6. CASE I!DispatchWakes /\ InsideIrqCall
  BY <1>6, Wants DEF I!DispatchWakes, InsideIrqCall
<1>7. CASE I!DispatchFaults /\ InsideIrqCall
  BY <1>7, Wants DEF I!DispatchFaults, InsideIrqCall
<1>8. CASE I!HandlerReadsStatus /\ InsideIrqCall
  BY <1>8, Wants DEF I!HandlerReadsStatus, InsideIrqCall
<1>9. CASE I!HandlerAcksDevice /\ InsideIrqCall
  BY <1>9, Wants DEF I!HandlerAcksDevice, InsideIrqCall
<1>10. CASE FreeCoherentReturns /\ InsideDmaCall
  BY <1>10, Wants DEF FreeCoherentReturns, InsideDmaCall
<1>11. CASE RawFreeReturns /\ InsideDmaCall
  BY <1>11, Wants DEF RawFreeReturns, InsideDmaCall
<1>12. CASE I!IrqdWakes /\ Irqd
  BY <1>12, Wants DEF Irqd, I!IrqdWakes, I!Quiet
<1>13. CASE I!HandleRegister /\ Irqd
  BY <1>13, Wants DEF Irqd, I!HandleRegister, I!RegisterAcceptable, I!ReplyControl
<1>14. CASE I!HandleUnregisterFails /\ Irqd
  BY <1>14, Wants DEF Irqd, I!HandleUnregisterFails, I!UnregisterAcceptable,
     I!ReplyControl
<1>15. CASE I!HandleUnregister /\ Irqd
  BY <1>15, Wants DEF Irqd, I!HandleUnregister, I!UnregisterAcceptable, I!ReplyControl
<1>16. CASE I!HardwareUnregistered /\ Irqd
  BY <1>16, Wants DEF Irqd, I!HardwareUnregistered, I!AckKernel
<1>17. CASE I!HardwareDelivers /\ Irqd
  BY <1>17, Wants DEF Irqd, I!HardwareDelivers
<1>18. CASE I!CompletionArrives /\ Irqd
  BY <1>18, Wants DEF Irqd, I!CompletionArrives
<1>19. CASE I!HardwareAck /\ Irqd
  BY <1>19, Wants DEF Irqd, I!HardwareAck, I!AckKernel
<1>20. CASE DmadRejects /\ DmadRuns
  BY <1>20, Wants DEF DmadRuns, DmadRejects, Waiting, Releasable, NoRequest
<1>21. CASE DmadReleases /\ DmadRuns
  BY <1>21, Wants DEF DmadRuns, DmadReleases, Waiting, Releasable, NoRequest
<1>22. CASE I!DmaCompletes /\ Hardware
  BY <1>22, Wants DEF I!DmaCompletes, Hardware
<1>23. CASE I!LineFires /\ Hardware
  BY <1>23, Wants DEF I!LineFires, Hardware
<1>24. CASE UNCHANGED probeVars
  BY <1>24 DEF probeVars
<1>25. QED
  BY <1>1, <1>2, <1>3, <1>4, <1>5, <1>6, <1>7, <1>8, <1>9, <1>10, <1>11, <1>12, <1>13,
     <1>14, <1>15, <1>16, <1>17, <1>18, <1>19, <1>20, <1>21, <1>22, <1>23, <1>24 DEF
     ProbeNext, Driver, InsideIrqCall, InsideDmaCall, Irqd, DmadRuns, Dmad, Hardware,
     Yield, DriverRuns, I!DriverRuns, I!IrqdRuns, I!Hardware

(* Every step keeps the token bound as long as the driver is probed or     *)
(* active (kapi_core.c:106-207).                                           *)
LEMMA BindStep == ProbeInv /\ [ProbeNext]_probeVars => BindInv'
<1> SUFFICES ASSUME ProbeInv, [ProbeNext]_probeVars PROVE BindInv'
  OBVIOUS
<1> USE LineAssumption, TokenAssumption, WaitSteps DEF ProbeInv, ThreadInv, BindInv,
        RegisteredInv, ControlInv, DeliveryInv, HeldInv, ReleaseInv, Path, Final, Ended,
        Starts, Unleased, Leasing, Released, Probing, Unlined, Unlining, Expecting,
        Expected, irqVars, dmaVars, pciVars, threadVars, leaseVars, dmadVars, ipcVars,
        I!irqdVars, I!controlVars, I!kapiVars, I!driverVars, I!drvNtfnVars,
        I!deviceVars, I!kernelVars, I!MayCall, I!Outstanding, programVars,
        I!IrqAssumption, I!NoMessage
<1>1. CASE Begin
  <2>0. /\ ~running /\ call = "idle"
        /\ running' /\ step' = step /\ failed' = failed
    BY <1>1, BeginCases
  <2>1. CASE step = "register" /\ PciRegister
    BY <2>0, <2>1 DEF PciRegister, BindDevice
  <2>2. CASE step = "enable" /\ PciEnable
    BY <2>0, <2>2 DEF PciEnable
  <2>3. CASE step = "disable" /\ PciDisable
    BY <2>0, <2>3 DEF PciDisable
  <2>4. CASE step = "activate" /\ PciActivate
    BY <2>0, <2>4 DEF PciActivate
  <2>5. CASE step = "probe_failed" /\ PciProbeFailed
    BY <2>0, <2>5 DEF PciProbeFailed, ProbeFails
  <2>6. CASE step = "unregister" /\ PciUnregister
    BY <2>0, <2>6 DEF PciUnregister, UnbindDevice
  <2>7. CASE step = "forge" /\ IrqCall(I!ForgedRegister)
    BY <2>0, <2>7 DEF IrqCall, I!ForgedRegister, I!Control
  <2>8. CASE step = "request" /\ IrqCall(I!RequestIrq)
    BY <2>0, <2>8 DEF IrqCall, I!RequestIrq, I!RequestIrqGuard, I!Control
  <2>9. CASE step = "duplicate" /\ IrqCall(I!RequestIrqInvalid)
    BY <2>0, <2>9 DEF IrqCall, I!RequestIrqInvalid, I!RequestIrqGuard, I!Control
  <2>10. CASE step = "remove" /\ IrqCall(I!FreeIrq)
    BY <2>0, <2>10 DEF IrqCall, I!FreeIrq, I!FreeIrqGuard, I!Control
  <2>11. CASE step \in DOMAIN Waits /\ IrqCall(I!Dispatch)
    BY <2>0, <2>11 DEF IrqCall, I!Dispatch
  <2>12. CASE step \in {"dma_out", "dma_in"} /\ IrqCall(I!StartDma)
    BY <2>0, <2>12 DEF IrqCall, I!StartDma
  <2>13. CASE step = "raise" /\ IrqCall(I!RaiseIrq)
    BY <2>0, <2>13 DEF IrqCall, I!RaiseIrq
  <2>14. CASE step = "mask" /\ DmaCall(SetMask("shadow", SupportedMask))
    BY <2>0, <2>14 DEF DmaCall, SetMask, MaskAccepted, Return
  <2>15. CASE step = "remask" /\ ~revoked /\ DmaCall(SetMask("shadow", SupportedMask))
    BY <2>0, <2>15 DEF DmaCall, SetMask, MaskAccepted, Return
  <2>16. CASE step = "remask" /\ revoked /\ DmaCall(SetMaskInvalid("shadow",
       SupportedMask))
    BY <2>0, <2>16 DEF DmaCall, SetMaskInvalid, Return
  <2>17. CASE step = "untrusted" /\ DmaCall(SetMaskInvalid("other", SupportedMask))
    BY <2>0, <2>17 DEF DmaCall, SetMaskInvalid, Return
  <2>18. CASE step = "wide" /\ DmaCall(SetMaskInvalid("shadow", SupportedMask + 1))
    BY <2>0, <2>18 DEF DmaCall, SetMaskInvalid, Return
  <2>19. CASE step = "alloc" /\ DmaCall(AllocCoherent("shadow", LeaseSize))
    BY <2>0, <2>19 DEF DmaCall, AllocCoherent, AllocAccepted, Return
  <2>20. CASE step \in {"second", "realloc"} /\ DmaCall(AllocCoherentInvalid("shadow",
       LeaseSize))
    BY <2>0, <2>20 DEF DmaCall, AllocCoherentInvalid, Return
  <2>21. CASE step = "dma_forge" /\ DmaCall(RawFree(ForgedFree))
    BY <2>0, <2>21 DEF DmaCall, RawFree
  <2>22. CASE step = "dma_free" /\ DmaCall(FreeCoherent("shadow", LeaseSize, LeaseAddr))
    BY <2>0, <2>22 DEF DmaCall, FreeCoherent, FreeAccepted
  <2>23. QED
    BY <1>1, BeginCases, <2>1, <2>2, <2>3, <2>4, <2>5, <2>6, <2>7, <2>8, <2>9, <2>10,
       <2>11, <2>12, <2>13, <2>14, <2>15, <2>16, <2>17, <2>18, <2>19, <2>20, <2>21,
       <2>22
<1>2. CASE Advance
  BY <1>2, AdvanceCases
<1>3. CASE I!RequestIrqReturns /\ InsideIrqCall
  BY <1>3 DEF I!RequestIrqReturns, I!RequestIrqReturns, InsideIrqCall
<1>4. CASE I!FreeIrqReturns /\ InsideIrqCall
  BY <1>4 DEF I!FreeIrqReturns, InsideIrqCall
<1>5. CASE I!ForgedRegisterReturns /\ InsideIrqCall
  BY <1>5 DEF I!ForgedRegisterReturns, InsideIrqCall
<1>6. CASE I!DispatchWakes /\ InsideIrqCall
  BY <1>6 DEF I!DispatchWakes, InsideIrqCall
<1>7. CASE I!DispatchFaults /\ InsideIrqCall
  BY <1>7 DEF I!DispatchFaults, InsideIrqCall
<1>8. CASE I!HandlerReadsStatus /\ InsideIrqCall
  BY <1>8 DEF I!HandlerReadsStatus, InsideIrqCall
<1>9. CASE I!HandlerAcksDevice /\ InsideIrqCall
  BY <1>9 DEF I!HandlerAcksDevice, InsideIrqCall
<1>10. CASE FreeCoherentReturns /\ InsideDmaCall
  BY <1>10 DEF FreeCoherentReturns, InsideDmaCall
<1>11. CASE RawFreeReturns /\ InsideDmaCall
  BY <1>11 DEF RawFreeReturns, InsideDmaCall
<1>12. CASE I!IrqdWakes /\ Irqd
  BY <1>12 DEF Irqd, I!IrqdWakes, I!Quiet
<1>13. CASE I!HandleRegister /\ Irqd
  BY <1>13 DEF Irqd, I!HandleRegister, I!RegisterAcceptable, I!ReplyControl
<1>14. CASE I!HandleUnregisterFails /\ Irqd
  BY <1>14 DEF Irqd, I!HandleUnregisterFails, I!UnregisterAcceptable, I!ReplyControl
<1>15. CASE I!HandleUnregister /\ Irqd
  BY <1>15 DEF Irqd, I!HandleUnregister, I!UnregisterAcceptable, I!ReplyControl
<1>16. CASE I!HardwareUnregistered /\ Irqd
  BY <1>16 DEF Irqd, I!HardwareUnregistered, I!AckKernel
<1>17. CASE I!HardwareDelivers /\ Irqd
  BY <1>17 DEF Irqd, I!HardwareDelivers
<1>18. CASE I!CompletionArrives /\ Irqd
  BY <1>18 DEF Irqd, I!CompletionArrives
<1>19. CASE I!HardwareAck /\ Irqd
  BY <1>19 DEF Irqd, I!HardwareAck, I!AckKernel
<1>20. CASE DmadRejects /\ DmadRuns
  BY <1>20 DEF DmadRuns, DmadRejects, Waiting, Releasable, NoRequest
<1>21. CASE DmadReleases /\ DmadRuns
  BY <1>21 DEF DmadRuns, DmadReleases, Waiting, Releasable, NoRequest
<1>22. CASE I!DmaCompletes /\ Hardware
  BY <1>22 DEF I!DmaCompletes, Hardware
<1>23. CASE I!LineFires /\ Hardware
  BY <1>23 DEF I!LineFires, Hardware
<1>24. CASE UNCHANGED probeVars
  BY <1>24 DEF probeVars
<1>25. QED
  BY <1>1, <1>2, <1>3, <1>4, <1>5, <1>6, <1>7, <1>8, <1>9, <1>10, <1>11, <1>12, <1>13,
     <1>14, <1>15, <1>16, <1>17, <1>18, <1>19, <1>20, <1>21, <1>22, <1>23, <1>24 DEF
     ProbeNext, Driver, InsideIrqCall, InsideDmaCall, Irqd, DmadRuns, Dmad, Hardware,
     Yield, DriverRuns, I!DriverRuns, I!IrqdRuns, I!Hardware

(* Every step keeps the registration what the program has asked for        *)
(* (irqd.c:45-93, kapi_core.c:248-303).                                    *)
LEMMA RegisteredStep == ProbeInv /\ [ProbeNext]_probeVars => RegisteredInv'
<1> SUFFICES ASSUME ProbeInv, [ProbeNext]_probeVars PROVE RegisteredInv'
  OBVIOUS
<1> USE LineAssumption, TokenAssumption, WaitSteps DEF ProbeInv, ThreadInv, BindInv,
        RegisteredInv, ControlInv, DeliveryInv, HeldInv, ReleaseInv, Path, Final, Ended,
        Starts, Unleased, Leasing, Released, Probing, Unlined, Unlining, Expecting,
        Expected, irqVars, dmaVars, pciVars, threadVars, leaseVars, dmadVars, ipcVars,
        I!irqdVars, I!controlVars, I!kapiVars, I!driverVars, I!drvNtfnVars,
        I!deviceVars, I!kernelVars, I!MayCall, I!Outstanding, programVars,
        I!IrqAssumption, I!NoMessage
<1>1. CASE Begin
  <2>0. /\ ~running /\ call = "idle"
        /\ running' /\ step' = step /\ failed' = failed
    BY <1>1, BeginCases
  <2>1. CASE step = "register" /\ PciRegister
    BY <2>0, <2>1 DEF PciRegister, BindDevice
  <2>2. CASE step = "enable" /\ PciEnable
    BY <2>0, <2>2 DEF PciEnable
  <2>3. CASE step = "disable" /\ PciDisable
    BY <2>0, <2>3 DEF PciDisable
  <2>4. CASE step = "activate" /\ PciActivate
    BY <2>0, <2>4 DEF PciActivate
  <2>5. CASE step = "probe_failed" /\ PciProbeFailed
    BY <2>0, <2>5 DEF PciProbeFailed, ProbeFails
  <2>6. CASE step = "unregister" /\ PciUnregister
    BY <2>0, <2>6 DEF PciUnregister, UnbindDevice
  <2>7. CASE step = "forge" /\ IrqCall(I!ForgedRegister)
    BY <2>0, <2>7 DEF IrqCall, I!ForgedRegister, I!Control
  <2>8. CASE step = "request" /\ IrqCall(I!RequestIrq)
    BY <2>0, <2>8 DEF IrqCall, I!RequestIrq, I!RequestIrqGuard, I!Control
  <2>9. CASE step = "duplicate" /\ IrqCall(I!RequestIrqInvalid)
    BY <2>0, <2>9 DEF IrqCall, I!RequestIrqInvalid, I!RequestIrqGuard, I!Control
  <2>10. CASE step = "remove" /\ IrqCall(I!FreeIrq)
    BY <2>0, <2>10 DEF IrqCall, I!FreeIrq, I!FreeIrqGuard, I!Control
  <2>11. CASE step \in DOMAIN Waits /\ IrqCall(I!Dispatch)
    BY <2>0, <2>11 DEF IrqCall, I!Dispatch
  <2>12. CASE step \in {"dma_out", "dma_in"} /\ IrqCall(I!StartDma)
    BY <2>0, <2>12 DEF IrqCall, I!StartDma
  <2>13. CASE step = "raise" /\ IrqCall(I!RaiseIrq)
    BY <2>0, <2>13 DEF IrqCall, I!RaiseIrq
  <2>14. CASE step = "mask" /\ DmaCall(SetMask("shadow", SupportedMask))
    BY <2>0, <2>14 DEF DmaCall, SetMask, MaskAccepted, Return
  <2>15. CASE step = "remask" /\ ~revoked /\ DmaCall(SetMask("shadow", SupportedMask))
    BY <2>0, <2>15 DEF DmaCall, SetMask, MaskAccepted, Return
  <2>16. CASE step = "remask" /\ revoked /\ DmaCall(SetMaskInvalid("shadow",
       SupportedMask))
    BY <2>0, <2>16 DEF DmaCall, SetMaskInvalid, Return
  <2>17. CASE step = "untrusted" /\ DmaCall(SetMaskInvalid("other", SupportedMask))
    BY <2>0, <2>17 DEF DmaCall, SetMaskInvalid, Return
  <2>18. CASE step = "wide" /\ DmaCall(SetMaskInvalid("shadow", SupportedMask + 1))
    BY <2>0, <2>18 DEF DmaCall, SetMaskInvalid, Return
  <2>19. CASE step = "alloc" /\ DmaCall(AllocCoherent("shadow", LeaseSize))
    BY <2>0, <2>19 DEF DmaCall, AllocCoherent, AllocAccepted, Return
  <2>20. CASE step \in {"second", "realloc"} /\ DmaCall(AllocCoherentInvalid("shadow",
       LeaseSize))
    BY <2>0, <2>20 DEF DmaCall, AllocCoherentInvalid, Return
  <2>21. CASE step = "dma_forge" /\ DmaCall(RawFree(ForgedFree))
    BY <2>0, <2>21 DEF DmaCall, RawFree
  <2>22. CASE step = "dma_free" /\ DmaCall(FreeCoherent("shadow", LeaseSize, LeaseAddr))
    BY <2>0, <2>22 DEF DmaCall, FreeCoherent, FreeAccepted
  <2>23. QED
    BY <1>1, BeginCases, <2>1, <2>2, <2>3, <2>4, <2>5, <2>6, <2>7, <2>8, <2>9, <2>10,
       <2>11, <2>12, <2>13, <2>14, <2>15, <2>16, <2>17, <2>18, <2>19, <2>20, <2>21,
       <2>22
<1>2. CASE Advance
  BY <1>2, AdvanceCases
<1>3. CASE I!RequestIrqReturns /\ InsideIrqCall
  BY <1>3 DEF I!RequestIrqReturns, I!RequestIrqReturns, InsideIrqCall
<1>4. CASE I!FreeIrqReturns /\ InsideIrqCall
  BY <1>4 DEF I!FreeIrqReturns, InsideIrqCall
<1>5. CASE I!ForgedRegisterReturns /\ InsideIrqCall
  BY <1>5 DEF I!ForgedRegisterReturns, InsideIrqCall
<1>6. CASE I!DispatchWakes /\ InsideIrqCall
  BY <1>6 DEF I!DispatchWakes, InsideIrqCall
<1>7. CASE I!DispatchFaults /\ InsideIrqCall
  BY <1>7 DEF I!DispatchFaults, InsideIrqCall
<1>8. CASE I!HandlerReadsStatus /\ InsideIrqCall
  BY <1>8 DEF I!HandlerReadsStatus, InsideIrqCall
<1>9. CASE I!HandlerAcksDevice /\ InsideIrqCall
  BY <1>9 DEF I!HandlerAcksDevice, InsideIrqCall
<1>10. CASE FreeCoherentReturns /\ InsideDmaCall
  BY <1>10 DEF FreeCoherentReturns, InsideDmaCall
<1>11. CASE RawFreeReturns /\ InsideDmaCall
  BY <1>11 DEF RawFreeReturns, InsideDmaCall
<1>12. CASE I!IrqdWakes /\ Irqd
  BY <1>12 DEF Irqd, I!IrqdWakes, I!Quiet
<1>13. CASE I!HandleRegister /\ Irqd
  BY <1>13 DEF Irqd, I!HandleRegister, I!RegisterAcceptable, I!ReplyControl
<1>14. CASE I!HandleUnregisterFails /\ Irqd
  BY <1>14 DEF Irqd, I!HandleUnregisterFails, I!UnregisterAcceptable, I!ReplyControl
<1>15. CASE I!HandleUnregister /\ Irqd
  BY <1>15 DEF Irqd, I!HandleUnregister, I!UnregisterAcceptable, I!ReplyControl
<1>16. CASE I!HardwareUnregistered /\ Irqd
  BY <1>16 DEF Irqd, I!HardwareUnregistered, I!AckKernel
<1>17. CASE I!HardwareDelivers /\ Irqd
  BY <1>17 DEF Irqd, I!HardwareDelivers
<1>18. CASE I!CompletionArrives /\ Irqd
  BY <1>18 DEF Irqd, I!CompletionArrives
<1>19. CASE I!HardwareAck /\ Irqd
  BY <1>19 DEF Irqd, I!HardwareAck, I!AckKernel
<1>20. CASE DmadRejects /\ DmadRuns
  BY <1>20 DEF DmadRuns, DmadRejects, Waiting, Releasable, NoRequest
<1>21. CASE DmadReleases /\ DmadRuns
  BY <1>21 DEF DmadRuns, DmadReleases, Waiting, Releasable, NoRequest
<1>22. CASE I!DmaCompletes /\ Hardware
  BY <1>22 DEF I!DmaCompletes, Hardware
<1>23. CASE I!LineFires /\ Hardware
  BY <1>23 DEF I!LineFires, Hardware
<1>24. CASE UNCHANGED probeVars
  BY <1>24 DEF probeVars
<1>25. QED
  BY <1>1, <1>2, <1>3, <1>4, <1>5, <1>6, <1>7, <1>8, <1>9, <1>10, <1>11, <1>12, <1>13,
     <1>14, <1>15, <1>16, <1>17, <1>18, <1>19, <1>20, <1>21, <1>22, <1>23, <1>24 DEF
     ProbeNext, Driver, InsideIrqCall, InsideDmaCall, Irqd, DmadRuns, Dmad, Hardware,
     Yield, DriverRuns, I!DriverRuns, I!IrqdRuns, I!Hardware

(* Every step keeps a control call and its badge together                  *)
(* (irqd.c:119-142).                                                       *)
LEMMA ControlStep == ProbeInv /\ [ProbeNext]_probeVars => ControlInv'
<1> SUFFICES ASSUME ProbeInv, [ProbeNext]_probeVars PROVE ControlInv'
  OBVIOUS
<1> USE LineAssumption, TokenAssumption, WaitSteps DEF ProbeInv, ThreadInv, BindInv,
        RegisteredInv, ControlInv, DeliveryInv, HeldInv, ReleaseInv, Path, Final, Ended,
        Starts, Unleased, Leasing, Released, Probing, Unlined, Unlining, Expecting,
        Expected, irqVars, dmaVars, pciVars, threadVars, leaseVars, dmadVars, ipcVars,
        I!irqdVars, I!controlVars, I!kapiVars, I!driverVars, I!drvNtfnVars,
        I!deviceVars, I!kernelVars, I!MayCall, I!Outstanding, programVars,
        I!IrqAssumption, I!NoMessage
<1>1. CASE Begin
  <2>0. /\ ~running /\ call = "idle"
        /\ running' /\ step' = step /\ failed' = failed
    BY <1>1, BeginCases
  <2>1. CASE step = "register" /\ PciRegister
    BY <2>0, <2>1 DEF PciRegister, BindDevice
  <2>2. CASE step = "enable" /\ PciEnable
    BY <2>0, <2>2 DEF PciEnable
  <2>3. CASE step = "disable" /\ PciDisable
    BY <2>0, <2>3 DEF PciDisable
  <2>4. CASE step = "activate" /\ PciActivate
    BY <2>0, <2>4 DEF PciActivate
  <2>5. CASE step = "probe_failed" /\ PciProbeFailed
    BY <2>0, <2>5 DEF PciProbeFailed, ProbeFails
  <2>6. CASE step = "unregister" /\ PciUnregister
    BY <2>0, <2>6 DEF PciUnregister, UnbindDevice
  <2>7. CASE step = "forge" /\ IrqCall(I!ForgedRegister)
    BY <2>0, <2>7 DEF IrqCall, I!ForgedRegister, I!Control
  <2>8. CASE step = "request" /\ IrqCall(I!RequestIrq)
    BY <2>0, <2>8 DEF IrqCall, I!RequestIrq, I!RequestIrqGuard, I!Control
  <2>9. CASE step = "duplicate" /\ IrqCall(I!RequestIrqInvalid)
    BY <2>0, <2>9 DEF IrqCall, I!RequestIrqInvalid, I!RequestIrqGuard, I!Control
  <2>10. CASE step = "remove" /\ IrqCall(I!FreeIrq)
    BY <2>0, <2>10 DEF IrqCall, I!FreeIrq, I!FreeIrqGuard, I!Control
  <2>11. CASE step \in DOMAIN Waits /\ IrqCall(I!Dispatch)
    BY <2>0, <2>11 DEF IrqCall, I!Dispatch
  <2>12. CASE step \in {"dma_out", "dma_in"} /\ IrqCall(I!StartDma)
    BY <2>0, <2>12 DEF IrqCall, I!StartDma
  <2>13. CASE step = "raise" /\ IrqCall(I!RaiseIrq)
    BY <2>0, <2>13 DEF IrqCall, I!RaiseIrq
  <2>14. CASE step = "mask" /\ DmaCall(SetMask("shadow", SupportedMask))
    BY <2>0, <2>14 DEF DmaCall, SetMask, MaskAccepted, Return
  <2>15. CASE step = "remask" /\ ~revoked /\ DmaCall(SetMask("shadow", SupportedMask))
    BY <2>0, <2>15 DEF DmaCall, SetMask, MaskAccepted, Return
  <2>16. CASE step = "remask" /\ revoked /\ DmaCall(SetMaskInvalid("shadow",
       SupportedMask))
    BY <2>0, <2>16 DEF DmaCall, SetMaskInvalid, Return
  <2>17. CASE step = "untrusted" /\ DmaCall(SetMaskInvalid("other", SupportedMask))
    BY <2>0, <2>17 DEF DmaCall, SetMaskInvalid, Return
  <2>18. CASE step = "wide" /\ DmaCall(SetMaskInvalid("shadow", SupportedMask + 1))
    BY <2>0, <2>18 DEF DmaCall, SetMaskInvalid, Return
  <2>19. CASE step = "alloc" /\ DmaCall(AllocCoherent("shadow", LeaseSize))
    BY <2>0, <2>19 DEF DmaCall, AllocCoherent, AllocAccepted, Return
  <2>20. CASE step \in {"second", "realloc"} /\ DmaCall(AllocCoherentInvalid("shadow",
       LeaseSize))
    BY <2>0, <2>20 DEF DmaCall, AllocCoherentInvalid, Return
  <2>21. CASE step = "dma_forge" /\ DmaCall(RawFree(ForgedFree))
    BY <2>0, <2>21 DEF DmaCall, RawFree
  <2>22. CASE step = "dma_free" /\ DmaCall(FreeCoherent("shadow", LeaseSize, LeaseAddr))
    BY <2>0, <2>22 DEF DmaCall, FreeCoherent, FreeAccepted
  <2>23. QED
    BY <1>1, BeginCases, <2>1, <2>2, <2>3, <2>4, <2>5, <2>6, <2>7, <2>8, <2>9, <2>10,
       <2>11, <2>12, <2>13, <2>14, <2>15, <2>16, <2>17, <2>18, <2>19, <2>20, <2>21,
       <2>22
<1>2. CASE Advance
  BY <1>2, AdvanceCases
<1>3. CASE I!RequestIrqReturns /\ InsideIrqCall
  BY <1>3 DEF I!RequestIrqReturns, I!RequestIrqReturns, InsideIrqCall
<1>4. CASE I!FreeIrqReturns /\ InsideIrqCall
  BY <1>4 DEF I!FreeIrqReturns, InsideIrqCall
<1>5. CASE I!ForgedRegisterReturns /\ InsideIrqCall
  BY <1>5 DEF I!ForgedRegisterReturns, InsideIrqCall
<1>6. CASE I!DispatchWakes /\ InsideIrqCall
  BY <1>6 DEF I!DispatchWakes, InsideIrqCall
<1>7. CASE I!DispatchFaults /\ InsideIrqCall
  BY <1>7 DEF I!DispatchFaults, InsideIrqCall
<1>8. CASE I!HandlerReadsStatus /\ InsideIrqCall
  BY <1>8 DEF I!HandlerReadsStatus, InsideIrqCall
<1>9. CASE I!HandlerAcksDevice /\ InsideIrqCall
  BY <1>9 DEF I!HandlerAcksDevice, InsideIrqCall
<1>10. CASE FreeCoherentReturns /\ InsideDmaCall
  BY <1>10 DEF FreeCoherentReturns, InsideDmaCall
<1>11. CASE RawFreeReturns /\ InsideDmaCall
  BY <1>11 DEF RawFreeReturns, InsideDmaCall
<1>12. CASE I!IrqdWakes /\ Irqd
  BY <1>12 DEF Irqd, I!IrqdWakes, I!Quiet
<1>13. CASE I!HandleRegister /\ Irqd
  BY <1>13 DEF Irqd, I!HandleRegister, I!RegisterAcceptable, I!ReplyControl
<1>14. CASE I!HandleUnregisterFails /\ Irqd
  BY <1>14 DEF Irqd, I!HandleUnregisterFails, I!UnregisterAcceptable, I!ReplyControl
<1>15. CASE I!HandleUnregister /\ Irqd
  BY <1>15 DEF Irqd, I!HandleUnregister, I!UnregisterAcceptable, I!ReplyControl
<1>16. CASE I!HardwareUnregistered /\ Irqd
  BY <1>16 DEF Irqd, I!HardwareUnregistered, I!AckKernel
<1>17. CASE I!HardwareDelivers /\ Irqd
  BY <1>17 DEF Irqd, I!HardwareDelivers
<1>18. CASE I!CompletionArrives /\ Irqd
  BY <1>18 DEF Irqd, I!CompletionArrives
<1>19. CASE I!HardwareAck /\ Irqd
  BY <1>19 DEF Irqd, I!HardwareAck, I!AckKernel
<1>20. CASE DmadRejects /\ DmadRuns
  BY <1>20 DEF DmadRuns, DmadRejects, Waiting, Releasable, NoRequest
<1>21. CASE DmadReleases /\ DmadRuns
  BY <1>21 DEF DmadRuns, DmadReleases, Waiting, Releasable, NoRequest
<1>22. CASE I!DmaCompletes /\ Hardware
  BY <1>22 DEF I!DmaCompletes, Hardware
<1>23. CASE I!LineFires /\ Hardware
  BY <1>23 DEF I!LineFires, Hardware
<1>24. CASE UNCHANGED probeVars
  BY <1>24 DEF probeVars
<1>25. QED
  BY <1>1, <1>2, <1>3, <1>4, <1>5, <1>6, <1>7, <1>8, <1>9, <1>10, <1>11, <1>12, <1>13,
     <1>14, <1>15, <1>16, <1>17, <1>18, <1>19, <1>20, <1>21, <1>22, <1>23, <1>24 DEF
     ProbeNext, Driver, InsideIrqCall, InsideDmaCall, Irqd, DmadRuns, Dmad, Hardware,
     Yield, DriverRuns, I!DriverRuns, I!IrqdRuns, I!Hardware

(* Every step hands the interrupt on to one agent, or starts or ends it    *)
(* (irqd.c:95-116,127-142, edu_kapi_probe.c:86-99).                        *)
LEMMA DeliveryStep == ProbeInv /\ [ProbeNext]_probeVars => DeliveryInv'
<1> SUFFICES ASSUME ProbeInv, [ProbeNext]_probeVars PROVE DeliveryInv'
  OBVIOUS
<1> USE LineAssumption, TokenAssumption, WaitSteps DEF ProbeInv, ThreadInv, BindInv,
        RegisteredInv, ControlInv, DeliveryInv, HeldInv, ReleaseInv, Path, Final, Ended,
        Starts, Unleased, Leasing, Released, Probing, Unlined, Unlining, Expecting,
        Expected, irqVars, dmaVars, pciVars, threadVars, leaseVars, dmadVars, ipcVars,
        I!irqdVars, I!controlVars, I!kapiVars, I!driverVars, I!drvNtfnVars,
        I!deviceVars, I!kernelVars, I!MayCall, I!Outstanding, programVars,
        I!IrqAssumption, I!NoMessage
<1>1. CASE Begin
  <2>0. /\ ~running /\ call = "idle"
        /\ running' /\ step' = step /\ failed' = failed
    BY <1>1, BeginCases
  <2>1. CASE step = "register" /\ PciRegister
    BY <2>0, <2>1 DEF PciRegister, BindDevice
  <2>2. CASE step = "enable" /\ PciEnable
    BY <2>0, <2>2 DEF PciEnable
  <2>3. CASE step = "disable" /\ PciDisable
    BY <2>0, <2>3 DEF PciDisable
  <2>4. CASE step = "activate" /\ PciActivate
    BY <2>0, <2>4 DEF PciActivate
  <2>5. CASE step = "probe_failed" /\ PciProbeFailed
    BY <2>0, <2>5 DEF PciProbeFailed, ProbeFails
  <2>6. CASE step = "unregister" /\ PciUnregister
    BY <2>0, <2>6 DEF PciUnregister, UnbindDevice
  <2>7. CASE step = "forge" /\ IrqCall(I!ForgedRegister)
    BY <2>0, <2>7 DEF IrqCall, I!ForgedRegister, I!Control
  <2>8. CASE step = "request" /\ IrqCall(I!RequestIrq)
    BY <2>0, <2>8 DEF IrqCall, I!RequestIrq, I!RequestIrqGuard, I!Control
  <2>9. CASE step = "duplicate" /\ IrqCall(I!RequestIrqInvalid)
    BY <2>0, <2>9 DEF IrqCall, I!RequestIrqInvalid, I!RequestIrqGuard, I!Control
  <2>10. CASE step = "remove" /\ IrqCall(I!FreeIrq)
    BY <2>0, <2>10 DEF IrqCall, I!FreeIrq, I!FreeIrqGuard, I!Control
  <2>11. CASE step \in DOMAIN Waits /\ IrqCall(I!Dispatch)
    BY <2>0, <2>11 DEF IrqCall, I!Dispatch
  <2>12. CASE step \in {"dma_out", "dma_in"} /\ IrqCall(I!StartDma)
    BY <2>0, <2>12 DEF IrqCall, I!StartDma
  <2>13. CASE step = "raise" /\ IrqCall(I!RaiseIrq)
    BY <2>0, <2>13 DEF IrqCall, I!RaiseIrq
  <2>14. CASE step = "mask" /\ DmaCall(SetMask("shadow", SupportedMask))
    BY <2>0, <2>14 DEF DmaCall, SetMask, MaskAccepted, Return
  <2>15. CASE step = "remask" /\ ~revoked /\ DmaCall(SetMask("shadow", SupportedMask))
    BY <2>0, <2>15 DEF DmaCall, SetMask, MaskAccepted, Return
  <2>16. CASE step = "remask" /\ revoked /\ DmaCall(SetMaskInvalid("shadow",
       SupportedMask))
    BY <2>0, <2>16 DEF DmaCall, SetMaskInvalid, Return
  <2>17. CASE step = "untrusted" /\ DmaCall(SetMaskInvalid("other", SupportedMask))
    BY <2>0, <2>17 DEF DmaCall, SetMaskInvalid, Return
  <2>18. CASE step = "wide" /\ DmaCall(SetMaskInvalid("shadow", SupportedMask + 1))
    BY <2>0, <2>18 DEF DmaCall, SetMaskInvalid, Return
  <2>19. CASE step = "alloc" /\ DmaCall(AllocCoherent("shadow", LeaseSize))
    BY <2>0, <2>19 DEF DmaCall, AllocCoherent, AllocAccepted, Return
  <2>20. CASE step \in {"second", "realloc"} /\ DmaCall(AllocCoherentInvalid("shadow",
       LeaseSize))
    BY <2>0, <2>20 DEF DmaCall, AllocCoherentInvalid, Return
  <2>21. CASE step = "dma_forge" /\ DmaCall(RawFree(ForgedFree))
    BY <2>0, <2>21 DEF DmaCall, RawFree
  <2>22. CASE step = "dma_free" /\ DmaCall(FreeCoherent("shadow", LeaseSize, LeaseAddr))
    BY <2>0, <2>22 DEF DmaCall, FreeCoherent, FreeAccepted
  <2>23. QED
    BY <1>1, BeginCases, <2>1, <2>2, <2>3, <2>4, <2>5, <2>6, <2>7, <2>8, <2>9, <2>10,
       <2>11, <2>12, <2>13, <2>14, <2>15, <2>16, <2>17, <2>18, <2>19, <2>20, <2>21,
       <2>22
<1>2. CASE Advance
  BY <1>2, AdvanceCases
<1>3. CASE I!RequestIrqReturns /\ InsideIrqCall
  BY <1>3 DEF I!RequestIrqReturns, I!RequestIrqReturns, InsideIrqCall
<1>4. CASE I!FreeIrqReturns /\ InsideIrqCall
  BY <1>4 DEF I!FreeIrqReturns, InsideIrqCall
<1>5. CASE I!ForgedRegisterReturns /\ InsideIrqCall
  BY <1>5 DEF I!ForgedRegisterReturns, InsideIrqCall
<1>6. CASE I!DispatchWakes /\ InsideIrqCall
  BY <1>6 DEF I!DispatchWakes, InsideIrqCall
<1>7. CASE I!DispatchFaults /\ InsideIrqCall
  BY <1>7 DEF I!DispatchFaults, InsideIrqCall
<1>8. CASE I!HandlerReadsStatus /\ InsideIrqCall
  BY <1>8 DEF I!HandlerReadsStatus, InsideIrqCall
<1>9. CASE I!HandlerAcksDevice /\ InsideIrqCall
  BY <1>9 DEF I!HandlerAcksDevice, InsideIrqCall
<1>10. CASE FreeCoherentReturns /\ InsideDmaCall
  BY <1>10 DEF FreeCoherentReturns, InsideDmaCall
<1>11. CASE RawFreeReturns /\ InsideDmaCall
  BY <1>11 DEF RawFreeReturns, InsideDmaCall
<1>12. CASE I!IrqdWakes /\ Irqd
  BY <1>12 DEF Irqd, I!IrqdWakes, I!Quiet
<1>13. CASE I!HandleRegister /\ Irqd
  BY <1>13 DEF Irqd, I!HandleRegister, I!RegisterAcceptable, I!ReplyControl
<1>14. CASE I!HandleUnregisterFails /\ Irqd
  BY <1>14 DEF Irqd, I!HandleUnregisterFails, I!UnregisterAcceptable, I!ReplyControl
<1>15. CASE I!HandleUnregister /\ Irqd
  BY <1>15 DEF Irqd, I!HandleUnregister, I!UnregisterAcceptable, I!ReplyControl
<1>16. CASE I!HardwareUnregistered /\ Irqd
  BY <1>16 DEF Irqd, I!HardwareUnregistered, I!AckKernel
<1>17. CASE I!HardwareDelivers /\ Irqd
  BY <1>17 DEF Irqd, I!HardwareDelivers
<1>18. CASE I!CompletionArrives /\ Irqd
  BY <1>18 DEF Irqd, I!CompletionArrives
<1>19. CASE I!HardwareAck /\ Irqd
  BY <1>19 DEF Irqd, I!HardwareAck, I!AckKernel
<1>20. CASE DmadRejects /\ DmadRuns
  BY <1>20 DEF DmadRuns, DmadRejects, Waiting, Releasable, NoRequest
<1>21. CASE DmadReleases /\ DmadRuns
  BY <1>21 DEF DmadRuns, DmadReleases, Waiting, Releasable, NoRequest
<1>22. CASE I!DmaCompletes /\ Hardware
  BY <1>22 DEF I!DmaCompletes, Hardware
<1>23. CASE I!LineFires /\ Hardware
  BY <1>23 DEF I!LineFires, Hardware
<1>24. CASE UNCHANGED probeVars
  BY <1>24 DEF probeVars
<1>25. QED
  BY <1>1, <1>2, <1>3, <1>4, <1>5, <1>6, <1>7, <1>8, <1>9, <1>10, <1>11, <1>12, <1>13,
     <1>14, <1>15, <1>16, <1>17, <1>18, <1>19, <1>20, <1>21, <1>22, <1>23, <1>24 DEF
     ProbeNext, Driver, InsideIrqCall, InsideDmaCall, Irqd, DmadRuns, Dmad, Hardware,
     Yield, DriverRuns, I!DriverRuns, I!IrqdRuns, I!Hardware

(* Every step keeps the lease whole before its release, and the two        *)
(* records of it in agreement after (kapi_core.c:346-434, dmad.c:63-93).   *)
LEMMA HeldStep == ProbeInv /\ [ProbeNext]_probeVars => HeldInv'
<1> SUFFICES ASSUME ProbeInv, [ProbeNext]_probeVars PROVE HeldInv'
  OBVIOUS
<1> USE LineAssumption, TokenAssumption, WaitSteps DEF ProbeInv, ThreadInv, BindInv,
        RegisteredInv, ControlInv, DeliveryInv, HeldInv, ReleaseInv, Path, Final, Ended,
        Starts, Unleased, Leasing, Released, Probing, Unlined, Unlining, Expecting,
        Expected, irqVars, dmaVars, pciVars, threadVars, leaseVars, dmadVars, ipcVars,
        I!irqdVars, I!controlVars, I!kapiVars, I!driverVars, I!drvNtfnVars,
        I!deviceVars, I!kernelVars, I!MayCall, I!Outstanding, programVars,
        I!IrqAssumption, I!NoMessage
<1>1. CASE Begin
  <2>0. /\ ~running /\ call = "idle"
        /\ running' /\ step' = step /\ failed' = failed
    BY <1>1, BeginCases
  <2>1. CASE step = "register" /\ PciRegister
    BY <2>0, <2>1 DEF PciRegister, BindDevice
  <2>2. CASE step = "enable" /\ PciEnable
    BY <2>0, <2>2 DEF PciEnable
  <2>3. CASE step = "disable" /\ PciDisable
    BY <2>0, <2>3 DEF PciDisable
  <2>4. CASE step = "activate" /\ PciActivate
    BY <2>0, <2>4 DEF PciActivate
  <2>5. CASE step = "probe_failed" /\ PciProbeFailed
    BY <2>0, <2>5 DEF PciProbeFailed, ProbeFails
  <2>6. CASE step = "unregister" /\ PciUnregister
    BY <2>0, <2>6 DEF PciUnregister, UnbindDevice
  <2>7. CASE step = "forge" /\ IrqCall(I!ForgedRegister)
    BY <2>0, <2>7 DEF IrqCall, I!ForgedRegister, I!Control
  <2>8. CASE step = "request" /\ IrqCall(I!RequestIrq)
    BY <2>0, <2>8 DEF IrqCall, I!RequestIrq, I!RequestIrqGuard, I!Control
  <2>9. CASE step = "duplicate" /\ IrqCall(I!RequestIrqInvalid)
    BY <2>0, <2>9 DEF IrqCall, I!RequestIrqInvalid, I!RequestIrqGuard, I!Control
  <2>10. CASE step = "remove" /\ IrqCall(I!FreeIrq)
    BY <2>0, <2>10 DEF IrqCall, I!FreeIrq, I!FreeIrqGuard, I!Control
  <2>11. CASE step \in DOMAIN Waits /\ IrqCall(I!Dispatch)
    BY <2>0, <2>11 DEF IrqCall, I!Dispatch
  <2>12. CASE step \in {"dma_out", "dma_in"} /\ IrqCall(I!StartDma)
    BY <2>0, <2>12 DEF IrqCall, I!StartDma
  <2>13. CASE step = "raise" /\ IrqCall(I!RaiseIrq)
    BY <2>0, <2>13 DEF IrqCall, I!RaiseIrq
  <2>14. CASE step = "mask" /\ DmaCall(SetMask("shadow", SupportedMask))
    BY <2>0, <2>14 DEF DmaCall, SetMask, MaskAccepted, Return
  <2>15. CASE step = "remask" /\ ~revoked /\ DmaCall(SetMask("shadow", SupportedMask))
    BY <2>0, <2>15 DEF DmaCall, SetMask, MaskAccepted, Return
  <2>16. CASE step = "remask" /\ revoked /\ DmaCall(SetMaskInvalid("shadow",
       SupportedMask))
    BY <2>0, <2>16 DEF DmaCall, SetMaskInvalid, Return
  <2>17. CASE step = "untrusted" /\ DmaCall(SetMaskInvalid("other", SupportedMask))
    BY <2>0, <2>17 DEF DmaCall, SetMaskInvalid, Return
  <2>18. CASE step = "wide" /\ DmaCall(SetMaskInvalid("shadow", SupportedMask + 1))
    BY <2>0, <2>18 DEF DmaCall, SetMaskInvalid, Return
  <2>19. CASE step = "alloc" /\ DmaCall(AllocCoherent("shadow", LeaseSize))
    BY <2>0, <2>19 DEF DmaCall, AllocCoherent, AllocAccepted, Return
  <2>20. CASE step \in {"second", "realloc"} /\ DmaCall(AllocCoherentInvalid("shadow",
       LeaseSize))
    BY <2>0, <2>20 DEF DmaCall, AllocCoherentInvalid, Return
  <2>21. CASE step = "dma_forge" /\ DmaCall(RawFree(ForgedFree))
    BY <2>0, <2>21 DEF DmaCall, RawFree
  <2>22. CASE step = "dma_free" /\ DmaCall(FreeCoherent("shadow", LeaseSize, LeaseAddr))
    BY <2>0, <2>22 DEF DmaCall, FreeCoherent, FreeAccepted
  <2>23. QED
    BY <1>1, BeginCases, <2>1, <2>2, <2>3, <2>4, <2>5, <2>6, <2>7, <2>8, <2>9, <2>10,
       <2>11, <2>12, <2>13, <2>14, <2>15, <2>16, <2>17, <2>18, <2>19, <2>20, <2>21,
       <2>22
<1>2. CASE Advance
  BY <1>2, AdvanceCases
<1>3. CASE I!RequestIrqReturns /\ InsideIrqCall
  BY <1>3 DEF I!RequestIrqReturns, I!RequestIrqReturns, InsideIrqCall
<1>4. CASE I!FreeIrqReturns /\ InsideIrqCall
  BY <1>4 DEF I!FreeIrqReturns, InsideIrqCall
<1>5. CASE I!ForgedRegisterReturns /\ InsideIrqCall
  BY <1>5 DEF I!ForgedRegisterReturns, InsideIrqCall
<1>6. CASE I!DispatchWakes /\ InsideIrqCall
  BY <1>6 DEF I!DispatchWakes, InsideIrqCall
<1>7. CASE I!DispatchFaults /\ InsideIrqCall
  BY <1>7 DEF I!DispatchFaults, InsideIrqCall
<1>8. CASE I!HandlerReadsStatus /\ InsideIrqCall
  BY <1>8 DEF I!HandlerReadsStatus, InsideIrqCall
<1>9. CASE I!HandlerAcksDevice /\ InsideIrqCall
  BY <1>9 DEF I!HandlerAcksDevice, InsideIrqCall
<1>10. CASE FreeCoherentReturns /\ InsideDmaCall
  BY <1>10 DEF FreeCoherentReturns, InsideDmaCall
<1>11. CASE RawFreeReturns /\ InsideDmaCall
  BY <1>11 DEF RawFreeReturns, InsideDmaCall
<1>12. CASE I!IrqdWakes /\ Irqd
  BY <1>12 DEF Irqd, I!IrqdWakes, I!Quiet
<1>13. CASE I!HandleRegister /\ Irqd
  BY <1>13 DEF Irqd, I!HandleRegister, I!RegisterAcceptable, I!ReplyControl
<1>14. CASE I!HandleUnregisterFails /\ Irqd
  BY <1>14 DEF Irqd, I!HandleUnregisterFails, I!UnregisterAcceptable, I!ReplyControl
<1>15. CASE I!HandleUnregister /\ Irqd
  BY <1>15 DEF Irqd, I!HandleUnregister, I!UnregisterAcceptable, I!ReplyControl
<1>16. CASE I!HardwareUnregistered /\ Irqd
  BY <1>16 DEF Irqd, I!HardwareUnregistered, I!AckKernel
<1>17. CASE I!HardwareDelivers /\ Irqd
  BY <1>17 DEF Irqd, I!HardwareDelivers
<1>18. CASE I!CompletionArrives /\ Irqd
  BY <1>18 DEF Irqd, I!CompletionArrives
<1>19. CASE I!HardwareAck /\ Irqd
  BY <1>19 DEF Irqd, I!HardwareAck, I!AckKernel
<1>20. CASE DmadRejects /\ DmadRuns
  BY <1>20 DEF DmadRuns, DmadRejects, Waiting, Releasable, NoRequest
<1>21. CASE DmadReleases /\ DmadRuns
  BY <1>21 DEF DmadRuns, DmadReleases, Waiting, Releasable, NoRequest
<1>22. CASE I!DmaCompletes /\ Hardware
  BY <1>22 DEF I!DmaCompletes, Hardware
<1>23. CASE I!LineFires /\ Hardware
  BY <1>23 DEF I!LineFires, Hardware
<1>24. CASE UNCHANGED probeVars
  BY <1>24 DEF probeVars
<1>25. QED
  BY <1>1, <1>2, <1>3, <1>4, <1>5, <1>6, <1>7, <1>8, <1>9, <1>10, <1>11, <1>12, <1>13,
     <1>14, <1>15, <1>16, <1>17, <1>18, <1>19, <1>20, <1>21, <1>22, <1>23, <1>24 DEF
     ProbeNext, Driver, InsideIrqCall, InsideDmaCall, Irqd, DmadRuns, Dmad, Hardware,
     Yield, DriverRuns, I!DriverRuns, I!IrqdRuns, I!Hardware

(* Every step keeps the answer of dmad true (dmad.c:56-95).                *)
LEMMA ReleaseStep == ProbeInv /\ [ProbeNext]_probeVars => ReleaseInv'
<1> SUFFICES ASSUME ProbeInv, [ProbeNext]_probeVars PROVE ReleaseInv'
  OBVIOUS
<1> USE LineAssumption, TokenAssumption, WaitSteps DEF ProbeInv, ThreadInv, BindInv,
        RegisteredInv, ControlInv, DeliveryInv, HeldInv, ReleaseInv, Path, Final, Ended,
        Starts, Unleased, Leasing, Released, Probing, Unlined, Unlining, Expecting,
        Expected, irqVars, dmaVars, pciVars, threadVars, leaseVars, dmadVars, ipcVars,
        I!irqdVars, I!controlVars, I!kapiVars, I!driverVars, I!drvNtfnVars,
        I!deviceVars, I!kernelVars, I!MayCall, I!Outstanding, programVars,
        I!IrqAssumption, I!NoMessage
<1>1. CASE Begin
  <2>0. /\ ~running /\ call = "idle"
        /\ running' /\ step' = step /\ failed' = failed
    BY <1>1, BeginCases
  <2>1. CASE step = "register" /\ PciRegister
    BY <2>0, <2>1 DEF PciRegister, BindDevice
  <2>2. CASE step = "enable" /\ PciEnable
    BY <2>0, <2>2 DEF PciEnable
  <2>3. CASE step = "disable" /\ PciDisable
    BY <2>0, <2>3 DEF PciDisable
  <2>4. CASE step = "activate" /\ PciActivate
    BY <2>0, <2>4 DEF PciActivate
  <2>5. CASE step = "probe_failed" /\ PciProbeFailed
    BY <2>0, <2>5 DEF PciProbeFailed, ProbeFails
  <2>6. CASE step = "unregister" /\ PciUnregister
    BY <2>0, <2>6 DEF PciUnregister, UnbindDevice
  <2>7. CASE step = "forge" /\ IrqCall(I!ForgedRegister)
    BY <2>0, <2>7 DEF IrqCall, I!ForgedRegister, I!Control
  <2>8. CASE step = "request" /\ IrqCall(I!RequestIrq)
    BY <2>0, <2>8 DEF IrqCall, I!RequestIrq, I!RequestIrqGuard, I!Control
  <2>9. CASE step = "duplicate" /\ IrqCall(I!RequestIrqInvalid)
    BY <2>0, <2>9 DEF IrqCall, I!RequestIrqInvalid, I!RequestIrqGuard, I!Control
  <2>10. CASE step = "remove" /\ IrqCall(I!FreeIrq)
    BY <2>0, <2>10 DEF IrqCall, I!FreeIrq, I!FreeIrqGuard, I!Control
  <2>11. CASE step \in DOMAIN Waits /\ IrqCall(I!Dispatch)
    BY <2>0, <2>11 DEF IrqCall, I!Dispatch
  <2>12. CASE step \in {"dma_out", "dma_in"} /\ IrqCall(I!StartDma)
    BY <2>0, <2>12 DEF IrqCall, I!StartDma
  <2>13. CASE step = "raise" /\ IrqCall(I!RaiseIrq)
    BY <2>0, <2>13 DEF IrqCall, I!RaiseIrq
  <2>14. CASE step = "mask" /\ DmaCall(SetMask("shadow", SupportedMask))
    BY <2>0, <2>14 DEF DmaCall, SetMask, MaskAccepted, Return
  <2>15. CASE step = "remask" /\ ~revoked /\ DmaCall(SetMask("shadow", SupportedMask))
    BY <2>0, <2>15 DEF DmaCall, SetMask, MaskAccepted, Return
  <2>16. CASE step = "remask" /\ revoked /\ DmaCall(SetMaskInvalid("shadow",
       SupportedMask))
    BY <2>0, <2>16 DEF DmaCall, SetMaskInvalid, Return
  <2>17. CASE step = "untrusted" /\ DmaCall(SetMaskInvalid("other", SupportedMask))
    BY <2>0, <2>17 DEF DmaCall, SetMaskInvalid, Return
  <2>18. CASE step = "wide" /\ DmaCall(SetMaskInvalid("shadow", SupportedMask + 1))
    BY <2>0, <2>18 DEF DmaCall, SetMaskInvalid, Return
  <2>19. CASE step = "alloc" /\ DmaCall(AllocCoherent("shadow", LeaseSize))
    BY <2>0, <2>19 DEF DmaCall, AllocCoherent, AllocAccepted, Return
  <2>20. CASE step \in {"second", "realloc"} /\ DmaCall(AllocCoherentInvalid("shadow",
       LeaseSize))
    BY <2>0, <2>20 DEF DmaCall, AllocCoherentInvalid, Return
  <2>21. CASE step = "dma_forge" /\ DmaCall(RawFree(ForgedFree))
    BY <2>0, <2>21 DEF DmaCall, RawFree, ForgedFree
  <2>22. CASE step = "dma_free" /\ DmaCall(FreeCoherent("shadow", LeaseSize, LeaseAddr))
    BY <2>0, <2>22 DEF DmaCall, FreeCoherent, FreeAccepted
  <2>23. QED
    BY <1>1, BeginCases, <2>1, <2>2, <2>3, <2>4, <2>5, <2>6, <2>7, <2>8, <2>9, <2>10,
       <2>11, <2>12, <2>13, <2>14, <2>15, <2>16, <2>17, <2>18, <2>19, <2>20, <2>21,
       <2>22
<1>2. CASE Advance
  BY <1>2, AdvanceCases
<1>3. CASE I!RequestIrqReturns /\ InsideIrqCall
  BY <1>3 DEF I!RequestIrqReturns, I!RequestIrqReturns, InsideIrqCall
<1>4. CASE I!FreeIrqReturns /\ InsideIrqCall
  BY <1>4 DEF I!FreeIrqReturns, InsideIrqCall
<1>5. CASE I!ForgedRegisterReturns /\ InsideIrqCall
  BY <1>5 DEF I!ForgedRegisterReturns, InsideIrqCall
<1>6. CASE I!DispatchWakes /\ InsideIrqCall
  BY <1>6 DEF I!DispatchWakes, InsideIrqCall
<1>7. CASE I!DispatchFaults /\ InsideIrqCall
  BY <1>7 DEF I!DispatchFaults, InsideIrqCall
<1>8. CASE I!HandlerReadsStatus /\ InsideIrqCall
  BY <1>8 DEF I!HandlerReadsStatus, InsideIrqCall
<1>9. CASE I!HandlerAcksDevice /\ InsideIrqCall
  BY <1>9 DEF I!HandlerAcksDevice, InsideIrqCall
<1>10. CASE FreeCoherentReturns /\ InsideDmaCall
  BY <1>10 DEF FreeCoherentReturns, InsideDmaCall
<1>11. CASE RawFreeReturns /\ InsideDmaCall
  BY <1>11 DEF RawFreeReturns, InsideDmaCall
<1>12. CASE I!IrqdWakes /\ Irqd
  BY <1>12 DEF Irqd, I!IrqdWakes, I!Quiet
<1>13. CASE I!HandleRegister /\ Irqd
  BY <1>13 DEF Irqd, I!HandleRegister, I!RegisterAcceptable, I!ReplyControl
<1>14. CASE I!HandleUnregisterFails /\ Irqd
  BY <1>14 DEF Irqd, I!HandleUnregisterFails, I!UnregisterAcceptable, I!ReplyControl
<1>15. CASE I!HandleUnregister /\ Irqd
  BY <1>15 DEF Irqd, I!HandleUnregister, I!UnregisterAcceptable, I!ReplyControl
<1>16. CASE I!HardwareUnregistered /\ Irqd
  BY <1>16 DEF Irqd, I!HardwareUnregistered, I!AckKernel
<1>17. CASE I!HardwareDelivers /\ Irqd
  BY <1>17 DEF Irqd, I!HardwareDelivers
<1>18. CASE I!CompletionArrives /\ Irqd
  BY <1>18 DEF Irqd, I!CompletionArrives
<1>19. CASE I!HardwareAck /\ Irqd
  BY <1>19 DEF Irqd, I!HardwareAck, I!AckKernel
<1>20. CASE DmadRejects /\ DmadRuns
  BY <1>20, LeaseAssumption DEF DmadRuns, DmadRejects, Waiting, Releasable, NoRequest
<1>21. CASE DmadReleases /\ DmadRuns
  <2>1. call = "dma_free" /\ call' = call /\ step' = step /\ running' = running
        /\ dmaRequest' = NoRequest /\ Releasable
    BY <1>21 DEF DmadRuns, DmadReleases, Waiting, Releasable
  <2>2. mapped' \in BOOLEAN /\ (dmaReply' = "rejected" => failed')
    BY <1>21, <2>1, DmadAnswers DEF DmadRuns
  <2>3. QED
    BY <1>21, <2>1, <2>2, DmadAnswers
<1>22. CASE I!DmaCompletes /\ Hardware
  BY <1>22 DEF I!DmaCompletes, Hardware
<1>23. CASE I!LineFires /\ Hardware
  BY <1>23 DEF I!LineFires, Hardware
<1>24. CASE UNCHANGED probeVars
  BY <1>24 DEF probeVars
<1>25. QED
  BY <1>1, <1>2, <1>3, <1>4, <1>5, <1>6, <1>7, <1>8, <1>9, <1>10, <1>11, <1>12, <1>13,
     <1>14, <1>15, <1>16, <1>17, <1>18, <1>19, <1>20, <1>21, <1>22, <1>23, <1>24 DEF
     ProbeNext, Driver, InsideIrqCall, InsideDmaCall, Irqd, DmadRuns, Dmad, Hardware,
     Yield, DriverRuns, I!DriverRuns, I!IrqdRuns, I!Hardware

(* The life cycle begins before the driver is registered.                  *)
LEMMA ProbeInitInv == ProbeInit => ProbeInv
<1> SUFFICES ASSUME ProbeInit PROVE ProbeInv
  OBVIOUS
<1> USE LineAssumption, TokenAssumption, LeaseAssumption, WaitSteps
    DEF ProbeInit, I!Init, Init, I!IrqAssumption, Path, Final, Ended, Starts, Unleased,
        Leasing, Released, Probing, Unlined, Unlining, Expecting, Expected, I!Quiet,
        I!NoMessage
<1>1. ThreadInv /\ BindInv /\ RegisteredInv
  BY DEF ThreadInv, BindInv, RegisteredInv
<1>2. ControlInv /\ DeliveryInv
  BY DEF ControlInv, DeliveryInv
<1>3. HeldInv /\ ReleaseInv
  BY DEF HeldInv, ReleaseInv
<1>4. QED
  BY <1>1, <1>2, <1>3 DEF ProbeInv

(* Every reachable state of the life cycle satisfies the invariant.        *)
THEOREM ProbeInvariance == ProbeSpec => []ProbeInv
<1>1. ProbeInv /\ [ProbeNext]_probeVars => ProbeInv'
  BY ThreadStep, BindStep, RegisteredStep, ControlStep, DeliveryStep, HeldStep, ReleaseStep
  DEF ProbeInv
<1>2. QED
  BY ProbeInitInv, <1>1, PTL DEF ProbeSpec

(* Every interrupt the program waits for reaches its handler, with the     *)
(* status bit of what raised it and after the transfer it ends             *)
(* (edu_kapi_probe.c:95-99,188,195,296, kapi_core.c:328-344).              *)
THEOREM MediationCorrect == ProbeSpec => []MediationSucceeds
<1>1. ASSUME ProbeInv, step \in DOMAIN Waits, Ended
      PROVE  Passed
  <2>1. Program[step].want \in {ret, "any"}
    BY <1>1, WaitSteps DEF ProbeInv, ThreadInv
  <2>2. Waits[step] \in last_status /\ ~dmaBusy
    BY <1>1, WaitSteps DEF ProbeInv, DeliveryInv, Expecting, Expected, Ended, Waits, Starts
  <2>3. QED
    BY <2>1, <2>2 DEF Passed
<1>2. ProbeInv => MediationSucceeds
  BY <1>1 DEF MediationSucceeds, Ended
<1>3. QED
  BY ProbeInvariance, <1>2, PTL

(* The device never transfers into a frame dmad has taken away, though dmad *)
(* does not quiesce it (dmad.c:72-93, edu_kapi_probe.c:285-306).           *)
THEOREM TransferCorrect == ProbeSpec => []NoTransferWithoutLease
<1>1. ProbeInv => NoTransferWithoutLease
  BY WaitSteps DEF ProbeInv, DeliveryInv, HeldInv, NoTransferWithoutLease, Expecting,
     Expected, Starts, Released
<1>2. QED
  BY ProbeInvariance, <1>1, PTL

(* What outlives the program was refused its release and both sides know it; *)
(* if nothing failed, nothing does (edu_kapi_probe.c:306-327,               *)
(* kapi_core.c:189-207).                                                   *)
THEOREM ResidueCorrect == ProbeSpec => []ResidueIsAgreed
<1>1. ASSUME ProbeInv, step \in Final
      PROVE  /\ handler <=> registered_irq = Irq
             /\ allocated <=> ~revoked
             /\ revoked => frameCap = "gone"
  BY <1>1 DEF ProbeInv, ThreadInv, RegisteredInv, HeldInv, Final, Released
<1>2. ASSUME ProbeInv, step = "done", ~failed
      PROVE  /\ registered_irq = 0 /\ ~drvCap
             /\ ~lease_active /\ ~mapped /\ frameCap = "gone"
             /\ device = "null" /\ selected_mask = 0
             /\ ~active /\ ~probing /\ token = 0 /\ flags = {}
             /\ status = {} /\ (masked => irqd = "ack")
  <2> USE <1>2 DEF ProbeInv
  <2>1. ~running /\ call = "idle"
    BY DEF ThreadInv, Final
  <2>2. registered_irq = 0 /\ ~drvCap
    BY <2>1, LineAssumption DEF RegisteredInv, Unlining, I!IrqAssumption
  <2>3. /\ ~lease_active /\ ~mapped /\ frameCap = "gone"
        /\ device = "null" /\ selected_mask = 0
    BY DEF HeldInv, Released
  <2>4. ~active /\ ~probing /\ token = 0 /\ flags = {}
    BY <2>1, WaitSteps DEF BindInv, Probing, Leasing, Starts
  <2>5. status = {} /\ (masked => irqd = "ack")
    BY <2>1, WaitSteps DEF DeliveryInv, Expecting, Starts
  <2>6. QED
    BY <2>2, <2>3, <2>4, <2>5
<1>3. ProbeInv => ResidueIsAgreed
  BY <1>1, <1>2 DEF ResidueIsAgreed
<1>4. QED
  BY ProbeInvariance, <1>3, PTL

=============================================================================
