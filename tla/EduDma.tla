------------------------------- MODULE EduDma -------------------------------
(***************************************************************************)
(* The one coherent-DMA lease of a QEMU edu instance: the service          *)
(* selinos-dmad (servers/dmad.c), which tears the driver's mapping and     *)
(* frame capability down, and the DMA half of the driver API               *)
(* (kapi/src/kapi_core.c), which keeps the driver's own view of the lease. *)
(* Each side has its own record and only the reply of one Call relates     *)
(* them.                                                                   *)
(***************************************************************************)
EXTENDS Integers

CONSTANTS Token,          \* the device token root gave dmad and deviced
          LeaseAddr,      \* selinos_dma_lease.dma_address
          LeaseSize,      \* selinos_dma_lease.size
          SupportedMask,  \* selinos_dma_lease.supported_mask
          Masks, Sizes,   \* the masks and sizes a driver asks for
          RawTuples,      \* what the driver sends to dmad past the API; a
                          \* message of another length or magic is refused as
                          \* one whose token is wrong
          FailingSteps    \* teardown steps of dmad that may fail: 1 Page_Unmap,
                          \* 2 CNode_Revoke, 3 CNode_Delete

FreeTuple == [token : Nat, addr : Nat, size : Nat]

ASSUME TokenAssumption == Token \in Nat \ {0}

\* The checks of selinos_kapi_bind_dma_lease.
ASSUME LeaseAssumption ==
  /\ LeaseAddr \in Nat \ {0}
  /\ LeaseSize \in Nat \ {0}
  /\ SupportedMask \in Nat \ {0}
  /\ LeaseAddr <= SupportedMask
  /\ LeaseSize - 1 <= SupportedMask - LeaseAddr

ASSUME DriverAssumption == Masks \subseteq Nat /\ Sizes \subseteq Nat
ASSUME RawAssumption == RawTuples \subseteq FreeTuple

ASSUME FailingAssumption == FailingSteps \subseteq 1..3

VARIABLES
  call, ret,       \* the driver thread, as in EduIrq
  token,           \* shadow_pdev.dev.selinos_device_token, 0 once zeroed
  device,          \* lease.device: "null" or "shadow"
  selected_mask, allocated, allocated_size, revoked,   \* lease, as in the code
  dmaRequest,      \* the message of the driver blocked in Call(free_endpoint)
  dmaReply,        \* dmad's answer, until the driver takes it
  lease_active,    \* dmad
  mapped,          \* the frame is mapped in the driver's VSpace
  frameCap,        \* the driver's frame capability: "whole", "childless" once
                   \* revoked, "gone" once deleted
  bypassed         \* dmad took the lease on a request sent past the API
                   \* (history)

leaseVars == <<device, selected_mask, allocated, allocated_size, revoked>>
dmadVars  == <<lease_active, mapped, frameCap, bypassed>>
ipcVars   == <<dmaRequest, dmaReply>>
vars == <<call, ret, token, leaseVars, ipcVars, dmadVars>>

NoRequest == [token |-> 0, addr |-> 0, size |-> 0]
Devices   == {"shadow", "other"}
Handles   == {LeaseAddr, LeaseAddr + LeaseSize}

(* Every variable is in range: the API and dmad keep the address, size and  *)
(* mask of the lease or its reset values and nothing between                *)
(* (kapi_core.c:346-434, dmad.c:56-95).                                     *)
TypeOK ==
  /\ call \in {"idle", "dma_free", "dma_raw"}
  /\ ret \in {"ok", "einval"}
  /\ token \in {0, Token}
  /\ device \in {"null", "shadow"}
  /\ selected_mask \in Masks \cup {0}
  /\ allocated \in BOOLEAN
  /\ allocated_size \in Sizes \cup {0}
  /\ revoked \in BOOLEAN
  /\ dmaRequest \in FreeTuple
  /\ dmaReply \in {"none", "accepted", "rejected"}
  /\ lease_active \in BOOLEAN
  /\ mapped \in BOOLEAN
  /\ frameCap \in {"whole", "childless", "gone"}
  /\ bypassed \in BOOLEAN

\* After selinos_kapi_bind_dma_lease(NULL, ...) in the driver's main, with the
\* frame mapped and granted by root.
Init ==
  /\ call = "idle"
  /\ ret = "ok"
  /\ token = 0
  /\ device = "null"
  /\ selected_mask = 0
  /\ allocated = FALSE
  /\ allocated_size = 0
  /\ revoked = FALSE
  /\ dmaRequest = NoRequest
  /\ dmaReply = "none"
  /\ lease_active = TRUE
  /\ mapped = TRUE
  /\ frameCap = "whole"
  /\ bypassed = FALSE

Return(result) == ret' = result /\ UNCHANGED <<call, ipcVars>>

-----------------------------------------------------------------------------
(* The driver API.                                                         *)

\* pci_register_driver: the shadow device takes the lease if nobody has it.
BindDevice ==
  /\ call = "idle"
  /\ token = 0
  /\ token' = Token
  /\ device' = "shadow"
  /\ UNCHANGED <<call, ret, selected_mask, allocated, allocated_size, revoked,
                 ipcVars, dmadVars>>

\* pci_unregister_driver: an allocated lease keeps its (zeroed) device.
UnbindDevice ==
  /\ call = "idle"
  /\ token # 0
  /\ token' = 0
  /\ device' = IF allocated THEN device ELSE "null"
  /\ selected_mask' = IF allocated THEN selected_mask ELSE 0
  /\ UNCHANGED <<call, ret, allocated, allocated_size, revoked, ipcVars, dmadVars>>

\* pci_register_driver when probe fails: the mask stays selected.
ProbeFails ==
  /\ call = "idle"
  /\ token # 0
  /\ token' = 0
  /\ device' = IF allocated THEN device ELSE "null"
  /\ UNCHANGED <<call, ret, selected_mask, allocated, allocated_size, revoked,
                 ipcVars, dmadVars>>

\* Mutant: only the first byte of the lease is compared with the mask.
MaskAcceptedFirstByte(dev, mask) ==
  /\ dev = device
  /\ ~revoked
  /\ mask # 0
  /\ mask <= SupportedMask
  /\ LeaseAddr <= mask

MaskAccepted(dev, mask) ==
  /\ dev = device
  /\ ~revoked
  /\ mask # 0
  /\ mask <= SupportedMask
  /\ LeaseAddr <= mask
  /\ LeaseSize - 1 <= mask - LeaseAddr

SetMask(dev, mask) ==
  /\ call = "idle"
  /\ MaskAccepted(dev, mask)
  /\ selected_mask' = mask
  /\ Return("ok")
  /\ UNCHANGED <<token, device, allocated, allocated_size, revoked, dmadVars>>

SetMaskInvalid(dev, mask) ==
  /\ call = "idle"
  /\ ~MaskAccepted(dev, mask)
  /\ Return("einval")
  /\ UNCHANGED <<token, leaseVars, dmadVars>>

AllocAccepted(dev, size) ==
  /\ dev = device
  /\ ~revoked
  /\ selected_mask # 0
  /\ ~allocated
  /\ size # 0
  /\ size <= LeaseSize

AllocCoherent(dev, size) ==
  /\ call = "idle"
  /\ AllocAccepted(dev, size)
  /\ allocated_size' = size
  /\ allocated' = TRUE
  /\ Return("ok")
  /\ UNCHANGED <<token, device, selected_mask, revoked, dmadVars>>

AllocCoherentInvalid(dev, size) ==
  /\ call = "idle"
  /\ ~AllocAccepted(dev, size)
  /\ Return("einval")
  /\ UNCHANGED <<token, leaseVars, dmadVars>>

FreeAccepted(dev, size, handle) ==
  /\ dev = device
  /\ allocated
  /\ size = allocated_size
  /\ handle = LeaseAddr
  /\ token # 0

FreeCoherent(dev, size, handle) ==
  /\ call = "idle"
  /\ FreeAccepted(dev, size, handle)
  /\ dmaRequest' = [token |-> token, addr |-> handle, size |-> size]
  /\ call' = "dma_free"
  /\ UNCHANGED <<ret, token, leaseVars, dmaReply, dmadVars>>

\* dma_free_coherent is void: a refused tuple only ends the call.
FreeCoherentInvalid(dev, size, handle) ==
  /\ call = "idle"
  /\ ~FreeAccepted(dev, size, handle)
  /\ Return("ok")
  /\ UNCHANGED <<token, leaseVars, dmadVars>>

FreeCoherentReturns ==
  /\ call = "dma_free"
  /\ dmaReply # "none"
  /\ IF dmaReply = "accepted"
     THEN allocated' = FALSE /\ allocated_size' = 0 /\ revoked' = TRUE
     ELSE UNCHANGED <<allocated, allocated_size, revoked>>
  /\ call' = "idle"
  /\ ret' = "ok"
  /\ dmaReply' = "none"
  /\ UNCHANGED <<token, device, selected_mask, dmaRequest, dmadVars>>

\* A request the driver sends on the free endpoint itself: the forged token of
\* forged_dma_token_is_rejected, or its own with any address and size.
RawFree(tuple) ==
  /\ call = "idle"
  /\ dmaRequest' = tuple
  /\ call' = "dma_raw"
  /\ UNCHANGED <<ret, token, leaseVars, dmaReply, dmadVars>>

RawFreeReturns ==
  /\ call = "dma_raw"
  /\ dmaReply # "none"
  /\ ret' = IF dmaReply = "rejected" THEN "ok" ELSE "einval"
  /\ call' = "idle"
  /\ dmaReply' = "none"
  /\ UNCHANGED <<token, leaseVars, dmaRequest, dmadVars>>

-----------------------------------------------------------------------------
(* selinos-dmad.                                                           *)

Waiting == call \in {"dma_free", "dma_raw"} /\ dmaReply = "none"

\* Of a request dmad compares the token only.
Releasable ==
  /\ lease_active
  /\ dmaRequest.token = Token
  /\ dmaRequest.addr # 0
  /\ dmaRequest.size # 0

\* Mutant: a refused request is dropped without a reply.
DmadRejectsSilently ==
  /\ Waiting
  /\ ~Releasable
  /\ dmaRequest' = NoRequest
  /\ UNCHANGED <<call, ret, token, leaseVars, dmaReply, dmadVars>>

DmadRejects ==
  /\ Waiting
  /\ ~Releasable
  /\ dmaReply' = "rejected"
  /\ dmaRequest' = NoRequest
  /\ UNCHANGED <<call, ret, token, leaseVars, dmadVars>>

\* Mutant: the lease is denied only after the teardown has succeeded.
DmadDeniesLast ==
  /\ Waiting
  /\ Releasable
  /\ \E done \in 0..3 :
       /\ done # 3 => done + 1 \in FailingSteps
       /\ lease_active' = (done # 3)
       /\ mapped' = (mapped /\ done = 0)
       /\ frameCap' = IF done = 3 THEN "gone" ELSE IF done = 2 THEN "childless"
                      ELSE frameCap
       /\ dmaReply' = IF done = 3 THEN "accepted" ELSE "rejected"
  /\ bypassed' = (bypassed \/ call = "dma_raw")
  /\ dmaRequest' = NoRequest
  /\ UNCHANGED <<call, ret, token, leaseVars>>

\* The lease is denied first, then the steps run until one of them fails:
\* `done' of them succeeded, and only all three earn an accepted reply.
DmadReleases ==
  /\ Waiting
  /\ Releasable
  /\ lease_active' = FALSE
  /\ \E done \in 0..3 :
       /\ done # 3 => done + 1 \in FailingSteps
       /\ mapped' = (mapped /\ done = 0)
       /\ frameCap' = IF done = 3 THEN "gone" ELSE IF done = 2 THEN "childless"
                      ELSE frameCap
       /\ dmaReply' = IF done = 3 THEN "accepted" ELSE "rejected"
  /\ bypassed' = (bypassed \/ call = "dma_raw")
  /\ dmaRequest' = NoRequest
  /\ UNCHANGED <<call, ret, token, leaseVars>>

Dmad == DmadRejects \/ DmadReleases

-----------------------------------------------------------------------------

DriverCalls ==
  \/ BindDevice \/ UnbindDevice \/ ProbeFails
  \/ \E dev \in Devices, mask \in Masks :
       SetMask(dev, mask) \/ SetMaskInvalid(dev, mask)
  \/ \E dev \in Devices, size \in Sizes :
       AllocCoherent(dev, size) \/ AllocCoherentInvalid(dev, size)
  \/ \E dev \in Devices, size \in Sizes, handle \in Handles :
       FreeCoherent(dev, size, handle) \/ FreeCoherentInvalid(dev, size, handle)
  \/ \E tuple \in RawTuples : RawFree(tuple)

DriverRuns == FreeCoherentReturns \/ RawFreeReturns

Next == DriverCalls \/ DriverRuns \/ Dmad

\* Both threads are scheduled; no driver is obliged to make another call.
Fairness == WF_vars(DriverRuns) /\ WF_vars(Dmad)

Spec == Init /\ [][Next]_vars /\ Fairness

-----------------------------------------------------------------------------
(* Properties.                                                             *)

(* The driver's record of the lease and dmad's stay true of each other and  *)
(* of the capabilities, through failing teardown steps, refusals and any   *)
(* request sent past the API (dmad.c:63-93, kapi_core.c:394-397,425-433,   *)
(* docs/phase4_dmad_revocation_design.md: no successful reply before the   *)
(* unmap and the revocation).  A lease called revoked is denied, unmapped  *)
(* and its frame capability deleted; an active one is whole, dmad never    *)
(* takes one it has begun to tear down for active; and the API hands only  *)
(* an active one out, unless the driver had dmad take it past the API.     *)
(* Then it is gone for good and the API never calls it revoked: a later    *)
(* dma_free_coherent is refused and the allocation, if any, stays.         *)
LeaseIsTrue ==
  /\ revoked => ~lease_active /\ ~mapped /\ frameCap = "gone"
  /\ lease_active => mapped /\ frameCap = "whole"
  /\ ~allocated /\ ~revoked => lease_active \/ bypassed
  /\ bypassed => ~lease_active /\ ~revoked

(* "Incorrect free tuple: dmad rejects request and original lease remains  *)
(* active" (docs/phase4_dmad_revocation_design.md:32): a lease only ends   *)
(* on a request that names it.  The code compares the token alone          *)
(* (dmad.c:63-64), so this does not hold.                                  *)
WrongTupleRefused ==
  [][lease_active /\ ~lease_active' =>
       dmaRequest.addr = LeaseAddr /\ dmaRequest.size <= LeaseSize]_vars

(* An allocated buffer lies within the mask the driver selected, and that  *)
(* mask within the supported one, through mask changes, failed probes and  *)
(* re-registrations (kapi_core.c:376-405, 160-206).                        *)
BufferAddressable ==
  allocated =>
    /\ device = "shadow"
    /\ LeaseAddr + allocated_size - 1 <= selected_mask
    /\ selected_mask <= SupportedMask

(* Every release gets its answer, whichever teardown step fails            *)
(* (dmad.c:73-94, kapi_core.c:424).                                        *)
FreeAnswered == (call \in {"dma_free", "dma_raw"}) ~> (call = "idle")

=============================================================================
