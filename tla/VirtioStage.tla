----------------------------- MODULE VirtioStage -----------------------------
(***************************************************************************)
(* Root's staged virtio-blk proofs M2 to M9 (src/selinos_pci.c).  Each     *)
(* takes the validated common-configuration range, maps its page, drives   *)
(* the device's status and, from M5 on, its queue zero, resets the device  *)
(* and gives every frame, reservation and mapping back:                    *)
(*   m2 observe_features   m3 zero_features   m4 driver_ready_reset        *)
(*   m5 queue_zero         m6 queue_layout    m7 queue_enable_reset        *)
(*   m8 queue_zero_notification               m9 (and M10) notification    *)
(* A stage is the list of the steps it has left.  Any allocation or        *)
(* mapping may fail and the device may refuse what is written to it; every *)
(* refusal goes to the label out, which releases what is held, one object  *)
(* at a time.                                                              *)
(*                                                                         *)
(* A slow device is one whose reset takes time: the status reads non-zero  *)
(* until it is done, as the virtio specification allows.                   *)
(***************************************************************************)
EXTENDS Naturals, Sequences

CONSTANTS Stages,     \* the stages root runs
          Page,       \* dwords in a page
          Offsets,    \* page_offset of the common range, in dwords
          SlowDevices \* the kinds of device: TRUE may take time to reset

FeatureEnd == 2       \* dwords up to the end of device_feature

\* The offsets virtio_common_range_is_sane lets through.
PageAssumption    == Page \in Nat \ {0}
OffsetsAssumption == Offsets \subseteq {o \in Nat : o + FeatureEnd <= Page}
SlowAssumption    == SlowDevices \subseteq BOOLEAN
StagesAssumption  ==
  Stages \subseteq {"m2", "m3", "m4", "m5", "m6", "m7", "m8", "m9"}

VARIABLES
  stage,       \* root: the stage it is in, "none", or "faulted"
  todo,        \* root: the steps left of it
  held,        \* root: the frames, reservations and mappings it holds
  success,     \* root: the stage's result
  pageOffset,  \* root: where the common range starts in its page
  zeroed,      \* the layout frame is all zero
  common,      \* root: its pointer to the common range is set, no longer NULL
  slow,        \* device: a reset may take time
  status,      \* device: the bits of device_status
  resetting,   \* device: a reset has been asked for and is not done
  queueSize,   \* device: the size queue zero is programmed with
  queueAddr,   \* device: the frame the three queue addresses point to
  queueEnable  \* device: queue_enable of queue zero

rootVars   == <<stage, held, success, pageOffset, zeroed, common>>
deviceVars == <<status, resetting, queueSize, queueAddr, queueEnable>>
vars       == <<rootVars, todo, slow, deviceVars>>

Bits     == {"acknowledge", "driver", "features_ok", "driver_ok"}
Frames   == {"common", "layout", "notification"}
Objects  == {"frame", "reservation", "mapping"} \X Frames

\* virtio_status values.
FeaturesOk == {"acknowledge", "driver", "features_ok"}
DriverOk   == Bits

-----------------------------------------------------------------------------
(* The stages, step by step.                                               *)

At(op, arg) == [op |-> op, arg |-> arg]
Do(op)      == At(op, "none")
Write(bits) == [op |-> "status", arg |-> bits]

MapCommon == <<At("alloc", "common"), At("map", "common"), Do("point")>>
MapLayout == <<At("alloc", "common"), At("alloc", "layout"), Do("locate"),
               At("map", "common"), At("map", "layout"), Do("zero"),
               Do("point")>>
Handshake == <<Write({}), Write({"acknowledge"}), Write({"acknowledge", "driver"}),
               Write(FeaturesOk)>>
Ready     == Handshake \o <<Write(DriverOk)>>
Program   == <<Do("select"), Do("size"), Do("addresses")>>
Notify    == <<Do("doorbell"), At("alloc", "notification"), At("map", "notification"),
               Do("notify"), Do("unchanged")>>

Steps ==
  [m2 |-> MapCommon \o <<Do("features")>>,
   m3 |-> MapCommon \o Handshake \o <<Do("reset")>>,
   m4 |-> MapCommon \o Ready \o <<Do("reset")>>,
   m5 |-> MapCommon \o Ready \o <<Do("select"), Do("reset")>>,
   m6 |-> MapLayout \o Ready \o Program \o <<Do("disabled"), Do("reset")>>,
   m7 |-> MapLayout \o Ready \o Program \o <<Do("enable"), Do("reset")>>,
   m8 |-> MapCommon \o Ready \o <<Do("select"), Do("doorbell"), Do("reset")>>,
   m9 |-> MapLayout \o Ready \o Program \o <<Do("enable")>> \o Notify
            \o <<Do("reset")>>]

\* The order of the releases at out: page by page, but M6 and M7 unmap both
\* pages before they free a frame.
PageRank == [notification |-> 0, layout |-> 1, common |-> 2]
KindRank == [mapping |-> 0, reservation |-> 1, frame |-> 2]
ReleaseRank(o) ==
  IF stage \in {"m6", "m7"} /\ o[1] = "frame" THEN 9 + PageRank[o[2]]
                                             ELSE 3 * PageRank[o[2]] + KindRank[o[1]]

\* Deviation: a failure leaves the device as it is.
LastResetForgotten(ok, h) == <<>>

\* At out: one more reset, not read back, when the common page is mapped and
\* the stage has not succeeded; then everything in h is released.
LastResetAt(ok, h) ==
  IF <<"mapping", "common">> \in h /\ ~ok /\ stage # "m2"
    THEN <<Do("lastReset")>> ELSE <<>>

ReleasesAt(h) == IF h = {} THEN <<>> ELSE <<Do("release")>>

Out(ok, h) == LastResetAt(ok, h) \o ReleasesAt(h) \o <<Do("return")>>

-----------------------------------------------------------------------------
(* The device.                                                             *)

\* What the device does when it is reset, at once or when it gets to it.
ResetNow ==
  /\ status' = {}
  /\ resetting' = FALSE
  /\ queueSize' = 0
  /\ queueAddr' = "none"
  /\ queueEnable' = FALSE

ResetLater ==
  /\ slow
  /\ status # {}
  /\ resetting' = TRUE
  /\ UNCHANGED <<status, queueSize, queueAddr, queueEnable>>

WriteZero == ResetNow \/ ResetLater

DeviceResets ==
  /\ resetting
  /\ ResetNow
  /\ UNCHANGED <<slow, rootVars, todo>>

\* The device may read and write the rings its queue points to.
DeviceLive == "driver_ok" \in status /\ queueEnable /\ queueAddr = "layout"

-----------------------------------------------------------------------------
(* Root.                                                                   *)

Doing(op) == todo # <<>> /\ Head(todo).op = op
Arg       == Head(todo).arg
Continue  == todo' = Tail(todo)
GoOut     == todo' = Out(FALSE, held)

\* The dwords of the common configuration a step reaches up to, and whether
\* they are in the mapped page.
Reach ==
  [features |-> 2, status |-> 6, reset |-> 6, lastReset |-> 6, select |-> 8,
   size |-> 7, addresses |-> 14, disabled |-> 8, enable |-> 8]
Inside == common /\ pageOffset + Reach[Head(todo).op] <= Page

Begin(s) ==
  /\ stage = "none"
  /\ stage' = s
  /\ todo' = Steps[s]
  /\ success' = FALSE
  /\ pageOffset' \in Offsets
  /\ common' = FALSE
  /\ UNCHANGED <<slow, held, zeroed, deviceVars>>

Alloc ==
  /\ Doing("alloc")
  /\ \/ /\ held' = held \cup {<<"frame", Arg>>}
        /\ zeroed' = IF Arg = "layout" THEN FALSE ELSE zeroed
        /\ Continue
     \/ UNCHANGED <<held, zeroed>> /\ GoOut
  /\ UNCHANGED <<slow, stage, success, pageOffset, common, deviceVars>>

\* A reservation, then the mapping in it, which may fail alone.
Map ==
  /\ Doing("map")
  /\ \/ /\ held' = held \cup {<<"reservation", Arg>>, <<"mapping", Arg>>}
        /\ Continue
     \/ /\ held' \in {held, held \cup {<<"reservation", Arg>>}}
        /\ todo' = Out(FALSE, held')
  /\ UNCHANGED <<slow, stage, success, pageOffset, zeroed, common, deviceVars>>

Point ==
  /\ Doing("point")
  /\ common' = TRUE
  /\ Continue
  /\ UNCHANGED <<slow, stage, held, success, pageOffset, zeroed, deviceVars>>

\* Checks of the frame's physical address, of the notification location and
\* of the rings after the notification.
Check ==
  /\ Doing("locate") \/ Doing("doorbell") \/ Doing("unchanged")
  /\ Continue \/ GoOut
  /\ UNCHANGED <<slow, rootVars, deviceVars>>

Zero ==
  /\ Doing("zero")
  /\ zeroed' = TRUE
  /\ Continue
  /\ UNCHANGED <<slow, stage, held, success, pageOffset, common, deviceVars>>

ObserveFeatures ==
  /\ Doing("features")
  /\ Inside
  /\ success' = TRUE
  /\ todo' = Out(TRUE, held)
  /\ UNCHANGED <<slow, stage, held, pageOffset, zeroed, common, deviceVars>>

\* M3 reads back one bit of FEATURES_OK, the others the whole byte.
Accepted(bits) ==
  IF stage = "m3" /\ bits = FeaturesOk THEN "features_ok" \in status' ELSE status' = bits

WriteStatus ==
  /\ Doing("status")
  /\ Inside
  /\ \/ Arg = {} /\ WriteZero
     \/ /\ Arg # {}
        /\ status' \in SUBSET Arg
        /\ UNCHANGED <<slow, resetting, queueSize, queueAddr, queueEnable>>
  /\ IF Accepted(Arg) THEN Continue ELSE GoOut
  /\ UNCHANGED <<slow, rootVars>>

\* Queue zero exists, has a size and is disabled; M5 and M8 do not look at
\* queue_enable.
SelectQueue ==
  /\ Doing("select")
  /\ Inside
  /\ \/ (stage \in {"m5", "m8"} \/ ~queueEnable) /\ Continue
     \/ GoOut
  /\ UNCHANGED <<slow, rootVars, deviceVars>>

\* A queue register is written and read back: the device takes the value or
\* keeps its own.
ProgramSize ==
  /\ Doing("size")
  /\ Inside
  /\ \/ queueSize' = 1 /\ Continue
     \/ UNCHANGED queueSize /\ GoOut
  /\ UNCHANGED <<slow, rootVars, status, resetting, queueAddr, queueEnable>>

ProgramAddresses ==
  /\ Doing("addresses")
  /\ Inside
  /\ \/ queueAddr' = "layout" /\ Continue
     \/ queueAddr' \in {"layout", queueAddr} /\ GoOut
  /\ UNCHANGED <<slow, rootVars, status, resetting, queueSize, queueEnable>>

StillDisabled ==
  /\ Doing("disabled")
  /\ Inside
  /\ IF queueEnable THEN GoOut ELSE Continue
  /\ UNCHANGED <<slow, rootVars, deviceVars>>

EnableQueue ==
  /\ Doing("enable")
  /\ Inside
  /\ \/ queueEnable' = TRUE /\ Continue
     \/ queueEnable' \in BOOLEAN /\ GoOut
  /\ UNCHANGED <<slow, rootVars, status, resetting, queueSize, queueAddr>>

NotifyQueue ==
  /\ Doing("notify")
  /\ Continue
  /\ UNCHANGED <<slow, rootVars, deviceVars>>

\* The reset that ends a stage, and its read-back: M7 and M9 also require
\* queue_enable to be clear.
Reset ==
  /\ Doing("reset")
  /\ Inside
  /\ WriteZero
  /\ success' = (status' = {} /\ (stage \in {"m7", "m9"} => ~queueEnable'))
  /\ todo' = Out(success', held)
  /\ UNCHANGED <<slow, stage, held, pageOffset, zeroed, common>>

LastReset ==
  /\ Doing("lastReset")
  /\ Inside
  /\ WriteZero
  /\ Continue
  /\ UNCHANGED <<slow, rootVars>>

\* The next object held in the order of the releases.
Release ==
  /\ Doing("release")
  /\ \E o \in held :
       /\ \A p \in held : ReleaseRank(o) <= ReleaseRank(p)
       /\ held' = held \ {o}
  /\ IF held' = {} THEN Continue ELSE UNCHANGED todo
  /\ UNCHANGED <<slow, stage, success, pageOffset, zeroed, common, deviceVars>>

Return ==
  /\ Doing("return")
  /\ stage' = "none"
  /\ Continue
  /\ UNCHANGED <<slow, held, success, pageOffset, zeroed, common, deviceVars>>

\* An access past the one mapped page, or through the NULL pointer: root takes
\* a VM fault and stops.
StrayAccess ==
  /\ todo # <<>>
  /\ Head(todo).op \in DOMAIN Reach
  /\ ~Inside
  /\ stage' = "faulted"
  /\ todo' = <<>>
  /\ UNCHANGED <<slow, held, success, pageOffset, zeroed, common, deviceVars>>

Init ==
  /\ stage = "none"
  /\ todo = <<>>
  /\ held = {}
  /\ success = FALSE
  /\ pageOffset \in Offsets
  /\ zeroed = FALSE
  /\ common = FALSE
  /\ slow \in SlowDevices
  /\ status \in {{}, Bits}
  /\ resetting = FALSE
  /\ queueSize = 0
  /\ queueAddr \in {"none", "firmware"}
  /\ queueEnable \in BOOLEAN

Next ==
  \/ \E s \in Stages : Begin(s)
  \/ Alloc \/ Map \/ Point \/ Check \/ Zero \/ ObserveFeatures \/ WriteStatus
  \/ SelectQueue \/ ProgramSize \/ ProgramAddresses \/ StillDisabled
  \/ EnableQueue \/ NotifyQueue \/ Reset \/ LastReset \/ Release \/ Return
  \/ StrayAccess \/ DeviceResets

Spec == Init /\ [][Next]_vars

-----------------------------------------------------------------------------
(* Properties.                                                             *)

\* Every variable is in range: root holds only objects of its three frames, and
\* queue zero is never programmed with more than the one slot root can serve.
TypeOK ==
  /\ stage \in Stages \cup {"none", "faulted"}
  /\ held \subseteq Objects
  /\ success \in BOOLEAN
  /\ pageOffset \in Offsets
  /\ zeroed \in BOOLEAN
  /\ common \in BOOLEAN
  /\ slow \in SlowDevices
  /\ status \subseteq Bits
  /\ resetting \in BOOLEAN
  /\ queueSize \in {0, 1}
  /\ queueAddr \in {"none", "firmware", "layout"}
  /\ queueEnable \in BOOLEAN

\* Whatever step fails, a stage that has returned holds no frame, reservation
\* or mapping, and at no time is a page mapped whose frame was given back.
NothingHeldOnReturn ==
  /\ stage = "none" => held = {}
  /\ \A f \in Frames : <<"mapping", f>> \in held =>
       {<<"frame", f>>, <<"reservation", f>>} \subseteq held

\* While the device may use queue zero with root's rings, root owns the frame
\* they are in, the frame was zeroed, and the queue has its one slot.  It rests
\* on a reset that is done when it is written: out does not wait for one
\* (selinos_pci.c:1855-1858).
LiveQueueIsOwned ==
  DeviceLive /\ ~slow => <<"frame", "layout">> \in held /\ zeroed /\ queueSize = 1

\* A stage reports success only over a device whose reset is done and whose
\* queue is disabled, however long the reset takes.
SuccessMeansReset ==
  stage \notin {"none", "faulted", "m2"} /\ success =>
    status = {} /\ ~queueEnable /\ ~resetting

\* Every exit of a stage that got to write the device's status leaves a device
\* that resets at once reset, after a failure as after a success.
ResetOnEveryExit ==
  [][Doing("return") /\ common /\ stage # "m2" /\ ~slow => status = {}]_vars

\* Root accesses the common configuration through a pointer it has set and
\* inside the page it has mapped.
AccessesMapped == stage # "faulted"

=============================================================================
