---------------------------- MODULE BootBundles ----------------------------
(***************************************************************************)
(* What root builds while it boots, as tables: for each bundle the caps it *)
(* copies into each process, in order and with the slot the protocol       *)
(* header promises, and the order in which it spawns the processes.  And   *)
(* what the programs take for granted: which slot of one is the other end  *)
(* of which slot of another.                                               *)
(***************************************************************************)
EXTENDS Naturals

FirstFree == 8       \* SELINOS_PROCESS_FIRST_FREE
EduPages == 256      \* SELINOS_QEMU_EDU_BAR0_SIZE >> seL4_PageBits

\* `count` caps copied to `to`, the first of which is expected in `slot`.
Block(to, obj, slot, count) ==
  [to |-> to, obj |-> obj, slot |-> slot, count |-> count]
Cap(to, obj, slot) == Block(to, obj, slot, 1)

\* An endpoint (or a notification) between a client and a server.
Between(server, client, obj) == <<Cap(server, obj, 8), Cap(client, obj, 8)>>

\* Deviation: taskd is given memd's endpoint where it expects objectd's.
ReservationCrossed ==
  <<Cap("taskd", "client", 8), Cap("taskd", "mem", 9),
    Cap("taskd", "object", 10), Cap("taskd", "success", 11),
    Cap("objectd", "object", 8), Cap("memd", "mem", 8),
    Cap("probe", "client", 8), Cap("probe", "success", 9)>>

ReservationCaps ==
  <<Cap("taskd", "client", 8), Cap("taskd", "object", 9),
    Cap("taskd", "mem", 10), Cap("taskd", "success", 11),
    Cap("objectd", "object", 8), Cap("memd", "mem", 8),
    Cap("probe", "client", 8), Cap("probe", "success", 9)>>

LifecycleCaps ==
  <<Cap("taskd", "client", 8), Cap("taskd", "completion", 9),
    Cap("taskd", "start", 10), Cap("taskd", "child_tcb", 11),
    Cap("taskd", "success", 12),
    Cap("child", "start", 8), Cap("child", "completion", 9),
    Cap("probe", "client", 8), Cap("probe", "success", 9)>>

\* The opaque token and the TCB lease differ in what objectd holds.
LeaseCaps(leased) ==
  <<Cap("taskd", "client", 8), Cap("taskd", "object", 9),
    Cap("taskd", "success", 10),
    Cap("objectd", "object", 8), Cap("objectd", leased, 9),
    Cap("probe", "client", 8), Cap("probe", "success", 9)>>

ResumeCaps ==
  <<Cap("taskd", "client", 8), Cap("taskd", "object", 9),
    Cap("taskd", "completion", 10), Cap("taskd", "success", 11),
    Cap("objectd", "object", 8), Cap("objectd", "child_tcb", 9),
    Cap("child", "completion", 8),
    Cap("probe", "client", 8), Cap("probe", "success", 9)>>

DynamicCaps ==
  <<Cap("taskd", "client", 8), Cap("probe", "client", 8),
    Cap("probe", "success", 9)>>

\* selinos_start_edu_driver_domain, then start_edu_dmad and start_edu_irqd
DriverCaps ==
  <<Block("driver", "bar", 8, EduPages), Cap("driver", "frame", 264),
    Cap("driver", "notify", 265), Cap("driver", "complete", 266),
    Cap("driver", "request", 267), Cap("driver", "free", 268),
    Cap("driver", "register", 269), Cap("driver", "unregister", 270),
    Cap("driver", "deviced", 271)>>
DmadCaps ==
  <<Cap("dmad", "free", 8), Cap("dmad", "frame", 9),
    Cap("dmad", "driver_cnode", 10)>>
IrqdCaps ==
  <<Cap("irqd", "hw", 8), Cap("irqd", "handler", 9),
    Cap("irqd", "complete", 10), Cap("irqd", "notify", 11),
    Cap("irqd", "request", 12), Cap("irqd", "driver_cnode", 13)>>

-----------------------------------------------------------------------------
(* What the programs assume: slot `at` of `from` and slot `there` of `to`  *)
(* name one object.  A call waits for `to`; a signal does not.             *)

Link(from, at, to, there) == [from |-> from, at |-> at, to |-> to, there |-> there]

Calls ==
  [objectd     |-> {Link("probe", 8, "objectd", 8)},
   memd        |-> {Link("probe", 8, "memd", 8)},
   romfs       |-> {Link("probe", 8, "romfsd", 8)},
   dynamic     |-> {Link("probe", 8, "taskd", 8)},
   lifecycle   |-> {Link("probe", 8, "taskd", 8)},
   reservation |-> {Link("probe", 8, "taskd", 8), Link("taskd", 9, "objectd", 8),
                    Link("taskd", 10, "memd", 8)},
   opaque      |-> {Link("probe", 8, "taskd", 8), Link("taskd", 9, "objectd", 8)},
   tcb_lease   |-> {Link("probe", 8, "taskd", 8), Link("taskd", 9, "objectd", 8)},
   tcb_resume  |-> {Link("probe", 8, "taskd", 8), Link("taskd", 9, "objectd", 8),
                    Link("child", 8, "taskd", 10)},
   edu         |-> {Link("driver", 268, "dmad", 8), Link("driver", 266, "irqd", 10),
                    Link("driver", 267, "irqd", 12),
                    Link("driver", 271, "deviced", 8)}]

\* Notifications and shared frames: the two ends, in either order.
Shares ==
  [lifecycle   |-> {Link("taskd", 12, "probe", 9), Link("taskd", 10, "child", 8),
                    Link("child", 9, "taskd", 9)},
   reservation |-> {Link("taskd", 11, "probe", 9)},
   opaque      |-> {Link("taskd", 10, "probe", 9)},
   tcb_lease   |-> {Link("taskd", 10, "probe", 9)},
   tcb_resume  |-> {Link("taskd", 11, "probe", 9)},
   edu         |-> {Link("irqd", 11, "driver", 265), Link("dmad", 9, "driver", 264)}]
=============================================================================
