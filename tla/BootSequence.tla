---------------------------- MODULE BootSequence ----------------------------
(***************************************************************************)
(* How root boots SeLinOS: main, selinos_domain_manager_start, the bundles *)
(* it starts and the two domains of each edu device.  The boot is a list   *)
(* of steps.  Any of them may fail, and then the boot stops for good with  *)
(* what was spawned before still running.  Root has the top priority until *)
(* it has spawned everything, so others run only while it waits.           *)
(***************************************************************************)
EXTENDS BootBundles, Sequences, FiniteSetsExt

CONSTANTS
  Profiles,      \* the build and the machine: what is enabled, which edu devices,
                 \* and what the programs root waits for meet: a kernel that
                 \* honours execute-disable, an NX child that may stray, an
                 \* archive romfsd accepts
  Failing,       \* the kinds of step that may fail
  Requests,      \* what the root-dispatch client sends: "exact" or "other"
  TokenModulus   \* device tokens are unsigned words: modulo this

MaxEdu == 2      \* SELINOS_MAX_QEMU_EDU_INSTANCES
Instances == 0..(MaxEdu - 1)

ASSUME ProfilesAssumption ==
  Profiles \subseteq [dynamic : BOOLEAN, experiments : BOOLEAN, nx : BOOLEAN,
                      honours : BOOLEAN, strays : BOOLEAN, archive : BOOLEAN,
                      edu : Seq(Nat)]
ASSUME RequestsAssumption == Requests \subseteq {"exact", "other"}
ASSUME TokenModulusAssumption == TokenModulus \in Nat /\ TokenModulus > MaxEdu

VARIABLES
  profile,   \* constant during the boot
  pc,        \* the step root is at
  root,      \* "booting", "waiting", "dispatching", "idle", "suspended"
  caps,      \* <<process, slot, object>>: what each process holds
  live,      \* the processes that run
  held,      \* the processes spawned suspended
  token,     \* edu_device_token, per instance
  next,      \* next_device_token
  told,      \* the token each edu process was started with
  asked,     \* the request that waits at root's dispatch endpoint
  answer,    \* what the dispatch client was answered
  faulted    \* whether something root relies on has failed

vars == <<profile, pc, root, caps, live, held, token, next, told, asked, answer,
          faulted>>

-----------------------------------------------------------------------------
(* The boot as a list of steps.  A group is a bundle and its instance; a   *)
(* process and an object are named by their group.                         *)

Step(op, group, arg) == [op |-> op, group |-> group, arg |-> arg]
Prepare(g)     == Step("prepare", g, "none")
Wire(g, table) == Step("wire", g, table)
Spawn(g, who)  == Step("spawn", g, who)

One(name) == <<name, 0>>

\* Configure every process, allocate every object, copy every cap; then spawn.
Bundle(name, table, order) ==
  <<Prepare(One(name)), Wire(One(name), table)>>
     \o [k \in 1..Len(order) |-> Spawn(One(name), order[k])]

\* start_one_service
Service(name) == <<Prepare(One(name)), Spawn(One(name), name)>>

Deviced(i) ==
  <<Step("token", <<"edu", i>>, "none"), Prepare(<<"edu", i>>),
    Wire(<<"edu", i>>, <<Cap("deviced", "deviced", 8)>>),
    Spawn(<<"edu", i>>, "deviced")>>

\* Deviation: the driver is started before the daemons it is mediated by.
DriverFirst(i) ==
  LET g == <<"edu", i>> IN
  <<Step("irq", g, "none"), Step("dma", g, "none"), Prepare(g),
    Wire(g, DriverCaps), Spawn(g, "driver"),
    Prepare(g), Wire(g, DmadCaps), Spawn(g, "dmad"),
    Prepare(g), Wire(g, IrqdCaps), Spawn(g, "irqd")>>

Driver(i) ==
  LET g == <<"edu", i>> IN
  <<Step("irq", g, "none"), Step("dma", g, "none"), Prepare(g),
    Wire(g, DriverCaps),
    Prepare(g), Wire(g, DmadCaps), Spawn(g, "dmad"),
    Prepare(g), Wire(g, IrqdCaps), Spawn(g, "irqd"),
    Spawn(g, "driver")>>

When(condition, steps) == IF condition THEN steps ELSE <<>>

\* start_taskd_dynamic_alloc_m0_bundle: root waits for the probe's success
DynamicProbe ==
  Bundle("dynamic", DynamicCaps, <<"taskd", "probe">>)
     \o <<Step("await", One("dynamic"), "success")>>

\* The IOMMU, e1000 and virtio-blk experiments, in order; each may stop the boot.
Experiments == <<"IOMMU M0", "network N0", "network N1", "PCI M0", "storage M0",
                 "storage M1", "storage M2", "storage M3", "storage M4",
                 "storage M5", "storage M6", "storage M7", "storage M8",
                 "storage M9", "storage M10">>
DeviceProbes == [k \in 1..Len(Experiments) |->
                   Step("experiment", One("pci"), Experiments[k])]

\* Of the machine's edu devices the first MaxEdu get their domains: all deviced
\* first, then the drivers.
EduDomains(p) ==
  IF p.edu = <<>>
    THEN <<Prepare(One("dormant")), Spawn(One("dormant"), "deviced")>>
    ELSE Deviced(0) \o When(Len(p.edu) >= MaxEdu, Deviced(1))
           \o Driver(0) \o When(Len(p.edu) >= MaxEdu, Driver(1))

Fixtures ==
  Bundle("objectd", Between("objectd", "probe", "ep"), <<"objectd", "probe">>)
  \o Bundle("lifecycle", LifecycleCaps, <<"child", "taskd", "probe">>)
  \o Bundle("memd", Between("memd", "probe", "ep"), <<"memd", "probe">>)
  \o Bundle("reservation", ReservationCaps, <<"objectd", "memd", "taskd", "probe">>)
  \o Bundle("opaque", LeaseCaps("token"), <<"objectd", "taskd", "probe">>)
  \o Bundle("tcb_lease", LeaseCaps("child_tcb"), <<"objectd", "taskd", "probe">>)
  \o Bundle("tcb_resume", ResumeCaps, <<"child", "objectd", "taskd", "probe">>)

\* selinos_domain_manager_start
Plan(p) ==
  <<Step("environment", One("root"), "none")>>
  \o When(p.dynamic, DynamicProbe)
  \o When(p.experiments, DeviceProbes)
  \o EduDomains(p)
  \o Fixtures
  \o Bundle("dispatch", <<Cap("probe", "ep", 8)>>, <<"probe">>)
  \o Bundle("romfs", Between("romfsd", "probe", "ep"), <<"romfsd", "probe">>)
  \o Service("consoled") \o Service("abi-gated")
  \o <<Prepare(One("abi")), Spawn(One("abi"), "probe"),
       Step("await", One("abi"), "fallible")>>
  \o When(p.nx, <<Step("await", One("nx"), "fallible")>>)
  \o Service("modld") \o Service("modexec")
  \o When(p.edu = <<>>, <<Prepare(One("dormant")), Spawn(One("dormant"), "driver")>>)

Process(g, role) == <<g[1], g[2], role>>
Object(g, name) == <<g[1], g[2], name>>

\* The processes spawned without being resumed
Suspended(g, role) == g[1] = "tcb_resume" /\ role = "child"

-----------------------------------------------------------------------------
Init ==
  /\ profile \in Profiles
  /\ pc = 1 /\ root = "booting"
  /\ caps = {} /\ live = {} /\ held = {}
  /\ token = [i \in Instances |-> 0] /\ next = 1 /\ told = {}
  /\ asked = "none" /\ answer = "none" /\ faulted = FALSE

At == Plan(profile)[pc]
Reached(op) == root = "booting" /\ pc <= Len(Plan(profile)) /\ At.op = op
Done == pc' = pc + 1 /\ UNCHANGED <<profile, root, asked, answer, faulted>>

\* return false, all the way up to selinos_exit: root is suspended.
Stop(whole) ==
  /\ root' = "suspended"
  /\ UNCHANGED <<profile, pc, caps, live, held, token, next, told, asked, answer>>
  /\ faulted' = (faulted \/ whole)

\* Anything root asks of the kernel, the allocator or a device may fail.
Fails ==
  /\ root = "booting" /\ pc <= Len(Plan(profile)) /\ At.op \in Failing
  /\ At.op # "await"
  /\ Stop(TRUE)

\* Steps of which only success or failure is seen
Passes ==
  /\ \E op \in {"environment", "experiment", "prepare", "dma"} : Reached(op)
  /\ Done /\ UNCHANGED <<caps, live, held, token, next, told>>

\* Deviation: every domain is issued the same token.
IssueTokenUnchanged ==
  LET i == At.group[2] IN
  /\ Reached("token")
  /\ token' = [token EXCEPT ![i] = next] /\ next' = next
  /\ Done /\ UNCHANGED <<caps, live, held, told>>

\* selinos_start_deviced_domain: zero is never a token.
IssueToken ==
  LET i == At.group[2]
      fresh == IF next = 0 THEN 1 ELSE next IN
  /\ Reached("token")
  /\ token' = [token EXCEPT ![i] = fresh]
  /\ next' = (fresh + 1) % TokenModulus
  /\ Done /\ UNCHANGED <<caps, live, held, told>>

\* issue_edu_irq: the kernel hands out the handler of a line once.
LineTaken == \E i \in 0..(At.group[2] - 1) :
               profile.edu[i + 1] = profile.edu[At.group[2] + 1]
IssueIrq ==
  /\ Reached("irq")
  /\ IF LineTaken THEN Stop(TRUE)
     ELSE Done /\ UNCHANGED <<caps, live, held, token, next, told>>

\* The slots the entries of a table land in: those of a process one after another
Landing(table) ==
  LET land[k \in 1..Len(table)] ==
        LET given == {j \in 1..(k - 1) : table[j].to = table[k].to} IN
        IF given = {} THEN FirstFree ELSE land[Max(given)] + table[Max(given)].count
  IN land

Copies(g, table) ==
  {<<Process(g, table[k].to), table[k].slot, Object(g, table[k].obj)>> :
     k \in 1..Len(table)}

\* sel4utils_copy_cap_to_process, then the comparison with the headers' slots
WireStep ==
  /\ Reached("wire")
  /\ IF \A k \in 1..Len(At.arg) : Landing(At.arg)[k] = At.arg[k].slot
       THEN /\ caps' = caps \cup Copies(At.group, At.arg)
            /\ Done /\ UNCHANGED <<live, held, token, next, told>>
       ELSE Stop(FALSE)

\* sel4utils_spawn_process_v; an edu process gets its token as an argument.
SpawnStep ==
  LET p == Process(At.group, At.arg) IN
  /\ Reached("spawn")
  /\ IF Suspended(At.group, At.arg)
       THEN held' = held \cup {p} /\ UNCHANGED live
       ELSE live' = live \cup {p} /\ UNCHANGED held
  /\ told' = IF At.group[1] = "edu" /\ At.arg # "driver"
               THEN told \cup {<<p, token[At.group[2]]>>} ELSE told
  /\ Done /\ UNCHANGED <<caps, token, next>>

\* seL4_Wait or seL4_Recv: from here the spawned processes run.
BeginWait ==
  /\ Reached("await")
  /\ root' = "waiting"
  /\ UNCHANGED <<profile, pc, caps, live, held, token, next, told, asked, answer,
                 faulted>>

\* What the wait root is in needs to end well: the child's fault, before which
\* it sends nothing root receives (NxProbe), and a romfsd that serves (AbiGateway).
CanPass ==
  /\ root = "waiting"
  /\ At.group = One("nx") => profile.honours
  /\ At.group = One("abi") => profile.archive

\* What it needs to end at all, as the modules of the three waits have it:
\* NxProbe's ProbeReturns, AbiGateway's BootDecides, and Inventory's ProbePasses,
\* which needs nothing.
Answers ==
  /\ CanPass
  /\ At.group = One("nx") => ~profile.strays

\* Deviation: root waits again where it should go on.
WaitEndsAgain ==
  /\ root = "waiting"
  /\ root' = "booting"
  /\ UNCHANGED <<profile, pc, caps, live, held, token, next, told, asked, answer,
                 faulted>>

\* The probe root waits for has shown what it should.
WaitEnds ==
  /\ CanPass
  /\ root' = "booting" /\ pc' = pc + 1
  /\ UNCHANGED <<profile, caps, live, held, token, next, told, asked, answer, faulted>>

\* The syscall and NX probes may also show something else, or fail before they
\* wait for anybody.
WaitFails ==
  /\ root = "waiting" /\ At.arg = "fallible" /\ "await" \in Failing
  /\ Stop(TRUE)

\* main: root joins the priority of the others, then serves one request.
Lower ==
  /\ root = "booting" /\ pc > Len(Plan(profile))
  /\ root' = "dispatching"
  /\ UNCHANGED <<profile, pc, caps, live, held, token, next, told, asked, answer,
                 faulted>>

LowerFails ==
  /\ root = "booting" /\ pc > Len(Plan(profile)) /\ "priority" \in Failing
  /\ Stop(TRUE)

\* drivers/root_dispatch_m0_probe.c: one call, as soon as root lets it run
DispatchCall ==
  /\ root # "booting" /\ <<"dispatch", 0, "probe">> \in live
  /\ asked = "none" /\ answer = "none"
  /\ \E request \in Requests : asked' = request
  /\ UNCHANGED <<profile, pc, root, caps, live, held, token, next, told, answer,
                 faulted>>

\* selinos_root_dispatch_m0_once: anything else is answered, and root gives up.
Dispatch ==
  /\ root = "dispatching" /\ asked # "none"
  /\ IF asked = "exact" THEN answer' = "READY" /\ root' = "idle"
                        ELSE answer' = "InvalidArgument" /\ root' = "suspended"
  /\ faulted' = (faulted \/ asked = "other")
  /\ asked' = "none"
  /\ UNCHANGED <<profile, pc, caps, live, held, token, next, told>>

RootStep == Fails \/ Passes \/ IssueToken \/ IssueIrq \/ WireStep \/ SpawnStep
              \/ BeginWait \/ Lower \/ LowerFails \/ Dispatch
Others == WaitEnds \/ WaitFails \/ DispatchCall
Next == RootStep \/ Others

\* Root is the only thread that runs, or one of several with equal priority.  A
\* wait ends where what it waits for is sure to come; elsewhere it may last for
\* ever (the two seL4_Recv of x86_nx_mapping_probe.c:92,114).
Fairness == /\ WF_vars(RootStep) /\ WF_vars(DispatchCall)
            /\ WF_vars(Answers /\ (WaitEnds \/ WaitFails))
Spec == Init /\ [][Next]_vars /\ Fairness

-----------------------------------------------------------------------------
Slots == 0..(FirstFree + EduPages + 16)

TypeOK ==
  /\ pc \in Nat \ {0}
  /\ root \in {"booting", "waiting", "dispatching", "idle", "suspended"}
  /\ \A c \in caps : c[2] \in Slots
  /\ live \cap held = {}
  /\ token \in [Instances -> 0..(TokenModulus - 1)] /\ next \in 0..(TokenModulus - 1)
  /\ asked \in {"none", "exact", "other"}
  /\ answer \in {"none", "READY", "InvalidArgument"} /\ faulted \in BOOLEAN

Groups == {<<p[1], p[2]>> : p \in live}
AtSlot(p, s) == {c[3] : c \in {d \in caps : d[1] = p /\ d[2] = s}}
Of(table, g) == IF g[1] \in DOMAIN table THEN table[g[1]] ELSE {}

\* When a process runs, each slot it was compiled to use names the object its
\* partner uses under the partner's own slot number (the SLOT constants of the
\* protocol headers, and the order of the copies in domain_manager.c).
EndsMeet ==
  \A g \in Groups : \A l \in Of(Calls, g) \cup Of(Shares, g) :
    LET a == Process(g, l.from)
        b == Process(g, l.to)
    IN {a, b} \subseteq live \cup held =>
         AtSlot(a, l.at) = AtSlot(b, l.there) /\ AtSlot(a, l.at) # {}

\* Wherever the boot stops, whoever may call runs only after whoever answers:
\* no fixture is left blocked on a server that was never spawned, no edu driver
\* runs without its three daemons, and romfsd has been started before the syscalls.
ServersFirst ==
  /\ \A g \in Groups : \A l \in Of(Calls, g) :
       Process(g, l.from) \in live => Process(g, l.to) \in live
  /\ root = "waiting" /\ At.group = One("abi") => <<"romfs", 0, "romfsd">> \in live

\* Root has no cap left to give to a process it has spawned: what the program
\* reads from its slots does not depend on when it first runs.
WiredBeforeRun ==
  \A k \in pc..Len(Plan(profile)) :
    LET s == Plan(profile)[k] IN
    s.op = "wire" =>
      \A j \in 1..Len(s.arg) : Process(s.group, s.arg[j].to) \notin live \cup held

\* The daemons of one edu device (deviced, dmad, irqd) are started with the same
\* token, never zero, and those of two devices with different ones, although a
\* deviced is started before any dmad or irqd (selinos_edu_domain.c:163, 298, 349).
TokensIdentify ==
  \A s, t \in told :
    /\ s[2] # 0
    /\ s[2] = t[2] <=> s[1][2] = t[1][2]

\* The slot checks never stop a boot by themselves: if root gives up, then
\* something it was given or relies on did fail.
OnlyFaultsStop == root = "suspended" => faulted

\* The probe that called root's dispatch endpoint is answered once the boot
\* is over.
DispatchAnswered == (root = "dispatching") ~> (answer # "none")

\* In the end the boot is over, or stopped for good, or hangs in a wait that
\* nothing is bound to end, which only a careless kernel, a child that strays or
\* an archive romfsd refuses brings about.
BootSettles == <>[](root \in {"idle", "suspended"} \/ (root = "waiting" /\ ~Answers))
=============================================================================
