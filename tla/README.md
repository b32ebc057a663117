# A TLA+ model of SeLinOS

SeLinOS is a set of seL4 user-level programs: a root task that starts isolated
services and driver domains, mediates interrupts, DMA memory, PCI configuration
and a bounded set of Linux system calls, loads ELF programs and Linux kernel
modules, and proves each of these at boot with a small probe. This directory
holds TLA+ modules of its state-changing parts, the TLC runs that check them, and
TLAPS proofs about ten of them. Paths below are relative to `src/projects/helixos/`
of the repository, `docs/` to its root.

Run a model with `tlc -config <cfg> <module>.tla`, a proof with
`tlapm <component>Proofs.tla`. `PROJECT.json` lists runs, mutants (a plausible bug
for every property, which its run must find), the source lines of every
definition, findings, hazards and theorems.

## Inventory

| component | state it keeps | operations and partners | what is hard | what makes it correct |
|---|---|---|---|---|
| **irqd**, `servers/irqd.c` | the registered line; its place in the loop | register and unregister (badged control notification, then an endpoint), hardware interrupt, completion from the driver | one notification merges three badges; irqd waits synchronously for the driver while the driver may wait for irqd; each capability operation may fail | driver and irqd agree on the owner; the line is opened only after the device was serviced; no interrupt lost; every call answered |
| **KAPI**, `kapi/src/kapi_core.c` | PCI binding, IRQ binding, DMA lease, device token | `pci_*`, `request_irq`, `free_irq`, `dma_*`, called by drivers; calls irqd, dmad, deviced | state is changed before or after the remote call by different operations; a failed probe clears part of it | no grant that the service does not back; the mask of the device respected |
| **dmad**, `servers/dmad.c` | whether the lease is active | one release request: deny, unmap, revoke, delete | each of the three teardown steps may fail in between; requests can be sent around the KAPI | revoked means torn down; an active lease is whole |
| **edu driver domain**, `drivers/edu_kapi_probe.c` | flags, last status | the program of probe and remove, over the two above | undo paths in an order of their own for every failing step | what is left at the end is only what a service refused to release |
| **deviced**, `servers/deviced.c` | none | matches a device identity | stateless | the identity is exact |
| **PCI BAR transactions**, `src/selinos_pci.c` | the function's BAR and command word; root's copies | allocator M0, virtio range validations, e1000 N1 | every access may fail, a write may be lost; the undo depends on flags | configuration restored; the report true; no decoding over a probed BAR |
| **virtio-blk stages M2-M9**, `src/selinos_pci.c` | frames, reservations, mappings; the device's status and queue | eight staged proofs | partial allocation, order of reset and release, a pointer set later than its flag | nothing held on return; a live queue lies in memory root owns |
| **PCI enumeration, capability-list walk** | none | pure functions of configuration bytes | bounds, cycles in the list | terminates, accepts only in-bounds capabilities |
| **root construction M1-M4**, `src/root_construct_m*.c` and clients | construction state, TCB, lease flag, endpoint of the completion | construct request, lease request, completion of the child | failing steps, duplicate and malformed requests, a lost capability transfer | one child; its control leaves root once, when complete; all calls answered |
| **romfsd** and probe, `servers/romfsd.c`, `drivers/romfs_probe.c` | one volatile word, one open flag | OPEN, OPEN_PATH, READ, WRITE, CLOSE, for two clients | both clients share the one record | a client alone sees what it wrote |
| **Linux ABI gateway**, `src/domain_manager.c` and `drivers/linux_syscall_probe.c` | the next expected call, what root has set up in the probe | faults of the probe, calls of romfsd | an ordered dialogue of three programs, each step fallible | never answers what the probe does not expect; ends with a verdict |
| **task bundles**, `servers/taskd*.c`, `objectd*.c`, `memd*.c`, their probes and children | where each one-shot program is; who holds the child's TCB cap | chains of calls taskd - objectd - memd, notifications, a capability transferred in a reply | a refusal or a stopped boot in the middle of a chain; two signals that merge | success only when earned; nothing reserved is stranded; the child does not run before its control arrived |
| **one-slot inventories**, `objectd_m1.c`, `memd_m1.c`, `taskd_dynamic_alloc_m0.c` | reserved flag, generation | reserve, release (dynamic only) | several callers, stale generations, an endless answer-less loop after a duplicate | no two grants alike; the holder and the service agree |
| **kernel-module loader**, `kabi/`, `servers/modld.c`, `modexec.c` | the image's sections, their addresses, the import checks | digest, headers, `__versions`, layout, relocation, entry points; modexec calls them | widths and bounds of everything the image states | sections apart and inside the memory; a relocation exact and inside its section; entered only when checked |
| **ELF runtime loader**, `elfrt/` | tables it has parsed | program headers, dynamic entries, needed names, policy | 64-bit arithmetic that wraps | nothing past the end read; accepted segments and names lie in the file |
| **ROMFS archive parser**, in `servers/romfsd.c` | none | lookup in an embedded newc archive, self-check | bounds, cut archives | finds exactly the published members |
| **boot sequence and edu wiring**, `src/main.c`, `domain_manager.c`, `selinos_edu_domain.c`, `process.c` | what was prepared, wired, spawned; the device-token counter | a sequence of steps, each of which may fail | compiled slot numbers on both sides; order of server and client; the shared counter; stopping half-way | caps meet at both ends; servers first; each device its own token |
| **NX mapping probe**, `src/x86_nx_mapping_probe.c` | frame, copy, two mappings, the child | map, fault, remap, execute, clean up | the clean-up's flags against what is really held | mappings torn down on every path |
| **root dispatch M0**, in `domain_manager.c` | none | one request, one reply | the end of the boot | answered exactly |

Components talk in four ways: synchronous IPC (`seL4_Call`/`Recv`/`Reply`), badged
notifications that merge while pending, faults delivered to root, and kernel
objects one thread changes under another (mappings, capabilities, the line's mask
bit). A synchronous call is modelled as three steps: the request is pending, the
server takes it and answers, the caller returns. A notification is a set of badges.

## Modules

**`EduIrq`** - irqd, the KAPI's interrupt calls, the driver thread, the device's
status and the kernel's mask bit. irqd's `seL4_Wait` is `IrqdWakes`, which takes all
badges at once; `HandleRegister`, `HandleUnregister*` and `Hardware*` are its
handlers, with a failing revoke, delete or acknowledgement as alternatives. The
driver makes any sequence of API calls. `drains` tells the two kinds of driver
apart: one that waits for every interrupt before its next call, as `edu_kapi_probe`
does, and one that does not. **`IrqLine`** is what the path promises of one line with
services, messages and threads left out; `ImplementsLine` is the refinement.

**`EduDma`** - dmad's teardown and the KAPI's lease. The two records are related only
by the reply of one call. `RawTuples` are requests sent to dmad past the API: any
token, the driver's own included, with any address and size; `bypassed` remembers that
dmad took the lease on one of them.

**`EduProbe`** - composes the two: it extends `EduDma` and instantiates `EduIrq` over
the same driver thread and device token, and adds the program of `edu_kapi_probe.c` as a table of calls with
the result it wants and where it branches, and the PCI part of the KAPI.

**`PciScan`** - the discoveries of e1000, virtio-blk and edu and the two walks of the
virtio capability list, in the order root makes them. A function is a kind and a
list of capabilities, which may be whole, crossed over two BARs, broken or looping.
Any access may fail. Each scan starts again from slot one, so two may see different
functions.

**`PciBar`** - a function with one BAR, and root's four transactions. A transaction is
the list of the configuration accesses it has left; each may return an error, and a
write may be lost. Numbers are small: a dword holds an address below `Limit`.

**`VirtioStage`** - the stages M2 to M9, again as lists of steps, over root's frames,
reservations and mappings and the device's status and queue zero. The notification
write of M10 is the last step of M9's list.

**`RootConstruct`** - root's dispatch loop with construction, lease and completion
endpoint, the client program of each milestone or any client (`scripted`), and the
child. **`ChildControl`** is the abstract promise: a child is built once and its
control handed over once.

**`AbiGateway`** - romfsd, `romfs_probe` and root's gateway with the Linux probe. The
gateway and the probe are two tables, entry by entry from the two sources; the
action that runs an entry is the same for all, because the C code repeats one
pattern. Registers, user addresses and bytes are names; that the copy helpers map
one page and may fail is kept.

**`TaskFixtures`** - the five one-shot bundles of taskd, objectd, memd, a child and a
probe. Their programs have no branch except "anything unexpected: yield for ever",
so a program is the sequence of its kernel calls and one action runs any of them.
Root's spawning is part of the model: it stops where a step fails, with what it has
spawned left behind. The lease of the child's TCB implements `ChildControl` too.

**`Inventory`** - objectd M1, memd M1 and the dynamic allocation of taskd: three
services over one slot, with their probes or with clients that call anything.
**`OneSlot`** is what all three promise: a slot granted when free, each grant with a
generation of its own. `Services` differ in whether the slot is given back and in
what they do with a request they do not expect (an answer, or none).

**`BootSequence`** with the tables of **`BootBundles`** - `main` and
`selinos_domain_manager_start`: what is prepared, which capability is copied into
which process in which order, what is spawned when and suspended or not, what root
waits for. A capability lands in the next free slot; the slot numbers the programs
were compiled with are a separate table, taken from the protocol headers, and
`EndsMeet` compares the two. The whole boot of a profile is one list of steps,
`Plan`, concatenated from the bundles the code wires in turn. A profile also says what
root's waits meet: a kernel that honours execute-disable (`honours`), an NX child that
may stray (`strays`), an archive romfsd accepts (`archive`). `CanPass` and `Answers` say
when a wait can end well and when it is sure to end; elsewhere root may stay in it, as
the `seL4_Recv` of `src/x86_nx_mapping_probe.c:92` does on a kernel that ignores the
attribute.

**`NxProbe`** - every step of the execute-disable probe with its failure, the child,
and the clean-up, which goes by flags: what the flags say and what is held are
separate variables.

**`ElfSegments`**, **`CpioLookup`**, **`KabiLoader`** - the readers of images. The content
of the image is not fixed in advance: the next header, entry or record is chosen
where the code reads it, so every image is covered, well formed or not. (The
loaders' functions are built and tested on the host with images of any kind, so no
producer narrows what they may meet.) Words wrap at `WordSize` in `ElfSegments`;
record sizes are scaled to one or two units. In `CpioLookup` the archive is
first packed, member by member, the last one a trailer, as
`tools/generate_romfs_cpio_fixture.py` does (`Pack`, `Ended`), and
cut or damaged in one field when romfsd starts on it (`Start`). Facts worth knowing of
`KabiLoader`: of several definitions of `init_module` in sections laid out the last
one in the table is entered; a NOBITS section whose header range is not in the file is refused;
alignment is of the offset in `module_memory`; an import without a `__versions`
record has no CRC check; a symbol's value is not bounded by its section.

**Composites.** `MCFixtures` (`Inventory`, `TaskFixtures`), `MCRoot` (`RootConstruct`,
`AbiGateway`), `MCPci` (`PciScan`, `PciBar`, `VirtioStage`), `MCBootSequence`
(`BootSequence`, `NxProbe`) and `MCImages` (`ElfSegments`, `CpioLookup`) run two or three modules in one model. A variable `part`
says which of them a behaviour exercises; the others keep one of their initial
states. The parts do not interleave because they do not in the code: they are steps
of root's one thread, each over before the next begins (`MCPci`, `MCBootSequence`, and
`MCRoot`, where the client of construction, started earlier, can at most have sent its
first request before root has done with the Linux probe), services for which the boot allocates separate objects (`MCFixtures`), or different programs reading different images (`MCImages`).
Interleaving them would only multiply the states. What does interact is composed
for real: `EduProbe` over `EduIrq` and `EduDma`, `AbiGateway` over root, romfsd and both
probes, `TaskFixtures` over its five threads and root.

The other `MC*` modules give the constants of a run that a `.cfg` cannot write.
Operators marked *Deviation* are not used by any specification: they are the
mutated forms the mutants of `PROJECT.json` put in place of a definition.

## Runs

| run | states | what it asks |
|---|---|---|
| `irq_any_client` | 12 898 | any sequence of interrupt calls, failing revoke and delete, malformed completions, both kinds of driver |
| `dma_any_client` | 15 068 | any sequence of DMA calls, requests past the API with any token, address and size, every teardown step failing |
| `edu_probe` | 316 | the whole life cycle, with every kernel invocation of the services able to fail |
| `pci` | 672 167 | every bus of three functions with whole, crossed, broken and looping lists; the four BAR transactions over all sizes, types and contents, one error and one lost write; every virtio stage with every refusal, an immediate or slow reset |
| `root_promises` | 12 470 | four profiles, the milestone's client and any client, any step of root failing; both clients of romfsd interleaved, five kinds of failing operation |
| `fixtures` | 23 084 | the three inventories with probes or two free clients; the five bundles with their probe or one that sends anything, the boot stopping anywhere |
| `boot_sequence` | 34 383 | two hundred profiles (three options, five machines, what root's waits meet), any step failing; the NX probe on an honest or a careless kernel |
| `images` | 411 997 | every ELF image of up to three program headers in words that wrap; every archive of up to four members and the trailer, whole, cut at any byte or damaged |
| `kabi_loader` | 2 400 446 | every module of up to four sections, by both programs |
| `irq_free_unanswered` | - | finding 1 |
| `virtio_null_common` | - | finding 2 |
| `dma_wrong_tuple` | - | finding 3 |

Every passing run explores its full state space within minutes. Deadlock checking is off where the program really may stop: a
driver that waits for an interrupt nobody raises or faults on a revoked
notification, a boot that has failed, services that wait for a request nobody sends
any more, a program that yields for ever, a reader that has its verdict.

What the properties say, in short:

- *Interrupts.* `RegistrationAgrees` (driver and irqd agree on the owner between calls,
  and the answer under way tells the truth), `NoLostInterrupt` (for a draining
  driver, a masked line always has somebody who will open it), `ImplementsLine` (an
  interrupt of an owned line is serviced before the line is opened).
- *DMA.* `LeaseIsTrue` (what the driver takes for revoked is denied, unmapped and
  deleted; what dmad takes for active is whole; what the API hands out is active, unless
  the driver had dmad take it with a request past the API, and then the API never calls
  it revoked), `BufferAddressable` (the buffer under the mask, through mask changes and
  failed probes), `FreeAnswered`. dmad compares only the token of a request with its
  lease, not address and size: finding 3.
- *Life cycle.* `ProbeEnds`, `MediationSucceeds`, `NoTransferWithoutLease`,
  `ResidueIsAgreed` (without a failure nothing is left, with one what is left is
  known to both sides).
- *PCI scans.* `PortReturned` (the configuration ports are free whenever a scan begins,
  whatever failed before), `ScanIsExact` (without errors the first function and its
  first capability; the limit of the walk cuts nothing short), `PairAgrees` (a stage
  never combines capabilities of two functions or two BARs), `WalksEnd`.
- *BARs* (`TransactionsCorrect`). `SuccessLeavesConfiguration` and `ReportIsTrue` also
  under lost writes; `FailureRollsBack` and `DecodesOnlyRealBar` where no write is
  lost (an undo that is itself lost cannot help), and where at most one access has
  failed: a second failure may hit the write that undoes the first. The allocator is left out of
  `FailureRollsBack` and, after an error, of `DecodesOnlyRealBar`: it does not undo
  its own size probe, see below.
- *virtio* (`StagesCorrect`). `NothingHeldOnReturn`, `SuccessMeansReset` for both kinds
  of device; `LiveQueueIsOwned` and `ResetOnEveryExit` for a device that resets at
  once. On a failure the stages write a reset and free the queue's memory without
  reading the status back (`src/selinos_pci.c:1664-1687`), so with a slow device both
  are false; `docs/phase44_virtio_blk_queue_layout_m6_gate.md:23` promises a verified
  reset "on every exit path". `AccessesMapped` is also false at a common range that
  starts in the last dwords of its page: only its first eight bytes are checked
  (`src/selinos_pci.c:703`), fields up to 0x38 are used.
- *Root construction.* `ReplyIsTrue`, `CallsAnswered` (every call answered, the milestones'
  own clients end), `ImplementsChildControl`.
- *ROMFS and gateway.* `ProbeNeverLoops`, `RecordIsolates` (a client fails only if another
  one's call met its lifecycle of the record or an operation failed), `GatewayDecides`.
- *Fixtures.* `HolderAgrees`, `ImplementsOneSlot`; `BundlesSafe` (a
  success signalled only after every step it stands for, a refused request touches
  nothing, no start of the child merges with the one before); `ChildIsLeased` (the lease
  of the child keeps `ChildControl`); `ProbesAnswered` (every call is answered, no
  reservation stranded, and each probe succeeds unless the kernel refused it control of
  the child).
- *Boot.* `EndsMeet` (slots only: badges, and links to a process that was never started,
  are not compared), `WiredInOrder` (servers before their callers, nothing wired
  into a process that runs), `TokensIdentify` (the daemons of one device have its token,
  those of another device another), `BootEnds` (it stops only over a fault, the dispatch
  client is answered, and it hangs nowhere but in a wait for a careless kernel, a child
  that strays or an archive romfsd refuses; the NX probe returns where none of these is
  met), `NxProbeCorrect` (its mappings torn down on every path that returns).
- *Images.* `ReadsInside`, `SegmentsInFile`, `NamesAreLoaded` in unbounded arithmetic over
  checks that wrap; `CpioCorrect` (reads inside the archive, exactly the published
  files found, nothing else taken for one).
- *Modules.* `PlacedApart`, `WritesStayInside`, `RelocationIsExact` (the processor reads
  the intended value back from the field), `EntryEarned` (entered only by modexec, after
  every record matched, at the last `init_module` and the last `cleanup_module` its own
  table defines in sections laid out: no import, absolute symbol or symbol of a section
  left out that has the name).

### Findings

1. `free_irq` with an interrupt outstanding and irqd deadlock (`servers/irqd.c:106`).
2. M6, M7 and M9 write their fail-closed reset through a NULL pointer when the layout
   page cannot be mapped (`src/selinos_pci.c:1855`).
3. A free request with the driver's own token and another address or size ends the lease
   (`servers/dmad.c:63`), although `docs/phase4_dmad_revocation_design.md:32` lists
   "Incorrect free tuple" as rejected with the original lease remaining active. Sent past
   the API it leaves the KAPI believing in a lease that is gone; `LeaseIsTrue` says what
   still holds then.

Five further places where the code does less than a document says. Each has a
configuration of its own, in which TLC shows the difference; the runs above do not
include them.

| configuration | property | what the code does | what is said |
|---|---|---|---|
| `MCPciAssign.cfg` (`MCPci`) | `AssignRollsBack` | an access that fails inside the allocator's size probe leaves all ones in the BAR, and decoding is restored over it (`src/selinos_pci.c:316-322`) | "rollback on failure", `docs/pci_resource_allocator_m0_gate.md:12` |
| `MCPciPrefetch.cfg` (`MCPci`) | `PrefetchableAccepted` | a prefetchable BAR is never assigned (`src/selinos_pci.c:352`) | `include/selinos_pci.h:229` admits it |
| `MCAbiCoupling.cfg` (`AbiGateway`) | `NoCoupling` | overlapping lifecycles of the volatile record make each other fail (`servers/romfsd.c:286`); nothing orders them | `docs/phase12_writable_vfs_checkpoint_2026-08-14.md:57` |
| `MCFixturesThird.cfg` (`MCFixtures`) | `MalformedAnswered` | after it has answered a duplicate, memd answers nothing any more (`servers/memd_m1.c:44`) | `EINVAL` for every other shape, `docs/phase29_memd_fixed_mapping_inventory_m1_gate.md:17` |
| `MCImagesRanges.cfg` (`MCImages`) | `MemoryRangesValid` | the memory range of a segment is not checked against wrapping (`elfrt/src/selinos_elfrt.c:170`) | `docs/elfrt_m1_parser.md:6` |

### Bounds, and why they are enough

- One line, one token, one lease: the code has one binding of each per domain.
  Forged values differ from the right one, which is all the comparisons tell apart.
- DMA addresses 2..4 under mask 7, masks 0..8 and sizes 0..4: masks below, inside and
  above the lease, sizes below, at and above its size. Requests past the API take every
  combination of no, the right and a wrong token, no, the right and a wrong address, and
  no, the right and too large a size.
- `PciScan`: three slots, two list positions, a walk limit of three, so a loop is met
  before the limit and a list can be as long as its positions; a script with two
  stages, each of which scans for itself and may meet another function; `Capacity` 1 below the
  number of edu functions; two errors, one per scan of a pair.
- `PciBar`: a dword of 16 address units, granule 4, page 8, a high dword with one bit.
  Sizes, windows and regions meet every comparison on both sides, including a window
  at the 32-bit limit. `MaxErrors = MaxLost = 1`: transactions are short and a second
  fault adds nothing to an undo that has already failed.
- `VirtioStage`: a page of 16 dwords with the range at 0, 10 and 14: all fields inside,
  the queue fields past the end, all but the feature words past the end.
- `Inventory`: two clients and three calls each, enough for reserve, release and a
  reservation of the other client between them.
- `BootSequence`: two hundred profiles: every option, machines with no, one, two and three
  edu devices (one more than root takes) on one interrupt line or two, an archive that is
  accepted or not, and, where the NX probe is built, every kernel and child. Tokens wrap at 4, above the two
  devices root serves.
- `ElfSegments`: a word of 16, an image of 0 or 8 bytes, offsets and sizes around both
  limits, three program headers of which two may be load segments (one more than
  either table is large is met), one needed name, names of up to four characters.
- `CpioLookup`: up to four members and the trailer with three looked at, two and the
  trailer in cut or damaged archives; a header of 6 bytes so that the padding of name and content differs; stated
  sizes 0, 1, 2, 5 and 63, the last past any archive.
- `KabiLoader`: memory of 8 words at address 16, a reach of 18 so that a
  32-bit value is met inside and outside it, four sections: room for code, symbol
  table, relocations and `__versions`, or for two sections to be laid out apart; a
  symbol table of three, so that one of the two entry points can be defined twice.
- `RootConstruct`, `AbiGateway`, `TaskFixtures` and `NxProbe` have no numeric bound:
  programs are finite.

### Fairness

Weak fairness of each thread's own steps, because seL4 schedules every runnable
thread: root, irqd, dmad, romfsd, the driver's or client's steps *inside* a call. A
process is spawned with priority 0 (the numeric argument of the spawn helper is the
number of its arguments, not a priority), and root lowers itself to 0 once
everything runs, so threads share one priority and are preempted in turn; before
that, nothing runs until root waits. No client is obliged to make another call,
unless it is a program that the code runs to its end (`EduProbe`, the scripted clients
of `RootConstruct`, `Inventory` and `TaskFixtures`, both clients in `AbiGateway`, root's
dispatch client). The hardware is fair in that a started transfer completes and an
asserted unmasked line fires. The scans, the NX probe and the boot are fair in their
one thread's next step. A wait of the boot is fair only where what it waits for is sure
to come (`Answers`): the syscall probe of an archive romfsd accepts (`GatewayDecides`),
the NX child of a kernel that honours the attribute, if it does not stray
(`NxProbe`'s `ProbeReturns`), and the dynamic probe, which needs nothing else
(`ProbesAnswered`). In the other profiles the boot may hang there for ever, and
`BootEnds` says so. `PciBar`, `VirtioStage` and the readers of images are
sequential, with loops whose counter bounds them, and have no liveness property. In every
composite fairness is that of the part that runs.

## Proofs

Each proof module names an inductive invariant `IInv`, shows that the initial states
satisfy it and that every action keeps it, one lemma or step per action, and derives
the properties with PTL. What is assumed of the constants is the `ASSUME`s of the
component's module; TLC evaluates them in the runs.

`EduIrqProofs`, for every line, token, set of failing operations and kind of driver
(`IrqAssumption`, `TokenAssumption`, `FailingAssumption`, `DisciplinesAssumption`):
`TypeCorrect`, `RegistrationCorrect` (`RegistrationAgrees`), `LineRefined`
(`Spec => ImplementsLine`), and, if the kernel's acknowledgement is not among the
failing operations, `InterruptsKept` (`NoLostInterrupt`). `RegistrationAgrees` says
nothing of a call under way, so it is not inductive. `IInv` adds `RegistrationInv` - a
pending request belongs to the call the driver is in, and an accepted answer is one
that changed the registration - and `DeliveryInv` - who still has to deal with the
interrupt that masked the line. From it every acknowledgement of an owned line comes
after the driver's service, which is the refinement's step. `InterruptsKept` needs two
parts more: `ControlInv`, that one control call at a time is pending or served, and
`DrainInv`, that a draining driver makes none while an interrupt is outstanding.

`EduProbeProofs`, first about `Spec` of `EduDma`, for every lease, mask, size, set of
requests past the API (the driver's own token included) and set of failing teardown steps
(`EduDma`'s assumptions): `TypeCorrect`, `LeaseCorrect` (`LeaseIsTrue`), `BufferCorrect`
(`BufferAddressable`). `IInv` adds what an answer under way says of dmad (`CallInv`), and
that a mask once selected covers the whole lease (`LeaseInv`).

Its second part is about `ProbeSpec` of `EduProbe`, with any line and any set of failing
operations of irqd too (`LineAssumption`): `MediationCorrect` (`MediationSucceeds`),
`TransferCorrect` (`NoTransferWithoutLease`) and `ResidueCorrect` (`ResidueIsAgreed`). None
can be had from the invariants of the two parts: those are about a driver that calls
anything, and here it is the order of the program that keeps the two apart - dmad does
not stop the device before it takes the lease away. `ProbeInv` says for each row of the
program which call is open (`ThreadInv`), what the device is bound to (`BindInv`), what irqd
has registered (`RegisteredInv`, `ControlInv`), where an interrupt is on its way
(`DeliveryInv`), and which part of the lease is held or has been refused release
(`HeldInv`, `ReleaseInv`).

`RootProofs`, about `RootConstruct`, for every set of build profiles, kinds of client and
failing steps (`MilestonesAssumption`, `ClientsAssumption`, `FailingAssumption`): `TypeCorrect`,
`OneChild`, `LeaseCorrect`, `ReplyCorrect` (`ReplyIsTrue`) and `ControlRefined`
(`ImplementsChildControl`). None is inductive: `OneConstruction`, say, does not exclude
a configured child with the adapter still `FREE`. `IInv` adds `ConstructionInv` - what
has been made of the child, and who may control it, at each point - and `ScriptInv`,
that a scripted client is inside its program. The refinement rests on it: the spawn
step maps to `Construct` because nothing was spawned before, and the lease to `Lease`
because a recorded TCB is a suspended child's.

`RootProofs` also has, about `RootSpec` of `MCRoot` and for every set of gateway operations
that may fail: `LoopsCorrect` (`ProbeNeverLoops`) and `IsolationCorrect` (`RecordIsolates`). Neither is inductive, and both need the same invariant. `DialogueInv` keeps
root and the Linux probe at one row of two lists of 39: what the probe compares next is
what root has answered, and the memory it touches is what the rows so far have set up.
`CallInv` says that a client in a call waits for the answer to its row or has it.
`RecordInv` says what a client that nobody has met has made of the record: fresh, written
or closed, by its row. That an answer of romfsd in such a phase is the one the client wants,
and that the two lists agree row by row - the system call, its arguments, its value, what
is found in the page - are the lemmas `RowsFit` and `ProbeRowsFit`, proved from the entries.

`FixtureProofs`, about `Inventory` for any finite set of clients and any number of calls
(`ClientsAssumption` and the others of `Inventory`): `TypeCorrect`, `GrantsCorrect`, `HolderCorrect` (`HolderAgrees`) and
`SlotRefined` (`ImplementsOneSlot`). What a client has been told is the bridge: an
answer changes the slot and what its client was told together, and reading it later
changes neither. About `FixturesSpec` of `MCFixtures`, for any set of the five bundles and of
failing operations: `BundlesAreSafe` (`BundlesSafe`) and `LeaseRefined` (`ChildIsLeased`).
`BundlesSafe` looks only at what a bundle signals; `BundleInv` says how far each thread is
when another one is at a step of its program, and what the service has by then reserved,
started, suspended or leased, bundle by bundle (`LifecycleInv`, `ReservationInv`,
`GrantInv`). The refinement follows from it: the thread that leases the child is the only
one that can be at its step, and it was spawned before.

`PciProofs`, for any number of slots and positions, any lists, any order of the
scans and any failing accesses (`ScriptsAssumption`, `SizesAssumption`,
`ListsAssumption`): `TypeCorrect` (the walk never passes its limit), `PortsCorrect`
(`PortReturned`), `MasteringCorrect`, `PairCorrect` (`PairAgrees`) and `ScansCorrect`
(`ScanIsExact`). `EduInv` says that
while the enumeration runs everything mastered lies below the slot it has reached, so
the count never counts one twice. `PairAgrees` speaks of the moment a stage begins;
its invariant says at each point of the script what has been established of the
function found and compared since the stage's own first scan. `ScanIsExact` compares the
walk with what a reader of the list meets, the capabilities that lie in every set closed
under the links. Its invariant gives the walk the memory it lacks: some set of
capabilities passed over (`Passed`), each of them met by every reader, and as many as the
loop counter says unless the walk has come back to one of them. So at
`PCI_CAPABILITY_LIMIT`, which is no less than the positions, nothing is left to find
(`WalkFindsNone`). About `PciSpec` of `MCPci`,
for any set of stages, page, offsets and kinds of device (`StageAssumption`):
`StagesHold` (`StagesCorrect`): what is held and what a success means for any kind of
device, the live queue and the reset on every exit for one that resets at once. All stages make their steps in one order (`StagesRise`:
each list ascends in it), so what is no longer ahead of root has been done.
`Programming` says, of the steps still ahead, what they will find: a page is mapped only
over a frame that is held, the queue's addresses are programmed only after the layout
frame is held and zeroed and the size is set. `Leaving` says the same of the label out:
what is held is still to be released, and the reset has been made before, unless it is
the next step or the common page was never mapped.

Also about `PciSpec`, for a BAR of any size, address, width and type, any window or
region and any number of errors and lost writes: `TransactionsHold`
(`TransactionsCorrect`, with the restrictions that its parts state: no lost write and at
most one error where an undo is spoken of, and of the allocator no error at all). The properties speak of the transaction's end, or of decoding
alone; `BarInv` speaks of every place in between. While root is in the transaction's list
(`Going`), `DwordAt` follows one dword from what it was to all ones and back, with what
root has saved and measured of it at that place, and `Deciding` follows the command word
and what has been accepted so far. At the label out (`Gone`), a dword is what it was or
the write that undoes it is still ahead, and a success has kept what it reports
(`Promised`). Places are numbers, one table per kind of access, and the lists' entries
are compared with them once. The arithmetic is that of the sizing mask: a written dword
keeps the multiples of the size, so all ones read back as one granule short of the limit,
and the size computed from it is the BAR's own. Of the limits of the two dwords it
assumes that they are powers of two (`SizeAssumption` of `PciBar`); that of two powers of
two the smaller divides the larger (`PowersDivide`) is proved, on the least
counterexample. TLC checked `BarInv` first, with two errors and two lost writes.

`ImageProofs`, about `ElfSegments` for every width of a word, every image and all limits
(`SizesAssumption`, `ContentsAssumption`): `TypeCorrect`, `ReadsCorrect` (`ReadsInside`),
`SegmentsCorrect` (`SegmentsInFile`), `NamesCorrect` (`NamesAreLoaded`), `PolicyCorrect`,
`SummaryCorrect`. The lemmas turn each wrapping comparison into one of naturals; the
remainder of a power of two, which the alignment check computes with a mask, is kept
through the wrap because a power of two divides the size of a word. About `ImagesSpec` of
`MCImages`, for any list of published files, any limits, any members around them and any
single cut or damage: `ArchiveCorrect` (`CpioCorrect`). `ArchiveInv` says where the packer has
put each header, one aligned above the other (`LayoutInv`), that in a whole archive
the walk goes from header to header and has met neither the name nor the trailer, so
that it ends at the last member at the latest (`WalkInv`), and what the published files
already found say of the archive (`AnswerInv`). A damaged archive is bounded by the walk's own checks alone.

`KabiLoaderProofs`, for every image, export table, memory and reach
(`MemoryAssumption`, `ContentsAssumption`): `TypeCorrect`, `LayoutCorrect`
(`PlacedApart`), `WritesCorrect` (`WritesStayInside`), `RelocationsCorrect`
(`RelocationIsExact`) and `EntryCorrect` (`EntryEarned`). Sections are laid out one
above the other (`LayoutInv`), a relocation is applied only once they all are
(`StageInv`), and what was checked of the imports is never forgotten (`EntryInv`). That
the greatest candidate is the last definition in the table is `EntryIsLast`.

`BootProofs`, about `RootSpec` of `MCBootSequence`: `TokensCorrect` (`TokensIdentify`),
`WiringCorrect` (`WiredInOrder`), `EndsCorrect` (`EndsMeet`), `FaultsCorrect`
(`OnlyFaultsStop`), `BootTypeCorrect` and `NxCorrect` (`NxProbeCorrect`), for every set of build profiles, for any machine, any
wrap of the token counter and any step at which the boot fails (of the assumptions
only `RequestsAssumption` and `TokenModulusAssumption` are needed). Two arguments meet.
The first is about the
list of steps alone: in `PlanInOrder`, proved bundle by bundle and joined by a lemma on
concatenation, a process is prepared before anything is copied into it, everything
copied into it comes before its spawn or its resume, and a server's part before its
client's. The second, `BootInv`, is inductive and relates the state to the list: what
has been prepared, copied, spawned and resumed is exactly what the steps behind root
say (`PlaceInv`, `CapsInv`, `RunInv`), the tokens drawn are those of the domains met so
far (`TokenInv`), and what a daemon was told is its own device's (`ToldInv`). Root
goes on from a copy only if it landed in the slot the table gives it, so what a running
process finds in a slot is known, and `EndsMeet` compares it with the slots the programs
were compiled with, bundle by bundle. That every copy does land there is
`OnlyFaultsStop`: `Told` says of a table that the entries of a process stand together and
count their slots on from the first free one, and `ToldLands` that the slots the kernel
library hands out are then those of the table, again on the least entry where they would
differ. The invariant of the NX probe relates the flags its clean-up goes by to what is held, at each of its steps.

`TypeOK` of these modules, `OneConstruction`, `LeaseOnlyConstructed`, `GrantsDistinct`,
`MasteredIsCounted`, `LoadableIsSafe` and `SummaryAgrees` are proved and not among the
properties of a run.

Every safety property of a passing run is proved. Only model-checked is liveness, which
is outside the prover's temporal fragment, as is `ENABLED`.

## Not modelled

- `drivers/edu_mmio_driver.c`, the predecessor of the edu driver: it drives the device
  as `EduIrq`'s driver does, without the mediated path.
- deviced's match of identities other than edu's, which is a stateless comparison, and
  the KAPI's completion, lock, print and configuration-word shims, single-threaded
  wrappers that keep no state another part reads.
- The build, profile and evidence tools: scripts of the host.
- The value of the SHA-256 digest (whether it matches is a choice), the bytes that are
  copied, and the loaded module's own code.
- Kernel, QEMU devices and seL4 libraries are modelled only as the code uses them and
  marked external. Weak memory order between CPU and device, and timing, are not
  modelled.

## Plan

Written, in this order: 1 `IrqLine`, `EduIrq`; 2 `EduDma`, `EduProbe`, which composes both;
3 `PciBar`; 4 `VirtioStage`; 5 `ChildControl`, `RootConstruct`; 6 `AbiGateway`;
7 `TaskFixtures`, `OneSlot`, `Inventory`; 8 `PciScan`; 9 `KabiLoader`, `ElfSegments`,
`CpioLookup`; 10 `BootBundles`, `BootSequence`, `NxProbe`; and the proofs above.

Left: an abstract register file that `AbiGateway`'s record would implement when one
client is alone.
