------------------------------- MODULE PciBar -------------------------------
(***************************************************************************)
(* The four BAR transactions root makes through its temporary PCI          *)
(* configuration I/O port (src/selinos_pci.c):                             *)
(*   "assign"   selinos_pci_assign_unconfigured_bar32 (allocator M0)       *)
(*   "range32"  ..._validate_qemu_virtio_blk_common_range_32 (virtio M2)   *)
(*   "range64"  ..._validate_qemu_virtio_blk_common_range_64 (virtio M2)   *)
(*   "n1"       selinos_pci_read_qemu_e1000_bar_range (e1000 N1)           *)
(* Each snapshots the command word and the BAR, quiesces decoding, sizes   *)
(* the BAR with all ones, puts it back, and undoes on a failure.  A        *)
(* transaction is the list of the steps it has left; every configuration   *)
(* access is a step of its own, which may return an error or, when it is a *)
(* write, be lost on the way to the function.                              *)
(*                                                                         *)
(* Addresses are counted in dwords: a dword of the BAR holds an address    *)
(* below Limit, its four attribute bits are the BAR's type, and its lowest *)
(* address bit is worth Gran.                                              *)
(***************************************************************************)
EXTENDS Integers, Sequences, FiniteSets

CONSTANTS Kinds,      \* the transactions root makes
          Limit,      \* PCI_32BIT_ADDRESS_LIMIT: what one dword addresses
          HighLimit,  \* the addresses the high dword of a 64-bit BAR holds
          Gran,       \* the smallest memory BAR
          Page,       \* the size of a page
          Types,      \* the attribute bits the BAR may carry
          Windows,    \* the policy windows [start, end) given to "assign"
          Regions,    \* the virtio regions [offset, length) given to "range.."
          MaxErrors,  \* bound: accesses that return an error
          MaxLost     \* bound: writes that return no error and have no effect

Transactions == {"assign", "range32", "range64", "n1"}
BarTypes     == {"mem32", "mem32prefetch", "mem64", "io"}
Dwords       == {0, 1}
FeatureEnd   == 2     \* the dwords up to the end of device_feature

KindsAssumption  == Kinds \subseteq Transactions
LimitAssumption  == /\ Limit \in Nat \ {0}
                           /\ HighLimit \in Nat \ {0}
                           /\ Gran \in 1..Limit
                           /\ Page \in Nat \ {0}
TypesAssumption  == Types \subseteq BarTypes
WindowAssumption == Windows \subseteq (0..Limit) \X (0..Limit)
RegionAssumption == Regions \subseteq [offset : Nat, length : Nat]
BoundAssumption  == MaxErrors \in Nat /\ MaxLost \in Nat

VARIABLES
  size,      \* function: the size of its BAR, 0 when it is not implemented
  type,      \* function: the attribute bits the BAR reads with
  bar,       \* function: the address held by each dword of the BAR
  decoding,  \* function: memory decoding and bus mastering are on
  kind,      \* root: the transaction it is in, "none" between two
  todo,      \* root: the steps left of it
  input,     \* root: the window or region it was called with
  saved,     \* root: original_bar and original_command
  mask,      \* root: sizing_mask
  flags,     \* root: bar_touched, command_quiesced, success
  resource,  \* root: the range it reports
  errors,    \* how many accesses have returned an error
  lost,      \* how many writes were lost
  before     \* history: bar and decoding when the transaction began

functionVars == <<size, type>>
rootVars     == <<kind, input, saved, mask, flags, resource>>
faultVars    == <<errors, lost>>
vars == <<functionVars, bar, decoding, rootVars, todo, faultVars, before>>


\* A power of two has no odd divisor but one.
PowerOfTwo(n) == n > 0 /\ \A d \in 2..n : n % d = 0 => d % 2 = 0
Sizes  == {0} \cup {s \in Gran..(Limit * HighLimit) : PowerOfTwo(s)}

SizeAssumption == PowerOfTwo(Limit) /\ PowerOfTwo(HighLimit)

Flags  == {"touched", "quiesced", "success"}
NoInput == [start |-> 0, end |-> 0, offset |-> 0, length |-> 0]
NoRange == [paddr |-> 0, size |-> 0, start |-> 0]
Words   == {w \in [Dwords -> 0..(Limit + HighLimit)] : w[0] < Limit /\ w[1] < HighLimit}
Registers == [bar : Words, decoding : BOOLEAN]

-----------------------------------------------------------------------------
(* The function's registers.                                               *)

\* The address bits a dword of the BAR implements: its sizing response.  A
\* write keeps those bits and drops the others.
Granule(d) == IF d = 0 THEN IF size < Limit THEN size ELSE Limit
                       ELSE IF size > Limit THEN size \div Limit ELSE 1
Bound(d)   == IF d = 0 THEN Limit ELSE HighLimit
Implemented(d) == size # 0 /\ (d = 0 \/ type = "mem64")
Store(d, v) == IF Implemented(d) THEN (v \div Granule(d)) * Granule(d) ELSE 0

Is32Bit == type \in {"mem32", "mem32prefetch"}
Is64Bit == type = "mem64"

-----------------------------------------------------------------------------
(* The transactions, step by step.                                         *)

At(op, d) == [op |-> op, dword |-> d]
Do(op)    == At(op, 0)

AssignSteps ==
  <<Do("readCommand"), At("readBar", 0), Do("quiesce"), Do("admit"),
    At("ones", 0), At("readMask", 0), At("putBack", 0), Do("touch"),
    Do("accept"), At("program", 0), At("readBack", 0), Do("succeed")>>

Range32Steps ==
  <<Do("readCommand"), At("readBar", 0), Do("admit"), Do("quiesce"),
    At("ones", 0), Do("touch"), At("readMask", 0), At("putBack", 0),
    At("verify", 0), Do("accept"), Do("succeed")>>

Range64Steps ==
  <<Do("readCommand"), At("readBar", 0), At("readBar", 1), Do("admit"),
    Do("quiesce"), At("ones", 0), Do("touch"), At("ones", 1),
    At("readMask", 0), At("readMask", 1), At("putBack", 1), At("putBack", 0),
    At("verify", 0), At("verify", 1), Do("accept"), Do("succeed")>>

N1Steps ==
  <<Do("identify"), Do("readCommand"), At("readBar", 0), Do("admit"),
    Do("quiesce"), At("ones", 0), Do("touch"), At("readMask", 0),
    At("putBack", 0), At("verify", 0), Do("untouch"), Do("accept"),
    Do("succeed")>>

Steps == [assign |-> AssignSteps, range32 |-> Range32Steps,
          range64 |-> Range64Steps, n1 |-> N1Steps]

\* What each does at its label out, from the flags it arrives with.
OutBar(f) ==
  CASE kind \in {"assign", "range32"} ->
         IF "touched" \in f /\ "success" \notin f
           THEN <<At("undoBar", 0)>> ELSE <<>>
    [] kind = "range64" ->
         IF "touched" \in f THEN <<At("undoBar", 1), At("undoBar", 0)>> ELSE <<>>
    [] kind = "n1" ->
         IF "touched" \in f
           THEN <<At("undoBar", 0), At("undoVerify", 0)>> ELSE <<>>

OutCommand(f) ==
  IF "quiesced" \notin f THEN <<>>
  ELSE IF kind = "n1" THEN <<Do("undoCommand"), Do("undoVerifyCommand")>>
  ELSE <<Do("undoCommand")>>

\* Deviation: the command word is restored before the BAR.
OutCommandFirst(f) == OutCommand(f) \o OutBar(f) \o <<Do("return")>>

Out(f) == OutBar(f) \o OutCommand(f) \o <<Do("return")>>

-----------------------------------------------------------------------------
(* The checks each makes.                                                  *)

Address(words) == words[1] * Limit + words[0]

\* The original BAR the transaction agrees to work on.
Admitted ==
  CASE kind = "assign"  -> saved.bar[0] \in {0, Limit - Gran}
    [] kind = "range64" -> Is64Bit
    [] OTHER            -> Is32Bit /\ saved.bar[0] # 0

AlignUp(a, n) == ((a + n - 1) \div n) * n

\* The size read from the mask, with the dwords the transaction looks at.
MaskZero == IF kind = "range64" THEN mask[0] = 0 /\ mask[1] = 0 ELSE mask[0] = 0
MaskSize == IF kind = "range64" THEN Limit * HighLimit - Address(mask)
                                ELSE Limit - mask[0]

Fits(start, n, end) == /\ start <= end
                       /\ n <= end - start
                       /\ start + n <= Limit

\* The assigned, or the validated, range.
Reported ==
  IF kind = "assign"
    THEN LET base == AlignUp(input.start, MaskSize)
         IN [paddr |-> base, size |-> MaskSize, start |-> base]
    ELSE LET base == Address([saved.bar EXCEPT ![1] = IF kind = "range64" THEN @ ELSE 0])
         IN [paddr |-> base, size |-> MaskSize, start |-> base + input.offset]

\* virtio_common_range_is_sane and the checks before it.
RegionSane(r) ==
  /\ r.paddr # 0
  /\ input.offset <= r.size
  /\ input.length <= r.size - input.offset
  /\ (r.start % Page) + FeatureEnd <= Page

Accepted ==
  /\ ~MaskZero
  /\ PowerOfTwo(MaskSize)
  /\ CASE kind = "assign"  -> Is32Bit /\ Fits(Reported.start, MaskSize, input.end)
       [] kind = "range32" -> Is32Bit /\ RegionSane(Reported)
       [] kind = "range64" -> RegionSane(Reported)
       [] kind = "n1"      -> Is32Bit /\ Reported.paddr <= Limit - MaskSize

-----------------------------------------------------------------------------
(* The steps.                                                              *)

Begins(k) ==
  /\ kind' = k
  /\ todo' = Steps[k]
  /\ saved' = [bar |-> [d \in Dwords |-> 0], decoding |-> FALSE]
  /\ mask' = [d \in Dwords |-> 0]
  /\ flags' = {}
  /\ resource' = NoRange
  /\ before' = [bar |-> bar, decoding |-> decoding]
  /\ UNCHANGED <<functionVars, bar, decoding, faultVars>>

Assign ==
  /\ kind = "none"
  /\ "assign" \in Kinds
  /\ Begins("assign")
  /\ \E w \in Windows : /\ w[1] < w[2]
                        /\ input' = [NoInput EXCEPT !.start = w[1], !.end = w[2]]

\* The dispatcher reads the BAR's type and picks the transaction.
ValidateRange ==
  /\ kind = "none"
  /\ \/ Is32Bit /\ "range32" \in Kinds /\ Begins("range32")
     \/ Is64Bit /\ "range64" \in Kinds /\ Begins("range64")
  /\ \E r \in Regions :
       input' = [NoInput EXCEPT !.offset = r.offset, !.length = r.length]

ReadBarRange ==
  /\ kind = "none"
  /\ "n1" \in Kinds
  /\ Begins("n1")
  /\ input' = NoInput

Doing(op) == todo # <<>> /\ Head(todo).op = op
D         == Head(todo).dword
Continue  == todo' = Tail(todo)
GoOut     == todo' = Out(flags)

\* A write lands, or is lost without an error.
WriteBar(d, v) ==
  /\ \/ bar' = [bar EXCEPT ![d] = Store(d, v)] /\ UNCHANGED lost
     \/ lost < MaxLost /\ lost' = lost + 1 /\ UNCHANGED bar
  /\ UNCHANGED <<functionVars, decoding, kind, input, saved, mask, resource, errors, before>>

WriteCommand(v) ==
  /\ \/ decoding' = v /\ UNCHANGED lost
     \/ lost < MaxLost /\ lost' = lost + 1 /\ UNCHANGED decoding
  /\ UNCHANGED <<functionVars, bar, kind, input, saved, mask, resource, errors, before>>

\* A step that only moves root along.
Decide ==
  UNCHANGED <<functionVars, bar, decoding, kind, input, saved, mask, resource,
              faultVars, before>>

Identify ==
  /\ Doing("identify")
  /\ Continue \/ GoOut
  /\ UNCHANGED flags
  /\ Decide

Snapshot ==
  /\ \/ Doing("readCommand") /\ saved' = [saved EXCEPT !.decoding = decoding]
     \/ Doing("readBar") /\ saved' = [saved EXCEPT !.bar[D] = bar[D]]
  /\ Continue
  /\ UNCHANGED <<functionVars, bar, decoding, kind, input, mask, flags, resource,
                 faultVars, before>>

Admit ==
  /\ Doing("admit")
  /\ IF Admitted THEN Continue ELSE GoOut
  /\ UNCHANGED flags
  /\ Decide

Quiesce ==
  /\ Doing("quiesce")
  /\ WriteCommand(FALSE)
  /\ flags' = flags \cup {"quiesced"}
  /\ Continue

ProbeOnes ==
  /\ Doing("ones")
  /\ WriteBar(D, Bound(D) - 1)
  /\ UNCHANGED flags
  /\ Continue

ReadMask ==
  /\ Doing("readMask")
  /\ mask' = [mask EXCEPT ![D] = bar[D]]
  /\ Continue
  /\ UNCHANGED <<functionVars, bar, decoding, kind, input, saved, flags, resource,
                 faultVars, before>>

PutBack ==
  /\ Doing("putBack")
  /\ WriteBar(D, saved.bar[D])
  /\ UNCHANGED flags
  /\ Continue

Touch ==
  /\ \/ Doing("touch") /\ flags' = flags \cup {"touched"}
     \/ Doing("untouch") /\ flags' = flags \ {"touched"}
  /\ Continue
  /\ Decide

Verify ==
  /\ Doing("verify")
  /\ IF bar[D] = saved.bar[D] THEN Continue ELSE GoOut
  /\ UNCHANGED flags
  /\ Decide

Accept ==
  /\ Doing("accept")
  /\ IF Accepted THEN Continue ELSE GoOut
  /\ UNCHANGED flags
  /\ Decide

\* The programmed value carries no attribute bits: they were masked off the
\* sizing response before they are copied from it.
Program ==
  /\ Doing("program")
  /\ WriteBar(0, Reported.paddr)
  /\ UNCHANGED flags
  /\ Continue

ReadBack ==
  /\ Doing("readBack")
  /\ IF bar[0] = Reported.paddr /\ type = "mem32" THEN Continue ELSE GoOut
  /\ UNCHANGED flags
  /\ Decide

Succeed ==
  /\ Doing("succeed")
  /\ resource' = Reported
  /\ flags' = flags \cup {"success"}
  /\ todo' = Out(flags')
  /\ UNCHANGED <<functionVars, bar, decoding, kind, input, saved, mask, faultVars, before>>

UndoBar ==
  /\ Doing("undoBar")
  /\ WriteBar(D, saved.bar[D])
  /\ UNCHANGED flags
  /\ Continue

UndoCommand ==
  /\ Doing("undoCommand")
  /\ WriteCommand(saved.decoding)
  /\ UNCHANGED flags
  /\ Continue

\* N1 alone reads back what it undid.
UndoVerify ==
  /\ \/ /\ Doing("undoVerify")
        /\ flags' = IF bar[0] = saved.bar[0] THEN flags ELSE flags \ {"success"}
     \/ /\ Doing("undoVerifyCommand")
        /\ flags' = IF decoding = saved.decoding THEN flags ELSE flags \ {"success"}
  /\ Continue
  /\ Decide

MainAccess == {"identify", "readCommand", "readBar", "quiesce", "ones", "readMask",
               "putBack", "verify", "program", "readBack"}
UndoAccess == {"undoBar", "undoCommand", "undoVerify", "undoVerifyCommand"}

\* An access returns an error: on the way in root goes to out, at out it
\* carries on, N1 without success and without the read-back.
AccessFails ==
  /\ todo # <<>>
  /\ errors < MaxErrors
  /\ errors' = errors + 1
  /\ \/ Head(todo).op \in MainAccess /\ GoOut /\ UNCHANGED flags
     \/ /\ Head(todo).op \in UndoAccess
        /\ flags' = IF kind = "n1" THEN flags \ {"success"} ELSE flags
        /\ todo' = IF kind = "n1" /\ Head(todo).op \in {"undoBar", "undoCommand"}
                     THEN Tail(Tail(todo)) ELSE Tail(todo)
  /\ UNCHANGED <<functionVars, bar, decoding, kind, input, saved, mask, resource,
                 lost, before>>

Return ==
  /\ Doing("return")
  /\ kind' = "none"
  /\ Continue
  /\ UNCHANGED <<functionVars, bar, decoding, input, saved, mask, flags, resource,
                 faultVars, before>>

Init ==
  /\ type \in Types
  /\ size \in Sizes
  /\ size > Limit => type = "mem64"
  /\ bar \in {w \in Words : \A d \in Dwords : w[d] = Store(d, w[d])}
  /\ decoding \in BOOLEAN
  /\ kind = "none"
  /\ todo = <<>>
  /\ input = NoInput
  /\ saved = [bar |-> [d \in Dwords |-> 0], decoding |-> FALSE]
  /\ mask = [d \in Dwords |-> 0]
  /\ flags = {}
  /\ resource = NoRange
  /\ errors = 0
  /\ lost = 0
  /\ before = [bar |-> bar, decoding |-> decoding]

Next ==
  \/ Assign \/ ValidateRange \/ ReadBarRange
  \/ Identify \/ Snapshot \/ Admit \/ Quiesce \/ ProbeOnes \/ ReadMask
  \/ PutBack \/ Touch \/ Verify \/ Accept \/ Program \/ ReadBack \/ Succeed
  \/ UndoBar \/ UndoCommand \/ UndoVerify \/ AccessFails \/ Return

Spec == Init /\ [][Next]_vars

-----------------------------------------------------------------------------
(* Properties.                                                             *)

\* Every variable is in range: both dwords of the BAR, what root saved of it and
\* the size mask stay addresses of the function, whatever access fails.
TypeOK ==
  /\ size \in Sizes
  /\ type \in BarTypes
  /\ bar \in Words
  /\ decoding \in BOOLEAN
  /\ kind \in Transactions \cup {"none"}
  /\ saved \in Registers
  /\ before \in Registers
  /\ mask \in Words
  /\ flags \subseteq Flags
  /\ resource.start \in 0..(Limit * HighLimit + Limit)
  /\ errors \in 0..MaxErrors
  /\ lost \in 0..MaxLost

Returning == Doing("return")
Success   == "success" \in flags

\* A transaction that validates a range and reports success has put the BAR
\* back, and N1 the command word too, whatever accesses failed or were lost.
SuccessLeavesConfiguration ==
  Returning /\ Success =>
    /\ kind # "assign" => bar = before.bar
    /\ kind = "n1" => decoding = before.decoding

\* The range reported is the one the function decodes: the size is its BAR's,
\* an assigned BAR is aligned to it and inside the policy window, a virtio
\* region is inside the BAR and device_feature inside one page of it.  A lost
\* all-ones write is the one way to report another size.
ReportIsTrue ==
  Returning /\ Success /\ lost = 0 =>
    /\ resource.size = size
    /\ resource.paddr = IF type = "mem64" THEN Address(bar) ELSE bar[0]
    /\ resource.paddr % size = 0
    /\ kind = "assign" => /\ input.start <= resource.paddr
                          /\ resource.paddr + size <= input.end
    /\ kind \in {"range32", "range64"} =>
         /\ resource.start + input.length <= resource.paddr + size
         /\ resource.start \div Page = (resource.start + FeatureEnd - 1) \div Page

\* A range read that fails leaves the BAR it found, whichever access failed; when
\* a second one does, it may be the undoing write.
\* The allocator does not: it marks the BAR touched only after the size probe
\* (selinos_pci.c:316-322), so an error inside the probe leaves all ones.
FailureRollsBack ==
  Returning /\ ~Success /\ kind # "assign" /\ lost = 0 /\ errors <= 1 => bar = before.bar

\* "Read-back match, rollback on failure" of the allocator
\* (docs/pci_resource_allocator_m0_gate.md:12): a BAR that is not assigned is
\* what it was.
AssignRollsBack ==
  Returning /\ ~Success /\ kind = "assign" /\ lost = 0 => bar = before.bar

\* Memory decoding is on only over the BAR the function had before, or the one
\* it was assigned, never over the all-ones value of a size probe: each
\* transaction restores the BAR before the command word.  The allocator's early
\* failure is again the exception, it restores the command word only.
DecodesOnlyRealBar ==
  decoding /\ lost = 0 /\ errors <= (IF kind \in {"assign", "none"} THEN 0 ELSE 1) =>
    \/ bar = before.bar
    \/ kind \in {"assign", "none"} /\ Success /\ bar[0] = resource.paddr

\* The allocator accepts a prefetchable 32-bit BAR as it does a plain one.
PrefetchableAccepted ==
  Returning /\ kind = "assign" /\ type = "mem32prefetch" /\ errors = 0 /\ lost = 0 =>
    (before.bar[0] = 0 /\ Accepted => Success)

=============================================================================
