------------------------------- MODULE PciScan -------------------------------
(***************************************************************************)
(* The scans of PCI configuration space root makes while it boots: the     *)
(* discoveries of e1000, virtio-blk and edu, and the walks of the virtio   *)
(* capability list.  Each takes the configuration I/O ports, scans slot by *)
(* slot and gives them back, except the enumeration of edu, the last one,  *)
(* which keeps them.  An access may return an error; the content of the    *)
(* functions does not change, but two scans may see different functions.   *)
(***************************************************************************)
EXTENDS Naturals, Sequences, FiniteSets

CONSTANTS
  Scripts,      \* the scans in boot order, and "stage" where two results meet
  Slots,        \* the device numbers of bus 0 are 1..Slots (0..31 in the code)
  Lists,        \* the capability lists a virtio function may have
  Positions,    \* where capabilities may be, 1..Positions
  WalkLimit,    \* PCI_CAPABILITY_LIMIT
  Capacity,     \* resource_capacity: SELINOS_MAX_QEMU_EDU_INSTANCES
  MaxErrors     \* bound: accesses that return an error

Scans == {"e1000", "virtio", "common", "notify", "recheck", "edu"}
Kinds == {"none", "e1000", "legacy", "modern", "edu", "eduUnusable"}

\* A capability is "common" or "notify" when the code's checks of it all hold,
\* "vendor" when it is vendor-specific and one does not, "other" otherwise.
\* head 0 stands for a function without a list: the status bit is clear or the
\* header is not of type 0; a next of 0 ends the list, any other number outside
\* 1..Positions is an offset the walk refuses.
Capability == [kind : {"other", "vendor", "common", "notify"}, bar : {0, 1}, next : Nat]

ASSUME ScriptsAssumption == Scripts \subseteq Seq(Scans \cup {"stage"})
ASSUME SizesAssumption ==
  /\ {Slots, Positions, Capacity} \subseteq Nat \ {0} /\ MaxErrors \in Nat
  /\ WalkLimit \in Nat /\ WalkLimit >= Positions
ASSUME ListsAssumption ==
  \A l \in Lists : l.head \in Nat /\ l.caps \in [1..Positions -> Capability]

VARIABLES
  kinds,       \* constant: the function in each slot
  lists,       \* constant: its capability list
  script,      \* constant: the experiments of this build
  step,        \* the position in script
  at,          \* "idle", "scan", "gate", "walk", "return", "stopped", "finished"
  port,        \* root holds a cap of the configuration ports
  slot,        \* the loop's device
  current,     \* the offset of the walk
  seen,        \* the loop counter of the walk
  result,      \* what the scan has found, or Absent
  found,       \* what each scan of the script has reported
  mastered,    \* the functions whose bus mastering root has switched on
  discovered,
  resources,   \* the edu resources handed on
  errors

world == <<kinds, lists, script>>
walk == <<slot, current, seen>>
edu == <<mastered, discovered, resources>>
vars == <<world, step, at, port, walk, result, found, edu, errors>>

Absent == [slot |-> 0, cap |-> 0]
Op == script[step]

Init ==
  /\ kinds \in [1..Slots -> Kinds]
  /\ lists \in [1..Slots -> Lists]
  /\ \A s \in 1..Slots : kinds[s] # "modern" => lists[s] = CHOOSE l \in Lists : TRUE
  /\ script \in Scripts /\ step = 1 /\ at = "idle" /\ port = FALSE
  /\ slot = 1 /\ current = 0 /\ seen = 0
  /\ result = Absent /\ found = [o \in Scans |-> Absent]
  /\ mastered = {} /\ discovered = 0 /\ resources = <<>> /\ errors = 0

-----------------------------------------------------------------------------
\* An access, or a group of accesses of which one failing has the same effect
Errs(e) == errors' = errors + (IF e THEN 1 ELSE 0) /\ errors' <= MaxErrors

\* Enumeration that cannot start reports no edu; the others stop the boot.
GivesUp == IF Op = "edu" THEN "finished" ELSE "stopped"

\* vka_cspace_alloc and seL4_X86_IOPortControl_Issue, which refuses ports that
\* are held already
Begin ==
  /\ at = "idle" /\ step <= Len(script) /\ Op # "stage"
  /\ \E e \in BOOLEAN :
       /\ Errs(e)
       /\ IF e \/ port
            THEN at' = GivesUp /\ UNCHANGED port
            ELSE at' = "scan" /\ port' = TRUE
  /\ slot' = 1 /\ current' = 0 /\ seen' = 0 /\ result' = Absent
  /\ UNCHANGED <<world, step, found, edu>>

Matches(k) ==
  CASE Op = "e1000"  -> k = "e1000"
    [] Op = "virtio" -> k \in {"legacy", "modern"}
    [] OTHER         -> k = "modern"

\* One slot: a function that does not answer, or another one, is passed over.
Probe ==
  /\ at = "scan" /\ Op # "edu" /\ slot <= Slots
  /\ \E e \in BOOLEAN :
       /\ Errs(e)
       /\ IF e \/ ~Matches(kinds[slot])
            THEN slot' = slot + 1 /\ UNCHANGED <<at, result>>
            ELSE IF Op \in {"e1000", "virtio"}
            THEN /\ result' = [Absent EXCEPT !.slot = slot] /\ at' = "return"
                 /\ UNCHANGED slot
            ELSE at' = "gate" /\ UNCHANGED <<slot, result>>
  /\ UNCHANGED <<world, step, port, current, seen, found, edu>>

\* Every usable function is switched on and counted, the first get a resource.
EduFound ==
  /\ mastered' = mastered \cup {slot}
  /\ discovered' = discovered + 1
  /\ resources' = IF discovered < Capacity THEN Append(resources, slot) ELSE resources

\* discover_qemu_edu_function: four reads, the checks, the command write
ProbeEdu ==
  /\ at = "scan" /\ Op = "edu" /\ slot <= Slots
  /\ \E e \in BOOLEAN :
       /\ Errs(e)
       /\ IF ~e /\ kinds[slot] = "edu" THEN EduFound ELSE UNCHANGED edu
  /\ slot' = slot + 1
  /\ UNCHANGED <<world, step, at, port, current, seen, result, found>>

NotFound ==
  /\ at = "scan" /\ slot > Slots
  /\ at' = "return"
  /\ UNCHANGED <<world, step, port, walk, result, found, edu, errors>>

\* The status word, the header type and the head of the list
Gate ==
  /\ at = "gate"
  /\ \E e \in BOOLEAN :
       /\ Errs(e)
       /\ IF e \/ lists[slot].head = 0
            THEN at' = "return" /\ UNCHANGED current
            ELSE at' = "walk" /\ current' = lists[slot].head
  /\ UNCHANGED <<world, step, port, slot, seen, result, found, edu>>

\* Deviation: the second walk is a copy of the first.
SeeksCommon == "common"
Seeks == IF Op = "notify" THEN "notify" ELSE "common"
Cap == lists[slot].caps[current]

WalkMayGoOn == seen < WalkLimit

\* Deviation: only vendor capabilities are counted.
CountsVendor(c) == IF c.kind = "other" THEN 0 ELSE 1
Counts(c) == 1

\* One capability; an error on its link ends the walk, one on its body only
\* passes it over.
Visit ==
  /\ at = "walk" /\ WalkMayGoOn /\ current \in 1..Positions
  /\ \E link \in BOOLEAN, body \in BOOLEAN :
       /\ body => ~link /\ Cap.kind # "other"
       /\ Errs(link \/ body)
       /\ IF link
            THEN at' = "return" /\ UNCHANGED <<current, seen, result>>
            ELSE IF ~body /\ Cap.kind = Seeks
            THEN /\ result' = [slot |-> slot, cap |-> current] /\ at' = "return"
                 /\ UNCHANGED <<current, seen>>
            ELSE /\ at' = IF Cap.next = 0 THEN "return" ELSE "walk"
                 /\ current' = Cap.next /\ seen' = seen + Counts(Cap)
                 /\ UNCHANGED result
  /\ UNCHANGED <<world, step, port, slot, found, edu>>

WalkStops ==
  /\ at = "walk" /\ (~WalkMayGoOn \/ current \notin 1..Positions)
  /\ at' = "return"
  /\ UNCHANGED <<world, step, port, walk, result, found, edu, errors>>

BarOf(f) == lists[f.slot].caps[f.cap].bar
SamePair(f, g) == f.slot = g.slot /\ BarOf(f) = BarOf(g)

\* selinos_pci_validate_qemu_virtio_blk_notify_range looks the common capability
\* up again and compares it with the notification's.
Reported == result # Absent /\ (Op = "recheck" => SamePair(result, found["notify"]))

\* Deviation: the cap is given back only when something was found.
ReturnKeepingPort ==
  /\ at = "return" /\ Op # "edu"
  /\ port' = (result = Absent)
  /\ found' = [found EXCEPT ![Op] = result]
  /\ IF Reported THEN at' = "idle" /\ step' = step + 1
                 ELSE at' = "stopped" /\ UNCHANGED step
  /\ UNCHANGED <<world, walk, result, edu, errors>>
\* release_config_ioport; a scan without a result stops the boot.
Return ==
  /\ at = "return" /\ Op # "edu"
  /\ port' = FALSE
  /\ found' = [found EXCEPT ![Op] = result]
  /\ IF Reported THEN at' = "idle" /\ step' = step + 1
                 ELSE at' = "stopped" /\ UNCHANGED step
  /\ UNCHANGED <<world, walk, result, edu, errors>>

\* Enumeration keeps the cap "for future pcid".
ReturnEdu ==
  /\ at = "return" /\ Op = "edu"
  /\ at' = "finished"
  /\ UNCHANGED <<world, step, port, walk, result, found, edu, errors>>

\* Deviation: the two results are not compared.
StageUnchecked ==
  /\ at = "idle" /\ step <= Len(script) /\ Op = "stage"
  /\ step' = step + 1
  /\ UNCHANGED <<world, at, port, walk, result, found, edu, errors>>
\* A virtio stage begins with a common and a notification range.
Stage ==
  /\ at = "idle" /\ step <= Len(script) /\ Op = "stage"
  /\ IF SamePair(found["common"], found["notify"])
       THEN step' = step + 1 /\ UNCHANGED at
       ELSE at' = "stopped" /\ UNCHANGED step
  /\ UNCHANGED <<world, port, walk, result, found, edu, errors>>

Next ==
  Begin \/ Probe \/ ProbeEdu \/ NotFound \/ Gate \/ Visit \/ WalkStops \/ Return \/ ReturnEdu
    \/ Stage
Spec == Init /\ [][Next]_vars /\ WF_vars(Next)

-----------------------------------------------------------------------------
\* T has the head of a list and, behind each of its capabilities that is not of
\* the kind, the next.  What a reader who looks for the kind meets is in every
\* such set.
Follows(l, kind, T) ==
  /\ l.head \in 1..Positions => l.head \in T
  /\ \A p \in T : l.caps[p].kind # kind /\ l.caps[p].next \in 1..Positions
                    => l.caps[p].next \in T
Met(l, kind) ==
  {p \in 1..Positions : \A T \in SUBSET (1..Positions) : Follows(l, kind, T) => p \in T}
\* The first capability of a kind on the list, 0 if there is none
First(l, kind) ==
  LET hits == {p \in Met(l, kind) : l.caps[p].kind = kind}
  IN IF hits = {} THEN 0 ELSE CHOOSE p \in hits : TRUE

Least(ss) == IF ss = {} THEN 0 ELSE CHOOSE s \in ss : \A t \in ss : s <= t
\* What a scan without errors is to report
Expected ==
  LET s == Least({t \in 1..Slots : Matches(kinds[t])})
      c == First(lists[s], IF Op = "notify" THEN "notify" ELSE "common")
  IN IF s = 0 THEN Absent
     ELSE IF Op \in {"e1000", "virtio"} THEN [slot |-> s, cap |-> 0]
     ELSE IF c = 0 THEN Absent ELSE [slot |-> s, cap |-> c]

TypeOK ==
  /\ step \in 1..Len(script) + 1 /\ slot \in 1..Slots + 1 /\ seen \in 0..WalkLimit
  /\ at \in {"idle", "scan", "gate", "walk", "return", "stopped", "finished"}
  /\ port \in BOOLEAN /\ \A o \in Scans : found[o].slot \in 0..Slots
  /\ mastered \subseteq 1..Slots /\ resources \in Seq(1..Slots)

\* The ports are free whenever a scan is to begin, on whichever path the one
\* before it has returned; only the enumeration, which is last, keeps them.
PortReturned == port => at \notin {"idle", "stopped"} /\ (at = "finished" => Op = "edu")

\* Without errors a scan reports exactly the first function, and on its list,
\* loops and wild links included, the first capability: the limit of the walk
\* never cuts a list short.
ScanIsExact ==
  at = "return" /\ errors = 0 /\ Op # "edu" => result = Expected

\* A stage is entered only with a common and a notification capability of one
\* function and one BAR, even when errors made two scans find different ones;
\* a later stage scans again and is held to what its own scans have found.
PairAgrees ==
  \A k \in 1..step - 1 :
    /\ at # "stopped" /\ script[k] = "stage"
    /\ \A j \in k + 1..step - 1 : script[j] \notin {"common", "notify"}
    => SamePair(found["common"], found["notify"])

\* Every function root lets master the bus is in the count it reports, and each
\* resource is a function of its own, in the order of the bus.
MasteredIsCounted ==
  /\ discovered = Cardinality(mastered)
  /\ Len(resources) = (IF discovered < Capacity THEN discovered ELSE Capacity)
  /\ \A i, j \in 1..Len(resources) : i < j => resources[i] < resources[j]
  /\ \A i \in 1..Len(resources) : resources[i] \in mastered

\* The scans of a boot end, whatever the capability lists look like.
ScansEnd == <>(at \in {"stopped", "finished"})
=============================================================================
