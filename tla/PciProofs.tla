------------------------------- MODULE PciProofs -------------------------------
(***************************************************************************)
(* Safety of the scans of PCI configuration space, for any number of slots *)
(* and positions, any capability lists, any order of the scans and any     *)
(* accesses that fail; then of the virtio-blk stages; then of the BAR      *)
(* transactions, over a BAR of any size and type, any window or region,    *)
(* any accesses that fail and any writes that are lost.  In the scans,     *)
(* only the enumeration of edu switches functions on, and it is over when  *)
(* it returns: until it runs nothing is mastered, and while it runs        *)
(* everything mastered lies below the slot it has reached.                 *)
(***************************************************************************)
EXTENDS MCPci, FiniteSetTheorems, SequenceTheorems, WellFoundedInduction, TLAPS

Running == {"scan", "gate", "walk", "return"}

\* The part of the typing the lists, the results and the loop counter need
WalkInv ==
  /\ lists \in [1..Slots -> Lists]
  /\ script \in Seq(Scans \cup {"stage"}) /\ step \in 1..Len(script) + 1
  /\ slot \in 1..Slots + 1 /\ seen \in 0..WalkLimit
  /\ at \in Running \cup {"idle", "stopped", "finished"}
  /\ at \in {"gate", "walk"} => slot \in 1..Slots
  /\ at \in Running => step \in 1..Len(script) /\ Op \in Scans
  /\ result.slot \in 0..Slots
  /\ found \in [Scans -> [slot : 0..Slots, cap : Nat]]
  /\ result \in [slot : 0..Slots, cap : Nat]

PortInv ==
  /\ port \in BOOLEAN
  /\ at \in {"idle", "stopped"} => ~port
  /\ at = "finished" => Op = "edu"

\* Enumeration in progress or over
Enumerates == at \in Running \cup {"finished"} /\ Op = "edu"
EduInv ==
  /\ ~Enumerates => mastered = {}
  /\ mastered \subseteq 1..Slots /\ IsFiniteSet(mastered)
  /\ at \in Running => \A s \in mastered : s < slot
  /\ discovered \in Nat /\ resources \in Seq(1..Slots)

IInv == WalkInv /\ PortInv /\ EduInv /\ MasteredIsCounted

(* Nothing is held, found or mastered before the first scan.               *)
LEMMA InitIInv == Init => IInv
<1> SUFFICES ASSUME Init PROVE IInv
  OBVIOUS
<1> USE DEF Init, Absent
<1>1. WalkInv
  BY ScriptsAssumption, SizesAssumption DEF WalkInv, Running
<1>2. PortInv
  BY DEF PortInv
<1>3. EduInv
  BY FS_EmptySet DEF EduInv, Enumerates, Running
<1>4. MasteredIsCounted
  BY FS_EmptySet, SizesAssumption DEF MasteredIsCounted
<1>5. QED
  BY <1>1, <1>2, <1>3, <1>4 DEF IInv

(* Switching on the function in the slot the loop has reached counts it,   *)
(* and the resources stay in the order of the bus.                         *)
LEMMA FoundIsCounted ==
  ASSUME EduInv, MasteredIsCounted, slot \in 1..Slots, at = "scan", EduFound
  PROVE  /\ mastered' \subseteq 1..Slots /\ IsFiniteSet(mastered')
         /\ \A s \in mastered' : s < slot + 1
         /\ discovered' \in Nat /\ resources' \in Seq(1..Slots)
         /\ MasteredIsCounted'
<1> USE SizesAssumption
<1>1. mastered \subseteq 1..Slots /\ IsFiniteSet(mastered) /\ discovered \in Nat
      /\ resources \in Seq(1..Slots) /\ \A s \in mastered : s < slot
  BY DEF EduInv, Running
<1>2. mastered' = mastered \cup {slot} /\ discovered' = discovered + 1
      /\ resources' = IF discovered < Capacity THEN Append(resources, slot) ELSE resources
  BY DEF EduFound
<1>3. slot \notin mastered
  BY <1>1
<1>4. IsFiniteSet(mastered') /\ Cardinality(mastered') = discovered'
  BY <1>1, <1>2, <1>3, FS_AddElement DEF MasteredIsCounted
<1>5. resources' \in Seq(1..Slots)
  <2>1. Append(resources, slot) \in Seq(1..Slots)
    BY <1>1
  <2>2. CASE discovered < Capacity
    <3>1. resources' = Append(resources, slot)
      BY <1>2, <2>2
    <3>2. QED
      BY <2>1, <3>1, Zenon
  <2>3. CASE ~(discovered < Capacity)
    <3>1. resources' = resources
      BY <1>2, <2>3
    <3>2. QED
      BY <1>1, <3>1, Zenon
  <2>4. QED
    BY <2>2, <2>3, Zenon
<1>6. discovered' \in Nat
  <2>1. discovered \in Nat /\ discovered' = discovered + 1
    BY <1>1, <1>2, Zenon
  <2>2. QED
    BY <2>1
<1>7. \A s \in mastered' : s < slot + 1
  BY <1>1, <1>2
<1>8. Len(resources) = (IF discovered < Capacity THEN discovered ELSE Capacity)
      /\ (\A i, j \in 1..Len(resources) : i < j => resources[i] < resources[j])
      /\ (\A i \in 1..Len(resources) : resources[i] \in mastered)
  BY DEF MasteredIsCounted
<1>9. /\ Len(resources') = (IF discovered' < Capacity THEN discovered' ELSE Capacity)
      /\ \A i, j \in 1..Len(resources') : i < j => resources'[i] < resources'[j]
      /\ \A i \in 1..Len(resources') : resources'[i] \in mastered'
  <2>1. CASE discovered < Capacity
    <3>1. /\ Len(resources') = Len(resources) + 1 /\ Len(resources) \in Nat
          /\ resources'[Len(resources) + 1] = slot
          /\ \A i \in 1..Len(resources) : resources'[i] = resources[i]
      BY <1>1, <1>2, <2>1
    <3>2. \A i \in 1..Len(resources) : resources[i] < slot /\ resources[i] \in mastered'
      BY <1>1, <1>2, <1>8
    <3>3. \A i \in 1..Len(resources') : i \in 1..Len(resources) \/ i = Len(resources) + 1
      BY <3>1
    <3>4. slot \in mastered'
      BY <1>2
    <3>5. Len(resources') = (IF discovered' < Capacity THEN discovered' ELSE Capacity)
      BY <1>1, <1>2, <1>8, <2>1, <3>1
    <3>6. \A i, j \in 1..Len(resources') : i < j => resources'[i] < resources'[j]
      <4> SUFFICES ASSUME NEW i \in 1..Len(resources'), NEW j \in 1..Len(resources'), i < j
                   PROVE  resources'[i] < resources'[j]
        OBVIOUS
      <4>1. i \in 1..Len(resources)
        BY <3>1
      <4>2. CASE j \in 1..Len(resources)
        BY <1>8, <3>1, <4>1, <4>2
      <4>3. CASE j = Len(resources) + 1
        BY <3>1, <3>2, <4>1, <4>3
      <4>4. QED
        BY <3>3, <4>2, <4>3
    <3>7. \A i \in 1..Len(resources') : resources'[i] \in mastered'
      BY <3>1, <3>2, <3>3, <3>4
    <3>8. QED
      BY <3>5, <3>6, <3>7
  <2>2. CASE ~(discovered < Capacity)
    BY <1>1, <1>2, <1>8, <2>2
  <2>3. QED
    BY <2>1, <2>2
<1>10. QED
  BY <1>1, <1>2, <1>4, <1>5, <1>7, <1>9, <1>6 DEF MasteredIsCounted

(* Every step preserves the invariant.                                     *)
LEMMA NextIInv == IInv /\ [Next]_vars => IInv'
<1> SUFFICES ASSUME IInv, [Next]_vars PROVE IInv'
  OBVIOUS
<1> USE SizesAssumption
<1> USE DEF world, walk, edu, Op
<1>0. WalkInv /\ PortInv /\ EduInv /\ MasteredIsCounted
  BY DEF IInv
<1>u. ASSUME UNCHANGED edu PROVE MasteredIsCounted'
  BY <1>0, <1>u DEF MasteredIsCounted
<1>1. CASE Begin
  <2> USE <1>1 DEF Begin
  <2>1. at' \in {"scan", "stopped", "finished"} /\ result' = [slot |-> 0, cap |-> 0]
    BY DEF GivesUp, Absent
  <2>2. Op \in Scans
    <3>1. step \in 1..Len(script) /\ script \in Seq(Scans \cup {"stage"})
      BY <1>0 DEF WalkInv
    <3>2. QED
      BY <3>1
  <2>3. WalkInv'
    BY <1>0, <2>1, <2>2 DEF WalkInv, Running
  <2>4. PortInv'
    BY <1>0 DEF PortInv, GivesUp
  <2>5. EduInv'
    BY <1>0 DEF EduInv, Enumerates, Running
  <2>6. QED
    BY <1>u, <2>3, <2>4, <2>5 DEF IInv
<1>2. CASE Probe
  <2> USE <1>2 DEF Probe
  <2>1. WalkInv'
    <3>a. slot \in 1..Slots + 1 /\ slot <= Slots /\ slot' \in {slot, slot + 1}
      BY <1>0 DEF WalkInv
    <3>1. slot \in 1..Slots /\ slot' \in 1..Slots + 1 /\ UNCHANGED <<world, step, seen, found>>
      BY <3>a, SizesAssumption
    <3>2. at' \in {"scan", "return", "gate"} /\ (at' = "gate" => slot' = slot) /\ at = "scan"
      OBVIOUS
    <3>3. result' \in [slot : 0..Slots, cap : Nat]
      <4>1. [Absent EXCEPT !.slot = slot] \in [slot : 0..Slots, cap : Nat]
        BY <3>1 DEF Absent
      <4>2. result' \in {[Absent EXCEPT !.slot = slot], result}
        OBVIOUS
      <4>3. QED
        BY <1>0, <4>1, <4>2 DEF WalkInv
    <3>4. QED
      BY <1>0, <3>1, <3>2, <3>3 DEF WalkInv, Running
  <2>2. PortInv'
    BY <1>0 DEF PortInv
  <2>3. EduInv'
    BY <1>0 DEF EduInv, Enumerates, Running, WalkInv
  <2>4. QED
    BY <1>u, <2>1, <2>2, <2>3 DEF IInv
<1>3. CASE ProbeEdu
  <2> USE <1>3 DEF ProbeEdu
  <2>1. WalkInv'
    BY <1>0 DEF WalkInv, Running
  <2>2. PortInv'
    BY <1>0 DEF PortInv
  <2>3. EduInv' /\ MasteredIsCounted'
    <3>0. slot \in 1..Slots /\ slot' = slot + 1 /\ at = "scan" /\ Enumerates'
      BY <1>0 DEF WalkInv, Enumerates, Running
    <3>1. CASE EduFound
      BY <1>0, <3>0, <3>1, FoundIsCounted DEF EduInv
    <3>2. CASE UNCHANGED edu
      <4>1. EduInv'
        BY <1>0, <3>0, <3>2 DEF EduInv, Running
      <4>2. QED
        BY <1>u, <3>2, <4>1
    <3>3. QED
      BY <3>1, <3>2
  <2>4. QED
    BY <2>1, <2>2, <2>3 DEF IInv
<1>4. CASE NotFound \/ Gate \/ WalkStops
  <2> USE <1>4 DEF NotFound, Gate, WalkStops
  <2>1. WalkInv'
    BY <1>0 DEF WalkInv, Running
  <2>2. PortInv'
    BY <1>0 DEF PortInv
  <2>3. EduInv'
    BY <1>0 DEF EduInv, Enumerates, Running
  <2>4. QED
    BY <1>u, <2>1, <2>2, <2>3 DEF IInv
<1>5. CASE Visit
  <2> USE <1>5 DEF Visit
  <2>1. WalkInv'
    <3>1. seen' \in 0..WalkLimit
      <4>1. seen \in 0..WalkLimit /\ seen < WalkLimit /\ WalkLimit \in Nat
        BY <1>0 DEF WalkInv, WalkMayGoOn
      <4>2. seen' \in {seen, seen + 1}
        BY DEF Counts
      <4>3. QED
        BY <4>1, <4>2
    <3>2. at' \in {"walk", "return"} /\ UNCHANGED <<world, step, slot, found>>
      OBVIOUS
    <3>3. result' \in [slot : 0..Slots, cap : Nat]
      BY <1>0 DEF WalkInv
    <3>4. QED
      BY <1>0, <3>1, <3>2, <3>3 DEF WalkInv, Running
  <2>2. PortInv'
    BY <1>0 DEF PortInv
  <2>3. EduInv'
    BY <1>0 DEF EduInv, Enumerates, Running
  <2>4. QED
    BY <1>u, <2>1, <2>2, <2>3 DEF IInv
<1>6. CASE Return
  <2> USE <1>6 DEF Return
  <2>1. WalkInv'
    <3>1. step \in 1..Len(script) /\ Len(script) \in Nat
      BY <1>0 DEF WalkInv, Running
    <3>2. script' = script /\ step' \in {step, step + 1}
      OBVIOUS
    <3>3. step' \in 1..Len(script) + 1 /\ at' \in {"idle", "stopped"}
      BY <3>1, <3>2
    <3>4. found' \in [Scans -> [slot : 0..Slots, cap : Nat]]
      BY <1>0 DEF WalkInv
    <3>5. QED
      BY <1>0, <3>3, <3>4 DEF WalkInv, Running
  <2>2. PortInv'
    BY <1>0 DEF PortInv
  <2>3. EduInv'
    BY <1>0 DEF EduInv, Enumerates, Running
  <2>4. QED
    BY <1>u, <2>1, <2>2, <2>3 DEF IInv
<1>7. CASE ReturnEdu \/ Stage
  <2> USE <1>7 DEF ReturnEdu, Stage
  <2>1. WalkInv'
    <3>0. script \in Seq(Scans \cup {"stage"}) /\ step \in 1..Len(script) + 1 /\ step <= Len(script)
      BY <1>0 DEF WalkInv, Running
    <3>a. Len(script) \in Nat /\ step' \in {step, step + 1}
      BY <3>0
    <3>1. step' \in 1..Len(script) + 1 /\ at' \in {"idle", "stopped", "finished"}
      BY <3>0, <3>a
    <3>2. QED
      BY <1>0, <3>1 DEF WalkInv, Running
  <2>2. PortInv'
    BY <1>0 DEF PortInv
  <2>3. EduInv'
    BY <1>0 DEF EduInv, Enumerates, Running
  <2>4. QED
    BY <1>u, <2>1, <2>2, <2>3 DEF IInv
<1>8. CASE UNCHANGED vars
  <2> USE <1>8 DEF vars
  <2>1. WalkInv' /\ PortInv'
    BY <1>0 DEF WalkInv, PortInv
  <2>2. EduInv'
    BY <1>0 DEF EduInv, Enumerates
  <2>3. QED
    BY <1>u, <2>1, <2>2 DEF IInv
<1>9. QED
  BY <1>1, <1>2, <1>3, <1>4, <1>5, <1>6, <1>7, <1>8 DEF Next

(* The inductive invariant holds for every bus and every script.           *)
THEOREM Invariance == Spec => []IInv
<1>1. QED
  BY InitIInv, NextIInv, PTL DEF Spec

(* TypeOK holds: the counters stay in their ranges, and in particular the  *)
(* loop counter of the walk never passes PCI_CAPABILITY_LIMIT.             *)
THEOREM TypeCorrect == Spec => []TypeOK
<1>1. IInv => TypeOK
  BY DEF IInv, WalkInv, PortInv, EduInv, TypeOK, Running
<1>2. QED
  BY <1>1, Invariance, PTL

(* PortReturned: the configuration ports are free whenever a scan of       *)
(* selinos_pci.c begins or has stopped the boot, whatever failed before.   *)
THEOREM PortsCorrect == Spec => []PortReturned
<1>1. IInv => PortReturned
  BY DEF IInv, PortInv, PortReturned
<1>2. QED
  BY <1>1, Invariance, PTL

(* MasteredIsCounted: however many functions there are and whatever the    *)
(* capacity is, selinos_pci_enumerate_qemu_edu reports each function it    *)
(* let master the bus, and hands on distinct ones in the order of the bus. *)
THEOREM MasteringCorrect == Spec => []MasteredIsCounted
<1>1. IInv => MasteredIsCounted
  BY DEF IInv
<1>2. QED
  BY <1>1, Invariance, PTL

(* A scan replaces the pair of a stage only when it comes after it, and    *)
(* nothing but a scan writes what was found.                               *)
LEMMA NextPair == WalkInv /\ PairAgrees /\ [Next]_vars => PairAgrees'
<1> SUFFICES ASSUME WalkInv, PairAgrees, [Next]_vars PROVE PairAgrees'
  OBVIOUS
<1> USE DEF world
<1>1. step \in Nat /\ Len(script) \in Nat
  BY DEF WalkInv
<1>2. ASSUME step' = step, script' = script, lists' = lists, found' = found,
             at' # "stopped" => at # "stopped"
      PROVE  PairAgrees'
  BY <1>2 DEF PairAgrees, SamePair, BarOf
<1>3. CASE Return
  <2>1. /\ Op \in Scans /\ found' = [found EXCEPT ![Op] = result]
        /\ script' = script /\ lists' = lists
        /\ at' # "stopped" => step' = step + 1 /\ at # "stopped"
    BY <1>3 DEF Return, WalkInv, Running
  <2>2. SUFFICES ASSUME NEW k \in 1..step' - 1, at' # "stopped", script[k] = "stage",
                        \A j \in k + 1..step' - 1 : script[j] \notin {"common", "notify"}
                 PROVE  SamePair(found["common"], found["notify"])'
    BY <2>1 DEF PairAgrees
  <2>3. step' = step + 1 /\ at # "stopped"
    BY <2>1, <2>2
  <2>4. k # step
    BY <2>1, <2>2 DEF Op, Scans
  <2>5. k \in 1..step - 1 /\ step \in k + 1..step' - 1
    BY <1>1, <2>2, <2>3, <2>4
  <2>6. \A j \in k + 1..step - 1 : j \in k + 1..step' - 1
    BY <1>1, <2>3, <2>5
  <2>7. SamePair(found["common"], found["notify"])
    BY <2>2, <2>3, <2>5, <2>6 DEF PairAgrees
  <2>8. Op \notin {"common", "notify"}
    BY <2>2, <2>5 DEF Op
  <2>9. found'["common"] = found["common"] /\ found'["notify"] = found["notify"]
    BY <2>1, <2>8 DEF WalkInv
  <2>10. QED
    BY <2>1, <2>7, <2>9 DEF SamePair, BarOf
<1>4. CASE Stage
  <2>1. found' = found /\ script' = script /\ lists' = lists
    BY <1>4 DEF Stage
  <2>2. CASE SamePair(found["common"], found["notify"])
    BY <2>1, <2>2 DEF PairAgrees, SamePair, BarOf
  <2>3. CASE ~SamePair(found["common"], found["notify"])
    BY <1>4, <2>3 DEF Stage, PairAgrees
  <2>4. QED
    BY <2>2, <2>3
<1>5. CASE Begin \/ Probe \/ ProbeEdu \/ NotFound
  BY <1>2, <1>5 DEF Begin, Probe, ProbeEdu, NotFound
<1>6. CASE Gate \/ Visit \/ WalkStops \/ ReturnEdu
  BY <1>2, <1>6 DEF Gate, Visit, WalkStops, ReturnEdu
<1>7. CASE UNCHANGED vars
  BY <1>2, <1>7 DEF vars
<1>8. QED
  BY <1>3, <1>4, <1>5, <1>6, <1>7 DEF Next

(* PairAgrees: in any order of scans and stages, and whichever accesses    *)
(* fail, a virtio-blk stage works on a common and a notification           *)
(* capability of one function and one BAR (selinos_pci.c:1913).            *)
THEOREM PairCorrect == Spec => []PairAgrees
<1>1. Init => PairAgrees
  BY DEF Init, PairAgrees
<1>2. IInv => WalkInv
  BY DEF IInv
<1>3. QED
  BY <1>1, <1>2, NextPair, Invariance, PTL DEF Spec
-----------------------------------------------------------------------------
(* What a scan reports.  The walk keeps no record of where it has been;    *)
(* the proof does: the capabilities passed over are no more than a reader  *)
(* meets, and while the walk has not come back to one of them there are as *)
(* many as the loop counter says.  So when the counter ends the walk, it   *)
(* has seen every position or is going round.                              *)
Quiet == errors = 0 /\ Op # "edu"

\* The walk has passed over V and is to look at current
Passed(V) ==
  /\ \A T \in SUBSET (1..Positions) : Follows(lists[slot], Seeks, T) =>
       V \subseteq T /\ (current \in 1..Positions => current \in T)
  /\ \A p \in V : lists[slot].caps[p].kind # Seeks
  /\ lists[slot].head \in 1..Positions => lists[slot].head \in V \cup {current}
  /\ \A p \in V : lists[slot].caps[p].next \in 1..Positions =>
                    lists[slot].caps[p].next \in V \cup {current}
  /\ current \in 1..Positions => current \in V \/ Cardinality(V) = seen

Exact ==
  /\ at \in {"scan", "gate", "walk"} =>
       result = Absent /\ \A t \in 1..slot - 1 : ~Matches(kinds[t])
  /\ at \in {"scan", "gate"} => seen = 0
  /\ at \in {"gate", "walk"} => Matches(kinds[slot]) /\ Op \notin {"e1000", "virtio"}
  /\ at = "walk" => \E V \in SUBSET (1..Positions) : Passed(V)
  /\ at = "return" => result = Expected

ExactInv == errors \in Nat /\ (Quiet => Exact)

(* A set that a reader never leaves and without the kind: nothing is found *)
LEMMA NoneIsFirst ==
  ASSUME NEW l, NEW k, NEW V \in SUBSET (1..Positions), Follows(l, k, V),
         \A p \in V : l.caps[p].kind # k
  PROVE  First(l, k) = 0
<1>1. Met(l, k) \subseteq V
  BY DEF Met
<1>2. {p \in Met(l, k) : l.caps[p].kind = k} = {}
  BY <1>1
<1>3. QED
  BY <1>2 DEF First

(* The one capability of the kind that is met is the first.                *)
LEMMA OneIsFirst ==
  ASSUME NEW l, NEW k, NEW c \in Met(l, k), l.caps[c].kind = k,
         \A p \in Met(l, k) : l.caps[p].kind = k => p = c
  PROVE  First(l, k) = c
<1>1. {p \in Met(l, k) : l.caps[p].kind = k} = {c}
  OBVIOUS
<1>2. QED
  BY <1>1 DEF First

(* The slot the loop has stopped at is the first that matches.             *)
LEMMA SlotIsLeast ==
  ASSUME NEW s \in 1..Slots, Matches(kinds[s]), \A t \in 1..s - 1 : ~Matches(kinds[t])
  PROVE  Least({t \in 1..Slots : Matches(kinds[t])}) = s
<1> DEFINE ss == {t \in 1..Slots : Matches(kinds[t])}
<1>1. Slots \in Nat
  BY SizesAssumption
<1>2. \A t \in ss : t \in 1..Slots /\ s <= t
  <2>1. SUFFICES ASSUME NEW t \in 1..Slots, Matches(kinds[t]) PROVE s <= t
    OBVIOUS
  <2>2. t \notin 1..s - 1
    BY <2>1
  <2>3. QED
    BY <1>1, <2>2
<1>3. s \in ss /\ ss # {}
  OBVIOUS
<1> HIDE DEF ss
<1>4. \A u \in ss : (\A t \in ss : u <= t) => u = s
  BY <1>1, <1>2, <1>3
<1>5. (CHOOSE u \in ss : \A t \in ss : u <= t) = s
  BY <1>2, <1>3, <1>4
<1>6. Least(ss) = s
  BY <1>3, <1>5 DEF Least
<1>7. QED
  BY <1>6 DEF ss

LEMMA SlotExpected ==
  ASSUME NEW s \in 1..Slots, Matches(kinds[s]), \A t \in 1..s - 1 : ~Matches(kinds[t])
  PROVE  /\ Op \in {"e1000", "virtio"} => Expected = [slot |-> s, cap |-> 0]
         /\ Op \notin {"e1000", "virtio"} =>
              Expected = IF First(lists[s], Seeks) = 0 THEN Absent
                         ELSE [slot |-> s, cap |-> First(lists[s], Seeks)]
<1>1. Least({t \in 1..Slots : Matches(kinds[t])}) = s
  BY SlotIsLeast
<1>2. s # 0
  BY SizesAssumption
<1>3. QED
  BY <1>1, <1>2 DEF Expected, Seeks

LEMMA NoneExpected ==
  ASSUME \A t \in 1..Slots : ~Matches(kinds[t])
  PROVE  Expected = Absent
<1>1. {t \in 1..Slots : Matches(kinds[t])} = {}
  OBVIOUS
<1>2. Least({t \in 1..Slots : Matches(kinds[t])}) = 0
  BY <1>1 DEF Least
<1>3. QED
  BY <1>2 DEF Expected

(* The walk begins at the head.                                            *)
LEMMA WalkBegins ==
  ASSUME current' = lists'[slot'].head, seen' = 0
  PROVE  Passed({})'
<1>1. Cardinality({}) = 0
  BY FS_EmptySet
<1>2. QED
  BY <1>1 DEF Passed, Follows

(* It passes over one more capability, or comes back to one it has seen.   *)
LEMMA WalkGoesOn ==
  ASSUME NEW V \in SUBSET (1..Positions), Passed(V), current \in 1..Positions,
         Cap.kind # Seeks, current' = Cap.next, seen' = seen + 1, seen \in Nat,
         UNCHANGED <<world, slot, step>>, NEW W, W = V \cup {current}
  PROVE  Passed(W)'
<1> DEFINE l == lists[slot]
<1>1. lists' = lists /\ slot' = slot /\ Seeks' = Seeks /\ Cap = l.caps[current]
  BY DEF world, Seeks, Op, Cap
<1>2. ASSUME NEW T \in SUBSET (1..Positions), Follows(l, Seeks, T)
      PROVE  W \subseteq T /\ (current' \in 1..Positions => current' \in T)
  <2>1. V \subseteq T /\ current \in T
    BY <1>2 DEF Passed
  <2>2. QED
    BY <1>1, <1>2, <2>1 DEF Follows
<1>3. \A p \in W : l.caps[p].kind # Seeks
  BY <1>1 DEF Passed
<1>4. l.head \in 1..Positions => l.head \in W \cup {current'}
  BY DEF Passed
<1>5. \A p \in W : l.caps[p].next \in 1..Positions => l.caps[p].next \in W \cup {current'}
  BY <1>1 DEF Passed
<1>6. current' \in 1..Positions => current' \in W \/ Cardinality(W) = seen'
  <2>1. CASE current \in V
    BY <1>1, <2>1 DEF Passed
  <2>2. CASE current \notin V
    <3>1. Cardinality(V) = seen
      BY <2>2 DEF Passed
    <3>2. IsFiniteSet(V)
      <4>1. IsFiniteSet(1..Positions)
        BY FS_Interval, SizesAssumption
      <4>2. QED
        BY <4>1, FS_Subset
    <3>3. QED
      BY <2>2, <3>1, <3>2, FS_AddElement
  <2>3. QED
    BY <2>1, <2>2
<1>7. QED
  BY <1>1, <1>2, <1>3, <1>4, <1>5, <1>6 DEF Passed

(* Where the walk ends without a capability there is none: past the last   *)
(* link, or when the counter has reached its limit.                        *)
LEMMA WalkFindsNone ==
  ASSUME NEW V \in SUBSET (1..Positions), Passed(V), seen \in Nat,
         seen >= WalkLimit \/ current \notin 1..Positions
  PROVE  First(lists[slot], Seeks) = 0
<1>1. CASE current \in V \/ current \notin 1..Positions
  <2>1. Follows(lists[slot], Seeks, V)
    BY <1>1 DEF Passed, Follows
  <2>2. QED
    BY <2>1, NoneIsFirst DEF Passed
<1>2. CASE current \notin V /\ current \in 1..Positions
  <2>1. Cardinality(V) = seen /\ seen >= Positions
    BY <1>2, SizesAssumption DEF Passed
  <2>2. IsFiniteSet(1..Positions) /\ Cardinality(1..Positions) = Positions
    BY FS_Interval, SizesAssumption
  <2>3. V # 1..Positions
    BY <1>2
  <2>4. /\ Cardinality(V) <= Cardinality(1..Positions)
        /\ Cardinality(1..Positions) = Cardinality(V) => 1..Positions = V
    BY <2>2, FS_Subset
  <2>5. QED
    BY <2>1, <2>2, <2>3, <2>4, SizesAssumption
<1>3. QED
  BY <1>1, <1>2

LEMMA WalkEnds ==
  ASSUME NEW V \in SUBSET (1..Positions), Passed(V), current \in 1..Positions,
         Cap.kind # Seeks, Cap.next = 0
  PROVE  First(lists[slot], Seeks) = 0
<1>1. Follows(lists[slot], Seeks, V \cup {current})
  BY SizesAssumption DEF Passed, Follows, Cap
<1>2. \A p \in V \cup {current} : lists[slot].caps[p].kind # Seeks
  BY DEF Passed, Cap
<1>3. V \cup {current} \in SUBSET (1..Positions)
  OBVIOUS
<1>4. QED
  BY <1>1, <1>2, <1>3, NoneIsFirst

(* Where it stops at a capability, that is the first.                      *)
LEMMA WalkFindsFirst ==
  ASSUME NEW V \in SUBSET (1..Positions), Passed(V), current \in 1..Positions,
         Cap.kind = Seeks
  PROVE  First(lists[slot], Seeks) = current
<1> DEFINE l == lists[slot]
           k == Seeks
<1>1. current \in Met(l, k)
  BY DEF Passed, Met
<1>2. Follows(l, k, V \cup {current})
  BY DEF Passed, Follows, Cap
<1>3. \A p \in V : l.caps[p].kind # k
  BY DEF Passed
<1>4. l.caps[current].kind = k
  BY DEF Cap
<1>5. Met(l, k) \subseteq V \cup {current}
  <2>1. V \cup {current} \in SUBSET (1..Positions)
    OBVIOUS
  <2>2. QED
    BY <1>2, <2>1 DEF Met
<1> HIDE DEF l, k
<1>6. \A p \in Met(l, k) : l.caps[p].kind = k => p = current
  BY <1>3, <1>5
<1>7. First(l, k) = current
  BY <1>1, <1>4, <1>6, OneIsFirst
<1>8. QED
  BY <1>7 DEF l, k

(* Every step of a scan keeps the invariant.                               *)
LEMMA NextExact == WalkInv /\ ExactInv /\ [Next]_vars => ExactInv'
<1> SUFFICES ASSUME WalkInv, ExactInv, [Next]_vars PROVE ExactInv'
  OBVIOUS
<1> USE DEF world, walk, edu
<1>1. errors \in Nat /\ Slots \in Nat /\ WalkLimit \in Nat
  BY SizesAssumption DEF ExactInv
<1>2. /\ slot \in 1..Slots + 1 /\ seen \in Nat
      /\ at \in {"gate", "walk"} => slot \in 1..Slots
  BY DEF WalkInv
<1>3. ASSUME UNCHANGED <<world, step>>
      PROVE  /\ Op' = Op /\ Seeks' = Seeks /\ Expected' = Expected
             /\ \A k : Matches(k)' = Matches(k)
  BY <1>3 DEF Op, Seeks, Expected, Matches
<1>4. ASSUME NEW e \in BOOLEAN, Errs(e)
      PROVE  errors' \in Nat /\ (errors' = 0 => errors = 0 /\ ~e)
  BY <1>1, <1>4 DEF Errs
<1>5. CASE Begin
  <2>1. /\ errors' \in Nat /\ at' \in {"scan", "stopped", "finished"} /\ slot' = 1
        /\ seen' = 0 /\ result' = Absent
    BY <1>4, <1>5 DEF Begin, GivesUp
  <2>2. (\A t \in 1..slot - 1 : ~Matches(kinds[t]))'
    BY <2>1
  <2>3. QED
    BY <2>1, <2>2 DEF ExactInv, Exact
<1>6. CASE Probe
  <2> PICK e \in BOOLEAN : 
        /\ Errs(e)
        /\ IF e \/ ~Matches(kinds[slot])
             THEN slot' = slot + 1 /\ UNCHANGED <<at, result>>
             ELSE IF Op \in {"e1000", "virtio"}
             THEN /\ result' = [Absent EXCEPT !.slot = slot] /\ at' = "return"
                  /\ UNCHANGED slot
             ELSE at' = "gate" /\ UNCHANGED <<slot, result>>
    BY <1>6 DEF Probe
  <2>1. /\ at = "scan" /\ Op # "edu" /\ slot \in 1..Slots
        /\ UNCHANGED <<world, step, port, current, seen, found, edu>>
    BY <1>1, <1>2, <1>6 DEF Probe
  <2>2. /\ Op' = Op /\ Expected' = Expected /\ \A k : Matches(k)' = Matches(k)
    BY <1>3, <2>1
  <2>3. errors' \in Nat
    BY <1>4
  <2>4. SUFFICES ASSUME Quiet' PROVE Exact'
    BY <2>3 DEF ExactInv
  <2> USE DEF Exact
  <2>5. Quiet /\ ~e
    BY <1>4, <2>2, <2>4 DEF Quiet
  <2>6. result = Absent /\ seen = 0 /\ \A t \in 1..slot - 1 : ~Matches(kinds[t])
    BY <2>1, <2>5 DEF ExactInv
  <2>7. CASE ~Matches(kinds[slot])
    <3>1. at' = "scan" /\ result' = Absent /\ seen' = 0 /\ slot' = slot + 1 /\ kinds' = kinds
      BY <2>1, <2>6, <2>7
    <3>2. \A t \in 1..slot' - 1 : ~Matches(kinds[t])
      <4>1. \A t \in 1..slot' - 1 : t \in 1..slot - 1 \/ t = slot
        BY <2>1, <3>1
      <4>2. QED
        BY <2>6, <2>7, <4>1
    <3>3. (\A t \in 1..slot - 1 : ~Matches(kinds[t]))'
      BY <2>2, <3>1, <3>2
    <3>4. QED
      BY <3>1, <3>3
  <2>8. CASE Matches(kinds[slot]) /\ Op \in {"e1000", "virtio"}
    <3>1. at' = "return" /\ result' = [slot |-> slot, cap |-> 0]
      BY <2>5, <2>8 DEF Absent
    <3>2. Expected = [slot |-> slot, cap |-> 0]
      BY <2>1, <2>6, <2>8, SlotExpected
    <3>3. QED
      BY <2>2, <3>1, <3>2
  <2>9. CASE Matches(kinds[slot]) /\ Op \notin {"e1000", "virtio"}
    <3>1. at' = "gate" /\ UNCHANGED <<slot, result, kinds, seen>>
      BY <2>1, <2>5, <2>9
    <3>2. (\A t \in 1..slot - 1 : ~Matches(kinds[t]))'
      BY <2>2, <2>6, <3>1
    <3>3. Matches(kinds[slot])'
      BY <2>2, <2>9, <3>1
    <3>4. QED
      BY <2>2, <2>6, <2>9, <3>1, <3>2, <3>3
  <2>10. QED
    BY <2>7, <2>8, <2>9
<1>7. CASE ProbeEdu \/ ReturnEdu \/ Stage
  <2>1. errors' \in Nat /\ (Quiet' => at' \in {"idle", "stopped"})
    BY <1>1, <1>3, <1>4, <1>7 DEF ProbeEdu, ReturnEdu, Stage, Quiet
  <2>2. QED
    BY <2>1 DEF ExactInv, Exact
<1>8. CASE NotFound
  <2>1. /\ at = "scan" /\ slot > Slots /\ at' = "return"
        /\ UNCHANGED <<world, step, result, errors>>
    BY <1>8 DEF NotFound
  <2>2. Op' = Op /\ Expected' = Expected
    BY <1>3, <2>1
  <2>3. SUFFICES ASSUME Quiet' PROVE Exact'
    BY <1>1, <2>1 DEF ExactInv
  <2>4. result = Absent /\ \A t \in 1..slot - 1 : ~Matches(kinds[t])
    BY <2>1, <2>2, <2>3 DEF ExactInv, Exact, Quiet
  <2>5. Expected = Absent
    <3>1. \A t \in 1..Slots : t \in 1..slot - 1
      BY <1>1, <1>2, <2>1
    <3>2. QED
      BY <2>4, <3>1, NoneExpected
  <2>6. QED
    BY <2>1, <2>2, <2>4, <2>5 DEF Exact
<1>9. CASE Gate
  <2> PICK e \in BOOLEAN :
        /\ Errs(e)
        /\ IF e \/ lists[slot].head = 0
             THEN at' = "return" /\ UNCHANGED current
             ELSE at' = "walk" /\ current' = lists[slot].head
    BY <1>9 DEF Gate
  <2>1. at = "gate" /\ UNCHANGED <<world, step, slot, seen, result>> /\ slot \in 1..Slots
    BY <1>2, <1>9 DEF Gate
  <2>2. Op' = Op /\ Expected' = Expected /\ \A k : Matches(k)' = Matches(k)
    BY <1>3, <2>1
  <2>3. errors' \in Nat
    BY <1>4
  <2>4. SUFFICES ASSUME Quiet' PROVE Exact'
    BY <2>3 DEF ExactInv
  <2>5. Quiet /\ ~e
    BY <1>4, <2>2, <2>4 DEF Quiet
  <2>6. /\ result = Absent /\ seen = 0 /\ Matches(kinds[slot]) /\ Op \notin {"e1000", "virtio"}
        /\ \A t \in 1..slot - 1 : ~Matches(kinds[t])
    BY <2>1, <2>5 DEF ExactInv, Exact
  <2>7. CASE lists[slot].head = 0
    <3>1. Follows(lists[slot], Seeks, {})
      BY <2>7 DEF Follows
    <3>2. First(lists[slot], Seeks) = 0
      BY <3>1, NoneIsFirst
    <3>3. Expected = Absent
      BY <2>1, <2>6, <3>2, SlotExpected
    <3>4. QED
      BY <2>1, <2>2, <2>6, <2>7, <3>3 DEF Exact
  <2>8. CASE lists[slot].head # 0
    <3>1. at' = "walk" /\ current' = lists'[slot'].head /\ seen' = 0
      BY <2>1, <2>5, <2>6, <2>8
    <3>2. Passed({})'
      BY <3>1, WalkBegins
    <3>3. (\E V \in SUBSET (1..Positions) : Passed(V))'
      BY <3>2
    <3>4. /\ Matches(kinds[slot])' /\ (\A t \in 1..slot - 1 : ~Matches(kinds[t]))'
          /\ result' = Absent
      BY <2>1, <2>2, <2>6
    <3>5. QED
      BY <2>2, <2>6, <3>1, <3>3, <3>4 DEF Exact
  <2>9. QED
    BY <2>7, <2>8
<1>10. CASE Visit
  <2> PICK link \in BOOLEAN, body \in BOOLEAN :
        /\ Errs(link \/ body)
        /\ IF link
             THEN at' = "return" /\ UNCHANGED <<current, seen, result>>
             ELSE IF ~body /\ Cap.kind = Seeks
             THEN /\ result' = [slot |-> slot, cap |-> current] /\ at' = "return"
                  /\ UNCHANGED <<current, seen>>
             ELSE /\ at' = IF Cap.next = 0 THEN "return" ELSE "walk"
                  /\ current' = Cap.next /\ seen' = seen + 1
                  /\ UNCHANGED result
    BY <1>10 DEF Visit, Counts
  <2>1. /\ at = "walk" /\ current \in 1..Positions /\ slot \in 1..Slots
        /\ UNCHANGED <<world, step, slot>>
    BY <1>2, <1>10 DEF Visit
  <2>2. /\ Op' = Op /\ Seeks' = Seeks /\ Expected' = Expected
        /\ \A k : Matches(k)' = Matches(k)
    BY <1>3, <2>1
  <2>3. errors' \in Nat
    BY <1>4
  <2>4. SUFFICES ASSUME Quiet' PROVE Exact'
    BY <2>3 DEF ExactInv
  <2>5. Quiet /\ ~link /\ ~body
    BY <1>4, <2>2, <2>4 DEF Quiet
  <2>6. /\ result = Absent /\ Matches(kinds[slot]) /\ Op \notin {"e1000", "virtio"}
        /\ \A t \in 1..slot - 1 : ~Matches(kinds[t])
    BY <2>1, <2>5 DEF ExactInv, Exact
  <2> PICK V \in SUBSET (1..Positions) : Passed(V)
    BY <2>1, <2>5 DEF ExactInv, Exact
  <2>7. CASE Cap.kind = Seeks
    <3>1. First(lists[slot], Seeks) = current
      BY <2>1, <2>7, WalkFindsFirst
    <3>2. Expected = [slot |-> slot, cap |-> current]
      <4>1. current # 0
        BY <2>1, SizesAssumption
      <4>2. QED
        BY <2>1, <2>6, <3>1, <4>1, SlotExpected
    <3>3. QED
      BY <2>2, <2>5, <2>7, <3>2 DEF Exact
  <2>8. CASE Cap.kind # Seeks
    <3>1. /\ at' = IF Cap.next = 0 THEN "return" ELSE "walk"
          /\ current' = Cap.next /\ seen' = seen + 1 /\ result' = Absent
      BY <2>5, <2>6, <2>8
    <3> DEFINE W == V \cup {current}
    <3>2. W \in SUBSET (1..Positions)
      BY <2>1
    <3>3. \E Z \in SUBSET (1..Positions) : Passed(Z)'
      <4>1. PICK Z : Z = W
        OBVIOUS
      <4>2. Passed(Z)'
        BY <1>2, <2>1, <2>8, <3>1, <4>1, WalkGoesOn
      <4>3. QED
        BY <3>2, <4>1, <4>2
    <3>4. CASE Cap.next = 0
      <4>1. First(lists[slot], Seeks) = 0
        BY <2>1, <2>8, <3>4, WalkEnds
      <4>2. Expected = Absent
        BY <2>1, <2>6, <4>1, SlotExpected
      <4>3. QED
        BY <2>2, <3>1, <3>4, <4>2 DEF Exact
    <3>5. CASE Cap.next # 0
      <4>1. /\ Matches(kinds[slot])' /\ (\A t \in 1..slot - 1 : ~Matches(kinds[t]))'
        BY <2>1, <2>2, <2>6
      <4>2. (\E Z \in SUBSET (1..Positions) : Passed(Z))'
        BY <3>3
      <4>3. QED
        BY <2>2, <2>6, <3>1, <3>5, <4>1, <4>2 DEF Exact
    <3>6. QED
      BY <3>4, <3>5
  <2>9. QED
    BY <2>7, <2>8
<1>11. CASE WalkStops
  <2>1. /\ at = "walk" /\ slot \in 1..Slots /\ at' = "return"
        /\ (seen >= WalkLimit \/ current \notin 1..Positions)
        /\ UNCHANGED <<world, step, slot, result, errors>>
    BY <1>1, <1>2, <1>11 DEF WalkStops, WalkMayGoOn
  <2>2. Op' = Op /\ Expected' = Expected
    BY <1>3, <2>1
  <2>3. SUFFICES ASSUME Quiet' PROVE Exact'
    BY <1>1, <2>1 DEF ExactInv
  <2>4. Quiet
    BY <2>1, <2>2, <2>3 DEF Quiet
  <2>5. /\ result = Absent /\ Matches(kinds[slot]) /\ Op \notin {"e1000", "virtio"}
        /\ \A t \in 1..slot - 1 : ~Matches(kinds[t])
    BY <2>1, <2>4 DEF ExactInv, Exact
  <2>6. PICK V \in SUBSET (1..Positions) : Passed(V)
    BY <2>1, <2>4 DEF ExactInv, Exact
  <2>7. First(lists[slot], Seeks) = 0
    BY <1>2, <2>1, <2>6, WalkFindsNone
  <2>8. Expected = Absent
    BY <2>1, <2>5, <2>7, SlotExpected
  <2>9. QED
    BY <2>1, <2>2, <2>5, <2>8 DEF Exact
<1>12. CASE Return
  <2>1. at' \in {"idle", "stopped"} /\ errors' = errors
    BY <1>12 DEF Return
  <2>2. QED
    BY <1>1, <2>1 DEF ExactInv, Exact
<1>13. CASE UNCHANGED vars
  <2>1. UNCHANGED <<world, step, at, slot, seen, current, result, errors>>
    BY <1>13 DEF vars
  <2>2. /\ Op' = Op /\ Seeks' = Seeks /\ Expected' = Expected
        /\ \A k : Matches(k)' = Matches(k)
    BY <1>3, <2>1
  <2>3. SUFFICES ASSUME Quiet' PROVE Exact'
    BY <1>1, <2>1 DEF ExactInv
  <2>4. Quiet /\ Exact
    BY <2>1, <2>2, <2>3 DEF ExactInv, Quiet
  <2>5. \A V : Passed(V)' = Passed(V)
    BY <2>1, <2>2 DEF Passed
  <2>6. /\ at' = "walk" => (\E V \in SUBSET (1..Positions) : Passed(V))'
        /\ at' \in {"gate", "walk"} => Matches(kinds[slot])'
    BY <2>1, <2>2, <2>4, <2>5 DEF Exact
  <2>7. at' \in {"scan", "gate", "walk"} => (\A t \in 1..slot - 1 : ~Matches(kinds[t]))'
    BY <2>1, <2>2, <2>4 DEF Exact
  <2>8. QED
    BY <2>1, <2>2, <2>4, <2>6, <2>7 DEF Exact
<1>14. QED
  BY <1>5, <1>6, <1>7, <1>8, <1>9, <1>10, <1>11, <1>12, <1>13 DEF Next

(* ScanIsExact: without errors a scan of selinos_pci.c reports the first   *)
(* function that matches and the first capability of the kind on its list, *)
(* whatever the list looks like; PCI_CAPABILITY_LIMIT ends only a walk     *)
(* that is going round and has nothing left to find.                       *)
THEOREM ScansCorrect == Spec => []ScanIsExact
<1>1. Init => ExactInv
  <2> SUFFICES ASSUME Init PROVE ExactInv
    OBVIOUS
  <2>1. errors = 0 /\ at = "idle"
    BY DEF Init
  <2>2. QED
    BY <2>1 DEF ExactInv, Exact
<1>2. IInv => WalkInv
  BY DEF IInv
<1>3. ExactInv => ScanIsExact
  BY DEF ExactInv, Exact, Quiet, ScanIsExact
<1>4. QED
  BY <1>1, <1>2, <1>3, NextExact, Invariance, PTL DEF Spec

-----------------------------------------------------------------------------
(* The stages.  All of them make their steps in one order, whatever each   *)
(* leaves out of it, so a stage is where its list says and what is no      *)
(* longer ahead has been done; at out, what is held is what there is left  *)
(* to release.                                                             *)

\* The steps a stage makes before out, and the order all stages make them in
MainOps == {"alloc", "map", "point", "locate", "zero", "status", "select", "size",
            "addresses", "enable", "disabled", "doorbell", "notify", "unchanged",
            "features", "reset"}
AllocRank == [common |-> 1, layout |-> 2, notification |-> 18]
MapRank == [common |-> 4, layout |-> 5, notification |-> 19]
OpRank ==
  [locate |-> 3, zero |-> 6, point |-> 7, select |-> 13, size |-> 14, addresses |-> 15,
   enable |-> 16, disabled |-> 16, doorbell |-> 17, notify |-> 20, unchanged |-> 21,
   features |-> 22, reset |-> 22]
StatusRank(bits) ==
  IF "driver_ok" \in bits THEN 12
  ELSE IF "features_ok" \in bits THEN 11
  ELSE IF "driver" \in bits THEN 10
  ELSE IF "acknowledge" \in bits THEN 9 ELSE 8
StepRank(s) ==
  CASE s.op = "alloc" -> AllocRank[s.arg]
    [] s.op = "map" -> MapRank[s.arg]
    [] s.op = "status" -> StatusRank(s.arg)
    [] OTHER -> OpRank[s.op]

MainSteps ==
  [op : {"alloc", "map"}, arg : Staged!Frames]
    \cup [op : {"status"}, arg : SUBSET Staged!Bits]
    \cup [op : DOMAIN OpRank, arg : {"none"}]

Ahead(q) == {q[k] : k \in 1..Len(q)}
Rising(q, low, high) ==
  /\ q \in Seq(MainSteps)
  /\ \A k \in 1..Len(q) : StepRank(q[k]) \in low..high
  /\ \A j, k \in 1..Len(q) : j < k => StepRank(q[j]) < StepRank(q[k])

(* One part after another.                                                 *)
LEMMA RisingJoin ==
  ASSUME NEW s, NEW t, NEW a \in Nat, NEW b \in Nat, NEW c \in Nat, NEW d \in Nat,
         Rising(s, a, b), Rising(t, c, d), b < c, a <= b, c <= d
  PROVE  Rising(s \o t, a, d) /\ Ahead(s \o t) = Ahead(s) \cup Ahead(t)
<1> DEFINE u == s \o t
<1>1. /\ u \in Seq(MainSteps) /\ Len(u) = Len(s) + Len(t) /\ Len(s) \in Nat /\ Len(t) \in Nat
      /\ \A k \in 1..Len(s) : u[k] = s[k]
      /\ \A k \in 1..Len(u) : k > Len(s) => u[k] = t[k - Len(s)] /\ k - Len(s) \in 1..Len(t)
  BY DEF Rising
<1>2. \A k \in 1..Len(u) : k \in 1..Len(s) \/ k > Len(s)
  BY <1>1
<1> HIDE DEF u
<1>3. \A k \in 1..Len(u) : StepRank(u[k]) \in a..d
  <2> SUFFICES ASSUME NEW k \in 1..Len(u) PROVE StepRank(u[k]) \in a..d
    OBVIOUS
  <2>1. CASE k \in 1..Len(s)
    <3>1. StepRank(s[k]) \in a..b /\ u[k] = s[k]
      BY <1>1, <2>1 DEF Rising
    <3>2. QED
      BY <3>1
  <2>2. CASE k > Len(s)
    <3>1. StepRank(t[k - Len(s)]) \in c..d /\ u[k] = t[k - Len(s)]
      BY <1>1, <2>2 DEF Rising
    <3>2. QED
      BY <3>1
  <2>3. QED
    BY <1>2, <2>1, <2>2
<1>4. ASSUME NEW j \in 1..Len(u), NEW k \in 1..Len(u), j < k
      PROVE  StepRank(u[j]) < StepRank(u[k])
  <2>1. CASE k \in 1..Len(s)
    <3>1. j \in 1..Len(s) /\ u[j] = s[j] /\ u[k] = s[k]
      BY <1>1, <1>4, <2>1
    <3>2. QED
      BY <1>4, <2>1, <3>1 DEF Rising
  <2>2. CASE j > Len(s)
    <3>1. k > Len(s)
      BY <1>1, <1>4, <2>2
    <3>2. /\ u[j] = t[j - Len(s)] /\ u[k] = t[k - Len(s)] /\ j - Len(s) < k - Len(s)
          /\ j - Len(s) \in 1..Len(t) /\ k - Len(s) \in 1..Len(t)
      BY <1>1, <1>4, <2>2, <3>1
    <3>3. QED
      BY <3>2 DEF Rising
  <2>3. CASE j \in 1..Len(s) /\ k > Len(s)
    <3>1. /\ StepRank(s[j]) \in a..b /\ u[j] = s[j]
          /\ StepRank(t[k - Len(s)]) \in c..d /\ u[k] = t[k - Len(s)]
      BY <1>1, <2>3 DEF Rising
    <3>2. QED
      BY <3>1
  <2>4. QED
    BY <1>2, <2>1, <2>2, <2>3
<1>5. Ahead(u) = Ahead(s) \cup Ahead(t)
  <2>1. \A k \in 1..Len(u) : u[k] \in Ahead(s) \cup Ahead(t)
    BY <1>1, <1>2 DEF Ahead
  <2>2. \A k \in 1..Len(s) : k \in 1..Len(u) /\ s[k] = u[k]
    BY <1>1
  <2>3. ASSUME NEW k \in 1..Len(t)
        PROVE  Len(s) + k \in 1..Len(u) /\ t[k] = u[Len(s) + k]
    <3>1. Len(s) + k \in 1..Len(u) /\ Len(s) + k > Len(s) /\ (Len(s) + k) - Len(s) = k
      BY <1>1
    <3>2. QED
      BY <1>1, <3>1
  <2>4. Ahead(u) \subseteq Ahead(s) \cup Ahead(t)
    BY <2>1, Zenon DEF Ahead
  <2>5. Ahead(s) \subseteq Ahead(u)
    BY <2>2 DEF Ahead
  <2>6. Ahead(t) \subseteq Ahead(u)
    BY <2>3 DEF Ahead
  <2>7. QED
    BY <2>4, <2>5, <2>6
<1>6. QED
  BY <1>1, <1>3, <1>4, <1>5 DEF Rising, u

(* What is left after the next step.                                       *)
LEMMA RisingTail ==
  ASSUME NEW q, NEW a \in Nat, NEW b \in Nat, Rising(q, a, b), q # <<>>
  PROVE  /\ Rising(Tail(q), a, b)
         /\ Head(q) \in Ahead(q) /\ Head(q) \in MainSteps
         /\ Ahead(Tail(q)) = Ahead(q) \ {Head(q)}
         /\ \A s \in Ahead(Tail(q)) : StepRank(Head(q)) < StepRank(s)
<1>1. /\ q \in Seq(MainSteps) /\ Len(q) \in Nat \ {0} /\ Tail(q) \in Seq(MainSteps)
      /\ Len(Tail(q)) = Len(q) - 1 /\ Head(q) = q[1]
      /\ \A k \in 1..Len(q) - 1 : Tail(q)[k] = q[k + 1] /\ k + 1 \in 1..Len(q)
  BY DEF Rising
<1> DEFINE t == Tail(q)
<1> HIDE DEF t
<1>2. \A k \in 1..Len(t) : t[k] = q[k + 1] /\ k + 1 \in 1..Len(q) /\ 1 < k + 1
  BY <1>1 DEF t
<1>3. Rising(t, a, b)
  <2>1. \A k \in 1..Len(t) : StepRank(t[k]) \in a..b
    BY <1>2 DEF Rising
  <2>2. ASSUME NEW j \in 1..Len(t), NEW k \in 1..Len(t), j < k
        PROVE  StepRank(t[j]) < StepRank(t[k])
    <3>1. j + 1 < k + 1
      BY <2>2, <1>1 DEF t
    <3>2. QED
      BY <1>2, <3>1 DEF Rising
  <2>3. QED
    BY <1>1, <2>1, <2>2 DEF Rising, t
<1>4. \A k \in 1..Len(t) : StepRank(q[1]) < StepRank(t[k])
  <2>1. 1 \in 1..Len(q)
    BY <1>1
  <2>2. ASSUME NEW k \in 1..Len(t) PROVE StepRank(q[1]) < StepRank(q[k + 1])
    BY <1>2, <2>1, <2>2 DEF Rising
  <2>3. QED
    BY <1>2, <2>2
<1>5. \A k \in 1..Len(q) : k = 1 \/ (k - 1 \in 1..Len(t) /\ q[k] = t[k - 1])
  BY <1>1 DEF t
<1>6. \A k \in 1..Len(t) : StepRank(t[k]) \in Nat
  BY <1>3 DEF Rising
<1>7. q[1] \notin Ahead(t)
  BY <1>4, <1>6 DEF Ahead
<1>8. Ahead(t) = Ahead(q) \ {q[1]}
  <2>1. \A x \in Ahead(t) : x \in Ahead(q)
    BY <1>2 DEF Ahead
  <2>2. \A x \in Ahead(q) : x = q[1] \/ x \in Ahead(t)
    BY <1>5 DEF Ahead
  <2>3. QED
    BY <1>7, <2>1, <2>2
<1>9. \A x \in Ahead(t) : StepRank(q[1]) < StepRank(x)
  BY <1>4 DEF Ahead
<1>10. q[1] \in Ahead(q) /\ q[1] \in MainSteps
  BY <1>1 DEF Ahead
<1>11. QED
  BY <1>1, <1>3, <1>8, <1>9, <1>10 DEF t

LEMMA RankOf ==
  /\ \A f \in Staged!Frames : StepRank(Staged!At("alloc", f)) = AllocRank[f]
  /\ \A f \in Staged!Frames : StepRank(Staged!At("map", f)) = MapRank[f]
  /\ \A b \in SUBSET Staged!Bits : StepRank(Staged!Write(b)) = StatusRank(b)
  /\ \A o \in DOMAIN OpRank : StepRank(Staged!Do(o)) = OpRank[o]
BY DEF StepRank, Staged!At, Staged!Write, Staged!Do, OpRank

LEMMA StepsAre ==
  /\ \A f \in Staged!Frames : {Staged!At("alloc", f), Staged!At("map", f)} \subseteq MainSteps
  /\ \A b \in SUBSET Staged!Bits : Staged!Write(b) \in MainSteps
  /\ \A o \in DOMAIN OpRank : Staged!Do(o) \in MainSteps
BY DEF MainSteps, Staged!At, Staged!Write, Staged!Do

(* The parts of the stages.                                                *)
LEMMA MapCommonRises ==
  /\ Rising(Staged!MapCommon, 1, 7)
  /\ Ahead(Staged!MapCommon) =
       {Staged!At("alloc", "common"),
        Staged!At("map", "common"),
        Staged!Do("point")}
<1>1. /\ Staged!At("alloc", "common") \in MainSteps /\ StepRank(Staged!At("alloc", "common")) = 1
      /\ Staged!At("map", "common") \in MainSteps /\ StepRank(Staged!At("map", "common")) = 4
      /\ Staged!Do("point") \in MainSteps /\ StepRank(Staged!Do("point")) = 7
  BY RankOf, StepsAre DEF AllocRank, MapRank, OpRank, Staged!Frames
<1>2. QED
  BY <1>1 DEF Rising, Ahead, Staged!MapCommon

LEMMA MapLayoutRises ==
  /\ Rising(Staged!MapLayout, 1, 7)
  /\ Ahead(Staged!MapLayout) =
       {Staged!At("alloc", "common"),
        Staged!At("alloc", "layout"),
        Staged!Do("locate"),
        Staged!At("map", "common"),
        Staged!At("map", "layout"),
        Staged!Do("zero"),
        Staged!Do("point")}
<1>1. /\ Staged!At("alloc", "common") \in MainSteps /\ StepRank(Staged!At("alloc", "common")) = 1
      /\ Staged!At("alloc", "layout") \in MainSteps /\ StepRank(Staged!At("alloc", "layout")) = 2
      /\ Staged!Do("locate") \in MainSteps /\ StepRank(Staged!Do("locate")) = 3
      /\ Staged!At("map", "common") \in MainSteps /\ StepRank(Staged!At("map", "common")) = 4
      /\ Staged!At("map", "layout") \in MainSteps /\ StepRank(Staged!At("map", "layout")) = 5
      /\ Staged!Do("zero") \in MainSteps /\ StepRank(Staged!Do("zero")) = 6
      /\ Staged!Do("point") \in MainSteps /\ StepRank(Staged!Do("point")) = 7
  BY RankOf, StepsAre DEF AllocRank, MapRank, OpRank, Staged!Frames
<1>2. QED
  BY <1>1 DEF Rising, Ahead, Staged!MapLayout

LEMMA HandshakeRises ==
  /\ Rising(Staged!Handshake, 8, 11)
  /\ Ahead(Staged!Handshake) =
       {Staged!Write({}),
        Staged!Write({"acknowledge"}),
        Staged!Write({"acknowledge", "driver"}),
        Staged!Write(Staged!FeaturesOk)}
<1>1. /\ Staged!Write({}) \in MainSteps /\ StepRank(Staged!Write({})) = 8
      /\ Staged!Write({"acknowledge"}) \in MainSteps /\ StepRank(Staged!Write({"acknowledge"})) = 9
      /\ Staged!Write({"acknowledge", "driver"}) \in MainSteps /\ StepRank(Staged!Write({"acknowledge", "driver"})) = 10
      /\ Staged!Write(Staged!FeaturesOk) \in MainSteps /\ StepRank(Staged!Write(Staged!FeaturesOk)) = 11
  BY RankOf, StepsAre DEF StatusRank, Staged!Bits, Staged!FeaturesOk
<1>2. QED
  BY <1>1 DEF Rising, Ahead, Staged!Handshake

LEMMA ProgramRises ==
  /\ Rising(Staged!Program, 13, 15)
  /\ Ahead(Staged!Program) =
       {Staged!Do("select"),
        Staged!Do("size"),
        Staged!Do("addresses")}
<1>1. /\ Staged!Do("select") \in MainSteps /\ StepRank(Staged!Do("select")) = 13
      /\ Staged!Do("size") \in MainSteps /\ StepRank(Staged!Do("size")) = 14
      /\ Staged!Do("addresses") \in MainSteps /\ StepRank(Staged!Do("addresses")) = 15
  BY RankOf, StepsAre DEF OpRank
<1>2. QED
  BY <1>1 DEF Rising, Ahead, Staged!Program

LEMMA NotifyRises ==
  /\ Rising(Staged!Notify, 17, 21)
  /\ Ahead(Staged!Notify) =
       {Staged!Do("doorbell"),
        Staged!At("alloc", "notification"),
        Staged!At("map", "notification"),
        Staged!Do("notify"),
        Staged!Do("unchanged")}
<1>1. /\ Staged!Do("doorbell") \in MainSteps /\ StepRank(Staged!Do("doorbell")) = 17
      /\ Staged!At("alloc", "notification") \in MainSteps /\ StepRank(Staged!At("alloc", "notification")) = 18
      /\ Staged!At("map", "notification") \in MainSteps /\ StepRank(Staged!At("map", "notification")) = 19
      /\ Staged!Do("notify") \in MainSteps /\ StepRank(Staged!Do("notify")) = 20
      /\ Staged!Do("unchanged") \in MainSteps /\ StepRank(Staged!Do("unchanged")) = 21
  BY RankOf, StepsAre DEF AllocRank, MapRank, OpRank, Staged!Frames
<1>2. QED
  BY <1>1 DEF Rising, Ahead, Staged!Notify

LEMMA LoneStep ==
  ASSUME NEW o \in DOMAIN OpRank
  PROVE  /\ Rising(<<Staged!Do(o)>>, OpRank[o], OpRank[o])
         /\ Ahead(<<Staged!Do(o)>>) = {Staged!Do(o)} /\ OpRank[o] \in Nat
<1>1. Staged!Do(o) \in MainSteps /\ StepRank(Staged!Do(o)) = OpRank[o] /\ OpRank[o] \in Nat
  BY RankOf, StepsAre DEF OpRank
<1>2. QED
  BY <1>1 DEF Rising, Ahead

LEMMA ReadyRises ==
  /\ Rising(Staged!Ready, 8, 12)
  /\ Ahead(Staged!Ready) = Ahead(Staged!Handshake) \cup {Staged!Write(Staged!DriverOk)}
<1>1. /\ Staged!Write(Staged!DriverOk) \in MainSteps
      /\ StepRank(Staged!Write(Staged!DriverOk)) = 12
  BY RankOf, StepsAre DEF StatusRank, Staged!Bits, Staged!DriverOk
<1>2. /\ Rising(<<Staged!Write(Staged!DriverOk)>>, 12, 12)
      /\ Ahead(<<Staged!Write(Staged!DriverOk)>>) = {Staged!Write(Staged!DriverOk)}
  BY <1>1 DEF Rising, Ahead
<1>3. QED
  BY <1>2, HandshakeRises, RisingJoin DEF Staged!Ready

\* What each stage's list has in it, and before what.
Complete(s, steps) ==
  /\ Staged!At("map", "common") \in steps
  /\ Staged!Do("features") \in steps \/ Staged!Do("reset") \in steps
  /\ Staged!Do("features") \in steps => s = "m2"
  /\ \A f \in Staged!Frames : Staged!At("map", f) \in steps => Staged!At("alloc", f) \in steps
  /\ Staged!At("alloc", "layout") \in steps => Staged!Do("zero") \in steps
  /\ Staged!Do("addresses") \in steps =>
       /\ s # "m2"
       /\ {Staged!At("alloc", "layout"), Staged!Do("zero"), Staged!Do("size")} \subseteq steps

(* Every stage makes its steps in the one order, and none is missing.      *)
LEMMA StagesRise ==
  ASSUME NEW s \in DOMAIN Staged!Steps
  PROVE  Rising(Staged!Steps[s], 1, 22) /\ Complete(s, Ahead(Staged!Steps[s]))
<1>1. CASE s = "m2"
  <2> DEFINE
    S1 == Staged!MapCommon \o <<Staged!Do("features")>>
  <2>1. Staged!Steps[s] = S1
    BY <1>1 DEF Staged!Steps
  <2>2. Rising(<<Staged!Do("features")>>, 22, 22) /\ Ahead(<<Staged!Do("features")>>) = {Staged!Do("features")}
    BY LoneStep DEF OpRank
  <2> HIDE DEF S1
  <2>3. Rising(S1, 1, 22) /\ Ahead(S1) = Ahead(Staged!MapCommon) \cup Ahead(<<Staged!Do("features")>>)
    BY <2>2, MapCommonRises, RisingJoin DEF S1
  <2>4. Complete(s, Ahead(S1))
    BY <1>1, <2>2, <2>3, MapCommonRises
       DEF Complete, Staged!At, Staged!Do, Staged!Write, Staged!Frames
  <2>5. QED
    BY <2>1, <2>3, <2>4
<1>2. CASE s = "m3"
  <2> DEFINE
    S1 == Staged!MapCommon \o Staged!Handshake
    S2 == S1 \o <<Staged!Do("reset")>>
  <2>1. Staged!Steps[s] = S2
    BY <1>2 DEF Staged!Steps
  <2>2. Rising(<<Staged!Do("reset")>>, 22, 22) /\ Ahead(<<Staged!Do("reset")>>) = {Staged!Do("reset")}
    BY LoneStep DEF OpRank
  <2> HIDE DEF S1, S2
  <2>3. Rising(S1, 1, 11) /\ Ahead(S1) = Ahead(Staged!MapCommon) \cup Ahead(Staged!Handshake)
    BY <2>2, MapCommonRises, HandshakeRises, RisingJoin DEF S1
  <2>4. Rising(S2, 1, 22) /\ Ahead(S2) = Ahead(S1) \cup Ahead(<<Staged!Do("reset")>>)
    BY <2>2, <2>3, MapCommonRises, HandshakeRises, RisingJoin DEF S2
  <2>5. Complete(s, Ahead(S2))
    BY <1>2, <2>2, <2>3, <2>4, MapCommonRises, HandshakeRises
       DEF Complete, Staged!At, Staged!Do, Staged!Write, Staged!Frames
  <2>6. QED
    BY <2>1, <2>4, <2>5
<1>3. CASE s = "m4"
  <2> DEFINE
    S1 == Staged!MapCommon \o Staged!Ready
    S2 == S1 \o <<Staged!Do("reset")>>
  <2>1. Staged!Steps[s] = S2
    BY <1>3 DEF Staged!Steps
  <2>2. Rising(<<Staged!Do("reset")>>, 22, 22) /\ Ahead(<<Staged!Do("reset")>>) = {Staged!Do("reset")}
    BY LoneStep DEF OpRank
  <2> HIDE DEF S1, S2
  <2>3. Rising(S1, 1, 12) /\ Ahead(S1) = Ahead(Staged!MapCommon) \cup Ahead(Staged!Ready)
    BY <2>2, MapCommonRises, ReadyRises, RisingJoin DEF S1
  <2>4. Rising(S2, 1, 22) /\ Ahead(S2) = Ahead(S1) \cup Ahead(<<Staged!Do("reset")>>)
    BY <2>2, <2>3, MapCommonRises, ReadyRises, RisingJoin DEF S2
  <2>5. Complete(s, Ahead(S2))
    BY <1>3, <2>2, <2>3, <2>4, MapCommonRises, ReadyRises, HandshakeRises
       DEF Complete, Staged!At, Staged!Do, Staged!Write, Staged!Frames
  <2>6. QED
    BY <2>1, <2>4, <2>5
<1>4. CASE s = "m5"
  <2> DEFINE
    S1 == Staged!MapCommon \o Staged!Ready
    S2 == S1 \o <<Staged!Do("select"), Staged!Do("reset")>>
  <2>1. Staged!Steps[s] = S2
    BY <1>4 DEF Staged!Steps
  <2>2. Rising(<<Staged!Do("select"), Staged!Do("reset")>>, 13, 22)
        /\ Ahead(<<Staged!Do("select"), Staged!Do("reset")>>) = {Staged!Do("select"), Staged!Do("reset")}
    <3>1. \A o \in {"select", "reset"} : Staged!Do(o) \in MainSteps /\ StepRank(Staged!Do(o)) = OpRank[o]
      BY RankOf, StepsAre DEF OpRank
    <3>2. QED
      BY <3>1 DEF Rising, Ahead, OpRank
  <2> HIDE DEF S1, S2
  <2>3. Rising(S1, 1, 12) /\ Ahead(S1) = Ahead(Staged!MapCommon) \cup Ahead(Staged!Ready)
    BY <2>2, MapCommonRises, ReadyRises, RisingJoin DEF S1
  <2>4. Rising(S2, 1, 22) /\ Ahead(S2) = Ahead(S1) \cup Ahead(<<Staged!Do("select"), Staged!Do("reset")>>)
    BY <2>2, <2>3, MapCommonRises, ReadyRises, RisingJoin DEF S2
  <2>5. Complete(s, Ahead(S2))
    BY <1>4, <2>2, <2>3, <2>4, MapCommonRises, ReadyRises, HandshakeRises
       DEF Complete, Staged!At, Staged!Do, Staged!Write, Staged!Frames
  <2>6. QED
    BY <2>1, <2>4, <2>5
<1>5. CASE s = "m6"
  <2> DEFINE
    S1 == Staged!MapLayout \o Staged!Ready
    S2 == S1 \o Staged!Program
    S3 == S2 \o <<Staged!Do("disabled"), Staged!Do("reset")>>
  <2>1. Staged!Steps[s] = S3
    BY <1>5 DEF Staged!Steps
  <2>2. Rising(<<Staged!Do("disabled"), Staged!Do("reset")>>, 16, 22)
        /\ Ahead(<<Staged!Do("disabled"), Staged!Do("reset")>>) = {Staged!Do("disabled"), Staged!Do("reset")}
    <3>1. \A o \in {"disabled", "reset"} : Staged!Do(o) \in MainSteps /\ StepRank(Staged!Do(o)) = OpRank[o]
      BY RankOf, StepsAre DEF OpRank
    <3>2. QED
      BY <3>1 DEF Rising, Ahead, OpRank
  <2> HIDE DEF S1, S2, S3
  <2>3. Rising(S1, 1, 12) /\ Ahead(S1) = Ahead(Staged!MapLayout) \cup Ahead(Staged!Ready)
    BY <2>2, MapLayoutRises, ReadyRises, ProgramRises, RisingJoin DEF S1
  <2>4. Rising(S2, 1, 15) /\ Ahead(S2) = Ahead(S1) \cup Ahead(Staged!Program)
    BY <2>2, <2>3, MapLayoutRises, ReadyRises, ProgramRises, RisingJoin DEF S2
  <2>5. Rising(S3, 1, 22) /\ Ahead(S3) = Ahead(S2) \cup Ahead(<<Staged!Do("disabled"), Staged!Do("reset")>>)
    BY <2>2, <2>4, MapLayoutRises, ReadyRises, ProgramRises, RisingJoin DEF S3
  <2>6. Complete(s, Ahead(S3))
    BY <1>5, <2>2, <2>3, <2>4, <2>5, MapLayoutRises, ReadyRises, ProgramRises, HandshakeRises
       DEF Complete, Staged!At, Staged!Do, Staged!Write, Staged!Frames
  <2>7. QED
    BY <2>1, <2>5, <2>6
<1>6. CASE s = "m7"
  <2> DEFINE
    S1 == Staged!MapLayout \o Staged!Ready
    S2 == S1 \o Staged!Program
    S3 == S2 \o <<Staged!Do("enable"), Staged!Do("reset")>>
  <2>1. Staged!Steps[s] = S3
    BY <1>6 DEF Staged!Steps
  <2>2. Rising(<<Staged!Do("enable"), Staged!Do("reset")>>, 16, 22)
        /\ Ahead(<<Staged!Do("enable"), Staged!Do("reset")>>) = {Staged!Do("enable"), Staged!Do("reset")}
    <3>1. \A o \in {"enable", "reset"} : Staged!Do(o) \in MainSteps /\ StepRank(Staged!Do(o)) = OpRank[o]
      BY RankOf, StepsAre DEF OpRank
    <3>2. QED
      BY <3>1 DEF Rising, Ahead, OpRank
  <2> HIDE DEF S1, S2, S3
  <2>3. Rising(S1, 1, 12) /\ Ahead(S1) = Ahead(Staged!MapLayout) \cup Ahead(Staged!Ready)
    BY <2>2, MapLayoutRises, ReadyRises, ProgramRises, RisingJoin DEF S1
  <2>4. Rising(S2, 1, 15) /\ Ahead(S2) = Ahead(S1) \cup Ahead(Staged!Program)
    BY <2>2, <2>3, MapLayoutRises, ReadyRises, ProgramRises, RisingJoin DEF S2
  <2>5. Rising(S3, 1, 22) /\ Ahead(S3) = Ahead(S2) \cup Ahead(<<Staged!Do("enable"), Staged!Do("reset")>>)
    BY <2>2, <2>4, MapLayoutRises, ReadyRises, ProgramRises, RisingJoin DEF S3
  <2>6. Complete(s, Ahead(S3))
    BY <1>6, <2>2, <2>3, <2>4, <2>5, MapLayoutRises, ReadyRises, ProgramRises, HandshakeRises
       DEF Complete, Staged!At, Staged!Do, Staged!Write, Staged!Frames
  <2>7. QED
    BY <2>1, <2>5, <2>6
<1>7. CASE s = "m8"
  <2> DEFINE
    S1 == Staged!MapCommon \o Staged!Ready
    S2 == S1 \o <<Staged!Do("select"), Staged!Do("doorbell"), Staged!Do("reset")>>
  <2>1. Staged!Steps[s] = S2
    BY <1>7 DEF Staged!Steps
  <2>2. Rising(<<Staged!Do("select"), Staged!Do("doorbell"), Staged!Do("reset")>>, 13, 22)
        /\ Ahead(<<Staged!Do("select"), Staged!Do("doorbell"), Staged!Do("reset")>>) = {Staged!Do("select"), Staged!Do("doorbell"), Staged!Do("reset")}
    <3>1. \A o \in {"select", "doorbell", "reset"} : Staged!Do(o) \in MainSteps /\ StepRank(Staged!Do(o)) = OpRank[o]
      BY RankOf, StepsAre DEF OpRank
    <3>2. QED
      BY <3>1 DEF Rising, Ahead, OpRank
  <2> HIDE DEF S1, S2
  <2>3. Rising(S1, 1, 12) /\ Ahead(S1) = Ahead(Staged!MapCommon) \cup Ahead(Staged!Ready)
    BY <2>2, MapCommonRises, ReadyRises, RisingJoin DEF S1
  <2>4. Rising(S2, 1, 22) /\ Ahead(S2) = Ahead(S1) \cup Ahead(<<Staged!Do("select"), Staged!Do("doorbell"), Staged!Do("reset")>>)
    BY <2>2, <2>3, MapCommonRises, ReadyRises, RisingJoin DEF S2
  <2>5. Complete(s, Ahead(S2))
    BY <1>7, <2>2, <2>3, <2>4, MapCommonRises, ReadyRises, HandshakeRises
       DEF Complete, Staged!At, Staged!Do, Staged!Write, Staged!Frames
  <2>6. QED
    BY <2>1, <2>4, <2>5
<1>8. CASE s = "m9"
  <2> DEFINE
    S1 == Staged!MapLayout \o Staged!Ready
    S2 == S1 \o Staged!Program
    S3 == S2 \o <<Staged!Do("enable")>>
    S4 == S3 \o Staged!Notify
    S5 == S4 \o <<Staged!Do("reset")>>
  <2>1. Staged!Steps[s] = S5
    BY <1>8 DEF Staged!Steps
  <2>2. Rising(<<Staged!Do("enable")>>, 16, 16) /\ Ahead(<<Staged!Do("enable")>>) = {Staged!Do("enable")}
    BY LoneStep DEF OpRank
  <2>3. Rising(<<Staged!Do("reset")>>, 22, 22) /\ Ahead(<<Staged!Do("reset")>>) = {Staged!Do("reset")}
    BY LoneStep DEF OpRank
  <2> HIDE DEF S1, S2, S3, S4, S5
  <2>4. Rising(S1, 1, 12) /\ Ahead(S1) = Ahead(Staged!MapLayout) \cup Ahead(Staged!Ready)
    BY <2>2, <2>3, MapLayoutRises, ReadyRises, ProgramRises, NotifyRises, RisingJoin DEF S1
  <2>5. Rising(S2, 1, 15) /\ Ahead(S2) = Ahead(S1) \cup Ahead(Staged!Program)
    BY <2>2, <2>3, <2>4, MapLayoutRises, ReadyRises, ProgramRises, NotifyRises, RisingJoin DEF S2
  <2>6. Rising(S3, 1, 16) /\ Ahead(S3) = Ahead(S2) \cup Ahead(<<Staged!Do("enable")>>)
    BY <2>2, <2>3, <2>5, MapLayoutRises, ReadyRises, ProgramRises, NotifyRises, RisingJoin DEF S3
  <2>7. Rising(S4, 1, 21) /\ Ahead(S4) = Ahead(S3) \cup Ahead(Staged!Notify)
    BY <2>2, <2>3, <2>6, MapLayoutRises, ReadyRises, ProgramRises, NotifyRises, RisingJoin DEF S4
  <2>8. Rising(S5, 1, 22) /\ Ahead(S5) = Ahead(S4) \cup Ahead(<<Staged!Do("reset")>>)
    BY <2>2, <2>3, <2>7, MapLayoutRises, ReadyRises, ProgramRises, NotifyRises, RisingJoin DEF S5
  <2>9. Complete(s, Ahead(S5))
    BY <1>8, <2>2, <2>3, <2>4, <2>5, <2>6, <2>7, <2>8, MapLayoutRises, ReadyRises, ProgramRises, NotifyRises, HandshakeRises
       DEF Complete, Staged!At, Staged!Do, Staged!Write, Staged!Frames
  <2>10. QED
    BY <2>1, <2>8, <2>9
<1>9. QED
  BY <1>1, <1>2, <1>3, <1>4, <1>5, <1>6, <1>7, <1>8 DEF Staged!Steps

LastSteps == {<<Staged!Do("lastReset"), Staged!Do("release"), Staged!Do("return")>>,
              <<Staged!Do("release"), Staged!Do("return")>>, <<Staged!Do("return")>>}
StageNames == DOMAIN Staged!Steps

\* In the stage's own steps: what is not ahead any more is done and holds.
ListInv(ahead) ==
  /\ Staged!Do("features") \in ahead \/ Staged!Do("reset") \in ahead
  /\ Staged!Do("features") \in ahead => stage = "m2"
  /\ Staged!At("map", "common") \in ahead \/ <<"mapping", "common">> \in held
  /\ \A f \in Staged!Frames : Staged!At("map", f) \in ahead =>
       Staged!At("alloc", f) \in ahead \/ <<"frame", f>> \in held
  /\ Staged!At("alloc", "layout") \in ahead => Staged!Do("zero") \in ahead
QueueInv(ahead) ==
  /\ Staged!Do("addresses") \in ahead =>
       /\ stage # "m2"
       /\ Staged!At("alloc", "layout") \in ahead \/ <<"frame", "layout">> \in held
       /\ Staged!Do("zero") \in ahead \/ zeroed
       /\ Staged!Do("size") \in ahead \/ slow \/ queueSize = 1
       /\ Staged!Write({}) \in ahead => Staged!Do("size") \in ahead
  /\ ~slow /\ queueAddr = "layout" =>
       /\ stage # "m2" /\ <<"mapping", "common">> \in held
       /\ Staged!Do("addresses") \notin ahead /\ Staged!At("alloc", "layout") \notin ahead
Programming ==
  /\ stage \in StageNames /\ ~success
  /\ Rising(stageTodo, 1, 22)
  /\ common => <<"mapping", "common">> \in held
  /\ ListInv(Ahead(stageTodo))
  /\ QueueInv(Ahead(stageTodo))

\* At out: what is held is released, and a device that resets at once is reset.
Leaving ==
  /\ stage \in StageNames
  /\ stageTodo \in LastSteps
  /\ stageTodo = <<Staged!Do("return")>> => held = {}
  /\ Staged!Doing("lastReset") => ~success
  /\ ~slow /\ ~Staged!Doing("lastReset") =>
       /\ queueAddr # "layout"
       /\ common /\ stage # "m2" => status = {}
  /\ success /\ stage # "m2" => status = {} /\ ~queueEnable /\ ~resetting

Idle ==
  /\ stage \in {"none", "faulted"} /\ stageTodo = <<>>
  /\ stage = "none" => held = {} /\ (~slow => queueAddr # "layout")

HoldInv ==
  \A f \in Staged!Frames : <<"mapping", f>> \in held =>
    <<"frame", f>> \in held /\ <<"reservation", f>> \in held
DeviceInv ==
  ~slow =>
    /\ ~resetting
    /\ queueAddr = "layout" => <<"frame", "layout">> \in held /\ zeroed /\ queueSize = 1

StageInv == Staged!TypeOK /\ (Programming \/ Leaving \/ Idle) /\ HoldInv /\ DeviceInv

(* The first and the next of the last steps.                               *)
LEMMA JoinedLists ==
  ASSUME NEW a, NEW b, NEW c
  PROVE  <<>> \o <<a>> = <<a>> /\ <<a>> \o <<b>> = <<a, b>> /\ <<a, b>> \o <<c>> = <<a, b, c>>
<1> DEFINE S == {a, b, c}  s == <<a>> \o <<b>>  t == <<a, b>>
           u == <<a, b>> \o <<c>>  v == <<a, b, c>>
<1>1. /\ <<a>> \in Seq(S) /\ <<b>> \in Seq(S) /\ <<c>> \in Seq(S)
      /\ t \in Seq(S) /\ v \in Seq(S)
  OBVIOUS
<1>2. s \in Seq(S) /\ Len(s) = 2 /\ s[1] = a /\ s[2] = b
  BY <1>1
<1>3. u \in Seq(S) /\ Len(u) = 3 /\ u[1] = a /\ u[2] = b /\ u[3] = c
  BY <1>1
<1>4. /\ Len(t) = 2 /\ t[1] = a /\ t[2] = b
      /\ Len(v) = 3 /\ v[1] = a /\ v[2] = b /\ v[3] = c
  OBVIOUS
<1> HIDE DEF s, t, u, v, S
<1>5. Len(s) = Len(t) /\ \A i \in 1..Len(s) : s[i] = t[i]
  BY <1>2, <1>4
<1>6. Len(u) = Len(v) /\ \A i \in 1..Len(u) : u[i] = v[i]
  BY <1>3, <1>4
<1>7. s = t
  BY <1>1, <1>2, <1>5, SeqEqual
<1>8. u = v
  BY <1>1, <1>3, <1>6, SeqEqual
<1>9. <<>> \o <<a>> = <<a>>
  OBVIOUS
<1>10. QED
  BY <1>7, <1>8, <1>9 DEF s, t, u, v

LEMMA ShortLists ==
  ASSUME NEW a, NEW b, NEW c
  PROVE  /\ Head(<<a, b, c>>) = a /\ Tail(<<a, b, c>>) = <<b, c>>
         /\ Head(<<a, b>>) = a /\ Tail(<<a, b>>) = <<b>>
         /\ Head(<<a>>) = a /\ Tail(<<a>>) = <<>>
         /\ <<a, b, c>> # <<>> /\ <<a, b>> # <<>> /\ <<a>> # <<>> /\ <<a, b>> # <<c>>
         /\ <<a, b, c>> # <<c>>
<1>1. Head(<<a, b, c>>) = a /\ Head(<<a, b>>) = a /\ Head(<<a>>) = a
  OBVIOUS
<1>2. Tail(<<a, b, c>>) = <<b, c>>
  OBVIOUS
<1>3. Tail(<<a, b>>) = <<b>>
  OBVIOUS
<1>4. Tail(<<a>>) = <<>>
  OBVIOUS
<1>5. /\ <<a, b, c>> # <<>> /\ <<a, b>> # <<>> /\ <<a>> # <<>>
      /\ <<a, b>> # <<c>> /\ <<a, b, c>> # <<c>>
  OBVIOUS
<1>6. QED
  BY <1>1, <1>2, <1>3, <1>4, <1>5

LEMMA LastStepsAre ==
  /\ Staged!Do("release").op = "release" /\ Staged!Do("return").op = "return"
  /\ Staged!Do("lastReset").op = "lastReset"
  /\ <<Staged!Do("release"), Staged!Do("return")>> # <<Staged!Do("return")>>
  /\ Head(<<Staged!Do("release"), Staged!Do("return")>>).op = "release"
  /\ Head(<<Staged!Do("return")>>).op = "return"
  /\ \A q \in LastSteps :
       /\ q # <<>>
       /\ Head(q).op \in {"lastReset", "release", "return"}
       /\ Head(q).op = "lastReset" =>
            Tail(q) = <<Staged!Do("release"), Staged!Do("return")>> /\ Tail(q) # <<>>
       /\ Head(q).op = "release" =>
            q = <<Staged!Do("release"), Staged!Do("return")>>
            /\ Tail(q) = <<Staged!Do("return")>>
       /\ Head(q).op = "return" => q = <<Staged!Do("return")>> /\ Tail(q) = <<>>
<1>1. /\ Staged!Do("release").op = "release" /\ Staged!Do("return").op = "return"
      /\ Staged!Do("lastReset").op = "lastReset"
  BY DEF Staged!Do, Staged!At
<1>2. QED
  BY <1>1, ShortLists DEF LastSteps

LEMMA OutIs ==
  ASSUME NEW ok \in BOOLEAN, NEW h
  PROVE  Staged!Out(ok, h) =
           IF <<"mapping", "common">> \in h /\ ~ok /\ stage # "m2"
             THEN <<Staged!Do("lastReset"), Staged!Do("release"), Staged!Do("return")>>
             ELSE IF h = {} THEN <<Staged!Do("return")>>
                            ELSE <<Staged!Do("release"), Staged!Do("return")>>
<1> DEFINE last == Staged!Do("lastReset")  release == Staged!Do("release")
           return == Staged!Do("return")
<1>1. Staged!LastResetAt(ok, h) =
        IF <<"mapping", "common">> \in h /\ ~ok /\ stage # "m2" THEN <<last>> ELSE <<>>
  BY DEF Staged!LastResetAt
<1>2. Staged!ReleasesAt(h) = IF h = {} THEN <<>> ELSE <<release>>
  BY DEF Staged!ReleasesAt
<1>3. Staged!Out(ok, h) = Staged!LastResetAt(ok, h) \o Staged!ReleasesAt(h) \o <<return>>
  BY DEF Staged!Out
<1>4. <<>> \o <<>> = <<>>
  OBVIOUS
<1> HIDE DEF last, release, return
<1>5. CASE <<"mapping", "common">> \in h /\ ~ok /\ stage # "m2"
  <2>1. Staged!Out(ok, h) = <<last>> \o <<release>> \o <<return>>
    BY <1>1, <1>2, <1>3, <1>5
  <2>2. <<last>> \o <<release>> = <<last, release>>
        /\ <<last, release>> \o <<return>> = <<last, release, return>>
    BY JoinedLists
  <2>3. Staged!Out(ok, h) = <<last, release, return>>
    BY <2>1, <2>2
  <2>4. QED
    BY <1>5, <2>3 DEF last, release, return
<1>6. CASE ~(<<"mapping", "common">> \in h /\ ~ok /\ stage # "m2") /\ h = {}
  <2>1. Staged!Out(ok, h) = <<return>>
    BY <1>1, <1>2, <1>3, <1>4, <1>6, JoinedLists
  <2>2. QED
    BY <1>6, <2>1 DEF return
<1>7. CASE ~(<<"mapping", "common">> \in h /\ ~ok /\ stage # "m2") /\ h # {}
  <2>1. Staged!Out(ok, h) = <<release, return>>
    <3>1. <<>> \o <<release>> = <<release>> /\ <<release>> \o <<return>> = <<release, return>>
      BY JoinedLists
    <3>2. QED
      BY <1>1, <1>2, <1>3, <1>7, <3>1
  <2>2. QED
    BY <1>7, <2>1 DEF release, return
<1>8. QED
  BY <1>5, <1>6, <1>7

(* The next step of a stage: one of its own, with the others behind it.    *)
LEMMA NextStep ==
  ASSUME Programming
  PROVE  /\ stageTodo # <<>> /\ Head(stageTodo) \in MainSteps
         /\ Head(stageTodo) \in Ahead(stageTodo)
         /\ StepRank(Head(stageTodo)) \in Nat
         /\ Rising(Tail(stageTodo), 1, 22)
         /\ Ahead(Tail(stageTodo)) = Ahead(stageTodo) \ {Head(stageTodo)}
         /\ \A s \in Ahead(Tail(stageTodo)) : StepRank(Head(stageTodo)) < StepRank(s)
<1>1. stageTodo # <<>>
  BY DEF Programming, ListInv, Ahead
<1>2. Rising(stageTodo, 1, 22)
  BY DEF Programming
<1>3. ASSUME NEW s \in Ahead(stageTodo) PROVE StepRank(s) \in Nat
  <2>1. PICK k \in 1..Len(stageTodo) : s = stageTodo[k]
    BY DEF Ahead
  <2>2. StepRank(stageTodo[k]) \in 1..22 /\ 1..22 \subseteq Nat
    BY <1>2 DEF Rising
  <2>3. QED
    BY <2>1, <2>2, Zenon
<1>4. QED
  BY <1>1, <1>2, <1>3, RisingTail

(* Which phase a step belongs to.                                          *)
LEMMA MainPhase ==
  ASSUME StageInv, NEW op \in MainOps, Staged!Doing(op)
  PROVE  Programming
BY LastStepsAre DEF StageInv, Leaving, Idle, Staged!Doing, MainOps

LEMMA LastPhase ==
  ASSUME StageInv, NEW op \in {"lastReset", "release", "return"}, Staged!Doing(op)
  PROVE  Leaving
<1>1. CASE Programming
  <2>1. Head(stageTodo) \in MainSteps
    BY <1>1, NextStep
  <2>2. QED
    BY <2>1 DEF MainSteps, OpRank, Staged!Doing
<1>2. QED
  BY <1>1 DEF StageInv, Idle, Staged!Doing

(* The record of a step, from its operation.                               *)
LEMMA StepOf ==
  ASSUME NEW s \in MainSteps
  PROVE  /\ s.op = "alloc" => s.arg \in Staged!Frames /\ s = Staged!At("alloc", s.arg)
         /\ s.op = "map" => s.arg \in Staged!Frames /\ s = Staged!At("map", s.arg)
         /\ s.op = "status" => s.arg \in SUBSET Staged!Bits /\ s = Staged!Write(s.arg)
         /\ s.op \notin {"alloc", "map", "status"} =>
              s.op \in DOMAIN OpRank /\ s = Staged!Do(s.op)
BY DEF MainSteps, OpRank, Staged!At, Staged!Do, Staged!Write

(* Whatever refuses, the stage leaves with the reset ahead of it or, when  *)
(* the common page was never mapped, without a queue of its own.           *)
LEMMA Refused ==
  ASSUME Programming, stageTodo' = Staged!Out(FALSE, held'),
         stage' = stage, success' = success, slow' = slow, common' = common,
         <<"mapping", "common">> \in held => <<"mapping", "common">> \in held',
         queueAddr' \notin {"none", queueAddr} => stage # "m2" /\ <<"mapping", "common">> \in held
  PROVE  Leaving'
<1>1. CASE <<"mapping", "common">> \in held' /\ stage # "m2"
  <2>1. stageTodo' = <<Staged!Do("lastReset"), Staged!Do("release"), Staged!Do("return")>>
    BY <1>1, OutIs
  <2>2. /\ stageTodo' \in LastSteps /\ stageTodo' # <<Staged!Do("return")>>
        /\ stageTodo' # <<>> /\ Head(stageTodo').op = "lastReset"
    BY <2>1, LastStepsAre, ShortLists DEF LastSteps
  <2>3. QED
    BY <2>2 DEF Leaving, Programming, Staged!Doing
<1>2. CASE ~(<<"mapping", "common">> \in held' /\ stage # "m2")
  <2>1. stageTodo' = IF held' = {} THEN <<Staged!Do("return")>>
                                   ELSE <<Staged!Do("release"), Staged!Do("return")>>
    BY <1>2, OutIs
  <2>2. stageTodo' \in LastSteps
    BY <2>1 DEF LastSteps
  <2>3. stageTodo' = <<Staged!Do("return")>> => held' = {}
    BY <2>1, LastStepsAre
  <2>4. ~(stageTodo' # <<>> /\ Head(stageTodo').op = "lastReset")
    BY <2>1, LastStepsAre
  <2>5. ~slow => queueAddr' # "layout"
    BY <1>2 DEF Programming, QueueInv
  <2>6. common => stage = "m2"
    BY <1>2 DEF Programming
  <2>7. QED
    BY <2>2, <2>3, <2>4, <2>5, <2>6 DEF Leaving, Programming, Staged!Doing
<1>3. QED
  BY <1>1, <1>2

(* A step that is not the last of its list leaves the others.              *)
LEMMA Moves ==
  ASSUME Programming, Head(stageTodo).op \notin {"features", "reset"},
         stageTodo' = Tail(stageTodo)
  PROVE  /\ Rising(stageTodo', 1, 22)
         /\ Ahead(stageTodo') = Ahead(stageTodo) \ {Head(stageTodo)}
         /\ Staged!Do("features") \in Ahead(stageTodo') \/ Staged!Do("reset") \in Ahead(stageTodo')
<1>1. Head(stageTodo) # Staged!Do("features") /\ Head(stageTodo) # Staged!Do("reset")
  BY DEF Staged!Do, Staged!At
<1>2. QED
  BY <1>1, NextStep DEF Programming, ListInv

(* No step of another operation is the one being made.                     *)
LEMMA Distinct ==
  /\ \A o, p : Staged!Do(o) = Staged!Do(p) => o = p
  /\ \A o, f, p, g : Staged!At(o, f) = Staged!At(p, g) => o = p /\ f = g
  /\ \A b, o, f : Staged!Write(b) = Staged!At(o, f) => o = "status" /\ f = b
  /\ \A b, o : Staged!Write(b) = Staged!Do(o) => o = "status"
  /\ \A o, p, f : Staged!Do(o) = Staged!At(p, f) => o = p
  /\ \A b, c : Staged!Write(b) = Staged!Write(c) => b = c
BY DEF Staged!Do, Staged!At, Staged!Write

LEMMA StageBegins ==
  ASSUME StageInv, NEW s \in Stages, Staged!Begin(s)
  PROVE  StageInv'
<1> USE DEF Staged!Begin
<1>1. s \in StageNames
  BY StageAssumption DEF Staged!StagesAssumption, StageNames, Staged!Steps
<1>2. Rising(stageTodo', 1, 22) /\ Complete(s, Ahead(stageTodo'))
  BY <1>1, StagesRise DEF StageNames
<1>3. Idle /\ held = {}
  <2>1. stage = "none" /\ "none" \notin StageNames
    BY DEF StageNames, Staged!Steps
  <2>2. QED
    BY <2>1 DEF StageInv, Programming, Leaving, Idle
<1>4. ~slow => queueAddr # "layout"
  BY <1>3 DEF Idle
<1>5. Programming'
  <2>1. ListInv(Ahead(stageTodo))'
    BY <1>2 DEF ListInv, Complete
  <2>2. QueueInv(Ahead(stageTodo))'
    BY <1>2, <1>4 DEF QueueInv, Complete, Staged!deviceVars
  <2>3. QED
    BY <1>1, <1>2, <2>1, <2>2 DEF Programming
<1>6. Staged!TypeOK'
  BY DEF StageInv, Staged!TypeOK, Staged!deviceVars
<1>7. HoldInv' /\ DeviceInv'
  BY DEF StageInv, HoldInv, DeviceInv, Staged!deviceVars
<1>8. QED
  BY <1>5, <1>6, <1>7 DEF StageInv

LEMMA StageAllocs ==
  ASSUME StageInv, Staged!Alloc
  PROVE  StageInv'
<1> DEFINE f == Head(stageTodo).arg
<1> USE DEF Staged!Alloc, Staged!Arg
<1>1. Programming
  BY MainPhase DEF MainOps
<1>2. f \in Staged!Frames /\ Head(stageTodo) = Staged!At("alloc", f)
  BY <1>1, NextStep, StepOf DEF Staged!Doing
<1>3. Staged!TypeOK' /\ HoldInv'
  <2>1. held' = held \cup {<<"frame", f>>} \/ held' = held
    OBVIOUS
  <2>2. <<"frame", f>> \in Staged!Objects
    BY <1>2 DEF Staged!Objects
  <2>3. Staged!TypeOK'
    BY <2>1, <2>2 DEF StageInv, Staged!TypeOK, Staged!deviceVars
  <2>4. HoldInv'
    BY <2>1 DEF StageInv, HoldInv
  <2>5. QED
    BY <2>3, <2>4
<1>4. CASE Staged!GoOut /\ held' = held /\ zeroed' = zeroed
  <2>1. Leaving'
    BY <1>1, <1>4, Refused DEF Staged!GoOut, Staged!deviceVars
  <2>2. DeviceInv'
    BY <1>4 DEF StageInv, DeviceInv, Staged!deviceVars
  <2>3. QED
    BY <1>3, <2>1, <2>2 DEF StageInv
<1>5. CASE /\ Staged!Continue /\ held' = held \cup {<<"frame", f>>}
           /\ zeroed' = IF f = "layout" THEN FALSE ELSE zeroed
  <2>1. /\ Rising(stageTodo', 1, 22)
        /\ Ahead(stageTodo') = Ahead(stageTodo) \ {Staged!At("alloc", f)}
        /\ Staged!Do("features") \in Ahead(stageTodo')
           \/ Staged!Do("reset") \in Ahead(stageTodo')
    BY <1>1, <1>2, <1>5, Moves DEF Staged!Continue, Staged!Doing
  <2>2. ListInv(Ahead(stageTodo))'
    BY <1>1, <1>5, <2>1, Distinct DEF ListInv, Programming
  <2>3. QueueInv(Ahead(stageTodo))'
    <3> DEFINE A == Ahead(stageTodo)
    <3>1. QueueInv(A) /\ (Staged!At("alloc", "layout") \in A => Staged!Do("zero") \in A)
      BY <1>1 DEF Programming, ListInv
    <3>2. \A o : o # "alloc" => (Staged!Do(o) \in A' <=> Staged!Do(o) \in A)
      BY <2>1, Distinct
    <3>3. Staged!Write({}) \in A' <=> Staged!Write({}) \in A
      BY <2>1, Distinct
    <3>4. Staged!At("alloc", f) \in A
      BY <1>1, <1>2, NextStep
    <3>5. Staged!At("alloc", "layout") \in A' <=> Staged!At("alloc", "layout") \in A /\ f # "layout"
      BY <2>1, Distinct
    <3> HIDE DEF A
    <3>6. Staged!Do("addresses") \in A => (Staged!Do("zero") \in A' \/ zeroed')
      BY <1>5, <3>1, <3>2, <3>4 DEF QueueInv
    <3>7. QueueInv(A)'
      BY <1>5, <3>1, <3>2, <3>3, <3>5, <3>6 DEF QueueInv, Staged!deviceVars
    <3>8. QED
      BY <3>7 DEF A
  <2>4. Programming'
    BY <1>1, <1>5, <2>1, <2>2, <2>3 DEF Programming
  <2>5. ~slow /\ queueAddr = "layout" => f # "layout"
    BY <1>1, <1>2, NextStep DEF Programming, QueueInv
  <2>6. DeviceInv'
    BY <1>5, <2>5 DEF StageInv, DeviceInv, Staged!deviceVars
  <2>7. QED
    BY <1>3, <2>4, <2>6 DEF StageInv
<1>6. QED
  BY <1>4, <1>5

LEMMA StageMaps ==
  ASSUME StageInv, Staged!Map
  PROVE  StageInv'
<1> DEFINE f == Head(stageTodo).arg
<1> USE DEF Staged!Map, Staged!Arg
<1>1. Programming
  BY MainPhase DEF MainOps
<1>2. f \in Staged!Frames /\ Head(stageTodo) = Staged!At("map", f)
  BY <1>1, NextStep, StepOf DEF Staged!Doing
<1>3. <<"frame", f>> \in held
  <2>1. Staged!At("alloc", f) \notin Ahead(stageTodo)
    <3>1. Staged!At("alloc", f) # Staged!At("map", f)
      BY Distinct
    <3>2. StepRank(Staged!At("alloc", f)) < StepRank(Staged!At("map", f))
      BY <1>2, RankOf DEF AllocRank, MapRank, Staged!Frames
    <3>3. StepRank(Staged!At("alloc", f)) \in Nat /\ StepRank(Staged!At("map", f)) \in Nat
      BY <1>2, RankOf DEF AllocRank, MapRank, Staged!Frames
    <3>4. QED
      BY <1>1, <1>2, <3>1, <3>2, <3>3, NextStep
  <2>2. QED
    BY <1>1, <1>2, <2>1, NextStep DEF Programming, ListInv
<1>4. Staged!TypeOK' /\ HoldInv'
  <2>1. \/ held' = held \cup {<<"reservation", f>>, <<"mapping", f>>}
        \/ held' = held \cup {<<"reservation", f>>} \/ held' = held
    OBVIOUS
  <2>2. <<"reservation", f>> \in Staged!Objects /\ <<"mapping", f>> \in Staged!Objects
    BY <1>2 DEF Staged!Objects
  <2>3. Staged!TypeOK'
    BY <2>1, <2>2 DEF StageInv, Staged!TypeOK, Staged!deviceVars
  <2>4. HoldInv'
    BY <1>3, <2>1 DEF StageInv, HoldInv
  <2>5. QED
    BY <2>3, <2>4
<1>5. DeviceInv'
  BY DEF StageInv, DeviceInv, Staged!deviceVars
<1>6. CASE stageTodo' = Staged!Out(FALSE, held')
  <2>1. Leaving'
    BY <1>1, <1>6, Refused DEF Staged!deviceVars
  <2>2. QED
    BY <1>4, <1>5, <2>1 DEF StageInv
<1>7. CASE Staged!Continue /\ held' = held \cup {<<"reservation", f>>, <<"mapping", f>>}
  <2>1. /\ Rising(stageTodo', 1, 22)
        /\ Ahead(stageTodo') = Ahead(stageTodo) \ {Staged!At("map", f)}
        /\ Staged!Do("features") \in Ahead(stageTodo')
           \/ Staged!Do("reset") \in Ahead(stageTodo')
    BY <1>1, <1>2, <1>7, Moves DEF Staged!Continue, Staged!Doing
  <2>2. ListInv(Ahead(stageTodo))'
    BY <1>1, <1>7, <2>1, Distinct DEF ListInv, Programming
  <2>3. QueueInv(Ahead(stageTodo))'
    BY <1>1, <1>7, <2>1, Distinct DEF QueueInv, Programming, Staged!deviceVars
  <2>4. Programming'
    BY <1>1, <1>7, <2>1, <2>2, <2>3 DEF Programming
  <2>5. QED
    BY <1>4, <1>5, <2>4 DEF StageInv
<1>8. QED
  BY <1>6, <1>7

(* The order of the steps that matter to the queue.                        *)
LEMMA Order ==
  ASSUME Programming, NEW s, StepRank(s) \in Nat, StepRank(s) < StepRank(Head(stageTodo))
  PROVE  s \notin Ahead(stageTodo)
<1>1. s # Head(stageTodo)
  BY NextStep
<1>2. ASSUME s \in Ahead(stageTodo) PROVE FALSE
  <2>1. s \in Ahead(Tail(stageTodo))
    BY <1>1, <1>2, NextStep
  <2>2. StepRank(Head(stageTodo)) < StepRank(s)
    BY <2>1, NextStep
  <2>3. QED
    BY <2>2, NextStep
<1>3. QED
  BY <1>2

LEMMA AtAddresses ==
  ASSUME Programming, Head(stageTodo) = Staged!Do("addresses")
  PROVE  /\ stage # "m2" /\ <<"mapping", "common">> \in held
         /\ <<"frame", "layout">> \in held /\ zeroed /\ (slow \/ queueSize = 1)
         /\ Staged!At("alloc", "layout") \notin Ahead(stageTodo)
<1>1. /\ StepRank(Staged!Do("addresses")) = 15 /\ StepRank(Staged!Do("size")) = 14
      /\ StepRank(Staged!Do("zero")) = 6 /\ StepRank(Staged!At("alloc", "layout")) = 2
      /\ StepRank(Staged!At("map", "common")) = 4
  BY RankOf DEF AllocRank, MapRank, OpRank, Staged!Frames
<1>2. /\ Staged!Do("size") \notin Ahead(stageTodo) /\ Staged!Do("zero") \notin Ahead(stageTodo)
      /\ Staged!At("alloc", "layout") \notin Ahead(stageTodo)
      /\ Staged!At("map", "common") \notin Ahead(stageTodo)
  <2>1. Staged!Do("size") \notin Ahead(stageTodo)
    BY <1>1, Order
  <2>2. Staged!Do("zero") \notin Ahead(stageTodo)
    BY <1>1, Order
  <2>3. Staged!At("alloc", "layout") \notin Ahead(stageTodo)
    BY <1>1, Order
  <2>4. Staged!At("map", "common") \notin Ahead(stageTodo)
    BY <1>1, Order
  <2>5. QED
    BY <2>1, <2>2, <2>3, <2>4
<1>3. Staged!Do("addresses") \in Ahead(stageTodo)
  BY NextStep
<1>4. QED
  BY <1>2, <1>3 DEF Programming, ListInv, QueueInv

\* A step that allocates and maps nothing and leaves the stage where it is.
Proceeding ==
  /\ Head(stageTodo).op \notin {"alloc", "map", "features", "reset"}
  /\ stageTodo' = Tail(stageTodo)
  /\ UNCHANGED <<stage, held, success, slow>>
  /\ common' = common \/ Head(stageTodo) = Staged!Do("point")
  /\ zeroed' = zeroed \/ zeroed'
  /\ Head(stageTodo) = Staged!Do("zero") => zeroed'
  /\ queueSize' \in {queueSize, 1} \/ Head(stageTodo) = Staged!Write({})
  /\ Head(stageTodo) = Staged!Do("size") => queueSize' = 1
  /\ queueAddr' = "layout" =>
       queueAddr = "layout" \/ Head(stageTodo) = Staged!Do("addresses")

LEMMA Proceeds ==
  ASSUME Programming, Proceeding
  PROVE  Programming'
<1> DEFINE A == Ahead(stageTodo)
           h == Head(stageTodo)
<1>1. /\ Rising(stageTodo', 1, 22) /\ A' = A \ {h} /\ h \in A
      /\ Staged!Do("features") \in A' \/ Staged!Do("reset") \in A'
  BY Moves, NextStep DEF Proceeding
<1>2. \A f : Staged!At("alloc", f) # h /\ Staged!At("map", f) # h
  BY DEF Proceeding, Staged!At
<1>3. \A f : /\ Staged!At("alloc", f) \in A' <=> Staged!At("alloc", f) \in A
             /\ Staged!At("map", f) \in A' <=> Staged!At("map", f) \in A
  BY <1>1, <1>2
<1>4. ListInv(A) /\ QueueInv(A)
  BY DEF Programming
<1>5. common' => <<"mapping", "common">> \in held
  <2>1. CASE h = Staged!Do("point")
    <3>1. StepRank(Staged!At("map", "common")) = 4 /\ StepRank(h) = 7
      BY <2>1, RankOf DEF MapRank, OpRank, Staged!Frames
    <3>2. Staged!At("map", "common") \notin A
      BY <3>1, Order
    <3>3. QED
      BY <1>4, <3>2 DEF ListInv
  <2>2. CASE common' = common
    BY <2>2 DEF Programming
  <2>3. QED
    BY <2>1, <2>2 DEF Proceeding
<1>6. h = Staged!Do("addresses") =>
        /\ stage # "m2" /\ <<"mapping", "common">> \in held
        /\ Staged!At("alloc", "layout") \notin A
  BY AtAddresses
<1>7. ASSUME Staged!At("alloc", "layout") \in A PROVE h # Staged!Do("zero")
  <2>1. StepRank(Staged!At("alloc", "layout")) = 2 /\ StepRank(Staged!Do("zero")) = 6
    BY RankOf DEF AllocRank, OpRank, Staged!Frames
  <2>2. QED
    BY <1>7, <2>1, Order
<1>8. ASSUME Staged!Write({}) \in A PROVE h # Staged!Do("size")
  <2>1. StepRank(Staged!Write({})) = 8 /\ StepRank(Staged!Do("size")) = 14
    BY RankOf DEF StatusRank, OpRank
  <2>2. QED
    BY <1>8, <2>1, Order
<1>9. /\ stage' = stage /\ held' = held /\ slow' = slow /\ success' = success
      /\ zeroed => zeroed'
      /\ h = Staged!Do("zero") => zeroed'
      /\ queueSize' = queueSize \/ queueSize' = 1 \/ h = Staged!Write({})
      /\ h = Staged!Do("size") => queueSize' = 1
      /\ queueAddr' = "layout" => queueAddr = "layout" \/ h = Staged!Do("addresses")
  BY DEF Proceeding
<1>10. stage' \in StageNames /\ ~success'
  BY <1>9 DEF Programming
<1>11. Staged!Write({}) # Staged!Do("size")
  BY Distinct
<1> HIDE DEF A, h
<1>12. ListInv(A)'
  BY <1>1, <1>3, <1>4, <1>7, <1>9 DEF ListInv
<1>13. QueueInv(A)'
  <2>1. ASSUME Staged!Do("addresses") \in A'
        PROVE  /\ stage' # "m2"
               /\ Staged!At("alloc", "layout") \in A' \/ <<"frame", "layout">> \in held'
               /\ Staged!Do("zero") \in A' \/ zeroed'
               /\ Staged!Do("size") \in A' \/ slow' \/ queueSize' = 1
               /\ Staged!Write({}) \in A' => Staged!Do("size") \in A'
    <3>1. /\ Staged!Do("addresses") \in A
          /\ stage # "m2"
          /\ Staged!At("alloc", "layout") \in A \/ <<"frame", "layout">> \in held
          /\ Staged!Do("zero") \in A \/ zeroed
          /\ Staged!Do("size") \in A \/ slow \/ queueSize = 1
          /\ Staged!Write({}) \in A => Staged!Do("size") \in A
      BY <1>1, <1>4, <2>1 DEF QueueInv
    <3>2. stage' # "m2" /\ (Staged!At("alloc", "layout") \in A' \/ <<"frame", "layout">> \in held')
      BY <1>3, <1>9, <3>1
    <3>3. Staged!Do("zero") \in A' \/ zeroed'
      BY <1>1, <1>9, <3>1
    <3>4. Staged!Write({}) \in A => Staged!Do("size") \in A'
      BY <1>1, <1>8, <3>1
    <3>5. Staged!Do("size") \in A' \/ slow' \/ queueSize' = 1
      BY <1>1, <1>9, <3>1, <3>4
    <3>6. QED
      BY <1>1, <3>2, <3>3, <3>4, <3>5
  <2>2. ASSUME ~slow', queueAddr' = "layout"
        PROVE  /\ stage' # "m2" /\ <<"mapping", "common">> \in held'
               /\ Staged!Do("addresses") \notin A' /\ Staged!At("alloc", "layout") \notin A'
    BY <1>1, <1>3, <1>4, <1>6, <1>9, <2>2 DEF QueueInv
  <2>3. QED
    BY <2>1, <2>2 DEF QueueInv
<1>14. QED
  BY <1>1, <1>5, <1>9, <1>10, <1>12, <1>13 DEF Programming, A, h

(* What every step in the middle of a stage comes to.                      *)
LEMMA StageMoves ==
  ASSUME StageInv, Programming, Staged!TypeOK', DeviceInv',
         held' = held, stage' = stage, success' = success, slow' = slow,
         \/ Proceeding
         \/ /\ stageTodo' = Staged!Out(FALSE, held) /\ common' = common
            /\ queueAddr' \notin {"none", queueAddr} => stage # "m2" /\ <<"mapping", "common">> \in held
  PROVE  StageInv'
<1>1. HoldInv'
  BY DEF StageInv, HoldInv
<1>2. Programming' \/ Leaving'
  <2>1. CASE Proceeding
    BY <2>1, Proceeds
  <2>2. CASE /\ stageTodo' = Staged!Out(FALSE, held) /\ common' = common
             /\ queueAddr' \notin {"none", queueAddr} => stage # "m2" /\ <<"mapping", "common">> \in held
    <3>1. stageTodo' = Staged!Out(FALSE, held')
      BY <2>2
    <3>2. QED
      BY <2>2, <3>1, Refused
  <2>3. QED
    BY <2>1, <2>2
<1>3. QED
  BY <1>1, <1>2 DEF StageInv

(* Steps that change nothing of the queue.                                 *)
LEMMA StageSimple ==
  ASSUME StageInv,
         \/ Staged!Point \/ Staged!Check \/ Staged!Zero \/ Staged!SelectQueue
         \/ Staged!StillDisabled \/ Staged!NotifyQueue \/ Staged!EnableQueue
  PROVE  StageInv'
<1> DEFINE op == Head(stageTodo).op
<1> USE DEF Staged!rootVars, Staged!deviceVars, Staged!Continue, Staged!GoOut
<1>1. /\ stageTodo # <<>>
      /\ op \in {"point", "locate", "doorbell", "unchanged", "zero", "select", "disabled",
                 "notify", "enable"}
      /\ op = "zero" <=> Staged!Zero
      /\ op = "point" <=> Staged!Point
  BY DEF Staged!Point, Staged!Check, Staged!Zero, Staged!SelectQueue, Staged!StillDisabled,
         Staged!NotifyQueue, Staged!EnableQueue, Staged!Doing
<1>2. Programming
  <2>1. op \in MainOps /\ Staged!Doing(op)
    BY <1>1 DEF MainOps, Staged!Doing
  <2>2. QED
    BY <2>1, MainPhase
<1>3. Head(stageTodo) = Staged!Do(op)
  BY <1>1, <1>2, NextStep, StepOf
<1>4. /\ UNCHANGED <<stage, held, success, slow, pageOffset, status, resetting, queueSize,
                     queueAddr>>
      /\ queueEnable' \in BOOLEAN
      /\ zeroed' = (zeroed \/ op = "zero") /\ common' = (common \/ op = "point")
  <2>1. CASE Staged!Point
    BY <1>1, <2>1 DEF StageInv, Staged!TypeOK, Staged!Point, Staged!Doing
  <2>2. CASE Staged!Zero
    BY <1>1, <2>2 DEF StageInv, Staged!TypeOK, Staged!Zero, Staged!Doing
  <2>3. CASE \/ Staged!Check \/ Staged!SelectQueue \/ Staged!StillDisabled
             \/ Staged!NotifyQueue \/ Staged!EnableQueue
    BY <1>1, <2>3 DEF StageInv, Staged!TypeOK, Staged!Check, Staged!SelectQueue, Staged!StillDisabled,
         Staged!NotifyQueue, Staged!EnableQueue, Staged!Doing
  <2>4. QED
    BY <2>1, <2>2, <2>3
<1>5. \/ stageTodo' = Tail(stageTodo)
      \/ stageTodo' = Staged!Out(FALSE, held) /\ common' = common
  BY DEF Staged!Point, Staged!Check, Staged!Zero, Staged!SelectQueue, Staged!StillDisabled,
         Staged!NotifyQueue, Staged!EnableQueue
<1>6. Staged!TypeOK' /\ DeviceInv'
  BY <1>4 DEF StageInv, Staged!TypeOK, DeviceInv
<1>7. op = "zero" <=> Head(stageTodo) = Staged!Do("zero")
  BY <1>3, Distinct
<1>8. op = "point" <=> Head(stageTodo) = Staged!Do("point")
  BY <1>3, Distinct
<1>9. Head(stageTodo) # Staged!Do("size")
  BY <1>1, <1>3, Distinct
<1>10. zeroed \in BOOLEAN /\ common \in BOOLEAN
  BY DEF StageInv, Staged!TypeOK
<1>11. stageTodo' = Tail(stageTodo) => Proceeding
  BY <1>1, <1>4, <1>7, <1>8, <1>9, <1>10 DEF Proceeding
<1>12. QED
  BY <1>2, <1>4, <1>5, <1>6, <1>11, StageMoves

(* A reset, done at once or asked for.                                     *)
LEMMA Resetting ==
  ASSUME StageInv, Staged!WriteZero, slow' = slow
  PROVE  /\ status' \subseteq Staged!Bits /\ resetting' \in BOOLEAN /\ queueSize' \in {0, 1}
         /\ queueAddr' \in {"none", "firmware", "layout"} /\ queueEnable' \in BOOLEAN
         /\ ~slow => status' = {} /\ ~resetting' /\ queueAddr' = "none"
         /\ status' = {} => ~resetting' /\ ~queueEnable' /\ queueAddr' = "none"
         /\ queueAddr' \in {"none", queueAddr}
BY DEF StageInv, Staged!TypeOK, Staged!WriteZero, Staged!ResetNow, Staged!ResetLater

LEMMA StageWritesStatus ==
  ASSUME StageInv, Staged!WriteStatus
  PROVE  StageInv'
<1> DEFINE bits == Head(stageTodo).arg
<1> USE DEF Staged!WriteStatus, Staged!Arg, Staged!rootVars
<1>1. Programming
  BY MainPhase DEF MainOps
<1>2. bits \in SUBSET Staged!Bits /\ Head(stageTodo) = Staged!Write(bits)
  BY <1>1, NextStep, StepOf DEF Staged!Doing
<1>3. CASE bits = {} /\ Staged!WriteZero
  <2>1. /\ status' \subseteq Staged!Bits /\ resetting' \in BOOLEAN /\ queueSize' \in {0, 1}
        /\ queueAddr' \in {"none", "firmware", "layout"} /\ queueEnable' \in BOOLEAN
        /\ ~slow => ~resetting' /\ queueAddr' = "none"
        /\ queueAddr' \in {"none", queueAddr}
    BY <1>3, Resetting
  <2>2. Staged!TypeOK' /\ DeviceInv'
    BY <2>1 DEF StageInv, Staged!TypeOK, DeviceInv
  <2>3. stageTodo' = Tail(stageTodo) \/ stageTodo' = Staged!Out(FALSE, held)
    BY DEF Staged!Continue, Staged!GoOut
  <2>4. stageTodo' = Tail(stageTodo) => Proceeding
    BY <1>2, <1>3, <2>1, Distinct DEF Proceeding, Staged!Doing
  <2>5. queueAddr' # queueAddr => queueAddr' = "none"
    BY <2>1
  <2>6. QED
    BY <1>1, <2>2, <2>3, <2>4, <2>5, StageMoves
<1>4. CASE bits # {} /\ status' \in SUBSET bits
           /\ UNCHANGED <<slow, resetting, queueSize, queueAddr, queueEnable>>
  <2>1. Staged!TypeOK' /\ DeviceInv'
    BY <1>2, <1>4 DEF StageInv, Staged!TypeOK, DeviceInv
  <2>2. stageTodo' = Tail(stageTodo) \/ stageTodo' = Staged!Out(FALSE, held)
    BY DEF Staged!Continue, Staged!GoOut
  <2>3. stageTodo' = Tail(stageTodo) => Proceeding
    BY <1>2, <1>4, Distinct DEF Proceeding, Staged!Doing
  <2>4. QED
    BY <1>1, <1>4, <2>1, <2>2, <2>3, StageMoves
<1>5. QED
  BY <1>3, <1>4

LEMMA StageProgramsSize ==
  ASSUME StageInv, Staged!ProgramSize
  PROVE  StageInv'
<1> USE DEF Staged!ProgramSize, Staged!rootVars
<1>1. Programming
  BY MainPhase DEF MainOps
<1>2. Head(stageTodo) = Staged!Do("size")
  BY <1>1, NextStep, StepOf DEF Staged!Doing
<1>3. Staged!TypeOK' /\ DeviceInv'
  BY DEF StageInv, Staged!TypeOK, DeviceInv
<1>4. CASE queueSize' = 1 /\ Staged!Continue
  <2>1. Proceeding
    BY <1>2, <1>4, Distinct DEF Proceeding, Staged!Doing, Staged!Continue
  <2>2. QED
    BY <1>1, <1>3, <2>1, StageMoves
<1>5. CASE queueSize' = queueSize /\ Staged!GoOut
  BY <1>1, <1>3, <1>5, StageMoves DEF Staged!GoOut
<1>6. QED
  BY <1>4, <1>5

LEMMA StageProgramsAddresses ==
  ASSUME StageInv, Staged!ProgramAddresses
  PROVE  StageInv'
<1> USE DEF Staged!ProgramAddresses, Staged!rootVars
<1>1. Programming
  BY MainPhase DEF MainOps
<1>2. Head(stageTodo) = Staged!Do("addresses")
  BY <1>1, NextStep, StepOf DEF Staged!Doing
<1>3. /\ stage # "m2" /\ <<"mapping", "common">> \in held
      /\ <<"frame", "layout">> \in held /\ zeroed /\ (slow \/ queueSize = 1)
  BY <1>1, <1>2, AtAddresses
<1>4. Staged!TypeOK' /\ DeviceInv'
  BY <1>3 DEF StageInv, Staged!TypeOK, DeviceInv
<1>5. CASE queueAddr' = "layout" /\ Staged!Continue
  <2>1. Proceeding
    BY <1>2, <1>5, Distinct DEF Proceeding, Staged!Doing, Staged!Continue
  <2>2. QED
    BY <1>1, <1>4, <2>1, StageMoves
<1>6. CASE Staged!GoOut
  BY <1>1, <1>3, <1>4, <1>6, StageMoves DEF Staged!GoOut
<1>7. QED
  BY <1>5, <1>6

(* A stage that has its result leaves.                                     *)
LEMMA Decided ==
  ASSUME Programming, success' \in BOOLEAN, stageTodo' = Staged!Out(success', held),
         stage' = stage, slow' = slow, held' = held, common' = common,
         ~slow => queueAddr' # "layout" /\ (stage = "m2" \/ status' = {}),
         success' /\ stage # "m2" => status' = {} /\ ~queueEnable' /\ ~resetting'
  PROVE  Leaving'
<1>1. stageTodo' \in LastSteps
  BY OutIs DEF LastSteps
<1>2. ASSUME held # {} PROVE stageTodo' # <<Staged!Do("return")>>
  <2>1. \/ stageTodo' = <<Staged!Do("lastReset"), Staged!Do("release"), Staged!Do("return")>>
        \/ stageTodo' = <<Staged!Do("release"), Staged!Do("return")>>
    BY <1>2, OutIs
  <2>2. QED
    BY <2>1, ShortLists
<1>3. Staged!Doing("lastReset")' => ~success'
  <2>1. ASSUME success' PROVE ~(stageTodo' # <<>> /\ Head(stageTodo').op = "lastReset")
    <3>1. stageTodo' = IF held = {} THEN <<Staged!Do("return")>>
                                    ELSE <<Staged!Do("release"), Staged!Do("return")>>
      BY <2>1, OutIs
    <3>2. QED
      BY <3>1, LastStepsAre
  <2>2. QED
    BY <2>1 DEF Staged!Doing
<1>4. QED
  BY <1>1, <1>2, <1>3 DEF Leaving, Programming

LEMMA StageObserves ==
  ASSUME StageInv, Staged!ObserveFeatures
  PROVE  StageInv'
<1> USE DEF Staged!ObserveFeatures, Staged!deviceVars
<1>1. Programming
  BY MainPhase DEF MainOps
<1>2. Head(stageTodo) = Staged!Do("features")
  BY <1>1, NextStep, StepOf DEF Staged!Doing
<1>3. stage = "m2"
  BY <1>1, <1>2, NextStep DEF Programming, ListInv
<1>4. ~slow => queueAddr' # "layout"
  BY <1>1, <1>3 DEF Programming, QueueInv
<1>5. success' = TRUE /\ stageTodo' = Staged!Out(success', held)
  OBVIOUS
<1>6. Leaving'
  BY <1>1, <1>3, <1>4, <1>5, Decided
<1>7. Staged!TypeOK' /\ HoldInv' /\ DeviceInv'
  BY DEF StageInv, Staged!TypeOK, HoldInv, DeviceInv
<1>8. QED
  BY <1>6, <1>7 DEF StageInv

LEMMA StageResets ==
  ASSUME StageInv, Staged!Reset
  PROVE  StageInv'
<1> USE DEF Staged!Reset
<1>1. Programming
  BY MainPhase DEF MainOps
<1>2. /\ status' \subseteq Staged!Bits /\ resetting' \in BOOLEAN /\ queueSize' \in {0, 1}
      /\ queueAddr' \in {"none", "firmware", "layout"} /\ queueEnable' \in BOOLEAN
      /\ ~slow => status' = {} /\ ~resetting' /\ queueAddr' = "none"
      /\ status' = {} => ~resetting' /\ ~queueEnable'
  BY Resetting
<1>3. success' \in BOOLEAN /\ stageTodo' = Staged!Out(success', held) /\ (success' => status' = {})
  OBVIOUS
<1>4. Leaving'
  BY <1>1, <1>2, <1>3, Decided
<1>5. Staged!TypeOK' /\ HoldInv' /\ DeviceInv'
  BY <1>2, <1>3 DEF StageInv, Staged!TypeOK, HoldInv, DeviceInv
<1>6. QED
  BY <1>4, <1>5 DEF StageInv

LEMMA StageLastResets ==
  ASSUME StageInv, Staged!LastReset
  PROVE  StageInv'
<1> USE DEF Staged!LastReset, Staged!rootVars, Staged!Continue
<1>1. Leaving
  BY LastPhase
<1>2. /\ status' \subseteq Staged!Bits /\ resetting' \in BOOLEAN /\ queueSize' \in {0, 1}
      /\ queueAddr' \in {"none", "firmware", "layout"} /\ queueEnable' \in BOOLEAN
      /\ ~slow => status' = {} /\ ~resetting' /\ queueAddr' = "none"
  BY Resetting
<1>3. stageTodo' = <<Staged!Do("release"), Staged!Do("return")>> /\ stageTodo' \in LastSteps
  BY <1>1, LastStepsAre DEF Leaving, Staged!Doing, LastSteps
<1>4. ~success
  BY <1>1 DEF Leaving
<1>5. Leaving'
  BY <1>1, <1>2, <1>3, <1>4, LastStepsAre DEF Leaving, Staged!Doing
<1>6. Staged!TypeOK' /\ HoldInv' /\ DeviceInv'
  BY <1>2 DEF StageInv, Staged!TypeOK, HoldInv, DeviceInv
<1>7. QED
  BY <1>5, <1>6 DEF StageInv

(* A frame is the last of its page that is released.                       *)
LEMMA FramesLast ==
  ASSUME NEW f \in Staged!Frames
  PROVE  /\ Staged!ReleaseRank(<<"mapping", f>>) < Staged!ReleaseRank(<<"reservation", f>>)
         /\ Staged!ReleaseRank(<<"mapping", f>>) < Staged!ReleaseRank(<<"frame", f>>)
         /\ Staged!ReleaseRank(<<"mapping", f>>) \in Nat
         /\ Staged!ReleaseRank(<<"reservation", f>>) \in Nat
         /\ Staged!ReleaseRank(<<"frame", f>>) \in Nat
<1>1. Staged!PageRank[f] \in 0..2
  BY DEF Staged!PageRank, Staged!Frames
<1>2. /\ Staged!ReleaseRank(<<"mapping", f>>) = 3 * Staged!PageRank[f]
      /\ Staged!ReleaseRank(<<"reservation", f>>) = 3 * Staged!PageRank[f] + 1
      /\ Staged!ReleaseRank(<<"frame", f>>) =
           IF stage \in {"m6", "m7"} THEN 9 + Staged!PageRank[f] ELSE 3 * Staged!PageRank[f] + 2
  BY <1>1 DEF Staged!ReleaseRank, Staged!KindRank
<1>3. QED
  BY <1>1, <1>2

LEMMA StageReleases ==
  ASSUME StageInv, Staged!Release
  PROVE  StageInv'
<1> USE DEF Staged!Release, Staged!deviceVars, Staged!Continue
<1>1. Leaving /\ ~Staged!Doing("lastReset")
  BY LastPhase DEF Staged!Doing
<1>2. PICK o \in held : /\ \A p \in held : Staged!ReleaseRank(o) <= Staged!ReleaseRank(p)
                        /\ held' = held \ {o}
  OBVIOUS
<1>3. HoldInv'
  <2> SUFFICES ASSUME NEW f \in Staged!Frames, <<"mapping", f>> \in held'
               PROVE  <<"frame", f>> \in held' /\ <<"reservation", f>> \in held'
    BY DEF HoldInv
  <2>1. /\ <<"mapping", f>> \in held /\ <<"frame", f>> \in held
        /\ <<"reservation", f>> \in held
    BY <1>2 DEF StageInv, HoldInv
  <2>2. o # <<"frame", f>> /\ o # <<"reservation", f>>
    <3>1. Staged!ReleaseRank(o) <= Staged!ReleaseRank(<<"mapping", f>>)
      BY <1>2, <2>1
    <3> DEFINE frame == Staged!ReleaseRank(<<"frame", f>>)
               reservation == Staged!ReleaseRank(<<"reservation", f>>)
               mapping == Staged!ReleaseRank(<<"mapping", f>>)
    <3>2. mapping < frame /\ mapping < reservation /\ {mapping, frame, reservation} \subseteq Nat
      BY FramesLast, Zenon
    <3> HIDE DEF frame, reservation, mapping
    <3>3. ~(frame <= mapping) /\ ~(reservation <= mapping)
      BY <3>2
    <3>4. QED
      BY <3>1, <3>3, Zenon DEF frame, reservation, mapping
  <2>3. QED
    BY <1>2, <2>1, <2>2
<1>4. stageTodo = <<Staged!Do("release"), Staged!Do("return")>>
      /\ Tail(stageTodo) = <<Staged!Do("return")>>
  BY <1>1, LastStepsAre DEF Leaving, Staged!Doing
<1>5. /\ stageTodo' \in LastSteps
      /\ stageTodo' = <<Staged!Do("return")>> => held' = {}
      /\ ~Staged!Doing("lastReset")'
  <2>1. CASE held' = {}
    <3>1. stageTodo' = <<Staged!Do("return")>>
      BY <1>4, <2>1
    <3>2. QED
      BY <2>1, <3>1, LastStepsAre DEF LastSteps, Staged!Doing
  <2>2. CASE held' # {}
    <3>1. stageTodo' = <<Staged!Do("release"), Staged!Do("return")>>
      BY <1>4, <2>2
    <3>2. QED
      BY <3>1, LastStepsAre DEF LastSteps, Staged!Doing
  <2>3. QED
    BY <2>1, <2>2
<1>6. Leaving'
  <2>1. UNCHANGED <<stage, slow, success, common, queueAddr, status, queueEnable, resetting>>
    OBVIOUS
  <2>2. /\ ~slow => queueAddr # "layout" /\ (common /\ stage # "m2" => status = {})
        /\ success /\ stage # "m2" => status = {} /\ ~queueEnable /\ ~resetting
        /\ stage \in StageNames
    BY <1>1 DEF Leaving
  <2>3. QED
    BY <1>5, <2>1, <2>2 DEF Leaving
<1>7. Staged!TypeOK'
  BY <1>2 DEF StageInv, Staged!TypeOK
<1>8. DeviceInv'
  BY <1>1 DEF StageInv, DeviceInv, Leaving
<1>9. QED
  BY <1>3, <1>6, <1>7, <1>8 DEF StageInv

LEMMA StageReturns ==
  ASSUME StageInv, Staged!Return
  PROVE  StageInv'
<1> USE DEF Staged!Return, Staged!deviceVars, Staged!Continue
<1>1. Leaving /\ ~Staged!Doing("lastReset")
  BY LastPhase DEF Staged!Doing
<1>2. stageTodo = <<Staged!Do("return")>> /\ stageTodo' = <<>>
  BY <1>1, LastStepsAre DEF Leaving, Staged!Doing
<1>3. Idle'
  BY <1>1, <1>2 DEF Leaving, Idle
<1>4. Staged!TypeOK' /\ HoldInv' /\ DeviceInv'
  BY DEF StageInv, Staged!TypeOK, HoldInv, DeviceInv
<1>5. QED
  BY <1>3, <1>4 DEF StageInv

LEMMA StageStrays ==
  ASSUME StageInv, Staged!StrayAccess
  PROVE  StageInv'
BY DEF Staged!StrayAccess, Staged!deviceVars, StageInv, Idle, Staged!TypeOK, HoldInv, DeviceInv

LEMMA DeviceResetsLate ==
  ASSUME StageInv, Staged!DeviceResets
  PROVE  StageInv'
<1> USE DEF Staged!DeviceResets, Staged!ResetNow, Staged!rootVars
<1>1. slow
  BY DEF StageInv, DeviceInv
<1>2. Staged!TypeOK' /\ HoldInv' /\ DeviceInv'
  BY <1>1 DEF StageInv, Staged!TypeOK, HoldInv, DeviceInv
<1>3. CASE Programming
  <2>1. ListInv(Ahead(stageTodo))' /\ QueueInv(Ahead(stageTodo))'
    BY <1>1, <1>3 DEF Programming, ListInv, QueueInv
  <2>2. QED
    BY <1>2, <1>3, <2>1 DEF StageInv, Programming
<1>4. CASE Leaving
  BY <1>1, <1>2, <1>4 DEF StageInv, Leaving, Staged!Doing
<1>5. CASE Idle
  BY <1>1, <1>2, <1>5 DEF StageInv, Idle
<1>6. QED
  BY <1>3, <1>4, <1>5 DEF StageInv

LEMMA StageStart == Staged!Init => StageInv
<1> SUFFICES ASSUME Staged!Init PROVE StageInv
  OBVIOUS
<1> USE DEF Staged!Init
<1>1. Staged!TypeOK
  BY DEF Staged!TypeOK, Staged!Objects, Staged!Bits
<1>2. Idle /\ HoldInv /\ DeviceInv
  BY DEF Idle, HoldInv, DeviceInv
<1>3. QED
  BY <1>1, <1>2 DEF StageInv

LEMMA StageStays == StageInv /\ UNCHANGED stageVars => StageInv'
BY DEF stageVars, StageInv, Staged!TypeOK, Programming, ListInv, QueueInv, Leaving, Idle,
       HoldInv, DeviceInv, Staged!Doing

LEMMA StageStep == StageInv /\ [PciNext]_<<part, vars, barVars, stageVars>> => StageInv'
<1> SUFFICES ASSUME StageInv, [PciNext]_<<part, vars, barVars, stageVars>> PROVE StageInv'
  OBVIOUS
<1>1. CASE UNCHANGED stageVars
  BY <1>1, StageStays
<1>2. CASE Staged!Next
  BY <1>2, StageBegins, StageAllocs, StageMaps, StageSimple, StageObserves, StageWritesStatus,
     StageProgramsSize, StageProgramsAddresses, StageResets, StageLastResets, StageReleases,
     StageReturns, StageStrays, DeviceResetsLate DEF Staged!Next
<1>3. QED
  BY <1>1, <1>2 DEF PciNext

LEMMA StageInvariant == PciSpec => []StageInv
<1>1. PciInit => StageInv
  BY StageStart DEF PciInit
<1>2. QED
  BY <1>1, StageStep, PTL DEF PciSpec

(* StagesCorrect: whatever refuses, a stage returns everything it took and *)
(* its success means a finished reset and a disabled queue, however long   *)
(* the device takes to reset.  Of a device that resets at once only: a live *)
(* queue lies in a zeroed frame root owns, and every exit resets it        *)
(* (selinos_pci.c, the label out of M2 to M9).                             *)
THEOREM StagesHold == PciSpec => StagesCorrect
<1>1. StageInv => Staged!TypeOK
  BY DEF StageInv
<1>2. StageInv => Staged!NothingHeldOnReturn
  <2> SUFFICES ASSUME StageInv PROVE Staged!NothingHeldOnReturn
    OBVIOUS
  <2>1. stage = "none" => held = {}
    BY DEF StageInv, Programming, Leaving, Idle, StageNames, Staged!Steps
  <2>2. QED
    BY <2>1 DEF StageInv, HoldInv, Staged!NothingHeldOnReturn
<1>3. StageInv => Staged!LiveQueueIsOwned
  BY DEF StageInv, DeviceInv, Staged!LiveQueueIsOwned, Staged!DeviceLive
<1>4. StageInv => Staged!SuccessMeansReset
  BY DEF StageInv, Programming, Leaving, Idle, Staged!SuccessMeansReset
<1>5. StageInv /\ [PciNext]_<<part, vars, barVars, stageVars>> =>
        [Staged!Doing("return") /\ common /\ stage # "m2" /\ ~slow => status = {}]_(Staged!vars)
  <2> SUFFICES ASSUME StageInv, Staged!Doing("return"), common, stage # "m2", ~slow
               PROVE  status = {}
    OBVIOUS
  <2>1. Leaving /\ ~Staged!Doing("lastReset")
    BY LastPhase DEF Staged!Doing
  <2>2. QED
    BY <2>1 DEF Leaving
<1>6. QED
  BY <1>1, <1>2, <1>3, <1>4, <1>5, StageInvariant, PTL
     DEF PciSpec, StagesCorrect, Staged!ResetOnEveryExit

-----------------------------------------------------------------------------
(* The BAR transactions.  What a dword of the BAR stores is rounded down   *)
(* to a multiple of its granule.                                           *)
LEMMA Times ==
  ASSUME NEW a \in Nat, NEW b \in Nat, NEW g \in Nat, a <= b
  PROVE  a * g <= b * g /\ a * g \in Nat /\ b * g \in Nat
<1>1. \A x, y \in Nat : x * y \in Nat
  OBVIOUS
<1>2. b - a \in Nat /\ b * g = a * g + (b - a) * g
  OBVIOUS
<1>3. QED
  BY <1>1, <1>2

LEMMA Rounding ==
  ASSUME NEW v \in Nat, NEW g \in Nat \ {0}
  PROVE  /\ v \div g \in Nat /\ (v \div g) * g \in Nat
         /\ (v \div g) * g <= v /\ v < (v \div g) * g + g
<1>1. v \div g \in Nat /\ v % g \in 0..g - 1
  OBVIOUS
<1>2. \A n \in Nat, d \in Nat \ {0} : n % d = n - d * (n \div d)
  OBVIOUS
<1> DEFINE q == v \div g
           r == v % g
<1>3. g * q = q * g /\ q * g \in Nat
  <2>1. q \in Nat
    BY <1>1
  <2> HIDE DEF q
  <2>2. \A x, y \in Nat : x * y = y * x /\ y * x \in Nat
    OBVIOUS
  <2>3. QED
    BY <2>1, <2>2
<1> HIDE DEF q, r
<1>4. q \in Nat /\ r \in 0..g - 1 /\ v = q * g + r
  <2>1. q \in Nat /\ r \in 0..g - 1 /\ r = v - g * q
    BY <1>1, <1>2 DEF q, r
  <2>2. QED
    BY <1>3, <2>1
<1>5. q * g <= v /\ v < q * g + g
  BY <1>3, <1>4
<1>6. QED
  BY <1>3, <1>4, <1>5 DEF q

LEMMA MultipleOf ==
  ASSUME NEW a \in Nat, NEW g \in Nat \ {0}
  PROVE  (a * g) \div g = a /\ (a * g) % g = 0
<1>1. \A d \in Nat \ {0}, n \in Nat : (d * n) \div d = n /\ (d * n) % d = 0
  OBVIOUS
<1>2. a * g = g * a
  OBVIOUS
<1>3. QED
  BY <1>1, <1>2

LEMMA Quotient ==
  ASSUME NEW b \in Nat, NEW g \in Nat \ {0}, b % g = 0
  PROVE  b \div g \in Nat /\ b = (b \div g) * g
<1>1. \A n \in Nat, d \in Nat \ {0} : n % d = n - d * (n \div d) /\ n \div d \in Nat
  OBVIOUS
<1> DEFINE q == b \div g
<1> HIDE DEF q
<1>2. q \in Nat /\ 0 = b - g * q
  BY <1>1 DEF q
<1>3. g * q = q * g /\ g * q \in Nat
  BY <1>2
<1>4. b = q * g
  BY <1>2, <1>3
<1>5. QED
  BY <1>2, <1>4 DEF q

LEMMA RoundingRises ==
  ASSUME NEW v \in Nat, NEW w \in Nat, NEW g \in Nat \ {0}, v <= w
  PROVE  (v \div g) * g <= (w \div g) * g
<1> DEFINE p == v \div g
           q == w \div g
<1>1. /\ p \in Nat /\ q \in Nat /\ p * g \in Nat /\ q * g \in Nat
      /\ p * g <= v /\ w < q * g + g
  BY Rounding
<1> HIDE DEF p, q
<1>2. ASSUME q < p PROVE FALSE
  <2>1. q + 1 \in Nat /\ q + 1 <= p
    BY <1>1, <1>2
  <2>2. (q + 1) * g <= p * g
    BY <1>1, <2>1, Times
  <2>3. (q + 1) * g = q * g + g
    BY <1>1
  <2>4. QED
    BY <1>1, <2>2, <2>3
<1>3. p <= q
  BY <1>1, <1>2
<1>4. p * g <= q * g
  BY <1>1, <1>3, Times
<1>5. QED
  BY <1>4 DEF p, q

(* The sizing response: all ones, rounded down.                            *)
LEMMA AllOnes ==
  ASSUME NEW b \in Nat \ {0}, NEW g \in Nat \ {0}, b % g = 0
  PROVE  ((b - 1) \div g) * g = b - g /\ g <= b
<1> DEFINE q == b \div g
           p == (b - 1) \div g
<1>1. q \in Nat /\ b = q * g
  BY Quotient
<1>2. b - 1 \in Nat
  OBVIOUS
<1>3. p \in Nat /\ p * g \in Nat /\ p * g <= b - 1 /\ b - 1 < p * g + g
  BY <1>2, Rounding
<1> HIDE DEF p, q
<1>4. q # 0
  BY <1>1
<1>5. q - 1 \in Nat /\ (q - 1) * g = q * g - g /\ (q - 1) * g \in Nat
  <2>1. q - 1 \in Nat
    BY <1>1, <1>4
  <2>2. q * g = (q - 1) * g + g /\ (q - 1) * g \in Nat
    BY <1>1, <2>1
  <2>3. QED
    BY <2>1, <2>2
<1>6. ~(p < q - 1)
  <2> SUFFICES ASSUME p < q - 1 PROVE FALSE
    OBVIOUS
  <2>1. p + 1 \in Nat /\ p + 1 <= q - 1
    BY <1>3, <1>5
  <2>2. (p + 1) * g <= (q - 1) * g
    BY <1>5, <2>1, Times
  <2>3. (p + 1) * g = p * g + g
    BY <1>3
  <2>4. QED
    BY <1>1, <1>3, <1>5, <2>2, <2>3
<1>7. ~(q - 1 < p)
  <2> SUFFICES ASSUME q - 1 < p PROVE FALSE
    OBVIOUS
  <2>1. q <= p
    BY <1>1, <1>3
  <2>2. q * g <= p * g
    BY <1>1, <1>3, <2>1, Times
  <2>3. QED
    BY <1>1, <1>3, <2>2
<1>8. p = q - 1
  BY <1>3, <1>5, <1>6, <1>7
<1>9. p * g = b - g /\ g <= b
  BY <1>1, <1>5, <1>8
<1>10. QED
  BY <1>9 DEF p

-----------------------------------------------------------------------------
(* The registers of the function.                                          *)
Fixed ==
  /\ size \in Bar!Sizes /\ type \in Bar!BarTypes
  /\ size > Limit => type = "mem64"

LEMMA BarConstants ==
  /\ BarKinds \subseteq Bar!Transactions /\ Types \subseteq Bar!BarTypes
  /\ Limit \in Nat \ {0} /\ HighLimit \in Nat \ {0} /\ Gran \in 1..Limit
  /\ BarPage \in Nat \ {0} /\ BarErrors \in Nat /\ BarLost \in Nat
  /\ Windows \subseteq (0..Limit) \X (0..Limit)
  /\ Regions \subseteq [offset : Nat, length : Nat]
BY BarAssumption DEF Bar!KindsAssumption, Bar!LimitAssumption, Bar!TypesAssumption,
   Bar!WindowAssumption, Bar!RegionAssumption, Bar!BoundAssumption

LEMMA Products == Limit * HighLimit \in Nat /\ HighLimit * Limit = Limit * HighLimit
                  /\ Limit <= Limit * HighLimit
<1>1. Limit \in Nat /\ HighLimit \in Nat /\ 1 <= HighLimit
  BY BarConstants
<1>2. 1 * Limit <= HighLimit * Limit /\ HighLimit * Limit \in Nat
  BY <1>1, Times
<1>3. HighLimit * Limit = Limit * HighLimit /\ 1 * Limit = Limit
  BY <1>1
<1>4. QED
  BY <1>2, <1>3

(* Of two powers of two the smaller divides the larger: halve both.  This  *)
(* is an induction; it is made on the set of counterexamples, which, like  *)
(* every set of naturals, would have a least element.                      *)
LEMMA LeastNatural ==
  ASSUME NEW T \in SUBSET Nat, T # {}
  PROVE  \E x \in T : \A y \in T : x <= y
<1> DEFINE R == OpToRel(<, Nat)
<1>1. IsWellFoundedOn(R, Nat)
  BY NatLessThanWellFounded, Zenon
<1> HIDE DEF R
<1>2. PICK x \in T : \A y \in T : ~(<<y, x>> \in R)
  BY <1>1, WFMin
<1>3. \A y \in T : y < x => <<y, x>> \in R
  BY DEF R, OpToRel
<1>4. \A y \in T : ~(y < x)
  BY <1>2, <1>3, Zenon
<1>5. \A y \in T : y \in Nat /\ x \in Nat
  OBVIOUS
<1>6. QED
  BY <1>4, <1>5

LEMMA Halved ==
  ASSUME NEW n \in Nat, n >= 2, Bar!PowerOfTwo(n)
  PROVE  /\ n \div 2 \in Nat \ {0} /\ n = (n \div 2) * 2 /\ n \div 2 < n
         /\ Bar!PowerOfTwo(n \div 2)
<1>1. n \in 2..n /\ n % n = 0
  OBVIOUS
<1>2. n % 2 = 0
  BY <1>1 DEF Bar!PowerOfTwo
<1> DEFINE h == n \div 2
<1>3. h \in Nat /\ n = h * 2
  BY <1>2, Quotient
<1> HIDE DEF h
<1>4. h \in Nat \ {0} /\ h < n
  BY <1>3
<1>5. ASSUME NEW d \in 2..h, h % d = 0 PROVE d % 2 = 0
  <2>1. d \in Nat \ {0} /\ d \in 2..n
    BY <1>4
  <2> DEFINE q == h \div d
  <2>2. q \in Nat /\ h = q * d
    BY <1>3, <1>5, <2>1, Quotient
  <2> HIDE DEF q
  <2>3. q * 2 \in Nat /\ n = (q * 2) * d
    BY <1>3, <2>1, <2>2
  <2>4. n % d = 0
    BY <2>1, <2>3, MultipleOf
  <2>5. QED
    BY <2>1, <2>4 DEF Bar!PowerOfTwo
<1>6. Bar!PowerOfTwo(h)
  BY <1>4, <1>5 DEF Bar!PowerOfTwo
<1>7. QED
  BY <1>3, <1>4, <1>6 DEF h

LEMMA PowersDivide ==
  ASSUME NEW a \in Nat, NEW b \in Nat, Bar!PowerOfTwo(a), Bar!PowerOfTwo(b), a <= b
  PROVE  b % a = 0
<1> DEFINE Fails(n, m) == Bar!PowerOfTwo(n) /\ Bar!PowerOfTwo(m) /\ n <= m /\ m % n # 0
           T == {n \in Nat : \E m \in Nat : Fails(n, m)}
<1>1. SUFFICES ASSUME T # {} PROVE FALSE
  OBVIOUS
<1>2. PICK n \in T : \A y \in T : n <= y
  BY <1>1, LeastNatural
<1>3. PICK m \in Nat : Fails(n, m)
  OBVIOUS
<1>4. n \in Nat /\ n > 0
  BY <1>3 DEF Bar!PowerOfTwo
<1>5. n # 1
  BY <1>3
<1> DEFINE h == n \div 2
           k == m \div 2
<1>6. /\ h \in Nat \ {0} /\ n = h * 2 /\ h < n /\ Bar!PowerOfTwo(h)
      /\ k \in Nat \ {0} /\ m = k * 2 /\ Bar!PowerOfTwo(k)
  <2>1. n >= 2 /\ m >= 2
    BY <1>3, <1>4, <1>5
  <2>2. QED
    BY <1>3, <1>4, <2>1, Halved
<1> HIDE DEF h, k
<1>7. h <= k
  BY <1>3, <1>6
<1>8. k % h = 0
  <2>1. ~(n <= h)
    BY <1>4, <1>6
  <2>2. h \notin T
    BY <1>2, <2>1
  <2>3. QED
    BY <1>6, <1>7, <2>2
<1> DEFINE q == k \div h
<1>9. q \in Nat /\ k = q * h
  BY <1>6, <1>8, Quotient
<1> HIDE DEF q
<1>10. m = q * n
  BY <1>6, <1>9
<1>11. m % n = 0
  BY <1>4, <1>9, <1>10, MultipleOf
<1>12. QED
  BY <1>3, <1>11

LEMMA QuotientPower ==
  ASSUME NEW s \in Nat \ {0}, NEW l \in Nat \ {0}, Bar!PowerOfTwo(s), s % l = 0
  PROVE  s \div l \in Nat /\ s = (s \div l) * l /\ Bar!PowerOfTwo(s \div l)
<1> DEFINE q == s \div l
<1>1. q \in Nat /\ s = q * l
  BY Quotient
<1> HIDE DEF q
<1>2. q > 0
  BY <1>1
<1>3. q <= s
  <2>1. q * 1 <= q * l
    BY <1>1
  <2>2. QED
    BY <1>1, <2>1
<1>4. ASSUME NEW d \in 2..q, q % d = 0 PROVE d % 2 = 0
  <2>1. d \in Nat \ {0} /\ d \in 2..s
    BY <1>1, <1>3
  <2> DEFINE r == q \div d
  <2>2. r \in Nat /\ q = r * d
    BY <1>1, <1>4, <2>1, Quotient
  <2> HIDE DEF r
  <2>3. r * l \in Nat /\ s = (r * l) * d
    BY <1>1, <2>1, <2>2
  <2>4. s % d = 0
    BY <2>1, <2>3, MultipleOf
  <2>5. QED
    BY <2>1, <2>4 DEF Bar!PowerOfTwo
<1>5. Bar!PowerOfTwo(q)
  BY <1>2, <1>4 DEF Bar!PowerOfTwo
<1>6. QED
  BY <1>1, <1>5 DEF q

LEMMA SizeFacts ==
  ASSUME Fixed
  PROVE  /\ size \in Nat /\ size <= Limit * HighLimit
         /\ size # 0 /\ size <= Limit => Limit % size = 0
         /\ size > Limit => size % Limit = 0 /\ HighLimit % (size \div Limit) = 0
<1>1. size \in Nat /\ size <= Limit * HighLimit
  BY BarConstants, Products DEF Fixed, Bar!Sizes
<1>2. /\ size # 0 => Bar!PowerOfTwo(size)
      /\ Bar!PowerOfTwo(Limit) /\ Bar!PowerOfTwo(HighLimit)
  BY BarAssumption DEF Fixed, Bar!Sizes, Bar!SizeAssumption
<1>3. size # 0 /\ size <= Limit => Limit % size = 0
  BY <1>1, <1>2, BarConstants, PowersDivide
<1>4. ASSUME size > Limit PROVE size % Limit = 0 /\ HighLimit % (size \div Limit) = 0
  <2>1. size \in Nat \ {0} /\ Limit \in Nat \ {0} /\ HighLimit \in Nat \ {0} /\ Limit <= size
    BY <1>1, <1>4, BarConstants
  <2>2. size % Limit = 0
    BY <1>2, <2>1, PowersDivide
  <2> DEFINE q == size \div Limit
  <2>3. q \in Nat /\ size = q * Limit /\ Bar!PowerOfTwo(q)
    BY <1>2, <2>1, <2>2, QuotientPower
  <2> HIDE DEF q
  <2>4. ~(HighLimit < q)
    <3> SUFFICES ASSUME HighLimit < q PROVE FALSE
      OBVIOUS
    <3>1. HighLimit + 1 \in Nat /\ HighLimit + 1 <= q
      BY <2>1, <2>3
    <3>2. (HighLimit + 1) * Limit <= q * Limit
      BY <2>1, <2>3, <3>1, Times
    <3>3. (HighLimit + 1) * Limit = HighLimit * Limit + Limit
      BY <2>1
    <3>4. QED
      BY <1>1, <2>1, <2>3, <3>2, <3>3, Products
  <2>5. HighLimit % q = 0
    BY <1>2, <2>1, <2>3, <2>4, PowersDivide
  <2>6. QED
    BY <2>2, <2>5 DEF q
<1>5. QED
  BY <1>1, <1>3, <1>4

LEMMA GranuleFacts ==
  ASSUME Fixed, size # 0
  PROVE  /\ Bar!Granule(0) \in Nat \ {0} /\ Limit % Bar!Granule(0) = 0
         /\ Bar!Granule(1) \in Nat \ {0} /\ HighLimit % Bar!Granule(1) = 0
         /\ size < Limit => Bar!Granule(0) = size
         /\ size >= Limit => Bar!Granule(0) = Limit
         /\ size <= Limit => Bar!Granule(1) = 1
         /\ size > Limit => Bar!Granule(1) = size \div Limit
                            /\ size = Bar!Granule(1) * Limit
<1>1. size \in Nat \ {0} /\ Limit \in Nat \ {0} /\ HighLimit \in Nat \ {0}
  BY SizeFacts, BarConstants
<1>2. /\ size < Limit => Bar!Granule(0) = size
      /\ size >= Limit => Bar!Granule(0) = Limit
      /\ size <= Limit => Bar!Granule(1) = 1
      /\ size > Limit => Bar!Granule(1) = size \div Limit
  BY <1>1 DEF Bar!Granule
<1>3. Bar!Granule(0) \in Nat \ {0} /\ Limit % Bar!Granule(0) = 0
  <2>1. Limit % Limit = 0
    BY <1>1
  <2>2. QED
    BY <1>1, <1>2, <2>1, SizeFacts
<1>4. ASSUME size > Limit PROVE size \div Limit \in Nat \ {0}
             /\ size = (size \div Limit) * Limit
  <2>1. size % Limit = 0
    BY <1>4, SizeFacts
  <2>2. size \div Limit \in Nat /\ size = (size \div Limit) * Limit
    BY <1>1, <2>1, Quotient
  <2>3. size \div Limit # 0
    <3>1. 0 * Limit = 0
      BY <1>1
    <3>2. QED
      BY <1>1, <2>2, <3>1
  <2>4. QED
    BY <2>2, <2>3
<1>5. Bar!Granule(1) \in Nat \ {0} /\ HighLimit % Bar!Granule(1) = 0
  <2>1. HighLimit % 1 = 0
    BY <1>1
  <2>2. CASE size <= Limit
    BY <1>2, <2>1, <2>2
  <2>3. CASE size > Limit
    BY <1>2, <1>4, <2>3, SizeFacts
  <2>4. QED
    BY <1>1, <2>2, <2>3
<1>6. QED
  BY <1>2, <1>3, <1>4, <1>5

LEMMA BoundOf ==
  /\ Bar!Bound(0) = Limit /\ Bar!Bound(1) = HighLimit
  /\ \A d \in Bar!Dwords : Bar!Bound(d) \in Nat \ {0}
  /\ Bar!Dwords = {0, 1}
<1>1. Bar!Bound(0) = Limit /\ Bar!Bound(1) = HighLimit
  BY DEF Bar!Bound
<1>2. QED
  BY <1>1, BarConstants DEF Bar!Dwords

LEMMA StoreFacts ==
  ASSUME Fixed, NEW d \in Bar!Dwords, NEW v \in Nat
  PROVE  /\ Bar!Store(d, v) \in Nat /\ Bar!Store(d, v) <= v
         /\ Bar!Store(d, Bar!Store(d, v)) = Bar!Store(d, v)
         /\ \A w \in Nat : v <= w => Bar!Store(d, v) <= Bar!Store(d, w)
         /\ Bar!Implemented(d) =>
              /\ Bar!Granule(d) \in Nat \ {0}
              /\ Bar!Store(d, Bar!Bound(d) - 1) = Bar!Bound(d) - Bar!Granule(d)
              /\ Bar!Granule(d) <= Bar!Bound(d)
              /\ \E a \in Nat : Bar!Store(d, v) = a * Bar!Granule(d)
<1>1. CASE ~Bar!Implemented(d)
  <2>1. \A w : Bar!Store(d, w) = 0
    BY <1>1 DEF Bar!Store
  <2>2. QED
    BY <1>1, <2>1
<1>2. CASE Bar!Implemented(d)
  <2>1. size # 0
    BY <1>2 DEF Bar!Implemented
  <2> DEFINE g == Bar!Granule(d)
             b == Bar!Bound(d)
  <2>2. g \in Nat \ {0} /\ b \in Nat \ {0} /\ b % g = 0
    BY <2>1, GranuleFacts, BoundOf
  <2>3. \A w : Bar!Store(d, w) = (w \div g) * g
    BY <1>2 DEF Bar!Store
  <2> HIDE DEF g, b
  <2>4. v \div g \in Nat /\ (v \div g) * g \in Nat /\ (v \div g) * g <= v
    BY <2>2, Rounding
  <2>5. ((v \div g) * g) \div g = v \div g
    BY <2>2, <2>4, MultipleOf
  <2>6. \A w \in Nat : v <= w => (v \div g) * g <= (w \div g) * g
    BY <2>2, RoundingRises
  <2>7. ((b - 1) \div g) * g = b - g /\ g <= b
    BY <2>2, AllOnes
  <2>8. Bar!Store(d, v) \in Nat /\ Bar!Store(d, v) <= v
        /\ \E a \in Nat : Bar!Store(d, v) = a * g
    BY <2>3, <2>4
  <2>9. Bar!Store(d, Bar!Store(d, v)) = Bar!Store(d, v)
    BY <2>3, <2>5
  <2>10. \A w \in Nat : v <= w => Bar!Store(d, v) <= Bar!Store(d, w)
    BY <2>3, <2>6
  <2>11. Bar!Store(d, b - 1) = b - g
    BY <2>3, <2>7
  <2>12. QED
    BY <2>2, <2>7, <2>8, <2>9, <2>10, <2>11 DEF g, b
<1>3. QED
  BY <1>1, <1>2

LEMMA WordsAre ==
  \A w : w \in Bar!Words <=>
    /\ w \in [Bar!Dwords -> Nat] /\ w[0] < Limit /\ w[1] < HighLimit
<1>1. Limit \in Nat /\ HighLimit \in Nat /\ Bar!Dwords = {0, 1}
  BY BarConstants, BoundOf
<1>2. ASSUME NEW w \in Bar!Words
      PROVE  w \in [Bar!Dwords -> Nat] /\ w[0] < Limit /\ w[1] < HighLimit
  BY <1>1 DEF Bar!Words
<1>3. ASSUME NEW w \in [Bar!Dwords -> Nat], w[0] < Limit, w[1] < HighLimit
      PROVE  w \in Bar!Words
  <2>1. \A d \in Bar!Dwords : w[d] \in 0..(Limit + HighLimit)
    BY <1>1, <1>3
  <2>2. w \in [Bar!Dwords -> 0..(Limit + HighLimit)]
    BY <2>1
  <2>3. QED
    BY <1>3, <2>2 DEF Bar!Words
<1>4. QED
  BY <1>2, <1>3

-----------------------------------------------------------------------------
(* Where the steps of each transaction are in its list; 20 is nowhere.     *)
Place(assign, range32, range64, n1) ==
  IF kind = "assign" THEN assign
  ELSE IF kind = "range32" THEN range32
  ELSE IF kind = "range64" THEN range64 ELSE n1

IdentifyAt == Place(20, 20, 20, 1)
CommandAt  == Place(1, 1, 1, 2)
BarAt0     == Place(2, 2, 2, 3)
BarAt1     == Place(20, 20, 3, 20)
AdmitAt    == Place(4, 3, 4, 4)
QuiesceAt  == Place(3, 4, 5, 5)
OnesAt0    == Place(5, 5, 6, 6)
OnesAt1    == Place(20, 20, 8, 20)
TouchAt    == Place(8, 6, 7, 7)
MaskAt0    == Place(6, 7, 9, 8)
MaskAt1    == Place(20, 20, 10, 20)
PutAt0     == Place(7, 8, 12, 9)
PutAt1     == Place(20, 20, 11, 20)
VerifyAt0  == Place(20, 9, 13, 10)
VerifyAt1  == Place(20, 20, 14, 20)
UntouchAt  == Place(20, 20, 20, 11)
AcceptAt   == Place(9, 10, 15, 12)
ProgramAt  == Place(10, 20, 20, 20)
ReadBackAt == Place(11, 20, 20, 20)
SucceedAt  == Place(12, 11, 16, 13)

BarOps == Bar!MainAccess \cup Bar!UndoAccess
            \cup {"admit", "touch", "untouch", "accept", "succeed", "return"}
BarStep == [op : BarOps, dword : {0, 1}]

\* The rest of a list from one of its steps on
OnList(rest, steps, i) ==
  /\ i \in 1..Len(steps) /\ Len(rest) = Len(steps) - i + 1
  /\ rest \in Seq(BarStep)
  /\ \A j \in 1..Len(rest) : rest[j] = steps[i + j - 1]

LEMMA ListHead ==
  ASSUME NEW rest, NEW steps, NEW n \in Nat, Len(steps) = n, NEW i, OnList(rest, steps, i)
  PROVE  /\ i \in 1..n /\ rest # <<>> /\ Head(rest) = steps[i]
         /\ i < n => OnList(Tail(rest), steps, i + 1)
<1>1. i \in 1..n /\ Len(rest) = n - i + 1 /\ \A j \in 1..Len(rest) : rest[j] = steps[i + j - 1]
      /\ rest \in Seq(BarStep)
  BY DEF OnList
<1>2. Len(rest) \in Nat /\ Len(rest) >= 1
  BY <1>1
<1>3. rest # <<>> /\ Head(rest) = rest[1]
  BY <1>1, <1>2
<1>4. rest[1] = steps[i]
  <2>1. 1 \in 1..Len(rest) /\ i + 1 - 1 = i
    BY <1>1, <1>2
  <2>2. QED
    BY <1>1, <2>1
<1>5. ASSUME i < n PROVE OnList(Tail(rest), steps, i + 1)
  <2>1. i + 1 \in 1..n
    BY <1>1, <1>5
  <2>2. /\ Tail(rest) \in Seq(BarStep)
        /\ Len(Tail(rest)) = Len(rest) - 1
        /\ \A j \in 1..Len(rest) - 1 : Tail(rest)[j] = rest[j + 1]
    BY <1>1, <1>3
  <2>3. Len(Tail(rest)) = n - (i + 1) + 1
    BY <1>1, <2>2
  <2>4. ASSUME NEW j \in 1..Len(Tail(rest)) PROVE Tail(rest)[j] = steps[(i + 1) + j - 1]
    <3>1. j \in 1..Len(rest) - 1 /\ j + 1 \in 1..Len(rest) /\ i + (j + 1) - 1 = (i + 1) + j - 1
      BY <1>1, <1>2, <2>2
    <3>2. QED
      BY <1>1, <2>2, <3>1
  <2>5. QED
    BY <2>1, <2>2, <2>3, <2>4 DEF OnList
<1>6. QED
  BY <1>1, <1>3, <1>4, <1>5

LEMMA ListStart ==
  ASSUME NEW steps \in Seq(BarStep), Len(steps) >= 1
  PROVE  OnList(steps, steps, 1)
<1>1. Len(steps) \in Nat /\ \A j \in 1..Len(steps) : 1 + j - 1 = j
  OBVIOUS
<1>2. QED
  BY <1>1 DEF OnList

\* A step is what it does and to which dword.
Is(s, op, d) == s.op = op /\ s.dword = d

LEMMA StepIs ==
  /\ \A op, d : Is(Bar!At(op, d), op, d)
  /\ \A op : Is(Bar!Do(op), op, 0)
BY DEF Is, Bar!At, Bar!Do

LEMMA AssignRows ==
  /\ Bar!Steps["assign"] \in Seq(BarStep) /\ Len(Bar!Steps["assign"]) = 12
  /\ Is(Bar!Steps["assign"][1], "readCommand", 0)
  /\ Is(Bar!Steps["assign"][2], "readBar", 0)
  /\ Is(Bar!Steps["assign"][3], "quiesce", 0)
  /\ Is(Bar!Steps["assign"][4], "admit", 0)
  /\ Is(Bar!Steps["assign"][5], "ones", 0)
  /\ Is(Bar!Steps["assign"][6], "readMask", 0)
  /\ Is(Bar!Steps["assign"][7], "putBack", 0)
  /\ Is(Bar!Steps["assign"][8], "touch", 0)
  /\ Is(Bar!Steps["assign"][9], "accept", 0)
  /\ Is(Bar!Steps["assign"][10], "program", 0)
  /\ Is(Bar!Steps["assign"][11], "readBack", 0)
  /\ Is(Bar!Steps["assign"][12], "succeed", 0)
<1>1. Bar!Steps["assign"] = Bar!AssignSteps
  BY DEF Bar!Steps
<1>2. Len(Bar!AssignSteps) = 12
  BY DEF Bar!AssignSteps
<1>6. /\ Bar!Do("readCommand") \in BarStep
      /\ Bar!At("readBar", 0) \in BarStep
      /\ Bar!Do("quiesce") \in BarStep
      /\ Bar!Do("admit") \in BarStep
      /\ Bar!At("ones", 0) \in BarStep
      /\ Bar!At("readMask", 0) \in BarStep
      /\ Bar!At("putBack", 0) \in BarStep
      /\ Bar!Do("touch") \in BarStep
      /\ Bar!Do("accept") \in BarStep
      /\ Bar!At("program", 0) \in BarStep
      /\ Bar!At("readBack", 0) \in BarStep
      /\ Bar!Do("succeed") \in BarStep
  BY DEF BarStep, BarOps, Bar!MainAccess, Bar!At, Bar!Do
<1>5. Bar!AssignSteps \in Seq(BarStep)
  BY <1>6 DEF Bar!AssignSteps
<1>3. /\ Bar!AssignSteps[1] = Bar!Do("readCommand")
      /\ Bar!AssignSteps[2] = Bar!At("readBar", 0)
      /\ Bar!AssignSteps[3] = Bar!Do("quiesce")
      /\ Bar!AssignSteps[4] = Bar!Do("admit")
      /\ Bar!AssignSteps[5] = Bar!At("ones", 0)
      /\ Bar!AssignSteps[6] = Bar!At("readMask", 0)
      /\ Bar!AssignSteps[7] = Bar!At("putBack", 0)
      /\ Bar!AssignSteps[8] = Bar!Do("touch")
      /\ Bar!AssignSteps[9] = Bar!Do("accept")
      /\ Bar!AssignSteps[10] = Bar!At("program", 0)
      /\ Bar!AssignSteps[11] = Bar!At("readBack", 0)
      /\ Bar!AssignSteps[12] = Bar!Do("succeed")
  BY DEF Bar!AssignSteps
<1>4. QED
  BY <1>1, <1>2, <1>3, <1>5, StepIs

LEMMA Range32Rows ==
  /\ Bar!Steps["range32"] \in Seq(BarStep) /\ Len(Bar!Steps["range32"]) = 11
  /\ Is(Bar!Steps["range32"][1], "readCommand", 0)
  /\ Is(Bar!Steps["range32"][2], "readBar", 0)
  /\ Is(Bar!Steps["range32"][3], "admit", 0)
  /\ Is(Bar!Steps["range32"][4], "quiesce", 0)
  /\ Is(Bar!Steps["range32"][5], "ones", 0)
  /\ Is(Bar!Steps["range32"][6], "touch", 0)
  /\ Is(Bar!Steps["range32"][7], "readMask", 0)
  /\ Is(Bar!Steps["range32"][8], "putBack", 0)
  /\ Is(Bar!Steps["range32"][9], "verify", 0)
  /\ Is(Bar!Steps["range32"][10], "accept", 0)
  /\ Is(Bar!Steps["range32"][11], "succeed", 0)
<1>1. Bar!Steps["range32"] = Bar!Range32Steps
  BY DEF Bar!Steps
<1>2. Len(Bar!Range32Steps) = 11
  BY DEF Bar!Range32Steps
<1>6. /\ Bar!Do("readCommand") \in BarStep
      /\ Bar!At("readBar", 0) \in BarStep
      /\ Bar!Do("admit") \in BarStep
      /\ Bar!Do("quiesce") \in BarStep
      /\ Bar!At("ones", 0) \in BarStep
      /\ Bar!Do("touch") \in BarStep
      /\ Bar!At("readMask", 0) \in BarStep
      /\ Bar!At("putBack", 0) \in BarStep
      /\ Bar!At("verify", 0) \in BarStep
      /\ Bar!Do("accept") \in BarStep
      /\ Bar!Do("succeed") \in BarStep
  BY DEF BarStep, BarOps, Bar!MainAccess, Bar!At, Bar!Do
<1>5. Bar!Range32Steps \in Seq(BarStep)
  BY <1>6 DEF Bar!Range32Steps
<1>3. /\ Bar!Range32Steps[1] = Bar!Do("readCommand")
      /\ Bar!Range32Steps[2] = Bar!At("readBar", 0)
      /\ Bar!Range32Steps[3] = Bar!Do("admit")
      /\ Bar!Range32Steps[4] = Bar!Do("quiesce")
      /\ Bar!Range32Steps[5] = Bar!At("ones", 0)
      /\ Bar!Range32Steps[6] = Bar!Do("touch")
      /\ Bar!Range32Steps[7] = Bar!At("readMask", 0)
      /\ Bar!Range32Steps[8] = Bar!At("putBack", 0)
      /\ Bar!Range32Steps[9] = Bar!At("verify", 0)
      /\ Bar!Range32Steps[10] = Bar!Do("accept")
      /\ Bar!Range32Steps[11] = Bar!Do("succeed")
  BY DEF Bar!Range32Steps
<1>4. QED
  BY <1>1, <1>2, <1>3, <1>5, StepIs

LEMMA Range64Rows ==
  /\ Bar!Steps["range64"] \in Seq(BarStep) /\ Len(Bar!Steps["range64"]) = 16
  /\ Is(Bar!Steps["range64"][1], "readCommand", 0)
  /\ Is(Bar!Steps["range64"][2], "readBar", 0)
  /\ Is(Bar!Steps["range64"][3], "readBar", 1)
  /\ Is(Bar!Steps["range64"][4], "admit", 0)
  /\ Is(Bar!Steps["range64"][5], "quiesce", 0)
  /\ Is(Bar!Steps["range64"][6], "ones", 0)
  /\ Is(Bar!Steps["range64"][7], "touch", 0)
  /\ Is(Bar!Steps["range64"][8], "ones", 1)
  /\ Is(Bar!Steps["range64"][9], "readMask", 0)
  /\ Is(Bar!Steps["range64"][10], "readMask", 1)
  /\ Is(Bar!Steps["range64"][11], "putBack", 1)
  /\ Is(Bar!Steps["range64"][12], "putBack", 0)
  /\ Is(Bar!Steps["range64"][13], "verify", 0)
  /\ Is(Bar!Steps["range64"][14], "verify", 1)
  /\ Is(Bar!Steps["range64"][15], "accept", 0)
  /\ Is(Bar!Steps["range64"][16], "succeed", 0)
<1>1. Bar!Steps["range64"] = Bar!Range64Steps
  BY DEF Bar!Steps
<1>2. Len(Bar!Range64Steps) = 16
  BY DEF Bar!Range64Steps
<1>6. /\ Bar!Do("readCommand") \in BarStep
      /\ Bar!At("readBar", 0) \in BarStep
      /\ Bar!At("readBar", 1) \in BarStep
      /\ Bar!Do("admit") \in BarStep
      /\ Bar!Do("quiesce") \in BarStep
      /\ Bar!At("ones", 0) \in BarStep
      /\ Bar!Do("touch") \in BarStep
      /\ Bar!At("ones", 1) \in BarStep
      /\ Bar!At("readMask", 0) \in BarStep
      /\ Bar!At("readMask", 1) \in BarStep
      /\ Bar!At("putBack", 1) \in BarStep
      /\ Bar!At("putBack", 0) \in BarStep
      /\ Bar!At("verify", 0) \in BarStep
      /\ Bar!At("verify", 1) \in BarStep
      /\ Bar!Do("accept") \in BarStep
      /\ Bar!Do("succeed") \in BarStep
  BY DEF BarStep, BarOps, Bar!MainAccess, Bar!At, Bar!Do
<1>5. Bar!Range64Steps \in Seq(BarStep)
  BY <1>6 DEF Bar!Range64Steps
<1>3. /\ Bar!Range64Steps[1] = Bar!Do("readCommand")
      /\ Bar!Range64Steps[2] = Bar!At("readBar", 0)
      /\ Bar!Range64Steps[3] = Bar!At("readBar", 1)
      /\ Bar!Range64Steps[4] = Bar!Do("admit")
      /\ Bar!Range64Steps[5] = Bar!Do("quiesce")
      /\ Bar!Range64Steps[6] = Bar!At("ones", 0)
      /\ Bar!Range64Steps[7] = Bar!Do("touch")
      /\ Bar!Range64Steps[8] = Bar!At("ones", 1)
      /\ Bar!Range64Steps[9] = Bar!At("readMask", 0)
      /\ Bar!Range64Steps[10] = Bar!At("readMask", 1)
      /\ Bar!Range64Steps[11] = Bar!At("putBack", 1)
      /\ Bar!Range64Steps[12] = Bar!At("putBack", 0)
      /\ Bar!Range64Steps[13] = Bar!At("verify", 0)
      /\ Bar!Range64Steps[14] = Bar!At("verify", 1)
      /\ Bar!Range64Steps[15] = Bar!Do("accept")
      /\ Bar!Range64Steps[16] = Bar!Do("succeed")
  BY DEF Bar!Range64Steps
<1>4. QED
  BY <1>1, <1>2, <1>3, <1>5, StepIs

LEMMA N1Rows ==
  /\ Bar!Steps["n1"] \in Seq(BarStep) /\ Len(Bar!Steps["n1"]) = 13
  /\ Is(Bar!Steps["n1"][1], "identify", 0)
  /\ Is(Bar!Steps["n1"][2], "readCommand", 0)
  /\ Is(Bar!Steps["n1"][3], "readBar", 0)
  /\ Is(Bar!Steps["n1"][4], "admit", 0)
  /\ Is(Bar!Steps["n1"][5], "quiesce", 0)
  /\ Is(Bar!Steps["n1"][6], "ones", 0)
  /\ Is(Bar!Steps["n1"][7], "touch", 0)
  /\ Is(Bar!Steps["n1"][8], "readMask", 0)
  /\ Is(Bar!Steps["n1"][9], "putBack", 0)
  /\ Is(Bar!Steps["n1"][10], "verify", 0)
  /\ Is(Bar!Steps["n1"][11], "untouch", 0)
  /\ Is(Bar!Steps["n1"][12], "accept", 0)
  /\ Is(Bar!Steps["n1"][13], "succeed", 0)
<1>1. Bar!Steps["n1"] = Bar!N1Steps
  BY DEF Bar!Steps
<1>2. Len(Bar!N1Steps) = 13
  BY DEF Bar!N1Steps
<1>6. /\ Bar!Do("identify") \in BarStep
      /\ Bar!Do("readCommand") \in BarStep
      /\ Bar!At("readBar", 0) \in BarStep
      /\ Bar!Do("admit") \in BarStep
      /\ Bar!Do("quiesce") \in BarStep
      /\ Bar!At("ones", 0) \in BarStep
      /\ Bar!Do("touch") \in BarStep
      /\ Bar!At("readMask", 0) \in BarStep
      /\ Bar!At("putBack", 0) \in BarStep
      /\ Bar!At("verify", 0) \in BarStep
      /\ Bar!Do("untouch") \in BarStep
      /\ Bar!Do("accept") \in BarStep
      /\ Bar!Do("succeed") \in BarStep
  BY DEF BarStep, BarOps, Bar!MainAccess, Bar!At, Bar!Do
<1>5. Bar!N1Steps \in Seq(BarStep)
  BY <1>6 DEF Bar!N1Steps
<1>3. /\ Bar!N1Steps[1] = Bar!Do("identify")
      /\ Bar!N1Steps[2] = Bar!Do("readCommand")
      /\ Bar!N1Steps[3] = Bar!At("readBar", 0)
      /\ Bar!N1Steps[4] = Bar!Do("admit")
      /\ Bar!N1Steps[5] = Bar!Do("quiesce")
      /\ Bar!N1Steps[6] = Bar!At("ones", 0)
      /\ Bar!N1Steps[7] = Bar!Do("touch")
      /\ Bar!N1Steps[8] = Bar!At("readMask", 0)
      /\ Bar!N1Steps[9] = Bar!At("putBack", 0)
      /\ Bar!N1Steps[10] = Bar!At("verify", 0)
      /\ Bar!N1Steps[11] = Bar!Do("untouch")
      /\ Bar!N1Steps[12] = Bar!Do("accept")
      /\ Bar!N1Steps[13] = Bar!Do("succeed")
  BY DEF Bar!N1Steps
<1>4. QED
  BY <1>1, <1>2, <1>3, <1>5, StepIs

LEMMA Places ==
  /\ kind = "assign" =>
       /\ IdentifyAt = 20 /\ CommandAt = 1 /\ BarAt0 = 2 /\ BarAt1 = 20
       /\ AdmitAt = 4 /\ QuiesceAt = 3 /\ OnesAt0 = 5 /\ OnesAt1 = 20
       /\ TouchAt = 8 /\ MaskAt0 = 6 /\ MaskAt1 = 20 /\ PutAt0 = 7
       /\ PutAt1 = 20 /\ VerifyAt0 = 20 /\ VerifyAt1 = 20 /\ UntouchAt = 20
       /\ AcceptAt = 9 /\ ProgramAt = 10 /\ ReadBackAt = 11
       /\ SucceedAt = 12
  /\ kind = "range32" =>
       /\ IdentifyAt = 20 /\ CommandAt = 1 /\ BarAt0 = 2 /\ BarAt1 = 20
       /\ AdmitAt = 3 /\ QuiesceAt = 4 /\ OnesAt0 = 5 /\ OnesAt1 = 20
       /\ TouchAt = 6 /\ MaskAt0 = 7 /\ MaskAt1 = 20 /\ PutAt0 = 8
       /\ PutAt1 = 20 /\ VerifyAt0 = 9 /\ VerifyAt1 = 20 /\ UntouchAt = 20
       /\ AcceptAt = 10 /\ ProgramAt = 20 /\ ReadBackAt = 20
       /\ SucceedAt = 11
  /\ kind = "range64" =>
       /\ IdentifyAt = 20 /\ CommandAt = 1 /\ BarAt0 = 2 /\ BarAt1 = 3
       /\ AdmitAt = 4 /\ QuiesceAt = 5 /\ OnesAt0 = 6 /\ OnesAt1 = 8
       /\ TouchAt = 7 /\ MaskAt0 = 9 /\ MaskAt1 = 10 /\ PutAt0 = 12
       /\ PutAt1 = 11 /\ VerifyAt0 = 13 /\ VerifyAt1 = 14 /\ UntouchAt = 20
       /\ AcceptAt = 15 /\ ProgramAt = 20 /\ ReadBackAt = 20
       /\ SucceedAt = 16
  /\ kind = "n1" =>
       /\ IdentifyAt = 1 /\ CommandAt = 2 /\ BarAt0 = 3 /\ BarAt1 = 20
       /\ AdmitAt = 4 /\ QuiesceAt = 5 /\ OnesAt0 = 6 /\ OnesAt1 = 20
       /\ TouchAt = 7 /\ MaskAt0 = 8 /\ MaskAt1 = 20 /\ PutAt0 = 9
       /\ PutAt1 = 20 /\ VerifyAt0 = 10 /\ VerifyAt1 = 20 /\ UntouchAt = 11
       /\ AcceptAt = 12 /\ ProgramAt = 20 /\ ReadBackAt = 20
       /\ SucceedAt = 13
BY DEF Place, IdentifyAt, CommandAt, BarAt0, BarAt1, AdmitAt, QuiesceAt, OnesAt0, OnesAt1,
   TouchAt, MaskAt0, MaskAt1, PutAt0, PutAt1, VerifyAt0, VerifyAt1, UntouchAt, AcceptAt,
     ProgramAt, ReadBackAt, SucceedAt

\* The step at a place, and the place of a step
Found(s, i) ==
  /\ s.op = "identify" => i = IdentifyAt /\ s.dword = 0
  /\ s.op = "readCommand" => i = CommandAt /\ s.dword = 0
  /\ s.op = "readBar" => (s.dword = 0 /\ i = BarAt0) \/ (s.dword = 1 /\ i = BarAt1)
  /\ s.op = "admit" => i = AdmitAt /\ s.dword = 0
  /\ s.op = "quiesce" => i = QuiesceAt /\ s.dword = 0
  /\ s.op = "ones" => (s.dword = 0 /\ i = OnesAt0) \/ (s.dword = 1 /\ i = OnesAt1)
  /\ s.op = "touch" => i = TouchAt /\ s.dword = 0
  /\ s.op = "readMask" => (s.dword = 0 /\ i = MaskAt0) \/ (s.dword = 1 /\ i = MaskAt1)
  /\ s.op = "putBack" => (s.dword = 0 /\ i = PutAt0) \/ (s.dword = 1 /\ i = PutAt1)
  /\ s.op = "verify" => (s.dword = 0 /\ i = VerifyAt0) \/ (s.dword = 1 /\ i = VerifyAt1)
  /\ s.op = "untouch" => i = UntouchAt /\ s.dword = 0
  /\ s.op = "accept" => i = AcceptAt /\ s.dword = 0
  /\ s.op = "program" => i = ProgramAt /\ s.dword = 0
  /\ s.op = "readBack" => i = ReadBackAt /\ s.dword = 0
  /\ s.op = "succeed" => i = SucceedAt /\ s.dword = 0
  /\ s.op \in Bar!MainAccess \cup {"admit", "touch", "untouch", "accept", "succeed"}

LEMMA FoundBy ==
  ASSUME NEW s
  PROVE  /\ Is(s, "identify", 0) => Found(s, IdentifyAt)
         /\ Is(s, "readCommand", 0) => Found(s, CommandAt)
         /\ Is(s, "readBar", 0) => Found(s, BarAt0)
         /\ Is(s, "readBar", 1) => Found(s, BarAt1)
         /\ Is(s, "admit", 0) => Found(s, AdmitAt)
         /\ Is(s, "quiesce", 0) => Found(s, QuiesceAt)
         /\ Is(s, "ones", 0) => Found(s, OnesAt0)
         /\ Is(s, "ones", 1) => Found(s, OnesAt1)
         /\ Is(s, "touch", 0) => Found(s, TouchAt)
         /\ Is(s, "readMask", 0) => Found(s, MaskAt0)
         /\ Is(s, "readMask", 1) => Found(s, MaskAt1)
         /\ Is(s, "putBack", 0) => Found(s, PutAt0)
         /\ Is(s, "putBack", 1) => Found(s, PutAt1)
         /\ Is(s, "verify", 0) => Found(s, VerifyAt0)
         /\ Is(s, "verify", 1) => Found(s, VerifyAt1)
         /\ Is(s, "untouch", 0) => Found(s, UntouchAt)
         /\ Is(s, "accept", 0) => Found(s, AcceptAt)
         /\ Is(s, "program", 0) => Found(s, ProgramAt)
         /\ Is(s, "readBack", 0) => Found(s, ReadBackAt)
         /\ Is(s, "succeed", 0) => Found(s, SucceedAt)
BY DEF Found, Is, Bar!MainAccess

LEMMA AssignFound ==
  ASSUME kind = "assign", NEW i \in 1..12
  PROVE  Found(Bar!Steps[kind][i], i)
<1>1. i \in {1, 2, 3, 4, 5, 6, 7, 8, 9, 10, 11, 12}
  OBVIOUS
<1>2. /\ Found(Bar!Steps["assign"][1], CommandAt)
      /\ Found(Bar!Steps["assign"][2], BarAt0)
      /\ Found(Bar!Steps["assign"][3], QuiesceAt)
      /\ Found(Bar!Steps["assign"][4], AdmitAt)
      /\ Found(Bar!Steps["assign"][5], OnesAt0)
      /\ Found(Bar!Steps["assign"][6], MaskAt0)
      /\ Found(Bar!Steps["assign"][7], PutAt0)
      /\ Found(Bar!Steps["assign"][8], TouchAt)
      /\ Found(Bar!Steps["assign"][9], AcceptAt)
      /\ Found(Bar!Steps["assign"][10], ProgramAt)
      /\ Found(Bar!Steps["assign"][11], ReadBackAt)
      /\ Found(Bar!Steps["assign"][12], SucceedAt)
  BY AssignRows, FoundBy
<1>3. /\ Found(Bar!Steps["assign"][1], 1)
      /\ Found(Bar!Steps["assign"][2], 2)
      /\ Found(Bar!Steps["assign"][3], 3)
      /\ Found(Bar!Steps["assign"][4], 4)
      /\ Found(Bar!Steps["assign"][5], 5)
      /\ Found(Bar!Steps["assign"][6], 6)
      /\ Found(Bar!Steps["assign"][7], 7)
      /\ Found(Bar!Steps["assign"][8], 8)
      /\ Found(Bar!Steps["assign"][9], 9)
      /\ Found(Bar!Steps["assign"][10], 10)
      /\ Found(Bar!Steps["assign"][11], 11)
      /\ Found(Bar!Steps["assign"][12], 12)
  BY <1>2, Places
<1>4. QED
  BY <1>1, <1>3

LEMMA Range32Found ==
  ASSUME kind = "range32", NEW i \in 1..11
  PROVE  Found(Bar!Steps[kind][i], i)
<1>1. i \in {1, 2, 3, 4, 5, 6, 7, 8, 9, 10, 11}
  OBVIOUS
<1>2. /\ Found(Bar!Steps["range32"][1], CommandAt)
      /\ Found(Bar!Steps["range32"][2], BarAt0)
      /\ Found(Bar!Steps["range32"][3], AdmitAt)
      /\ Found(Bar!Steps["range32"][4], QuiesceAt)
      /\ Found(Bar!Steps["range32"][5], OnesAt0)
      /\ Found(Bar!Steps["range32"][6], TouchAt)
      /\ Found(Bar!Steps["range32"][7], MaskAt0)
      /\ Found(Bar!Steps["range32"][8], PutAt0)
      /\ Found(Bar!Steps["range32"][9], VerifyAt0)
      /\ Found(Bar!Steps["range32"][10], AcceptAt)
      /\ Found(Bar!Steps["range32"][11], SucceedAt)
  BY Range32Rows, FoundBy
<1>3. /\ Found(Bar!Steps["range32"][1], 1)
      /\ Found(Bar!Steps["range32"][2], 2)
      /\ Found(Bar!Steps["range32"][3], 3)
      /\ Found(Bar!Steps["range32"][4], 4)
      /\ Found(Bar!Steps["range32"][5], 5)
      /\ Found(Bar!Steps["range32"][6], 6)
      /\ Found(Bar!Steps["range32"][7], 7)
      /\ Found(Bar!Steps["range32"][8], 8)
      /\ Found(Bar!Steps["range32"][9], 9)
      /\ Found(Bar!Steps["range32"][10], 10)
      /\ Found(Bar!Steps["range32"][11], 11)
  BY <1>2, Places
<1>4. QED
  BY <1>1, <1>3

LEMMA Range64Found ==
  ASSUME kind = "range64", NEW i \in 1..16
  PROVE  Found(Bar!Steps[kind][i], i)
<1>1. i \in {1, 2, 3, 4, 5, 6, 7, 8, 9, 10, 11, 12, 13, 14, 15, 16}
  OBVIOUS
<1>2. /\ Found(Bar!Steps["range64"][1], CommandAt)
      /\ Found(Bar!Steps["range64"][2], BarAt0)
      /\ Found(Bar!Steps["range64"][3], BarAt1)
      /\ Found(Bar!Steps["range64"][4], AdmitAt)
      /\ Found(Bar!Steps["range64"][5], QuiesceAt)
      /\ Found(Bar!Steps["range64"][6], OnesAt0)
      /\ Found(Bar!Steps["range64"][7], TouchAt)
      /\ Found(Bar!Steps["range64"][8], OnesAt1)
      /\ Found(Bar!Steps["range64"][9], MaskAt0)
      /\ Found(Bar!Steps["range64"][10], MaskAt1)
      /\ Found(Bar!Steps["range64"][11], PutAt1)
      /\ Found(Bar!Steps["range64"][12], PutAt0)
      /\ Found(Bar!Steps["range64"][13], VerifyAt0)
      /\ Found(Bar!Steps["range64"][14], VerifyAt1)
      /\ Found(Bar!Steps["range64"][15], AcceptAt)
      /\ Found(Bar!Steps["range64"][16], SucceedAt)
  BY Range64Rows, FoundBy
<1>3. /\ Found(Bar!Steps["range64"][1], 1)
      /\ Found(Bar!Steps["range64"][2], 2)
      /\ Found(Bar!Steps["range64"][3], 3)
      /\ Found(Bar!Steps["range64"][4], 4)
      /\ Found(Bar!Steps["range64"][5], 5)
      /\ Found(Bar!Steps["range64"][6], 6)
      /\ Found(Bar!Steps["range64"][7], 7)
      /\ Found(Bar!Steps["range64"][8], 8)
      /\ Found(Bar!Steps["range64"][9], 9)
      /\ Found(Bar!Steps["range64"][10], 10)
      /\ Found(Bar!Steps["range64"][11], 11)
      /\ Found(Bar!Steps["range64"][12], 12)
      /\ Found(Bar!Steps["range64"][13], 13)
      /\ Found(Bar!Steps["range64"][14], 14)
      /\ Found(Bar!Steps["range64"][15], 15)
      /\ Found(Bar!Steps["range64"][16], 16)
  BY <1>2, Places
<1>4. QED
  BY <1>1, <1>3

LEMMA N1Found ==
  ASSUME kind = "n1", NEW i \in 1..13
  PROVE  Found(Bar!Steps[kind][i], i)
<1>1. i \in {1, 2, 3, 4, 5, 6, 7, 8, 9, 10, 11, 12, 13}
  OBVIOUS
<1>2. /\ Found(Bar!Steps["n1"][1], IdentifyAt)
      /\ Found(Bar!Steps["n1"][2], CommandAt)
      /\ Found(Bar!Steps["n1"][3], BarAt0)
      /\ Found(Bar!Steps["n1"][4], AdmitAt)
      /\ Found(Bar!Steps["n1"][5], QuiesceAt)
      /\ Found(Bar!Steps["n1"][6], OnesAt0)
      /\ Found(Bar!Steps["n1"][7], TouchAt)
      /\ Found(Bar!Steps["n1"][8], MaskAt0)
      /\ Found(Bar!Steps["n1"][9], PutAt0)
      /\ Found(Bar!Steps["n1"][10], VerifyAt0)
      /\ Found(Bar!Steps["n1"][11], UntouchAt)
      /\ Found(Bar!Steps["n1"][12], AcceptAt)
      /\ Found(Bar!Steps["n1"][13], SucceedAt)
  BY N1Rows, FoundBy
<1>3. /\ Found(Bar!Steps["n1"][1], 1)
      /\ Found(Bar!Steps["n1"][2], 2)
      /\ Found(Bar!Steps["n1"][3], 3)
      /\ Found(Bar!Steps["n1"][4], 4)
      /\ Found(Bar!Steps["n1"][5], 5)
      /\ Found(Bar!Steps["n1"][6], 6)
      /\ Found(Bar!Steps["n1"][7], 7)
      /\ Found(Bar!Steps["n1"][8], 8)
      /\ Found(Bar!Steps["n1"][9], 9)
      /\ Found(Bar!Steps["n1"][10], 10)
      /\ Found(Bar!Steps["n1"][11], 11)
      /\ Found(Bar!Steps["n1"][12], 12)
      /\ Found(Bar!Steps["n1"][13], 13)
  BY <1>2, Places
<1>4. QED
  BY <1>1, <1>3

LEMMA ListLengths ==
  ASSUME kind \in Bar!Transactions
  PROVE  /\ Len(Bar!Steps[kind]) = SucceedAt /\ SucceedAt \in 11..16
         /\ Bar!Steps[kind] \in Seq(BarStep)
<1>1. kind \in {"assign", "range32", "range64", "n1"}
  BY DEF Bar!Transactions
<1>2. CASE kind = "assign"
  BY <1>2, Places, AssignRows
<1>3. CASE kind = "range32"
  BY <1>3, Places, Range32Rows
<1>4. CASE kind = "range64"
  BY <1>4, Places, Range64Rows
<1>5. CASE kind = "n1"
  BY <1>5, Places, N1Rows
<1>6. QED
  BY <1>1, <1>2, <1>3, <1>4, <1>5

(* Where root is in its list.                                              *)
LEMMA Where ==
  ASSUME kind \in Bar!Transactions, NEW i, OnList(barTodo, Bar!Steps[kind], i)
  PROVE  /\ i \in 1..SucceedAt /\ SucceedAt \in 11..16 /\ barTodo # <<>>
         /\ Found(Head(barTodo), i)
         /\ i < SucceedAt => OnList(Tail(barTodo), Bar!Steps[kind], i + 1)
<1>1. kind \in {"assign", "range32", "range64", "n1"}
  BY DEF Bar!Transactions
<1>2. Len(Bar!Steps[kind]) = SucceedAt /\ SucceedAt \in 11..16
  BY ListLengths
<1>3. SucceedAt \in Nat
  BY <1>2
<1>4. /\ i \in 1..SucceedAt /\ barTodo # <<>> /\ Head(barTodo) = Bar!Steps[kind][i]
      /\ i < SucceedAt => OnList(Tail(barTodo), Bar!Steps[kind], i + 1)
  BY <1>2, <1>3, ListHead
<1>5. Found(Bar!Steps[kind][i], i)
  BY <1>1, <1>4, Places, AssignFound, Range32Found, Range64Found, N1Found
<1>6. QED
  BY <1>2, <1>4, <1>5

-----------------------------------------------------------------------------
(* What a transaction does at its label out: the rest of one list, from    *)
(* where its flags say.  0 is nowhere.                                     *)
UndoAt0         == Place(1, 1, 2, 1)
UndoAt1         == Place(0, 0, 1, 0)
VerifyUndoAt    == Place(0, 0, 0, 2)
CommandUndoAt   == Place(2, 2, 3, 3)
CommandVerifyAt == Place(0, 0, 0, 4)
ReturnAt        == Place(3, 3, 4, 5)

ExitShort == <<Bar!At("undoBar", 0), Bar!Do("undoCommand"), Bar!Do("return")>>
Exit64 == <<Bar!At("undoBar", 1), Bar!At("undoBar", 0), Bar!Do("undoCommand"),
  Bar!Do("return")>>
ExitN1 == <<Bar!At("undoBar", 0), Bar!At("undoVerify", 0), Bar!Do("undoCommand"),
            Bar!Do("undoVerifyCommand"), Bar!Do("return")>>
Exits == IF kind = "range64" THEN Exit64 ELSE IF kind = "n1" THEN ExitN1 ELSE ExitShort

Undoes(f) == "touched" \in f /\ (kind \in {"assign", "range32"} => "success" \notin f)
OutAt(f) == IF Undoes(f) THEN 1 ELSE IF "quiesced" \in f THEN CommandUndoAt ELSE ReturnAt

LEMMA ExitPlaces ==
  /\ kind \in {"assign", "range32"} =>
       /\ UndoAt0 = 1 /\ UndoAt1 = 0 /\ VerifyUndoAt = 0 /\ CommandUndoAt = 2
       /\ CommandVerifyAt = 0 /\ ReturnAt = 3
  /\ kind = "range64" =>
       /\ UndoAt0 = 2 /\ UndoAt1 = 1 /\ VerifyUndoAt = 0 /\ CommandUndoAt = 3
       /\ CommandVerifyAt = 0 /\ ReturnAt = 4
  /\ kind = "n1" =>
       /\ UndoAt0 = 1 /\ UndoAt1 = 0 /\ VerifyUndoAt = 2 /\ CommandUndoAt = 3
       /\ CommandVerifyAt = 4 /\ ReturnAt = 5
BY DEF Place, UndoAt0, UndoAt1, VerifyUndoAt, CommandUndoAt, CommandVerifyAt, ReturnAt

LEMMA ExitSteps ==
  /\ Bar!At("undoBar", 0) \in BarStep /\ Bar!At("undoBar", 1) \in BarStep
  /\ Bar!At("undoVerify", 0) \in BarStep /\ Bar!Do("undoCommand") \in BarStep
  /\ Bar!Do("undoVerifyCommand") \in BarStep /\ Bar!Do("return") \in BarStep
BY DEF BarStep, BarOps, Bar!UndoAccess, Bar!At, Bar!Do

\* A list of at most five steps is the rest of another from a place on if it has
\* that length and those steps.
LEMMA Joined ==
  ASSUME NEW p \in Seq(BarStep), NEW q \in Seq(BarStep), NEW r \in BarStep
  PROVE  /\ p \o q \o <<r>> \in Seq(BarStep)
         /\ Len(p \o q \o <<r>>) = Len(p) + Len(q) + 1
         /\ \A k \in 1..Len(p) : (p \o q \o <<r>>)[k] = p[k]
         /\ \A k \in 1..Len(q) : (p \o q \o <<r>>)[Len(p) + k] = q[k]
         /\ (p \o q \o <<r>>)[Len(p) + Len(q) + 1] = r
<1> DEFINE s == p \o q
           t == s \o <<r>>
<1>1. /\ s \in Seq(BarStep) /\ Len(s) = Len(p) + Len(q)
      /\ \A k \in 1..Len(p) : s[k] = p[k]
      /\ \A k \in 1..Len(q) : s[Len(p) + k] = q[k]
      /\ Len(p) \in Nat /\ Len(q) \in Nat
  OBVIOUS
<1> HIDE DEF s
<1>2. /\ t \in Seq(BarStep) /\ Len(t) = Len(s) + 1
      /\ \A k \in 1..Len(s) : t[k] = s[k]
      /\ t[Len(s) + 1] = r
  BY <1>1
<1> HIDE DEF t
<1>3. \A k \in 1..Len(p) : k \in 1..Len(s)
  BY <1>1
<1>4. \A k \in 1..Len(q) : Len(p) + k \in 1..Len(s)
  BY <1>1
<1>5. /\ t \in Seq(BarStep) /\ Len(t) = Len(p) + Len(q) + 1
      /\ t[Len(p) + Len(q) + 1] = r
  BY <1>1, <1>2
<1>6. \A k \in 1..Len(p) : t[k] = p[k]
  BY <1>1, <1>2, <1>3
<1>7. \A k \in 1..Len(q) : t[Len(p) + k] = q[k]
  BY <1>1, <1>2, <1>4
<1>8. QED
  BY <1>5, <1>6, <1>7 DEF s, t

LEMMA ExitLists ==
  /\ ExitShort \in Seq(BarStep) /\ Len(ExitShort) = 3
  /\ ExitShort[1] = Bar!At("undoBar", 0) /\ ExitShort[2] = Bar!Do("undoCommand")
     /\ ExitShort[3] = Bar!Do("return")
  /\ Exit64 \in Seq(BarStep) /\ Len(Exit64) = 4
  /\ Exit64[1] = Bar!At("undoBar", 1) /\ Exit64[2] = Bar!At("undoBar", 0)
     /\ Exit64[3] = Bar!Do("undoCommand") /\ Exit64[4] = Bar!Do("return")
  /\ ExitN1 \in Seq(BarStep) /\ Len(ExitN1) = 5
  /\ ExitN1[1] = Bar!At("undoBar", 0) /\ ExitN1[2] = Bar!At("undoVerify", 0)
     /\ ExitN1[3] = Bar!Do("undoCommand") /\ ExitN1[4] = Bar!Do("undoVerifyCommand")
        /\ ExitN1[5] = Bar!Do("return")
<1>1. /\ ExitShort \in Seq(BarStep) /\ Len(ExitShort) = 3
      /\ ExitShort[1] = Bar!At("undoBar", 0)
      /\ ExitShort[2] = Bar!Do("undoCommand")
      /\ ExitShort[3] = Bar!Do("return")
  BY ExitSteps DEF ExitShort
<1>2. /\ Exit64 \in Seq(BarStep) /\ Len(Exit64) = 4
      /\ Exit64[1] = Bar!At("undoBar", 1)
      /\ Exit64[2] = Bar!At("undoBar", 0)
      /\ Exit64[3] = Bar!Do("undoCommand")
      /\ Exit64[4] = Bar!Do("return")
  BY ExitSteps DEF Exit64
<1>3. /\ ExitN1 \in Seq(BarStep) /\ Len(ExitN1) = 5
      /\ ExitN1[1] = Bar!At("undoBar", 0)
      /\ ExitN1[2] = Bar!At("undoVerify", 0)
      /\ ExitN1[3] = Bar!Do("undoCommand")
      /\ ExitN1[4] = Bar!Do("undoVerifyCommand")
      /\ ExitN1[5] = Bar!Do("return")
  BY ExitSteps DEF ExitN1
<1>4. QED
  BY <1>1, <1>2, <1>3

LEMMA ExitsAre ==
  /\ kind \in {"assign", "range32"} => Exits = ExitShort
  /\ kind = "range64" => Exits = Exit64
  /\ kind = "n1" => Exits = ExitN1
BY DEF Exits

\* What goes on at out, for each transaction
LEMMA OutsAre ==
  ASSUME NEW f
  PROVE  /\ kind \in {"assign", "range32"} =>
              Bar!OutBar(f) = IF Undoes(f) THEN <<Bar!At("undoBar", 0)>> ELSE <<>>
         /\ kind = "range64" =>
              Bar!OutBar(f) = IF Undoes(f) THEN <<Bar!At("undoBar", 1), Bar!At("undoBar", 0)>>
                                           ELSE <<>>
         /\ kind = "n1" =>
              Bar!OutBar(f) = IF Undoes(f)
                  THEN <<Bar!At("undoBar", 0), Bar!At("undoVerify", 0)>>
                                           ELSE <<>>
<1>1. ASSUME kind \in {"assign", "range32"}
      PROVE  Bar!OutBar(f) = IF Undoes(f) THEN <<Bar!At("undoBar", 0)>> ELSE <<>>
  BY <1>1, Zenon DEF Bar!OutBar, Undoes
<1>2. ASSUME kind = "range64"
      PROVE  Bar!OutBar(f) = IF Undoes(f) THEN <<Bar!At("undoBar", 1), Bar!At("undoBar", 0)>>
                                          ELSE <<>>
  <2>1. kind \notin {"assign", "range32"}
    BY <1>2
  <2>2. Bar!OutBar(f) = IF "touched" \in f
            THEN <<Bar!At("undoBar", 1), Bar!At("undoBar", 0)>> ELSE <<>>
    BY <1>2, <2>1, Zenon DEF Bar!OutBar
  <2>3. QED
    BY <2>1, <2>2 DEF Undoes
<1>3. ASSUME kind = "n1"
      PROVE  Bar!OutBar(f) = IF Undoes(f) THEN <<Bar!At("undoBar", 0), Bar!At("undoVerify", 0)>>
                                          ELSE <<>>
  <2>1. kind \notin {"assign", "range32"} /\ kind # "range64"
    BY <1>3
  <2>2. Bar!OutBar(f) = IF "touched" \in f
            THEN <<Bar!At("undoBar", 0), Bar!At("undoVerify", 0)>> ELSE <<>>
    BY <1>3, <2>1, Zenon DEF Bar!OutBar
  <2>3. QED
    BY <2>1, <2>2 DEF Undoes
<1>4. QED
  BY <1>1, <1>2, <1>3

LEMMA OutCommands ==
  ASSUME NEW f
  PROVE  Bar!OutCommand(f) =
           IF "quiesced" \notin f THEN <<>>
           ELSE IF kind = "n1" THEN <<Bar!Do("undoCommand"), Bar!Do("undoVerifyCommand")>>
           ELSE <<Bar!Do("undoCommand")>>
BY DEF Bar!OutCommand

\* A list that has the last steps of another, from one of them on
LEMMA Suffix ==
  ASSUME NEW steps \in Seq(BarStep), NEW i \in 1..Len(steps), NEW rest \in Seq(BarStep),
         Len(rest) = Len(steps) - i + 1,
         \A k \in 1..Len(rest) : rest[k] = steps[i + k - 1]
  PROVE  OnList(rest, steps, i)
BY DEF OnList

\* The lists at out by what goes before the return
LEMMA OutLists ==
  ASSUME NEW p \in Seq(BarStep), NEW q \in Seq(BarStep), NEW steps \in Seq(BarStep),
         NEW i \in 1..Len(steps), Len(p) + Len(q) + 1 = Len(steps) - i + 1,
         \A k \in 1..Len(p) : p[k] = steps[i + k - 1],
         \A k \in 1..Len(q) : q[k] = steps[i + Len(p) + k - 1],
         steps[Len(steps)] = Bar!Do("return")
  PROVE  OnList(p \o q \o <<Bar!Do("return")>>, steps, i)
<1> DEFINE r == Bar!Do("return")
<1>0. r \in BarStep
  BY ExitSteps
<1> HIDE DEF r
<1> DEFINE t == p \o q \o <<r>>
<1>1. /\ t \in Seq(BarStep) /\ Len(t) = Len(p) + Len(q) + 1
      /\ \A k \in 1..Len(p) : t[k] = p[k]
      /\ \A k \in 1..Len(q) : t[Len(p) + k] = q[k]
      /\ t[Len(p) + Len(q) + 1] = r
  BY <1>0, Joined
<1>2. Len(p) \in Nat /\ Len(q) \in Nat /\ Len(steps) \in Nat
  OBVIOUS
<1> HIDE DEF t
<1>3. ASSUME NEW k \in 1..Len(t) PROVE t[k] = steps[i + k - 1]
  <2>1. k \in Nat /\ 1 <= k /\ k <= Len(p) + Len(q) + 1
    BY <1>1, <1>2
  <2>2. CASE k <= Len(p)
    <3>1. k \in 1..Len(p)
      BY <1>2, <2>1, <2>2
    <3>2. QED
      BY <1>1, <3>1
  <2>3. CASE Len(p) < k /\ k <= Len(p) + Len(q)
    <3>1. k - Len(p) \in 1..Len(q) /\ Len(p) + (k - Len(p)) = k
          /\ i + Len(p) + (k - Len(p)) - 1 = i + k - 1
      BY <1>2, <2>1, <2>3
    <3>2. t[Len(p) + (k - Len(p))] = q[k - Len(p)]
          /\ q[k - Len(p)] = steps[i + Len(p) + (k - Len(p)) - 1]
      BY <1>1, <3>1
    <3>3. QED
      BY <3>1, <3>2
  <2>4. CASE k = Len(p) + Len(q) + 1
    <3>1. i + k - 1 = Len(steps)
      BY <1>2, <2>4
    <3>2. QED
      BY <1>1, <2>4, <3>1 DEF r
  <2>5. QED
    BY <1>2, <2>1, <2>2, <2>3, <2>4
<1>4. OnList(t, steps, i)
  BY <1>1, <1>2, <1>3, Suffix
<1>5. QED
  BY <1>4 DEF t, r

(* Where root goes out.                                                    *)
LEMMA BarOutIs ==
  ASSUME kind \in Bar!Transactions, NEW f, "touched" \in f => "quiesced" \in f
  PROVE  OnList(Bar!Out(f), Exits, OutAt(f))
<1> DEFINE b0 == Bar!At("undoBar", 0)   b1 == Bar!At("undoBar", 1)
           v == Bar!At("undoVerify", 0) c == Bar!Do("undoCommand")
           w == Bar!Do("undoVerifyCommand")
           r == Bar!Do("return")
<1>1. kind \in {"assign", "range32", "range64", "n1"}
  BY DEF Bar!Transactions
<1>2. Bar!Out(f) = Bar!OutBar(f) \o Bar!OutCommand(f) \o <<r>>
  BY DEF Bar!Out
<1>3. b0 \in BarStep /\ b1 \in BarStep /\ v \in BarStep /\ c \in BarStep /\ w \in BarStep
  BY ExitSteps
<1>4. Undoes(f) => "quiesced" \in f
  BY DEF Undoes
<1>5. OutAt(f) = IF Undoes(f) THEN 1 ELSE IF "quiesced" \in f THEN CommandUndoAt ELSE ReturnAt
  BY DEF OutAt
<1>6. CASE kind \in {"assign", "range32"}
  <2>1. Exits = ExitShort /\ CommandUndoAt = 2 /\ ReturnAt = 3
    BY <1>6, ExitsAre, ExitPlaces
  <2>2. /\ ExitShort \in Seq(BarStep) /\ Len(ExitShort) = 3
        /\ ExitShort[1] = b0 /\ ExitShort[2] = c /\ ExitShort[3] = r
    BY ExitLists
  <2>3. CASE Undoes(f)
    <3>1. Bar!OutBar(f) = <<b0>> /\ Bar!OutCommand(f) = <<c>> /\ OutAt(f) = 1
      BY <1>6, <1>4, <1>5, <2>1, <2>3, OutsAre, OutCommands
    <3> DEFINE p == <<b0>>
               q == <<c>>
    <3>2. /\ p \in Seq(BarStep) /\ q \in Seq(BarStep) /\ Len(p) = 1 /\ Len(q) = 1
          /\ p[1] = b0
          /\ q[1] = c
      BY <1>3
    <3> HIDE DEF p, q
    <3>3. \A k \in 1..Len(p) : p[k] = ExitShort[1 + k - 1]
      BY <2>2, <3>2
    <3>4. \A k \in 1..Len(q) : q[k] = ExitShort[1 + Len(p) + k - 1]
      BY <2>2, <3>2
    <3>5. 1 \in 1..Len(ExitShort) /\ Len(p) + Len(q) + 1 = Len(ExitShort) - 1 + 1
          /\ ExitShort[Len(ExitShort)] = r
      BY <2>2, <3>2
    <3>6. OnList(p \o q \o <<r>>, ExitShort, 1)
      BY <2>2, <3>2, <3>3, <3>4, <3>5, OutLists
    <3>7. QED
      BY <1>2, <2>1, <3>1, <3>6 DEF p, q
  <2>4. CASE ~Undoes(f) /\ "quiesced" \in f
    <3>1. Bar!OutBar(f) = <<>> /\ Bar!OutCommand(f) = <<c>> /\ OutAt(f) = 2
      BY <1>6, <1>4, <1>5, <2>1, <2>4, OutsAre, OutCommands
    <3> DEFINE p == <<>>
               q == <<c>>
    <3>2. /\ p \in Seq(BarStep) /\ q \in Seq(BarStep) /\ Len(p) = 0 /\ Len(q) = 1
          /\ q[1] = c
      BY <1>3
    <3> HIDE DEF p, q
    <3>3. \A k \in 1..Len(p) : p[k] = ExitShort[2 + k - 1]
      BY <2>2, <3>2
    <3>4. \A k \in 1..Len(q) : q[k] = ExitShort[2 + Len(p) + k - 1]
      BY <2>2, <3>2
    <3>5. 2 \in 1..Len(ExitShort) /\ Len(p) + Len(q) + 1 = Len(ExitShort) - 2 + 1
          /\ ExitShort[Len(ExitShort)] = r
      BY <2>2, <3>2
    <3>6. OnList(p \o q \o <<r>>, ExitShort, 2)
      BY <2>2, <3>2, <3>3, <3>4, <3>5, OutLists
    <3>7. QED
      BY <1>2, <2>1, <3>1, <3>6 DEF p, q
  <2>5. CASE ~Undoes(f) /\ "quiesced" \notin f
    <3>1. Bar!OutBar(f) = <<>> /\ Bar!OutCommand(f) = <<>> /\ OutAt(f) = 3
      BY <1>6, <1>4, <1>5, <2>1, <2>5, OutsAre, OutCommands
    <3> DEFINE p == <<>>
               q == <<>>
    <3>2. /\ p \in Seq(BarStep) /\ q \in Seq(BarStep) /\ Len(p) = 0 /\ Len(q) = 0
      BY <1>3
    <3> HIDE DEF p, q
    <3>3. \A k \in 1..Len(p) : p[k] = ExitShort[3 + k - 1]
      BY <2>2, <3>2
    <3>4. \A k \in 1..Len(q) : q[k] = ExitShort[3 + Len(p) + k - 1]
      BY <2>2, <3>2
    <3>5. 3 \in 1..Len(ExitShort) /\ Len(p) + Len(q) + 1 = Len(ExitShort) - 3 + 1
          /\ ExitShort[Len(ExitShort)] = r
      BY <2>2, <3>2
    <3>6. OnList(p \o q \o <<r>>, ExitShort, 3)
      BY <2>2, <3>2, <3>3, <3>4, <3>5, OutLists
    <3>7. QED
      BY <1>2, <2>1, <3>1, <3>6 DEF p, q
  <2>6. QED
    BY <2>3, <2>4, <2>5
<1>7. CASE kind = "range64"
  <2>1. Exits = Exit64 /\ CommandUndoAt = 3 /\ ReturnAt = 4
    BY <1>7, ExitsAre, ExitPlaces
  <2>2. /\ Exit64 \in Seq(BarStep) /\ Len(Exit64) = 4
        /\ Exit64[1] = b1 /\ Exit64[2] = b0 /\ Exit64[3] = c /\ Exit64[4] = r
    BY ExitLists
  <2>3. CASE Undoes(f)
    <3>1. Bar!OutBar(f) = <<b1, b0>> /\ Bar!OutCommand(f) = <<c>> /\ OutAt(f) = 1
      BY <1>7, <1>4, <1>5, <2>1, <2>3, OutsAre, OutCommands
    <3> DEFINE p == <<b1, b0>>
               q == <<c>>
    <3>2. /\ p \in Seq(BarStep) /\ q \in Seq(BarStep) /\ Len(p) = 2 /\ Len(q) = 1
          /\ p[1] = b1 /\ p[2] = b0
          /\ q[1] = c
      BY <1>3
    <3> HIDE DEF p, q
    <3>3. \A k \in 1..Len(p) : p[k] = Exit64[1 + k - 1]
      BY <2>2, <3>2
    <3>4. \A k \in 1..Len(q) : q[k] = Exit64[1 + Len(p) + k - 1]
      BY <2>2, <3>2
    <3>5. 1 \in 1..Len(Exit64) /\ Len(p) + Len(q) + 1 = Len(Exit64) - 1 + 1
          /\ Exit64[Len(Exit64)] = r
      BY <2>2, <3>2
    <3>6. OnList(p \o q \o <<r>>, Exit64, 1)
      BY <2>2, <3>2, <3>3, <3>4, <3>5, OutLists
    <3>7. QED
      BY <1>2, <2>1, <3>1, <3>6 DEF p, q
  <2>4. CASE ~Undoes(f) /\ "quiesced" \in f
    <3>1. Bar!OutBar(f) = <<>> /\ Bar!OutCommand(f) = <<c>> /\ OutAt(f) = 3
      BY <1>7, <1>4, <1>5, <2>1, <2>4, OutsAre, OutCommands
    <3> DEFINE p == <<>>
               q == <<c>>
    <3>2. /\ p \in Seq(BarStep) /\ q \in Seq(BarStep) /\ Len(p) = 0 /\ Len(q) = 1
          /\ q[1] = c
      BY <1>3
    <3> HIDE DEF p, q
    <3>3. \A k \in 1..Len(p) : p[k] = Exit64[3 + k - 1]
      BY <2>2, <3>2
    <3>4. \A k \in 1..Len(q) : q[k] = Exit64[3 + Len(p) + k - 1]
      BY <2>2, <3>2
    <3>5. 3 \in 1..Len(Exit64) /\ Len(p) + Len(q) + 1 = Len(Exit64) - 3 + 1
          /\ Exit64[Len(Exit64)] = r
      BY <2>2, <3>2
    <3>6. OnList(p \o q \o <<r>>, Exit64, 3)
      BY <2>2, <3>2, <3>3, <3>4, <3>5, OutLists
    <3>7. QED
      BY <1>2, <2>1, <3>1, <3>6 DEF p, q
  <2>5. CASE ~Undoes(f) /\ "quiesced" \notin f
    <3>1. Bar!OutBar(f) = <<>> /\ Bar!OutCommand(f) = <<>> /\ OutAt(f) = 4
      BY <1>7, <1>4, <1>5, <2>1, <2>5, OutsAre, OutCommands
    <3> DEFINE p == <<>>
               q == <<>>
    <3>2. /\ p \in Seq(BarStep) /\ q \in Seq(BarStep) /\ Len(p) = 0 /\ Len(q) = 0
      BY <1>3
    <3> HIDE DEF p, q
    <3>3. \A k \in 1..Len(p) : p[k] = Exit64[4 + k - 1]
      BY <2>2, <3>2
    <3>4. \A k \in 1..Len(q) : q[k] = Exit64[4 + Len(p) + k - 1]
      BY <2>2, <3>2
    <3>5. 4 \in 1..Len(Exit64) /\ Len(p) + Len(q) + 1 = Len(Exit64) - 4 + 1
          /\ Exit64[Len(Exit64)] = r
      BY <2>2, <3>2
    <3>6. OnList(p \o q \o <<r>>, Exit64, 4)
      BY <2>2, <3>2, <3>3, <3>4, <3>5, OutLists
    <3>7. QED
      BY <1>2, <2>1, <3>1, <3>6 DEF p, q
  <2>6. QED
    BY <2>3, <2>4, <2>5
<1>8. CASE kind = "n1"
  <2>1. Exits = ExitN1 /\ CommandUndoAt = 3 /\ ReturnAt = 5
    BY <1>8, ExitsAre, ExitPlaces
  <2>2. /\ ExitN1 \in Seq(BarStep) /\ Len(ExitN1) = 5
        /\ ExitN1[1] = b0 /\ ExitN1[2] = v /\ ExitN1[3] = c /\ ExitN1[4] = w /\ ExitN1[5] = r
    BY ExitLists
  <2>3. CASE Undoes(f)
    <3>1. Bar!OutBar(f) = <<b0, v>> /\ Bar!OutCommand(f) = <<c, w>> /\ OutAt(f) = 1
      BY <1>8, <1>4, <1>5, <2>1, <2>3, OutsAre, OutCommands
    <3> DEFINE p == <<b0, v>>
               q == <<c, w>>
    <3>2. /\ p \in Seq(BarStep) /\ q \in Seq(BarStep) /\ Len(p) = 2 /\ Len(q) = 2
          /\ p[1] = b0 /\ p[2] = v
          /\ q[1] = c /\ q[2] = w
      BY <1>3
    <3> HIDE DEF p, q
    <3>3. \A k \in 1..Len(p) : p[k] = ExitN1[1 + k - 1]
      BY <2>2, <3>2
    <3>4. \A k \in 1..Len(q) : q[k] = ExitN1[1 + Len(p) + k - 1]
      BY <2>2, <3>2
    <3>5. 1 \in 1..Len(ExitN1) /\ Len(p) + Len(q) + 1 = Len(ExitN1) - 1 + 1
          /\ ExitN1[Len(ExitN1)] = r
      BY <2>2, <3>2
    <3>6. OnList(p \o q \o <<r>>, ExitN1, 1)
      BY <2>2, <3>2, <3>3, <3>4, <3>5, OutLists
    <3>7. QED
      BY <1>2, <2>1, <3>1, <3>6 DEF p, q
  <2>4. CASE ~Undoes(f) /\ "quiesced" \in f
    <3>1. Bar!OutBar(f) = <<>> /\ Bar!OutCommand(f) = <<c, w>> /\ OutAt(f) = 3
      BY <1>8, <1>4, <1>5, <2>1, <2>4, OutsAre, OutCommands
    <3> DEFINE p == <<>>
               q == <<c, w>>
    <3>2. /\ p \in Seq(BarStep) /\ q \in Seq(BarStep) /\ Len(p) = 0 /\ Len(q) = 2
          /\ q[1] = c /\ q[2] = w
      BY <1>3
    <3> HIDE DEF p, q
    <3>3. \A k \in 1..Len(p) : p[k] = ExitN1[3 + k - 1]
      BY <2>2, <3>2
    <3>4. \A k \in 1..Len(q) : q[k] = ExitN1[3 + Len(p) + k - 1]
      BY <2>2, <3>2
    <3>5. 3 \in 1..Len(ExitN1) /\ Len(p) + Len(q) + 1 = Len(ExitN1) - 3 + 1
          /\ ExitN1[Len(ExitN1)] = r
      BY <2>2, <3>2
    <3>6. OnList(p \o q \o <<r>>, ExitN1, 3)
      BY <2>2, <3>2, <3>3, <3>4, <3>5, OutLists
    <3>7. QED
      BY <1>2, <2>1, <3>1, <3>6 DEF p, q
  <2>5. CASE ~Undoes(f) /\ "quiesced" \notin f
    <3>1. Bar!OutBar(f) = <<>> /\ Bar!OutCommand(f) = <<>> /\ OutAt(f) = 5
      BY <1>8, <1>4, <1>5, <2>1, <2>5, OutsAre, OutCommands
    <3> DEFINE p == <<>>
               q == <<>>
    <3>2. /\ p \in Seq(BarStep) /\ q \in Seq(BarStep) /\ Len(p) = 0 /\ Len(q) = 0
      BY <1>3
    <3> HIDE DEF p, q
    <3>3. \A k \in 1..Len(p) : p[k] = ExitN1[5 + k - 1]
      BY <2>2, <3>2
    <3>4. \A k \in 1..Len(q) : q[k] = ExitN1[5 + Len(p) + k - 1]
      BY <2>2, <3>2
    <3>5. 5 \in 1..Len(ExitN1) /\ Len(p) + Len(q) + 1 = Len(ExitN1) - 5 + 1
          /\ ExitN1[Len(ExitN1)] = r
      BY <2>2, <3>2
    <3>6. OnList(p \o q \o <<r>>, ExitN1, 5)
      BY <2>2, <3>2, <3>3, <3>4, <3>5, OutLists
    <3>7. QED
      BY <1>2, <2>1, <3>1, <3>6 DEF p, q
  <2>6. QED
    BY <2>3, <2>4, <2>5
<1>9. QED
  BY <1>1, <1>6, <1>7, <1>8

\* The step at a place of the list out
FoundOut(s, j) ==
  /\ s.op = "undoBar" => (s.dword = 0 /\ j = UndoAt0) \/ (s.dword = 1 /\ j = UndoAt1)
  /\ s.op = "undoVerify" => j = VerifyUndoAt /\ s.dword = 0
  /\ s.op = "undoCommand" => j = CommandUndoAt /\ s.dword = 0
  /\ s.op = "undoVerifyCommand" => j = CommandVerifyAt /\ s.dword = 0
  /\ s.op = "return" <=> j = ReturnAt
  /\ s.op \in Bar!UndoAccess \cup {"return"}

LEMMA OutFound ==
  ASSUME kind \in Bar!Transactions, NEW j \in 1..ReturnAt
  PROVE  FoundOut(Exits[j], j) /\ Len(Exits) = ReturnAt /\ ReturnAt \in 3..5
<1> DEFINE b0 == Bar!At("undoBar", 0)   b1 == Bar!At("undoBar", 1)
           v == Bar!At("undoVerify", 0) c == Bar!Do("undoCommand")
           w == Bar!Do("undoVerifyCommand")
           r == Bar!Do("return")
<1>1. kind \in {"assign", "range32", "range64", "n1"}
  BY DEF Bar!Transactions
<1>2. /\ b0.op = "undoBar" /\ b0.dword = 0 /\ b1.op = "undoBar" /\ b1.dword = 1
      /\ v.op = "undoVerify" /\ v.dword = 0 /\ c.op = "undoCommand" /\ c.dword = 0
      /\ w.op = "undoVerifyCommand" /\ w.dword = 0 /\ r.op = "return"
  BY DEF Bar!At, Bar!Do
<1> HIDE DEF b0, b1, v, c, w, r
<1>3. CASE kind \in {"assign", "range32"}
  <2>1. /\ UndoAt0 = 1 /\ UndoAt1 = 0 /\ VerifyUndoAt = 0 /\ CommandUndoAt = 2
        /\ CommandVerifyAt = 0 /\ ReturnAt = 3 /\ Exits = ExitShort
    BY <1>3, ExitPlaces, ExitsAre
  <2>2. /\ Len(ExitShort) = 3
        /\ ExitShort[1] = b0 /\ ExitShort[2] = c /\ ExitShort[3] = r
    BY ExitLists DEF b0, c, r
  <2>3. FoundOut(b0, 1) /\ FoundOut(c, 2) /\ FoundOut(r, 3)
    BY <1>2, <2>1 DEF FoundOut, Bar!UndoAccess
  <2>4. j \in {1, 2, 3}
    BY <2>1
  <2>5. QED
    BY <2>1, <2>2, <2>3, <2>4
<1>4. CASE kind = "range64"
  <2>1. /\ UndoAt0 = 2 /\ UndoAt1 = 1 /\ VerifyUndoAt = 0 /\ CommandUndoAt = 3
        /\ CommandVerifyAt = 0 /\ ReturnAt = 4 /\ Exits = Exit64
    BY <1>4, ExitPlaces, ExitsAre
  <2>2. /\ Len(Exit64) = 4
        /\ Exit64[1] = b1 /\ Exit64[2] = b0 /\ Exit64[3] = c /\ Exit64[4] = r
    BY ExitLists DEF b0, b1, c, r
  <2>3. FoundOut(b1, 1) /\ FoundOut(b0, 2) /\ FoundOut(c, 3) /\ FoundOut(r, 4)
    BY <1>2, <2>1 DEF FoundOut, Bar!UndoAccess
  <2>4. j \in {1, 2, 3, 4}
    BY <2>1
  <2>5. QED
    BY <2>1, <2>2, <2>3, <2>4
<1>5. CASE kind = "n1"
  <2>1. /\ UndoAt0 = 1 /\ UndoAt1 = 0 /\ VerifyUndoAt = 2 /\ CommandUndoAt = 3
        /\ CommandVerifyAt = 4 /\ ReturnAt = 5 /\ Exits = ExitN1
    BY <1>5, ExitPlaces, ExitsAre
  <2>2. /\ Len(ExitN1) = 5
        /\ ExitN1[1] = b0 /\ ExitN1[2] = v /\ ExitN1[3] = c /\ ExitN1[4] = w /\ ExitN1[5] = r
    BY ExitLists DEF b0, v, c, w, r
  <2>3. FoundOut(b0, 1) /\ FoundOut(v, 2) /\ FoundOut(c, 3) /\ FoundOut(w, 4) /\ FoundOut(r, 5)
    BY <1>2, <2>1 DEF FoundOut, Bar!UndoAccess
  <2>4. j \in {1, 2, 3, 4, 5}
    BY <2>1
  <2>5. QED
    BY <2>1, <2>2, <2>3, <2>4
<1>6. QED
  BY <1>1, <1>3, <1>4, <1>5

(* Where root is in the list out.                                          *)
LEMMA WhereOut ==
  ASSUME kind \in Bar!Transactions, NEW j, OnList(barTodo, Exits, j)
  PROVE  /\ j \in 1..ReturnAt /\ ReturnAt \in 3..5 /\ barTodo # <<>>
         /\ FoundOut(Head(barTodo), j)
         /\ j < ReturnAt => OnList(Tail(barTodo), Exits, j + 1)
<1>1. Len(Exits) = ReturnAt /\ ReturnAt \in 3..5
  <2>1. ReturnAt \in 3..5
    BY ExitPlaces DEF Bar!Transactions
  <2>2. 1 \in 1..ReturnAt
    BY <2>1
  <2>3. QED
    BY <2>1, <2>2, OutFound
<1>2. ReturnAt \in Nat
  BY <1>1
<1>3. /\ j \in 1..ReturnAt /\ barTodo # <<>> /\ Head(barTodo) = Exits[j]
      /\ j < ReturnAt => OnList(Tail(barTodo), Exits, j + 1)
  BY <1>1, <1>2, ListHead
<1>4. FoundOut(Exits[j], j)
  BY <1>3, OutFound
<1>5. QED
  BY <1>1, <1>3, <1>4

-----------------------------------------------------------------------------
(* The inductive invariant.  Nothing is lost where it speaks of what the   *)
(* function holds; what root has saved of it is true in any case.          *)
OnesAt(d)   == IF d = 0 THEN OnesAt0 ELSE OnesAt1
BarAt(d)    == IF d = 0 THEN BarAt0 ELSE BarAt1
MaskAt(d)   == IF d = 0 THEN MaskAt0 ELSE MaskAt1
PutAt(d)    == IF d = 0 THEN PutAt0 ELSE PutAt1
VerifyAt(d) == IF d = 0 THEN VerifyAt0 ELSE VerifyAt1
UndoAt(d)   == IF d = 0 THEN UndoAt0 ELSE UndoAt1
Ones(d)     == Bar!Store(d, Bar!Bound(d) - 1)
Sized(d)    == d = 0 \/ kind = "range64"

\* One dword, from before[d] over all ones back to it: b is what the function
\* holds, s and m what root has saved and measured.
DwordAt(d, i, b, s, m, l) ==
  /\ i > BarAt(d) => s = before.bar[d]
  /\ i <= OnesAt(d) => b = before.bar[d]
  /\ i <= ProgramAt \/ d = 1 => b \in {before.bar[d], Ones(d)}
  /\ l = 0 /\ i > OnesAt(d) /\ i <= PutAt(d) => b = Ones(d)
  /\ l = 0 /\ i > PutAt(d) /\ (i <= ProgramAt \/ d = 1) => b = before.bar[d]
  /\ i > VerifyAt(d) => b = before.bar[d]
  /\ i > MaskAt(d) => m >= before.bar[d] /\ (l = 0 => m = Ones(d))

Deciding(i) ==
  /\ i > CommandAt => saved.decoding = before.decoding
  /\ i <= QuiesceAt => decoding = before.decoding
  /\ lost = 0 /\ i > QuiesceAt => decoding = FALSE
  /\ "quiesced" \in flags <=> i > QuiesceAt
  /\ "touched" \in flags <=> i > TouchAt /\ i <= UntouchAt
  /\ ~Bar!Success
  /\ i > AcceptAt => Bar!Accepted
  /\ i > ReadBackAt => bar[0] = Bar!Reported.paddr

Main(i) ==
  /\ Deciding(i)
  /\ \A d \in Bar!Dwords : DwordAt(d, i, bar[d], saved.bar[d], mask[d], lost)

\* One dword at the label out: the BAR is back, or its undoing is still ahead.
DwordOut(d, j, b, s, l, e, ok) ==
  /\ j <= UndoAt(d) => s = before.bar[d]
  /\ ok /\ kind # "assign" => b = before.bar[d]
  /\ l = 0 /\ e = 0 /\ kind # "assign" => b = before.bar[d]
  /\ l = 0 /\ e <= (IF kind = "assign" THEN 0 ELSE 1) =>
       b = before.bar[d] \/ j <= UndoAt(d) \/ (kind = "assign" /\ d = 0 /\ ok)

\* What root reports
Promised ==
  /\ resource = Bar!Reported /\ Bar!Accepted
  /\ kind = "assign" => bar[0] = Bar!Reported.paddr
  /\ \A d \in Bar!Dwords : Sized(d) => saved.bar[d] = before.bar[d]
                                       /\ (lost = 0 => mask[d] = Ones(d))

Exiting(j) ==
  /\ j < ReturnAt => saved.decoding = before.decoding
  /\ lost = 0 /\ j <= CommandUndoAt => decoding = FALSE
  /\ Bar!Success =>
       /\ Promised
       /\ kind \in {"assign", "range32"} => j > UndoAt0
       /\ kind = "n1" /\ j > CommandVerifyAt => decoding = before.decoding

Out(j) ==
  /\ Exiting(j)
  /\ \A d \in Bar!Dwords :
       DwordOut(d, j, bar[d], saved.bar[d], lost, barErrors, Bar!Success)

Between ==
  lost = 0 /\ barErrors = 0 =>
    bar = before.bar \/ (Bar!Success /\ bar[0] = resource.paddr)

\* Types, and that the function keeps only what its BAR implements
Registered ==
  /\ Fixed
  /\ bar \in Bar!Words /\ decoding \in BOOLEAN
  /\ kind \in Bar!Transactions \cup {"none"}
  /\ saved \in Bar!Registers /\ before \in Bar!Registers /\ mask \in Bar!Words
  /\ flags \subseteq Bar!Flags
  /\ resource.start \in 0..(Limit * HighLimit + Limit)
  /\ barErrors \in 0..BarErrors /\ lost \in 0..BarLost
  /\ input \in [start : Nat, end : Nat, offset : Nat, length : Nat]
  /\ kind = "range64" => type = "mem64"
  /\ kind = "n1" => input.offset = 0
  /\ \A d \in Bar!Dwords : /\ bar[d] = Bar!Store(d, bar[d])
                           /\ before.bar[d] = Bar!Store(d, before.bar[d])

Going == \E i : OnList(barTodo, Bar!Steps[kind], i) /\ Main(i)
Gone  == \E j : OnList(barTodo, Exits, j) /\ Out(j)

BarInv ==
  /\ Registered
  /\ kind = "none" => barTodo = <<>> /\ Between
  /\ kind # "none" => Going \/ Gone

-----------------------------------------------------------------------------
(* The order of the places.                                                *)
Own(d) == {BarAt(d), OnesAt(d), MaskAt(d), PutAt(d), VerifyAt(d)}
Common == {IdentifyAt, CommandAt, AdmitAt, QuiesceAt, TouchAt, UntouchAt, AcceptAt,
           ProgramAt, ReadBackAt, SucceedAt}

LEMMA KindsAre == Bar!Transactions = {"assign", "range32", "range64", "n1"}
BY DEF Bar!Transactions

LEMMA PlacesOf ==
  /\ BarAt(0) = BarAt0 /\ OnesAt(0) = OnesAt0 /\ MaskAt(0) = MaskAt0
  /\ PutAt(0) = PutAt0 /\ VerifyAt(0) = VerifyAt0 /\ UndoAt(0) = UndoAt0
  /\ BarAt(1) = BarAt1 /\ OnesAt(1) = OnesAt1 /\ MaskAt(1) = MaskAt1
  /\ PutAt(1) = PutAt1 /\ VerifyAt(1) = VerifyAt1 /\ UndoAt(1) = UndoAt1
BY DEF BarAt, OnesAt, MaskAt, PutAt, VerifyAt, UndoAt

LEMMA PlacesInRange ==
  ASSUME kind \in Bar!Transactions
  PROVE  /\ SucceedAt \in 11..16 /\ Common \subseteq 1..20
         /\ \A d \in Bar!Dwords : Own(d) \subseteq 1..20
         /\ AcceptAt < SucceedAt /\ QuiesceAt < SucceedAt /\ CommandAt < SucceedAt
         /\ AdmitAt < SucceedAt /\ TouchAt < SucceedAt
         /\ AcceptAt < ProgramAt /\ AcceptAt < ReadBackAt
         /\ CommandAt < QuiesceAt /\ QuiesceAt < TouchAt /\ BarAt0 < AdmitAt
<1>1. Bar!Dwords = {0, 1}
  BY BoundOf
<1>2. /\ SucceedAt \in 11..16 /\ Common \subseteq 1..20
      /\ AcceptAt < SucceedAt /\ QuiesceAt < SucceedAt /\ CommandAt < SucceedAt
      /\ AdmitAt < SucceedAt /\ TouchAt < SucceedAt
      /\ AcceptAt < ProgramAt /\ AcceptAt < ReadBackAt
      /\ CommandAt < QuiesceAt /\ QuiesceAt < TouchAt /\ BarAt0 < AdmitAt
  BY Places, KindsAre DEF Common
<1>3. Own(0) \subseteq 1..20 /\ Own(1) \subseteq 1..20
  BY Places, KindsAre, PlacesOf DEF Own
<1>4. QED
  BY <1>1, <1>2, <1>3

\* A place belongs to one dword, or is common to both.
LEMMA PlacesApart ==
  ASSUME kind \in Bar!Transactions, NEW i \in 1..SucceedAt
  PROVE  /\ i \in Common => i \notin Own(0) /\ i \notin Own(1)
         /\ i \in Own(0) => i \notin Own(1)
         /\ i \in Own(0) \cup Own(1) =>
              /\ i < AcceptAt /\ i < ReadBackAt /\ i < SucceedAt
              /\ i \notin {CommandAt, QuiesceAt, TouchAt, UntouchAt}
<1>1. i \in {1, 2, 3, 4, 5, 6, 7, 8, 9, 10, 11, 12, 13, 14, 15, 16} /\ i <= SucceedAt
  <2>1. SucceedAt \in 11..16
    BY PlacesInRange
  <2>2. QED
    BY <2>1
<1>2. CASE kind = "assign"
  BY <1>1, <1>2, Places, PlacesOf DEF Own, Common
<1>3. CASE kind = "range32"
  BY <1>1, <1>3, Places, PlacesOf DEF Own, Common
<1>4. CASE kind = "range64"
  BY <1>1, <1>4, Places, PlacesOf DEF Own, Common
<1>5. CASE kind = "n1"
  BY <1>1, <1>5, Places, PlacesOf DEF Own, Common
<1>6. QED
  BY <1>2, <1>3, <1>4, <1>5, KindsAre

\* The steps of one dword are in one order, those that it has.
LEMMA DwordOrder ==
  ASSUME kind \in Bar!Transactions, NEW d \in Bar!Dwords, NEW i \in 1..SucceedAt
  PROVE  /\ i = BarAt(d) => /\ i < OnesAt(d) /\ i < MaskAt(d) /\ i < PutAt(d)
                            /\ i < VerifyAt(d) /\ i < ProgramAt
         /\ i = OnesAt(d) => /\ i > BarAt(d) /\ i < MaskAt(d) /\ i < PutAt(d)
                             /\ i < VerifyAt(d) /\ i < ProgramAt /\ i > QuiesceAt
         /\ i = MaskAt(d) => /\ i > BarAt(d) /\ i > OnesAt(d) /\ i < PutAt(d)
                             /\ i < VerifyAt(d) /\ i < ProgramAt
         /\ i = PutAt(d) => /\ i > BarAt(d) /\ i > OnesAt(d) /\ i > MaskAt(d)
                            /\ i < VerifyAt(d) /\ i < ProgramAt
         /\ i = VerifyAt(d) => /\ i > BarAt(d) /\ i > OnesAt(d) /\ i > MaskAt(d)
                               /\ i > PutAt(d) /\ i < ProgramAt
<1>1. SucceedAt \in 11..16 /\ Bar!Dwords = {0, 1}
  BY PlacesInRange, BoundOf
<1>2. i \in Nat /\ i <= 16
  BY <1>1
<1>3. CASE kind = "assign"
  BY <1>1, <1>2, <1>3, Places, PlacesOf
<1>4. CASE kind = "range32"
  BY <1>1, <1>2, <1>4, Places, PlacesOf
<1>5. CASE kind = "range64"
  BY <1>1, <1>2, <1>5, Places, PlacesOf
<1>6. CASE kind = "n1"
  BY <1>1, <1>2, <1>6, Places, PlacesOf
<1>7. QED
  BY <1>3, <1>4, <1>5, <1>6, KindsAre

\* Within a transaction nothing of this changes.
Steady == UNCHANGED <<size, type, before, kind, input>>

LEMMA SamePlaces ==
  ASSUME Steady
  PROVE  /\ IdentifyAt' = IdentifyAt /\ CommandAt' = CommandAt /\ BarAt0' = BarAt0
         /\ BarAt1' = BarAt1 /\ AdmitAt' = AdmitAt /\ QuiesceAt' = QuiesceAt
         /\ OnesAt0' = OnesAt0 /\ OnesAt1' = OnesAt1 /\ TouchAt' = TouchAt
         /\ MaskAt0' = MaskAt0 /\ MaskAt1' = MaskAt1 /\ PutAt0' = PutAt0
         /\ PutAt1' = PutAt1 /\ VerifyAt0' = VerifyAt0 /\ VerifyAt1' = VerifyAt1
         /\ UntouchAt' = UntouchAt /\ AcceptAt' = AcceptAt /\ ProgramAt' = ProgramAt
         /\ ReadBackAt' = ReadBackAt /\ SucceedAt' = SucceedAt
         /\ UndoAt0' = UndoAt0 /\ UndoAt1' = UndoAt1 /\ VerifyUndoAt' = VerifyUndoAt
         /\ CommandUndoAt' = CommandUndoAt /\ CommandVerifyAt' = CommandVerifyAt
         /\ ReturnAt' = ReturnAt /\ Exits' = Exits
<1>1. kind' = kind
  BY DEF Steady
<1>2. QED
  BY <1>1 DEF Place, IdentifyAt, CommandAt, BarAt0, BarAt1, AdmitAt, QuiesceAt, OnesAt0,
     OnesAt1,
     TouchAt, MaskAt0, MaskAt1, PutAt0, PutAt1, VerifyAt0, VerifyAt1, UntouchAt, AcceptAt,
     ProgramAt, ReadBackAt, SucceedAt, UndoAt0, UndoAt1, VerifyUndoAt, CommandUndoAt,
     CommandVerifyAt, ReturnAt, Exits

LEMMA SameFunction ==
  ASSUME Steady
  PROVE  /\ \A d : /\ BarAt(d)' = BarAt(d) /\ OnesAt(d)' = OnesAt(d) /\ MaskAt(d)' = MaskAt(d)
                   /\ PutAt(d)' = PutAt(d) /\ VerifyAt(d)' = VerifyAt(d)
                   /\ UndoAt(d)' = UndoAt(d) /\ Ones(d)' = Ones(d) /\ Sized(d)' = Sized(d)
         /\ \A d, v : Bar!Store(d, v)' = Bar!Store(d, v)
<1>1. size' = size /\ type' = type /\ kind' = kind
  BY DEF Steady
<1>2. \A d, v : Bar!Store(d, v)' = Bar!Store(d, v)
  BY <1>1 DEF Bar!Store, Bar!Implemented, Bar!Granule
<1>3. \A d : Ones(d)' = Ones(d) /\ Sized(d)' = Sized(d)
  BY <1>1, <1>2 DEF Ones, Bar!Bound, Sized, Bar!Store, Bar!Implemented, Bar!Granule
<1>4. \A d : /\ BarAt(d)' = BarAt(d) /\ OnesAt(d)' = OnesAt(d) /\ MaskAt(d)' = MaskAt(d)
             /\ PutAt(d)' = PutAt(d) /\ VerifyAt(d)' = VerifyAt(d) /\ UndoAt(d)' = UndoAt(d)
  BY SamePlaces DEF BarAt, OnesAt, MaskAt, PutAt, VerifyAt, UndoAt
<1>5. QED
  BY <1>2, <1>3, <1>4

-----------------------------------------------------------------------------
(* What a step leaves alone.                                               *)
LEMMA DwordsAre == \A d : d \in Bar!Dwords <=> d = 0 \/ d = 1
BY BoundOf

LEMMA RegisteredNext ==
  ASSUME Registered, Steady,
         bar' \in Bar!Words, decoding' \in BOOLEAN, saved' \in Bar!Registers,
         mask' \in Bar!Words, flags' \subseteq Bar!Flags,
         resource'.start \in 0..(Limit * HighLimit + Limit),
         barErrors' \in 0..BarErrors, lost' \in 0..BarLost,
         \A d \in Bar!Dwords : bar'[d] = Bar!Store(d, bar'[d])
  PROVE  Registered'
<1>1. /\ size' = size /\ type' = type /\ before' = before /\ kind' = kind /\ input' = input
  BY DEF Steady
<1>2. \A d \in Bar!Dwords : /\ bar'[d] = (Bar!Store(d, bar[d]))'
                            /\ before'.bar[d] = (Bar!Store(d, before.bar[d]))'
  BY <1>1 DEF Registered, Bar!Store, Bar!Implemented, Bar!Granule
<1>3. Fixed'
  BY <1>1 DEF Registered, Fixed
<1>4. kind' \in Bar!Transactions \cup {"none"}
      /\ (kind' = "range64" => type' = "mem64") /\ (kind' = "n1" => input'.offset = 0)
      /\ input' \in [start : Nat, end : Nat, offset : Nat, length : Nat]
      /\ before' \in Bar!Registers
  BY <1>1 DEF Registered
<1>5. QED
  BY <1>2, <1>3, <1>4 DEF Registered

\* A write to the BAR lands, and keeps what the function implements, or is lost.
LEMMA Written ==
  ASSUME Registered, NEW d \in Bar!Dwords, NEW v \in Nat, v < Bar!Bound(d),
         Bar!WriteBar(d, v)
  PROVE  /\ bar' \in Bar!Words
         /\ \A e \in Bar!Dwords : bar'[e] = Bar!Store(e, bar'[e])
         /\ \/ bar'[d] = Bar!Store(d, v) /\ lost' = lost
            \/ bar'[d] = bar[d] /\ lost' = lost + 1
         /\ \A e \in Bar!Dwords \ {d} : bar'[e] = bar[e]
         /\ lost' \in 0..BarLost /\ (lost' = 0 => lost = 0)
<1>1. Fixed /\ bar \in Bar!Words /\ lost \in 0..BarLost /\ BarLost \in Nat
  BY BarConstants DEF Registered
<1>2. /\ bar \in [Bar!Dwords -> Nat] /\ bar[0] < Limit /\ bar[1] < HighLimit
  BY <1>1, WordsAre
<1>3. Bar!Store(d, v) \in Nat /\ Bar!Store(d, v) <= v
      /\ Bar!Store(d, Bar!Store(d, v)) = Bar!Store(d, v)
  BY <1>1, StoreFacts
<1>4. Bar!Bound(d) \in Nat /\ Bar!Store(d, v) < Bar!Bound(d)
      /\ Bar!Bound(0) = Limit /\ Bar!Bound(1) = HighLimit
  BY <1>3, BoundOf
<1>5. CASE bar' = [bar EXCEPT ![d] = Bar!Store(d, v)] /\ lost' = lost
  <2>1. bar' \in [Bar!Dwords -> Nat] /\ bar'[d] = Bar!Store(d, v)
        /\ \A e \in Bar!Dwords \ {d} : bar'[e] = bar[e]
    BY <1>2, <1>3, <1>5
  <2>2. bar'[0] < Limit /\ bar'[1] < HighLimit
    BY <1>2, <1>4, <2>1, DwordsAre
  <2>3. \A e \in Bar!Dwords : bar'[e] = Bar!Store(e, bar'[e])
    BY <1>3, <2>1 DEF Registered
  <2>4. QED
    BY <1>1, <1>5, <2>1, <2>2, <2>3, WordsAre
<1>6. CASE bar' = bar /\ lost < BarLost /\ lost' = lost + 1
  <2>1. lost' \in 0..BarLost /\ lost' # 0
    BY <1>1, <1>6
  <2>2. \A e \in Bar!Dwords : bar'[e] = Bar!Store(e, bar'[e])
    BY <1>6 DEF Registered
  <2>3. QED
    BY <1>1, <1>6, <2>1, <2>2
<1>7. QED
  BY <1>5, <1>6 DEF Bar!WriteBar

LEMMA RegisterValues ==
  ASSUME Registered
  PROVE  /\ \A d \in Bar!Dwords :
              /\ bar[d] \in Nat /\ bar[d] < Bar!Bound(d)
              /\ saved.bar[d] \in Nat /\ saved.bar[d] < Bar!Bound(d)
              /\ before.bar[d] \in Nat /\ before.bar[d] < Bar!Bound(d)
              /\ mask[d] \in Nat /\ mask[d] < Bar!Bound(d)
              /\ before.bar[d] <= Ones(d) /\ Ones(d) \in Nat
              /\ Bar!Bound(d) - 1 \in Nat /\ Bar!Bound(d) - 1 < Bar!Bound(d)
         /\ saved.bar \in Bar!Words /\ before.bar \in Bar!Words
         /\ saved.decoding \in BOOLEAN /\ before.decoding \in BOOLEAN
         /\ lost \in Nat /\ barErrors \in Nat
<1>1. /\ saved.bar \in Bar!Words /\ before.bar \in Bar!Words
      /\ saved.decoding \in BOOLEAN /\ before.decoding \in BOOLEAN
      /\ bar \in Bar!Words /\ mask \in Bar!Words
  BY DEF Registered, Bar!Registers
<1>2. lost \in Nat /\ barErrors \in Nat
  BY BarConstants DEF Registered
<1>3. ASSUME NEW d \in Bar!Dwords, NEW w \in Bar!Words
      PROVE  w[d] \in Nat /\ w[d] < Bar!Bound(d)
  BY WordsAre, BoundOf, DwordsAre
<1>4. ASSUME NEW d \in Bar!Dwords
      PROVE  before.bar[d] <= Ones(d) /\ Ones(d) \in Nat
             /\ Bar!Bound(d) - 1 \in Nat /\ Bar!Bound(d) - 1 < Bar!Bound(d)
  <2>1. Bar!Bound(d) \in Nat \ {0}
    BY BoundOf
  <2>2. before.bar[d] \in Nat /\ before.bar[d] < Bar!Bound(d)
    BY <1>1, <1>3
  <2>3. Bar!Bound(d) - 1 \in Nat /\ before.bar[d] <= Bar!Bound(d) - 1
        /\ Bar!Bound(d) - 1 < Bar!Bound(d)
    BY <2>1, <2>2
  <2>4. Fixed /\ before.bar[d] = Bar!Store(d, before.bar[d])
    BY DEF Registered
  <2>5. Bar!Store(d, before.bar[d]) <= Bar!Store(d, Bar!Bound(d) - 1)
    BY <2>2, <2>3, <2>4, StoreFacts
  <2>6. Bar!Store(d, Bar!Bound(d) - 1) \in Nat
    BY <2>3, <2>4, StoreFacts
  <2>7. QED
    BY <2>3, <2>4, <2>5, <2>6 DEF Ones
<1>5. QED
  BY <1>1, <1>2, <1>3, <1>4

\* A dword whose own step this is not
LEMMA DwordCarried ==
  ASSUME Registered, kind \in Bar!Transactions, Steady, NEW d \in Bar!Dwords,
         NEW i \in 1..SucceedAt, i \notin Own(d),
         DwordAt(d, i, bar[d], saved.bar[d], mask[d], lost),
         bar'[d] = bar[d] \/ (d = 0 /\ i = ProgramAt),
         saved'.bar[d] = saved.bar[d], mask'[d] = mask[d], lost' = 0 => lost = 0
  PROVE  DwordAt(d, i + 1, bar[d], saved.bar[d], mask[d], lost)'
<1>1. /\ Own(d) \subseteq 1..20 /\ ProgramAt \in 1..20 /\ i \in Nat
      /\ i = ProgramAt => i \in Common
  BY PlacesInRange DEF Common
<1>2. /\ BarAt(d) \in Nat /\ OnesAt(d) \in Nat /\ MaskAt(d) \in Nat /\ PutAt(d) \in Nat
      /\ VerifyAt(d) \in Nat /\ ProgramAt \in Nat
      /\ i # BarAt(d) /\ i # OnesAt(d) /\ i # MaskAt(d) /\ i # PutAt(d) /\ i # VerifyAt(d)
  BY <1>1 DEF Own
<1>3. /\ BarAt(d)' = BarAt(d) /\ OnesAt(d)' = OnesAt(d) /\ MaskAt(d)' = MaskAt(d)
      /\ PutAt(d)' = PutAt(d) /\ VerifyAt(d)' = VerifyAt(d)
      /\ Ones(d)' = Ones(d) /\ ProgramAt' = ProgramAt /\ before' = before
  BY SamePlaces, SameFunction DEF Steady
<1>4. CASE bar'[d] = bar[d]
  BY <1>2, <1>3, <1>4 DEF DwordAt
<1>5. CASE d = 0 /\ i = ProgramAt
  <2>1. kind = "assign" /\ VerifyAt(0) = 20 /\ OnesAt(0) = 5 /\ PutAt(0) = 7 /\ i = 10
    <3>1. SucceedAt \in 11..16 /\ i <= 16
      BY PlacesInRange
    <3>2. kind = "assign"
      BY <1>5, <3>1, Places, KindsAre
    <3>3. QED
      BY <1>5, <3>2, Places, PlacesOf
  <2>2. QED
    BY <1>2, <1>3, <1>5, <2>1 DEF DwordAt
<1>6. QED
  BY <1>4, <1>5

LEMMA DwordReadBar ==
  ASSUME Registered, kind \in Bar!Transactions, Steady, NEW d \in Bar!Dwords,
         NEW i \in 1..SucceedAt, i = BarAt(d),
         DwordAt(d, i, bar[d], saved.bar[d], mask[d], lost),
         bar' = bar, saved'.bar[d] = bar[d], lost' = lost
  PROVE  DwordAt(d, i + 1, bar[d], saved.bar[d], mask[d], lost)'
<1>1. /\ i < OnesAt(d) /\ i < MaskAt(d) /\ i < PutAt(d) /\ i < VerifyAt(d) /\ i < ProgramAt
      /\ Own(d) \subseteq 1..20 /\ ProgramAt \in 1..20 /\ i \in Nat
  BY DwordOrder, PlacesInRange DEF Common
<1>2. /\ BarAt(d) \in Nat /\ OnesAt(d) \in Nat /\ MaskAt(d) \in Nat /\ PutAt(d) \in Nat
      /\ VerifyAt(d) \in Nat /\ ProgramAt \in Nat
  BY <1>1 DEF Own
<1>3. /\ BarAt(d)' = BarAt(d) /\ OnesAt(d)' = OnesAt(d) /\ MaskAt(d)' = MaskAt(d)
      /\ PutAt(d)' = PutAt(d) /\ VerifyAt(d)' = VerifyAt(d)
      /\ Ones(d)' = Ones(d) /\ ProgramAt' = ProgramAt /\ before' = before
  BY SamePlaces, SameFunction DEF Steady
<1>4. QED
  BY <1>1, <1>2, <1>3 DEF DwordAt

LEMMA DwordOnes ==
  ASSUME Registered, kind \in Bar!Transactions, Steady, NEW d \in Bar!Dwords,
         NEW i \in 1..SucceedAt, i = OnesAt(d),
         DwordAt(d, i, bar[d], saved.bar[d], mask[d], lost),
         \/ bar'[d] = Ones(d) /\ lost' = lost
         \/ bar'[d] = bar[d] /\ lost' = lost + 1,
         saved' = saved, mask' = mask
  PROVE  DwordAt(d, i + 1, bar[d], saved.bar[d], mask[d], lost)'
<1>1. /\ i > BarAt(d) /\ i < MaskAt(d) /\ i < PutAt(d) /\ i < VerifyAt(d) /\ i < ProgramAt
      /\ Own(d) \subseteq 1..20 /\ ProgramAt \in 1..20 /\ i \in Nat
  BY DwordOrder, PlacesInRange DEF Common
<1>2. /\ BarAt(d) \in Nat /\ OnesAt(d) \in Nat /\ MaskAt(d) \in Nat /\ PutAt(d) \in Nat
      /\ VerifyAt(d) \in Nat /\ ProgramAt \in Nat
  BY <1>1 DEF Own
<1>3. /\ BarAt(d)' = BarAt(d) /\ OnesAt(d)' = OnesAt(d) /\ MaskAt(d)' = MaskAt(d)
      /\ PutAt(d)' = PutAt(d) /\ VerifyAt(d)' = VerifyAt(d)
      /\ Ones(d)' = Ones(d) /\ ProgramAt' = ProgramAt /\ before' = before
  BY SamePlaces, SameFunction DEF Steady
<1>4. lost \in Nat
  BY RegisterValues
<1>5. QED
  BY <1>1, <1>2, <1>3, <1>4 DEF DwordAt

LEMMA DwordMask ==
  ASSUME Registered, kind \in Bar!Transactions, Steady, NEW d \in Bar!Dwords,
         NEW i \in 1..SucceedAt, i = MaskAt(d),
         DwordAt(d, i, bar[d], saved.bar[d], mask[d], lost),
         bar' = bar, mask'[d] = bar[d], saved' = saved, lost' = lost
  PROVE  DwordAt(d, i + 1, bar[d], saved.bar[d], mask[d], lost)'
<1>1. /\ i > BarAt(d) /\ i > OnesAt(d) /\ i < PutAt(d) /\ i < VerifyAt(d) /\ i < ProgramAt
      /\ Own(d) \subseteq 1..20 /\ ProgramAt \in 1..20 /\ i \in Nat
  BY DwordOrder, PlacesInRange DEF Common
<1>2. /\ BarAt(d) \in Nat /\ OnesAt(d) \in Nat /\ MaskAt(d) \in Nat /\ PutAt(d) \in Nat
      /\ VerifyAt(d) \in Nat /\ ProgramAt \in Nat
  BY <1>1 DEF Own
<1>3. /\ BarAt(d)' = BarAt(d) /\ OnesAt(d)' = OnesAt(d) /\ MaskAt(d)' = MaskAt(d)
      /\ PutAt(d)' = PutAt(d) /\ VerifyAt(d)' = VerifyAt(d)
      /\ Ones(d)' = Ones(d) /\ ProgramAt' = ProgramAt /\ before' = before
  BY SamePlaces, SameFunction DEF Steady
<1>4. before.bar[d] \in Nat /\ before.bar[d] <= Ones(d) /\ Ones(d) \in Nat
  BY RegisterValues
<1>5. QED
  BY <1>1, <1>2, <1>3, <1>4 DEF DwordAt

LEMMA DwordPut ==
  ASSUME Registered, kind \in Bar!Transactions, Steady, NEW d \in Bar!Dwords,
         NEW i \in 1..SucceedAt, i = PutAt(d),
         DwordAt(d, i, bar[d], saved.bar[d], mask[d], lost),
         \/ bar'[d] = Bar!Store(d, saved.bar[d]) /\ lost' = lost
         \/ bar'[d] = bar[d] /\ lost' = lost + 1,
         saved' = saved, mask' = mask
  PROVE  DwordAt(d, i + 1, bar[d], saved.bar[d], mask[d], lost)'
<1>1. /\ i > BarAt(d) /\ i > OnesAt(d) /\ i > MaskAt(d) /\ i < VerifyAt(d) /\ i < ProgramAt
      /\ Own(d) \subseteq 1..20 /\ ProgramAt \in 1..20 /\ i \in Nat
  BY DwordOrder, PlacesInRange DEF Common
<1>2. /\ BarAt(d) \in Nat /\ OnesAt(d) \in Nat /\ MaskAt(d) \in Nat /\ PutAt(d) \in Nat
      /\ VerifyAt(d) \in Nat /\ ProgramAt \in Nat
  BY <1>1 DEF Own
<1>3. /\ BarAt(d)' = BarAt(d) /\ OnesAt(d)' = OnesAt(d) /\ MaskAt(d)' = MaskAt(d)
      /\ PutAt(d)' = PutAt(d) /\ VerifyAt(d)' = VerifyAt(d)
      /\ Ones(d)' = Ones(d) /\ ProgramAt' = ProgramAt /\ before' = before
  BY SamePlaces, SameFunction DEF Steady
<1>4. lost \in Nat
  BY RegisterValues
<1>5. Bar!Store(d, saved.bar[d]) = before.bar[d]
  BY <1>1, <1>2 DEF DwordAt, Registered
<1>6. QED
  BY <1>1, <1>2, <1>3, <1>4, <1>5 DEF DwordAt

LEMMA DwordVerify ==
  ASSUME Registered, kind \in Bar!Transactions, Steady, NEW d \in Bar!Dwords,
         NEW i \in 1..SucceedAt, i = VerifyAt(d),
         DwordAt(d, i, bar[d], saved.bar[d], mask[d], lost),
         bar[d] = saved.bar[d], bar' = bar, saved' = saved, mask' = mask, lost' = lost
  PROVE  DwordAt(d, i + 1, bar[d], saved.bar[d], mask[d], lost)'
<1>1. /\ i > BarAt(d) /\ i > OnesAt(d) /\ i > MaskAt(d) /\ i > PutAt(d) /\ i < ProgramAt
      /\ Own(d) \subseteq 1..20 /\ ProgramAt \in 1..20 /\ i \in Nat
  BY DwordOrder, PlacesInRange DEF Common
<1>2. /\ BarAt(d) \in Nat /\ OnesAt(d) \in Nat /\ MaskAt(d) \in Nat /\ PutAt(d) \in Nat
      /\ VerifyAt(d) \in Nat /\ ProgramAt \in Nat
  BY <1>1 DEF Own
<1>3. /\ BarAt(d)' = BarAt(d) /\ OnesAt(d)' = OnesAt(d) /\ MaskAt(d)' = MaskAt(d)
      /\ PutAt(d)' = PutAt(d) /\ VerifyAt(d)' = VerifyAt(d)
      /\ Ones(d)' = Ones(d) /\ ProgramAt' = ProgramAt /\ before' = before
  BY SamePlaces, SameFunction DEF Steady
<1>4. QED
  BY <1>1, <1>2, <1>3 DEF DwordAt

\* What is reported and accepted depends only on what root has saved and measured.
Measured == UNCHANGED <<saved, mask>>

LEMMA SameReport ==
  ASSUME Steady, Measured
  PROVE  /\ Bar!Reported' = Bar!Reported /\ Bar!MaskSize' = Bar!MaskSize
         /\ (Bar!MaskZero' <=> Bar!MaskZero)
<1>1. /\ size' = size /\ type' = type /\ before' = before /\ kind' = kind /\ input' = input
      /\ saved' = saved /\ mask' = mask
  BY DEF Steady, Measured
<1>2. Bar!MaskSize' = Bar!MaskSize /\ (Bar!MaskZero' <=> Bar!MaskZero)
  BY <1>1 DEF Bar!MaskSize, Bar!MaskZero, Bar!Address
<1>3. Bar!Reported' = Bar!Reported
  BY <1>1 DEF Bar!Reported, Bar!MaskSize, Bar!Address, Bar!AlignUp
<1>4. QED
  BY <1>2, <1>3

LEMMA SameAccepted ==
  ASSUME Steady, Measured, Bar!Accepted
  PROVE  Bar!Accepted'
<1>1. type' = type /\ kind' = kind /\ input' = input
  BY DEF Steady
<1>2. /\ Bar!Reported' = Bar!Reported /\ Bar!MaskSize' = Bar!MaskSize
      /\ (Bar!MaskZero' <=> Bar!MaskZero)
  BY SameReport
<1>3. Bar!PowerOfTwo(Bar!MaskSize)
  BY DEF Bar!Accepted
<1>4. (Bar!PowerOfTwo(Bar!MaskSize))'
  BY <1>2, <1>3 DEF Bar!PowerOfTwo
<1>5. Bar!Accepted'
  BY <1>1, <1>2, <1>4, Zenon DEF Bar!Accepted, Bar!Fits, Bar!RegionSane, Bar!Is32Bit,
     Bar!PowerOfTwo
<1>6. QED
  BY <1>5

LEMMA DecidingCarried ==
  ASSUME Registered, kind \in Bar!Transactions, Steady, NEW i \in 1..SucceedAt, Deciding(i),
         i \notin {CommandAt, QuiesceAt, TouchAt, UntouchAt},
         decoding' = decoding, saved'.decoding = saved.decoding, flags' = flags,
         lost' = 0 => lost = 0,
         i >= AcceptAt => Bar!Accepted',
         i >= ReadBackAt => bar'[0] = (Bar!Reported.paddr)'
  PROVE  Deciding(i + 1)'
<1>1. /\ CommandAt' = CommandAt /\ QuiesceAt' = QuiesceAt /\ TouchAt' = TouchAt
      /\ UntouchAt' = UntouchAt /\ AcceptAt' = AcceptAt /\ ReadBackAt' = ReadBackAt
      /\ before' = before
  BY SamePlaces DEF Steady
<1>2. /\ CommandAt \in Nat /\ QuiesceAt \in Nat /\ TouchAt \in Nat /\ UntouchAt \in Nat
      /\ AcceptAt \in Nat /\ ReadBackAt \in Nat /\ i \in Nat
  BY PlacesInRange DEF Common
<1>3. /\ i + 1 > CommandAt <=> i > CommandAt
      /\ i + 1 <= QuiesceAt <=> i <= QuiesceAt
      /\ i + 1 > QuiesceAt <=> i > QuiesceAt
      /\ i + 1 > TouchAt <=> i > TouchAt
      /\ i + 1 <= UntouchAt <=> i <= UntouchAt
      /\ i + 1 > AcceptAt <=> i >= AcceptAt
      /\ i + 1 > ReadBackAt <=> i >= ReadBackAt
  BY <1>2
<1>4. (~Bar!Success)'
  BY DEF Deciding, Bar!Success
<1>5. /\ (i + 1 > CommandAt => saved.decoding = before.decoding)'
      /\ (i + 1 <= QuiesceAt => decoding = before.decoding)'
      /\ (lost = 0 /\ i + 1 > QuiesceAt => decoding = FALSE)'
      /\ ("quiesced" \in flags <=> i + 1 > QuiesceAt)'
      /\ ("touched" \in flags <=> i + 1 > TouchAt /\ i + 1 <= UntouchAt)'
  BY <1>1, <1>3 DEF Deciding
<1>6. (i + 1 > AcceptAt => Bar!Accepted)'
  BY <1>1, <1>3
<1>7. (i + 1 > ReadBackAt => bar[0] = Bar!Reported.paddr)'
  BY <1>1, <1>3
<1>8. QED
  BY <1>4, <1>5, <1>6, <1>7 DEF Deciding

-----------------------------------------------------------------------------
(* Which phase a step belongs to, and what follows it.                     *)
MainOf == Bar!MainAccess \cup {"admit", "touch", "untouch", "accept", "succeed"}

LEMMA OpsApart == MainOf \cap (Bar!UndoAccess \cup {"return"}) = {}
BY DEF MainOf, Bar!MainAccess, Bar!UndoAccess

LEMMA InMain ==
  ASSUME BarInv, barTodo # <<>>, Head(barTodo).op \in MainOf
  PROVE  /\ Registered /\ kind \in Bar!Transactions
         /\ \E i \in 1..SucceedAt :
              /\ OnList(barTodo, Bar!Steps[kind], i) /\ Main(i)
              /\ Found(Head(barTodo), i)
<1>1. Registered /\ kind # "none" /\ kind \in Bar!Transactions
  BY DEF BarInv, Registered
<1>2. CASE Going
  <2>1. PICK i : OnList(barTodo, Bar!Steps[kind], i) /\ Main(i)
    BY <1>2 DEF Going
  <2>2. i \in 1..SucceedAt /\ Found(Head(barTodo), i)
    BY <1>1, <2>1, Where
  <2>3. QED
    BY <1>1, <2>1, <2>2
<1>3. CASE Gone
  <2>1. PICK j : OnList(barTodo, Exits, j) /\ Out(j)
    BY <1>3 DEF Gone
  <2>2. FoundOut(Head(barTodo), j)
    BY <1>1, <2>1, WhereOut
  <2>3. QED
    BY <2>2, OpsApart DEF FoundOut
<1>4. QED
  BY <1>1, <1>2, <1>3 DEF BarInv

LEMMA InOut ==
  ASSUME BarInv, barTodo # <<>>, Head(barTodo).op \in Bar!UndoAccess \cup {"return"}
  PROVE  /\ Registered /\ kind \in Bar!Transactions
         /\ \E j \in 1..ReturnAt :
              /\ OnList(barTodo, Exits, j) /\ Out(j)
              /\ FoundOut(Head(barTodo), j)
<1>1. Registered /\ kind # "none" /\ kind \in Bar!Transactions
  BY DEF BarInv, Registered
<1>2. CASE Going
  <2>1. PICK i : OnList(barTodo, Bar!Steps[kind], i) /\ Main(i)
    BY <1>2 DEF Going
  <2>2. Found(Head(barTodo), i)
    BY <1>1, <2>1, Where
  <2>3. QED
    BY <2>2, OpsApart DEF Found, MainOf
<1>3. CASE Gone
  <2>1. PICK j : OnList(barTodo, Exits, j) /\ Out(j)
    BY <1>3 DEF Gone
  <2>2. j \in 1..ReturnAt /\ FoundOut(Head(barTodo), j)
    BY <1>1, <2>1, WhereOut
  <2>3. QED
    BY <1>1, <2>1, <2>2
<1>4. QED
  BY <1>1, <1>2, <1>3 DEF BarInv

LEMMA GoesOn ==
  ASSUME Registered, kind \in Bar!Transactions, Steady, NEW i \in 1..SucceedAt,
         OnList(barTodo, Bar!Steps[kind], i), i < SucceedAt, barTodo' = Tail(barTodo),
         Registered', Main(i + 1)'
  PROVE  BarInv'
<1>1. OnList(barTodo', Bar!Steps[kind], i + 1)
  BY Where
<1>2. kind' = kind /\ kind # "none"
  BY KindsAre DEF Steady
<1>3. (OnList(barTodo, Bar!Steps[kind], i + 1))'
  BY <1>1, <1>2 DEF OnList
<1>4. Going'
  BY <1>3 DEF Going
<1>5. QED
  BY <1>2, <1>4 DEF BarInv

LEMMA GoesOut ==
  ASSUME Registered, kind \in Bar!Transactions, Steady, NEW j \in 1..ReturnAt,
         OnList(barTodo', Exits, j), Registered', Out(j)'
  PROVE  BarInv'
<1>1. kind' = kind /\ kind # "none" /\ Exits' = Exits
  BY KindsAre, SamePlaces DEF Steady
<1>2. (OnList(barTodo, Exits, j))'
  BY <1>1 DEF OnList
<1>3. Gone'
  BY <1>2 DEF Gone
<1>4. QED
  BY <1>1, <1>3 DEF BarInv

-----------------------------------------------------------------------------
(* The steps of a transaction.                                             *)
LEMMA CommonOrder ==
  ASSUME kind \in Bar!Transactions, NEW i \in 1..SucceedAt
  PROVE  /\ i \in {IdentifyAt, AdmitAt, AcceptAt, ProgramAt, ReadBackAt} =>
              i \notin {CommandAt, QuiesceAt, TouchAt, UntouchAt} /\ i < SucceedAt
         /\ i \in {IdentifyAt, AdmitAt, CommandAt, QuiesceAt, TouchAt, UntouchAt} =>
              i < AcceptAt /\ i < ReadBackAt /\ i < SucceedAt
         /\ i = AcceptAt => i < ReadBackAt
         /\ i = ProgramAt => i < ReadBackAt /\ i > AcceptAt /\ kind = "assign"
         /\ i = ReadBackAt => i > AcceptAt /\ i > ProgramAt /\ kind = "assign"
         /\ i = CommandAt => i \notin {QuiesceAt, TouchAt, UntouchAt} /\ i < QuiesceAt
         /\ i = QuiesceAt => i \notin {CommandAt, TouchAt, UntouchAt} /\ i > CommandAt
         /\ i = TouchAt => i \notin {CommandAt, QuiesceAt} /\ i < UntouchAt
         /\ i = UntouchAt => i \notin {CommandAt, QuiesceAt} /\ i > TouchAt
<1>1. i \in Nat /\ i <= 16
  BY PlacesInRange
<1>2. CASE kind = "assign"
  BY <1>1, <1>2, Places
<1>3. CASE kind = "range32"
  BY <1>1, <1>3, Places
<1>4. CASE kind = "range64"
  BY <1>1, <1>4, Places
<1>5. CASE kind = "n1"
  BY <1>1, <1>5, Places
<1>6. QED
  BY <1>2, <1>3, <1>4, <1>5, KindsAre

LEMMA CommonStep ==
  ASSUME Registered, kind \in Bar!Transactions, Steady, NEW i \in 1..SucceedAt, i \in Common,
         Main(i), bar' = bar, saved'.bar = saved.bar, mask' = mask, lost' = 0 => lost = 0
  PROVE  \A d \in Bar!Dwords : (DwordAt(d, i + 1, bar[d], saved.bar[d], mask[d], lost))'
<1> SUFFICES ASSUME NEW d \in Bar!Dwords
             PROVE  (DwordAt(d, i + 1, bar[d], saved.bar[d], mask[d], lost))'
  OBVIOUS
<1>1. i \notin Own(d)
  BY PlacesApart, DwordsAre
<1>2. DwordAt(d, i, bar[d], saved.bar[d], mask[d], lost)
  BY DEF Main
<1>3. QED
  BY <1>1, <1>2, DwordCarried

\* A step that changes nothing but where root is
LEMMA QuietMove ==
  ASSUME Registered, kind \in Bar!Transactions, Steady, NEW i \in 1..SucceedAt,
         i \in {IdentifyAt, AdmitAt, AcceptAt, ReadBackAt},
         OnList(barTodo, Bar!Steps[kind], i), Main(i),
         UNCHANGED <<bar, decoding, saved, mask, flags, resource, barErrors, lost>>,
         i = AcceptAt => Bar!Accepted, i = ReadBackAt => bar[0] = Bar!Reported.paddr,
         barTodo' = Tail(barTodo)
  PROVE  BarInv'
<1>1. i \in Common /\ i \notin {CommandAt, QuiesceAt, TouchAt, UntouchAt} /\ i < SucceedAt
  BY CommonOrder DEF Common
<1>2. Registered'
  BY RegisteredNext DEF Registered
<1>3. \A d \in Bar!Dwords : (DwordAt(d, i + 1, bar[d], saved.bar[d], mask[d], lost))'
  BY <1>1, CommonStep
<1>4. i \in Nat /\ AcceptAt \in Nat /\ ReadBackAt \in Nat
      /\ (i < AcceptAt \/ i = AcceptAt \/ i > AcceptAt)
      /\ (i \in {IdentifyAt, AdmitAt} => i < AcceptAt /\ i < ReadBackAt)
      /\ (i = AcceptAt => i < ReadBackAt)
  BY CommonOrder, PlacesInRange DEF Common
<1>5. Measured
  BY DEF Measured
<1>6. i >= AcceptAt => Bar!Accepted'
  <2>1. i >= AcceptAt => Bar!Accepted
    BY <1>4 DEF Main, Deciding
  <2>2. QED
    BY <1>5, <2>1, SameAccepted
<1>7. i >= ReadBackAt => bar'[0] = (Bar!Reported.paddr)'
  <2>1. Bar!Reported' = Bar!Reported
    BY <1>5, SameReport
  <2>2. i >= ReadBackAt => i = ReadBackAt
    BY <1>4
  <2>3. QED
    BY <2>1, <2>2
<1>8. Deciding(i)
  BY DEF Main
<1>9. Deciding(i + 1)'
  BY <1>1, <1>6, <1>7, <1>8, DecidingCarried
<1>10. Main(i + 1)'
  BY <1>3, <1>9 DEF Main
<1>11. QED
  BY <1>1, <1>2, <1>10, GoesOn

LEMMA DecideIs ==
  ASSUME Bar!Decide
  PROVE  /\ Steady
         /\ UNCHANGED <<bar, decoding, saved, mask, resource, barErrors, lost>>
BY DEF Bar!Decide, Bar!functionVars, Bar!faultVars, Steady

\* The same for an own step of one dword, but for the dwords
LEMMA OwnStep ==
  ASSUME Registered, kind \in Bar!Transactions, Steady, NEW i \in 1..SucceedAt,
         NEW d \in Bar!Dwords, i \in Own(d),
         OnList(barTodo, Bar!Steps[kind], i), Main(i), Registered',
         decoding' = decoding, saved'.decoding = saved.decoding, flags' = flags,
         lost' = 0 => lost = 0,
         \A e \in Bar!Dwords \ {d} :
           bar'[e] = bar[e] /\ saved'.bar[e] = saved.bar[e] /\ mask'[e] = mask[e],
         (DwordAt(d, i + 1, bar[d], saved.bar[d], mask[d], lost))',
         barTodo' = Tail(barTodo)
  PROVE  BarInv'
<1>1. /\ i < AcceptAt /\ i < ReadBackAt /\ i < SucceedAt
      /\ i \notin {CommandAt, QuiesceAt, TouchAt, UntouchAt}
      /\ \A e \in Bar!Dwords \ {d} : i \notin Own(e)
  BY PlacesApart, DwordsAre
<1>2. ASSUME NEW e \in Bar!Dwords \ {d}
      PROVE  (DwordAt(e, i + 1, bar[e], saved.bar[e], mask[e], lost))'
  <2>1. i \notin Own(e) /\ DwordAt(e, i, bar[e], saved.bar[e], mask[e], lost)
    BY <1>1 DEF Main
  <2>2. QED
    BY <2>1, DwordCarried
<1>3. \A e \in Bar!Dwords : (DwordAt(e, i + 1, bar[e], saved.bar[e], mask[e], lost))'
  BY <1>2
<1>4. ~(i >= AcceptAt) /\ ~(i >= ReadBackAt)
  <2>1. i \in Nat /\ SucceedAt \in Nat /\ AcceptAt \in 1..20 /\ ReadBackAt \in 1..20
    <3>1. SucceedAt \in 11..16 /\ Common \subseteq 1..20
      BY PlacesInRange
    <3>2. QED
      BY <3>1 DEF Common
  <2>2. QED
    BY <1>1, <2>1
<1>5. Deciding(i)
  BY DEF Main
<1>6. Deciding(i + 1)'
  BY <1>1, <1>4, <1>5, DecidingCarried
<1>7. Main(i + 1)'
  BY <1>3, <1>6 DEF Main
<1>8. QED
  BY <1>1, <1>7, GoesOn

LEMMA BarTouches == BarInv /\ Bar!Touch => BarInv'
<1> SUFFICES ASSUME BarInv, Bar!Touch PROVE BarInv'
  OBVIOUS
<1>1. /\ barTodo # <<>> /\ barTodo' = Tail(barTodo) /\ Bar!Decide
      /\ \/ Head(barTodo).op = "touch" /\ flags' = flags \cup {"touched"}
         \/ Head(barTodo).op = "untouch" /\ flags' = flags \ {"touched"}
  BY DEF Bar!Touch, Bar!Doing, Bar!Continue
<1>2. Registered /\ kind \in Bar!Transactions
  BY <1>1, InMain DEF MainOf
<1>3. PICK i \in 1..SucceedAt : /\ OnList(barTodo, Bar!Steps[kind], i) /\ Main(i)
                                /\ Found(Head(barTodo), i)
  BY <1>1, InMain DEF MainOf
<1>4. Steady /\ UNCHANGED <<bar, decoding, saved, mask, resource, barErrors, lost>>
  BY <1>1, DecideIs
<1>5. \/ i = TouchAt /\ flags' = flags \cup {"touched"}
      \/ i = UntouchAt /\ flags' = flags \ {"touched"}
  BY <1>1, <1>3 DEF Found
<1>6. /\ i \in Common /\ i < AcceptAt /\ i < ReadBackAt /\ i < SucceedAt
      /\ i \notin {CommandAt, QuiesceAt}
      /\ i = TouchAt => i < UntouchAt
      /\ i = UntouchAt => i > TouchAt
  BY <1>2, <1>5, CommonOrder DEF Common
<1>7. Registered'
  BY <1>2, <1>4, <1>5, RegisteredNext DEF Registered, Bar!Flags
<1>8. \A d \in Bar!Dwords : (DwordAt(d, i + 1, bar[d], saved.bar[d], mask[d], lost))'
  BY <1>2, <1>3, <1>4, <1>6, CommonStep
<1>9. Deciding(i + 1)'
  <2>1. /\ CommandAt' = CommandAt /\ QuiesceAt' = QuiesceAt /\ TouchAt' = TouchAt
        /\ UntouchAt' = UntouchAt /\ AcceptAt' = AcceptAt /\ ReadBackAt' = ReadBackAt
        /\ before' = before
    BY <1>4, SamePlaces DEF Steady
  <2>2. /\ CommandAt \in Nat /\ QuiesceAt \in Nat /\ TouchAt \in Nat /\ UntouchAt \in Nat
        /\ AcceptAt \in Nat /\ ReadBackAt \in Nat /\ i \in Nat
    BY <1>2, PlacesInRange DEF Common
  <2>3. /\ i + 1 > CommandAt <=> i > CommandAt
        /\ i + 1 <= QuiesceAt <=> i <= QuiesceAt
        /\ i + 1 > QuiesceAt <=> i > QuiesceAt
        /\ ~(i + 1 > AcceptAt) /\ ~(i + 1 > ReadBackAt)
    BY <1>6, <2>2
  <2>4. IF i = TouchAt THEN i + 1 > TouchAt /\ i + 1 <= UntouchAt
                       ELSE i = UntouchAt /\ ~(i + 1 <= UntouchAt)
    BY <1>5, <1>6, <2>2
  <2>5. i = TouchAt => i # UntouchAt
    BY <1>6, <2>2
  <2>6. Deciding(i)
    BY <1>3 DEF Main
  <2>7. (~Bar!Success)'
    BY <1>5, <2>6 DEF Deciding, Bar!Success
  <2>8. ("quiesced" \in flags <=> i + 1 > QuiesceAt)'
    BY <1>5, <2>1, <2>3, <2>6 DEF Deciding
  <2>9. ("touched" \in flags <=> i + 1 > TouchAt /\ i + 1 <= UntouchAt)'
    BY <1>5, <2>1, <2>4, <2>5
  <2>10. /\ (i + 1 > CommandAt => saved.decoding = before.decoding)'
         /\ (i + 1 <= QuiesceAt => decoding = before.decoding)'
         /\ (lost = 0 /\ i + 1 > QuiesceAt => decoding = FALSE)'
    BY <1>4, <2>1, <2>3, <2>6 DEF Deciding
  <2>11. (i + 1 > AcceptAt => Bar!Accepted)'
         /\ (i + 1 > ReadBackAt => bar[0] = Bar!Reported.paddr)'
    BY <2>1, <2>3
  <2>12. QED
    BY <2>7, <2>8, <2>9, <2>10, <2>11 DEF Deciding
<1>10. Main(i + 1)'
  BY <1>8, <1>9 DEF Main
<1>11. QED
  BY <1>1, <1>2, <1>3, <1>4, <1>6, <1>7, <1>10, GoesOn

LEMMA BarQuiesces == BarInv /\ Bar!Quiesce => BarInv'
<1> SUFFICES ASSUME BarInv, Bar!Quiesce PROVE BarInv'
  OBVIOUS
<1>1. /\ barTodo # <<>> /\ barTodo' = Tail(barTodo) /\ Head(barTodo).op = "quiesce"
      /\ Bar!WriteCommand(FALSE) /\ flags' = flags \cup {"quiesced"}
  BY DEF Bar!Quiesce, Bar!Doing, Bar!Continue
<1>2. Registered /\ kind \in Bar!Transactions
  BY <1>1, InMain DEF MainOf, Bar!MainAccess
<1>3. PICK i \in 1..SucceedAt : /\ OnList(barTodo, Bar!Steps[kind], i) /\ Main(i)
                                /\ Found(Head(barTodo), i)
  BY <1>1, InMain DEF MainOf, Bar!MainAccess
<1>4. /\ Steady /\ UNCHANGED <<bar, saved, mask, resource, barErrors>>
      /\ \/ decoding' = FALSE /\ lost' = lost
         \/ lost < BarLost /\ lost' = lost + 1 /\ decoding' = decoding
  BY <1>1 DEF Bar!WriteCommand, Bar!functionVars, Steady
<1>5. i = QuiesceAt
  BY <1>1, <1>3 DEF Found
<1>6. /\ i \in Common /\ i < AcceptAt /\ i < ReadBackAt /\ i < SucceedAt
      /\ i \notin {CommandAt, TouchAt, UntouchAt} /\ i > CommandAt
  BY <1>2, <1>5, CommonOrder DEF Common
<1>7. lost' \in 0..BarLost /\ (lost' = 0 => lost = 0 /\ decoding' = FALSE)
  <2>1. lost \in 0..BarLost /\ BarLost \in Nat
    BY <1>2, BarConstants DEF Registered
  <2>2. QED
    BY <1>4, <2>1
<1>8. Registered'
  BY <1>1, <1>2, <1>4, <1>7, RegisteredNext DEF Registered, Bar!Flags
<1>9. \A d \in Bar!Dwords : (DwordAt(d, i + 1, bar[d], saved.bar[d], mask[d], lost))'
  BY <1>2, <1>3, <1>4, <1>6, <1>7, CommonStep
<1>10. Deciding(i + 1)'
  <2>1. /\ CommandAt' = CommandAt /\ QuiesceAt' = QuiesceAt /\ TouchAt' = TouchAt
        /\ UntouchAt' = UntouchAt /\ AcceptAt' = AcceptAt /\ ReadBackAt' = ReadBackAt
        /\ before' = before
    BY <1>4, SamePlaces DEF Steady
  <2>2. /\ CommandAt \in Nat /\ QuiesceAt \in Nat /\ TouchAt \in Nat /\ UntouchAt \in Nat
        /\ AcceptAt \in Nat /\ ReadBackAt \in Nat /\ i \in Nat
    BY <1>2, PlacesInRange DEF Common
  <2>3. /\ i + 1 > TouchAt <=> i > TouchAt
        /\ i + 1 <= UntouchAt <=> i <= UntouchAt
        /\ i + 1 > QuiesceAt /\ ~(i + 1 <= QuiesceAt)
        /\ ~(i + 1 > AcceptAt) /\ ~(i + 1 > ReadBackAt)
    BY <1>5, <1>6, <2>2
  <2>4. Deciding(i)
    BY <1>3 DEF Main
  <2>5. (~Bar!Success)'
    BY <1>1, <2>4 DEF Deciding, Bar!Success
  <2>6. ("quiesced" \in flags <=> i + 1 > QuiesceAt)'
    BY <1>1, <2>1, <2>3
  <2>7. ("touched" \in flags <=> i + 1 > TouchAt /\ i + 1 <= UntouchAt)'
    BY <1>1, <2>1, <2>3, <2>4 DEF Deciding
  <2>8. (i + 1 > CommandAt => saved.decoding = before.decoding)'
    BY <1>4, <1>6, <2>1, <2>4 DEF Deciding
  <2>9. /\ (i + 1 <= QuiesceAt => decoding = before.decoding)'
        /\ (lost = 0 /\ i + 1 > QuiesceAt => decoding = FALSE)'
    BY <1>7, <2>1, <2>3
  <2>10. (i + 1 > AcceptAt => Bar!Accepted)'
         /\ (i + 1 > ReadBackAt => bar[0] = Bar!Reported.paddr)'
    BY <2>1, <2>3
  <2>11. QED
    BY <2>5, <2>6, <2>7, <2>8, <2>9, <2>10 DEF Deciding
<1>11. Main(i + 1)'
  BY <1>9, <1>10 DEF Main
<1>12. QED
  BY <1>1, <1>2, <1>3, <1>4, <1>6, <1>8, <1>11, GoesOn

LEMMA FoundDword ==
  ASSUME NEW s, NEW i, Found(s, i), s.op \in {"readBar", "ones", "readMask", "putBack",
           "verify"}
  PROVE  /\ s.dword \in Bar!Dwords
         /\ s.op = "readBar" => i = BarAt(s.dword)
         /\ s.op = "ones" => i = OnesAt(s.dword)
         /\ s.op = "readMask" => i = MaskAt(s.dword)
         /\ s.op = "putBack" => i = PutAt(s.dword)
         /\ s.op = "verify" => i = VerifyAt(s.dword)
<1>1. /\ s.op = "readBar" => (s.dword = 0 /\ i = BarAt0) \/ (s.dword = 1 /\ i = BarAt1)
      /\ s.op = "ones" => (s.dword = 0 /\ i = OnesAt0) \/ (s.dword = 1 /\ i = OnesAt1)
      /\ s.op = "readMask" => (s.dword = 0 /\ i = MaskAt0) \/ (s.dword = 1 /\ i = MaskAt1)
      /\ s.op = "putBack" => (s.dword = 0 /\ i = PutAt0) \/ (s.dword = 1 /\ i = PutAt1)
      /\ s.op = "verify" => (s.dword = 0 /\ i = VerifyAt0) \/ (s.dword = 1 /\ i = VerifyAt1)
  BY DEF Found
<1>2. s.dword \in Bar!Dwords
  BY <1>1, DwordsAre
<1>3. QED
  BY <1>1, <1>2, PlacesOf

LEMMA BarSnapshots == BarInv /\ Bar!Snapshot => BarInv'
<1> SUFFICES ASSUME BarInv, Bar!Snapshot PROVE BarInv'
  OBVIOUS
<1>1. /\ barTodo # <<>> /\ barTodo' = Tail(barTodo)
      /\ UNCHANGED <<bar, decoding, mask, flags, resource, barErrors, lost>> /\ Steady
      /\ \/ Head(barTodo).op = "readCommand" /\ saved' = [saved EXCEPT !.decoding = decoding]
         \/ Head(barTodo).op = "readBar"
            /\ saved' = [saved EXCEPT !.bar[Head(barTodo).dword] = bar[Head(barTodo).dword]]
  BY DEF Bar!Snapshot, Bar!Doing, Bar!Continue, Bar!D, Bar!functionVars, Bar!faultVars, Steady
<1>2. Head(barTodo).op \in MainOf
  BY <1>1 DEF MainOf, Bar!MainAccess
<1>3. Registered /\ kind \in Bar!Transactions
  BY <1>1, <1>2, InMain
<1>4. PICK i \in 1..SucceedAt : /\ OnList(barTodo, Bar!Steps[kind], i) /\ Main(i)
                                /\ Found(Head(barTodo), i)
  BY <1>1, <1>2, InMain
<1>5. saved \in Bar!Registers /\ bar \in Bar!Words /\ decoding \in BOOLEAN
      /\ saved.bar \in Bar!Words /\ saved = [bar |-> saved.bar, decoding |-> saved.decoding]
  BY <1>3 DEF Registered, Bar!Registers
<1>6. CASE Head(barTodo).op = "readCommand" /\ saved' = [saved EXCEPT !.decoding = decoding]
  <2>1. i = CommandAt
    BY <1>4, <1>6 DEF Found
  <2>2. /\ i \in Common /\ i < AcceptAt /\ i < ReadBackAt /\ i < SucceedAt
        /\ i \notin {QuiesceAt, TouchAt, UntouchAt} /\ i < QuiesceAt
    BY <1>3, <2>1, CommonOrder DEF Common
  <2>3. saved' \in Bar!Registers /\ saved'.bar = saved.bar /\ saved'.decoding = decoding
    BY <1>5, <1>6 DEF Bar!Registers
  <2>4. Registered'
    BY <1>1, <1>3, <2>3, RegisteredNext DEF Registered
  <2>5. \A e \in Bar!Dwords : (DwordAt(e, i + 1, bar[e], saved.bar[e], mask[e], lost))'
    BY <1>1, <1>3, <1>4, <2>2, <2>3, CommonStep
  <2>6. Deciding(i + 1)'
    <3>1. /\ CommandAt' = CommandAt /\ QuiesceAt' = QuiesceAt /\ TouchAt' = TouchAt
          /\ UntouchAt' = UntouchAt /\ AcceptAt' = AcceptAt /\ ReadBackAt' = ReadBackAt
          /\ before' = before
      BY <1>1, SamePlaces DEF Steady
    <3>2. /\ CommandAt \in Nat /\ QuiesceAt \in Nat /\ TouchAt \in Nat /\ UntouchAt \in Nat
          /\ AcceptAt \in Nat /\ ReadBackAt \in Nat /\ i \in Nat
      BY <1>3, PlacesInRange DEF Common
    <3>3. /\ i + 1 > TouchAt <=> i > TouchAt
          /\ i + 1 <= UntouchAt <=> i <= UntouchAt
          /\ ~(i + 1 > QuiesceAt) /\ ~(i > QuiesceAt) /\ i <= QuiesceAt
          /\ ~(i + 1 > AcceptAt) /\ ~(i + 1 > ReadBackAt)
      BY <2>2, <3>2
    <3>4. Deciding(i) /\ decoding = before.decoding
      BY <1>4, <3>3 DEF Main, Deciding
    <3>5. (~Bar!Success)'
      BY <1>1, <3>4 DEF Deciding, Bar!Success
    <3>6. ("quiesced" \in flags <=> i + 1 > QuiesceAt)'
      BY <1>1, <3>1, <3>3, <3>4 DEF Deciding
    <3>7. ("touched" \in flags <=> i + 1 > TouchAt /\ i + 1 <= UntouchAt)'
      BY <1>1, <3>1, <3>3, <3>4 DEF Deciding
    <3>8. /\ (i + 1 > CommandAt => saved.decoding = before.decoding)'
          /\ (i + 1 <= QuiesceAt => decoding = before.decoding)'
          /\ (lost = 0 /\ i + 1 > QuiesceAt => decoding = FALSE)'
      BY <1>1, <2>3, <3>1, <3>3, <3>4
    <3>9. (i + 1 > AcceptAt => Bar!Accepted)'
          /\ (i + 1 > ReadBackAt => bar[0] = Bar!Reported.paddr)'
      BY <3>1, <3>3
    <3>10. QED
      BY <3>5, <3>6, <3>7, <3>8, <3>9 DEF Deciding
  <2>7. Main(i + 1)'
    BY <2>5, <2>6 DEF Main
  <2>8. QED
    BY <1>1, <1>3, <1>4, <2>2, <2>4, <2>7, GoesOn
<1>7. CASE Head(barTodo).op = "readBar"
      /\ saved' = [saved EXCEPT !.bar[Head(barTodo).dword] = bar[Head(barTodo).dword]]
  <2>1. PICK d \in Bar!Dwords : d = Head(barTodo).dword /\ i = BarAt(d)
    BY <1>4, <1>7, FoundDword
  <2>2. i \in Own(d)
    BY <2>1 DEF Own
  <2>3. saved.bar \in [Bar!Dwords -> Nat] /\ bar[d] \in Nat /\ bar[d] < Bar!Bound(d)
        /\ saved.bar[0] < Limit /\ saved.bar[1] < HighLimit
    BY <1>3, <1>5, <2>1, WordsAre, RegisterValues
  <2>4. /\ saved'.bar = [saved.bar EXCEPT ![d] = bar[d]]
        /\ saved'.decoding = saved.decoding
           /\ saved' = [bar |-> saved'.bar, decoding |-> saved'.decoding]
    BY <1>5, <1>7, <2>1
  <2>5. /\ saved'.bar \in [Bar!Dwords -> Nat] /\ saved'.bar[d] = bar[d]
        /\ \A e \in Bar!Dwords \ {d} : saved'.bar[e] = saved.bar[e]
    BY <2>1, <2>3, <2>4
  <2>6. saved'.bar[0] < Limit /\ saved'.bar[1] < HighLimit
    BY <2>1, <2>3, <2>5, BoundOf, DwordsAre
  <2>7. saved'.bar \in Bar!Words
    BY <2>5, <2>6, WordsAre
  <2>8. saved' \in Bar!Registers
    <3>1. saved'.decoding \in BOOLEAN
      BY <1>3, <2>4, RegisterValues
    <3>2. QED
      BY <2>4, <2>7, <3>1 DEF Bar!Registers
  <2>9. Registered'
    BY <1>1, <1>3, <2>8, RegisteredNext DEF Registered
  <2>10. DwordAt(d, i, bar[d], saved.bar[d], mask[d], lost)
    BY <1>4, <2>1 DEF Main
  <2>11. (DwordAt(d, i + 1, bar[d], saved.bar[d], mask[d], lost))'
    BY <1>1, <1>3, <2>1, <2>5, <2>10, DwordReadBar DEF Steady
  <2>12. QED
    BY <1>1, <1>3, <1>4, <2>1, <2>2, <2>4, <2>5, <2>9, <2>11, OwnStep
<1>8. QED
  BY <1>1, <1>6, <1>7

\* What a write to one dword leaves alone
LEMMA WriteBarIs ==
  ASSUME NEW d, NEW v, Bar!WriteBar(d, v)
  PROVE  Steady /\ UNCHANGED <<decoding, saved, mask, resource, barErrors>>
BY DEF Bar!WriteBar, Bar!functionVars, Steady

LEMMA BarProbes == BarInv /\ Bar!ProbeOnes => BarInv'
<1> SUFFICES ASSUME BarInv, Bar!ProbeOnes PROVE BarInv'
  OBVIOUS
<1>1. /\ barTodo # <<>> /\ barTodo' = Tail(barTodo) /\ Head(barTodo).op = "ones"
      /\ Bar!WriteBar(Head(barTodo).dword, Bar!Bound(Head(barTodo).dword) - 1) /\ flags' = flags
  BY DEF Bar!ProbeOnes, Bar!Doing, Bar!Continue, Bar!D
<1>2. Head(barTodo).op \in MainOf
  BY <1>1 DEF MainOf, Bar!MainAccess
<1>3. Registered /\ kind \in Bar!Transactions
  BY <1>1, <1>2, InMain
<1>4. PICK i \in 1..SucceedAt : /\ OnList(barTodo, Bar!Steps[kind], i) /\ Main(i)
                                /\ Found(Head(barTodo), i)
  BY <1>1, <1>2, InMain
<1>5. PICK d \in Bar!Dwords : d = Head(barTodo).dword /\ i = OnesAt(d)
  BY <1>1, <1>4, FoundDword
<1>14. Bar!WriteBar(d, Bar!Bound(d) - 1)
  BY <1>1, <1>5
<1>6. i \in Own(d)
  BY <1>5 DEF Own
<1>7. Steady /\ UNCHANGED <<decoding, saved, mask, resource, barErrors>>
  BY <1>14, WriteBarIs
<1>8. Bar!Bound(d) - 1 \in Nat /\ Bar!Bound(d) - 1 < Bar!Bound(d)
  BY <1>3, <1>5, RegisterValues
<1>9. /\ bar' \in Bar!Words
      /\ \A e \in Bar!Dwords : bar'[e] = Bar!Store(e, bar'[e])
      /\ \/ bar'[d] = Bar!Store(d, Bar!Bound(d) - 1) /\ lost' = lost
         \/ bar'[d] = bar[d] /\ lost' = lost + 1
      /\ \A e \in Bar!Dwords \ {d} : bar'[e] = bar[e]
      /\ lost' \in 0..BarLost /\ (lost' = 0 => lost = 0)
  BY <1>3, <1>5, <1>8, <1>14, Written
<1>10. Registered'
  BY <1>1, <1>3, <1>7, <1>9, RegisteredNext DEF Registered
<1>11. DwordAt(d, i, bar[d], saved.bar[d], mask[d], lost)
  BY <1>4, <1>5 DEF Main
<1>12. (DwordAt(d, i + 1, bar[d], saved.bar[d], mask[d], lost))'
  BY <1>3, <1>5, <1>7, <1>9, <1>11, DwordOnes DEF Ones
<1>13. QED
  BY <1>1, <1>3, <1>4, <1>5, <1>6, <1>7, <1>9, <1>10, <1>12, OwnStep

LEMMA BarPutsBack == BarInv /\ Bar!PutBack => BarInv'
<1> SUFFICES ASSUME BarInv, Bar!PutBack PROVE BarInv'
  OBVIOUS
<1>1. /\ barTodo # <<>> /\ barTodo' = Tail(barTodo) /\ Head(barTodo).op = "putBack"
      /\ Bar!WriteBar(Head(barTodo).dword, saved.bar[Head(barTodo).dword]) /\ flags' = flags
  BY DEF Bar!PutBack, Bar!Doing, Bar!Continue, Bar!D
<1>2. Head(barTodo).op \in MainOf
  BY <1>1 DEF MainOf, Bar!MainAccess
<1>3. Registered /\ kind \in Bar!Transactions
  BY <1>1, <1>2, InMain
<1>4. PICK i \in 1..SucceedAt : /\ OnList(barTodo, Bar!Steps[kind], i) /\ Main(i)
                                /\ Found(Head(barTodo), i)
  BY <1>1, <1>2, InMain
<1>5. PICK d \in Bar!Dwords : d = Head(barTodo).dword /\ i = PutAt(d)
  BY <1>1, <1>4, FoundDword
<1>14. Bar!WriteBar(d, saved.bar[d])
  BY <1>1, <1>5
<1>6. i \in Own(d)
  BY <1>5 DEF Own
<1>7. Steady /\ UNCHANGED <<decoding, saved, mask, resource, barErrors>>
  BY <1>14, WriteBarIs
<1>8. saved.bar[d] \in Nat /\ saved.bar[d] < Bar!Bound(d)
  BY <1>3, <1>5, RegisterValues
<1>9. /\ bar' \in Bar!Words
      /\ \A e \in Bar!Dwords : bar'[e] = Bar!Store(e, bar'[e])
      /\ \/ bar'[d] = Bar!Store(d, saved.bar[d]) /\ lost' = lost
         \/ bar'[d] = bar[d] /\ lost' = lost + 1
      /\ \A e \in Bar!Dwords \ {d} : bar'[e] = bar[e]
      /\ lost' \in 0..BarLost /\ (lost' = 0 => lost = 0)
  BY <1>3, <1>5, <1>8, <1>14, Written
<1>10. Registered'
  BY <1>1, <1>3, <1>7, <1>9, RegisteredNext DEF Registered
<1>11. DwordAt(d, i, bar[d], saved.bar[d], mask[d], lost)
  BY <1>4, <1>5 DEF Main
<1>12. (DwordAt(d, i + 1, bar[d], saved.bar[d], mask[d], lost))'
  BY <1>3, <1>5, <1>7, <1>9, <1>11, DwordPut
<1>13. QED
  BY <1>1, <1>3, <1>4, <1>5, <1>6, <1>7, <1>9, <1>10, <1>12, OwnStep

LEMMA BarMeasures == BarInv /\ Bar!ReadMask => BarInv'
<1> SUFFICES ASSUME BarInv, Bar!ReadMask PROVE BarInv'
  OBVIOUS
<1>1. /\ barTodo # <<>> /\ barTodo' = Tail(barTodo) /\ Head(barTodo).op = "readMask"
      /\ mask' = [mask EXCEPT ![Head(barTodo).dword] = bar[Head(barTodo).dword]] /\ Steady
      /\ UNCHANGED <<bar, decoding, saved, flags, resource, barErrors, lost>>
  BY DEF Bar!ReadMask, Bar!Doing, Bar!Continue, Bar!D, Bar!functionVars, Bar!faultVars, Steady
<1>2. Head(barTodo).op \in MainOf
  BY <1>1 DEF MainOf, Bar!MainAccess
<1>3. Registered /\ kind \in Bar!Transactions
  BY <1>1, <1>2, InMain
<1>4. PICK i \in 1..SucceedAt : /\ OnList(barTodo, Bar!Steps[kind], i) /\ Main(i)
                                /\ Found(Head(barTodo), i)
  BY <1>1, <1>2, InMain
<1>5. PICK d \in Bar!Dwords : d = Head(barTodo).dword /\ i = MaskAt(d)
  BY <1>1, <1>4, FoundDword
<1>14. mask' = [mask EXCEPT ![d] = bar[d]]
  BY <1>1, <1>5
<1>6. i \in Own(d)
  BY <1>5 DEF Own
<1>7. mask \in [Bar!Dwords -> Nat] /\ mask[0] < Limit /\ mask[1] < HighLimit
      /\ bar[d] \in Nat /\ bar[d] < Bar!Bound(d)
  BY <1>3, <1>5, WordsAre, RegisterValues DEF Registered
<1>8. /\ mask' \in [Bar!Dwords -> Nat] /\ mask'[d] = bar[d]
      /\ \A e \in Bar!Dwords \ {d} : mask'[e] = mask[e]
  BY <1>5, <1>7, <1>14
<1>9. mask' \in Bar!Words
  <2>1. mask'[0] < Limit /\ mask'[1] < HighLimit
    BY <1>5, <1>7, <1>8, BoundOf, DwordsAre
  <2>2. QED
    BY <1>8, <2>1, WordsAre
<1>10. Registered'
  BY <1>1, <1>3, <1>9, RegisteredNext DEF Registered
<1>11. DwordAt(d, i, bar[d], saved.bar[d], mask[d], lost)
  BY <1>4, <1>5 DEF Main
<1>12. (DwordAt(d, i + 1, bar[d], saved.bar[d], mask[d], lost))'
  BY <1>1, <1>3, <1>5, <1>8, <1>11, DwordMask
<1>13. QED
  BY <1>1, <1>3, <1>4, <1>5, <1>6, <1>8, <1>10, <1>12, OwnStep

-----------------------------------------------------------------------------
(* What is reported, and what its checks say of it.                        *)
LEMMA AddressOf ==
  ASSUME NEW w \in Bar!Words
  PROVE  /\ Bar!Address(w) = w[1] * Limit + w[0]
         /\ Bar!Address(w) \in Nat /\ Bar!Address(w) < Limit * HighLimit
         /\ \A v \in Bar!Words :
              w[0] <= v[0] /\ w[1] <= v[1] => Bar!Address(w) <= Bar!Address(v)
<1>1. /\ w[0] \in Nat /\ w[1] \in Nat /\ w[0] < Limit /\ w[1] < HighLimit
      /\ Limit \in Nat /\ HighLimit \in Nat
  BY WordsAre, BarConstants, DwordsAre
<1>2. Bar!Address(w) = w[1] * Limit + w[0]
  BY DEF Bar!Address
<1>3. /\ w[1] + 1 \in Nat /\ w[1] + 1 <= HighLimit
      /\ (w[1] + 1) * Limit = w[1] * Limit + Limit /\ w[1] * Limit \in Nat
  BY <1>1
<1>4. (w[1] + 1) * Limit <= HighLimit * Limit /\ HighLimit * Limit = Limit * HighLimit
  BY <1>1, <1>3, Times, Products
<1>5. Bar!Address(w) \in Nat /\ Bar!Address(w) < Limit * HighLimit
  BY <1>1, <1>2, <1>3, <1>4, Products
<1>6. ASSUME NEW v \in Bar!Words, w[0] <= v[0], w[1] <= v[1]
      PROVE  Bar!Address(w) <= Bar!Address(v)
  <2>1. v[0] \in Nat /\ v[1] \in Nat
    BY WordsAre, DwordsAre
  <2>2. w[1] * Limit <= v[1] * Limit /\ v[1] * Limit \in Nat
    BY <1>1, <1>6, <2>1, Times
  <2>3. Bar!Address(v) = v[1] * Limit + v[0]
    BY DEF Bar!Address
  <2>4. QED
    BY <1>1, <1>2, <1>3, <1>6, <2>1, <2>2, <2>3
<1>7. QED
  BY <1>2, <1>5, <1>6

LEMMA MaskSizes ==
  ASSUME Registered
  PROVE  /\ Bar!MaskSize = IF kind = "range64" THEN Limit * HighLimit - Bar!Address(mask)
                                               ELSE Limit - mask[0]
         /\ Bar!MaskSize \in Nat \ {0}
         /\ kind # "range64" => Bar!MaskSize <= Limit
<1>1. mask \in Bar!Words /\ mask[0] \in Nat /\ mask[0] < Limit /\ Limit \in Nat
  BY WordsAre, BarConstants, DwordsAre DEF Registered
<1>2. Bar!Address(mask) \in Nat /\ Bar!Address(mask) < Limit * HighLimit
      /\ Limit * HighLimit \in Nat
  BY <1>1, AddressOf, Products
<1>3. Bar!MaskSize = IF kind = "range64" THEN Limit * HighLimit - Bar!Address(mask)
                                         ELSE Limit - mask[0]
  BY DEF Bar!MaskSize
<1>4. Limit * HighLimit - Bar!Address(mask) \in Nat \ {0}
      /\ Limit - mask[0] \in Nat \ {0} /\ Limit - mask[0] <= Limit
  BY <1>1, <1>2
<1>5. QED
  BY <1>3, <1>4

LEMMA ReportedIs ==
  ASSUME Registered
  PROVE  /\ kind = "assign" =>
              Bar!Reported = [paddr |-> Bar!AlignUp(input.start, Bar!MaskSize),
                              size |-> Bar!MaskSize,
                              start |-> Bar!AlignUp(input.start, Bar!MaskSize)]
         /\ kind \notin {"assign", "range64"} =>
              Bar!Reported = [paddr |-> saved.bar[0], size |-> Bar!MaskSize,
                              start |-> saved.bar[0] + input.offset]
         /\ kind = "range64" =>
              Bar!Reported = [paddr |-> Bar!Address(saved.bar), size |-> Bar!MaskSize,
                              start |-> Bar!Address(saved.bar) + input.offset]
<1>1. saved.bar \in [Bar!Dwords -> Nat] /\ Limit \in Nat
  BY WordsAre, RegisterValues, BarConstants
<1>2. /\ [saved.bar EXCEPT ![1] = saved.bar[1]] = saved.bar
      /\ [saved.bar EXCEPT ![1] = 0][1] = 0 /\ [saved.bar EXCEPT ![1] = 0][0] = saved.bar[0]
  BY <1>1, DwordsAre
<1>3. kind = "assign" =>
        Bar!Reported = [paddr |-> Bar!AlignUp(input.start, Bar!MaskSize),
                        size |-> Bar!MaskSize,
                        start |-> Bar!AlignUp(input.start, Bar!MaskSize)]
  BY DEF Bar!Reported
<1>4. ASSUME kind \notin {"assign", "range64"}
      PROVE  Bar!Reported = [paddr |-> saved.bar[0], size |-> Bar!MaskSize,
                             start |-> saved.bar[0] + input.offset]
  <2>1. Bar!Address([saved.bar EXCEPT ![1] = 0]) = saved.bar[0]
    <3>1. Bar!Address([saved.bar EXCEPT ![1] = 0]) = 0 * Limit + saved.bar[0]
      BY <1>2 DEF Bar!Address
    <3>2. saved.bar[0] \in Nat
      BY <1>1, DwordsAre
    <3>3. QED
      BY <1>1, <3>1, <3>2
  <2>2. [saved.bar EXCEPT ![1] = IF kind = "range64" THEN @ ELSE 0]
          = [saved.bar EXCEPT ![1] = 0]
    BY <1>4
  <2>3. Bar!Reported = [paddr |-> Bar!Address([saved.bar EXCEPT ![1] = 0]),
                        size |-> Bar!MaskSize,
                        start |-> Bar!Address([saved.bar EXCEPT ![1] = 0]) + input.offset]
    BY <1>4, <2>2 DEF Bar!Reported
  <2>4. QED
    BY <2>1, <2>3
<1>5. ASSUME kind = "range64"
      PROVE  Bar!Reported = [paddr |-> Bar!Address(saved.bar), size |-> Bar!MaskSize,
                             start |-> Bar!Address(saved.bar) + input.offset]
  <2>1. [saved.bar EXCEPT ![1] = IF kind = "range64" THEN @ ELSE 0] = saved.bar
    BY <1>2, <1>5
  <2>2. QED
    BY <1>5, <2>1 DEF Bar!Reported
<1>6. QED
  BY <1>3, <1>4, <1>5

LEMMA AcceptedIs ==
  ASSUME Bar!Accepted
  PROVE  /\ ~Bar!MaskZero
         /\ kind = "assign" => Bar!Is32Bit
            /\ Bar!Fits(Bar!Reported.start, Bar!MaskSize, input.end)
         /\ kind = "range32" => Bar!Is32Bit /\ Bar!RegionSane(Bar!Reported)
         /\ kind = "range64" => Bar!RegionSane(Bar!Reported)
         /\ kind = "n1" => Bar!Is32Bit /\ Bar!Reported.paddr <= Limit - Bar!MaskSize
<1>1. ~Bar!MaskZero
  BY DEF Bar!Accepted
<1>2. ASSUME kind = "assign"
      PROVE  Bar!Is32Bit /\ Bar!Fits(Bar!Reported.start, Bar!MaskSize, input.end)
  BY <1>2, Zenon DEF Bar!Accepted
<1>3. ASSUME kind = "range32"
      PROVE  Bar!Is32Bit /\ Bar!RegionSane(Bar!Reported)
  <2>1. kind # "assign"
    BY <1>3
  <2>2. QED
    BY <1>3, <2>1, Zenon DEF Bar!Accepted
<1>4. ASSUME kind = "range64"
      PROVE  Bar!RegionSane(Bar!Reported)
  <2>1. kind # "assign" /\ kind # "range32"
    BY <1>4
  <2>2. QED
    BY <1>4, <2>1, Zenon DEF Bar!Accepted
<1>5. ASSUME kind = "n1"
      PROVE  Bar!Is32Bit /\ Bar!Reported.paddr <= Limit - Bar!MaskSize
  <2>1. kind # "assign" /\ kind # "range32" /\ kind # "range64"
    BY <1>5
  <2>2. QED
    BY <1>5, <2>1, Zenon DEF Bar!Accepted
<1>6. QED
  BY <1>1, <1>2, <1>3, <1>4, <1>5

\* The allocator's base is aligned, at or above the window's start.
LEMMA Aligned ==
  ASSUME NEW a \in Nat, NEW n \in Nat \ {0}
  PROVE  /\ Bar!AlignUp(a, n) \in Nat /\ a <= Bar!AlignUp(a, n)
         /\ Bar!AlignUp(a, n) % n = 0
<1>1. a + n - 1 \in Nat
  OBVIOUS
<1> DEFINE v == a + n - 1
           q == v \div n
<1>2. q \in Nat /\ q * n \in Nat /\ q * n <= v /\ v < q * n + n
  BY <1>1, Rounding
<1>3. Bar!AlignUp(a, n) = q * n
  BY DEF Bar!AlignUp
<1>4. (q * n) % n = 0
  <2> HIDE DEF q
  <2>1. QED
    BY <1>2, MultipleOf
<1>5. a <= q * n
  <2> HIDE DEF q
  <2>1. QED
    BY <1>2 DEF v
<1>6. QED
  BY <1>2, <1>3, <1>4, <1>5

LEMMA Assignable ==
  ASSUME Registered, kind = "assign", Bar!Accepted
  PROVE  /\ Bar!Reported.paddr \in Nat /\ Bar!Reported.paddr < Limit
         /\ Bar!Reported.start = Bar!Reported.paddr
         /\ Bar!Reported.size = Bar!MaskSize
         /\ input.start <= Bar!Reported.paddr /\ Bar!Reported.paddr % Bar!MaskSize = 0
         /\ Bar!Reported.paddr + Bar!MaskSize <= input.end
<1> DEFINE a == Bar!AlignUp(input.start, Bar!MaskSize)
<1>1. input.start \in Nat /\ input.end \in Nat /\ Bar!MaskSize \in Nat \ {0} /\ Limit \in Nat
  BY MaskSizes, BarConstants DEF Registered
<1>2. a \in Nat /\ input.start <= a /\ a % Bar!MaskSize = 0
  BY <1>1, Aligned
<1>3. Bar!Reported = [paddr |-> a, size |-> Bar!MaskSize, start |-> a]
  BY ReportedIs
<1> HIDE DEF a
<1>4. Bar!Reported.paddr = a /\ Bar!Reported.start = a /\ Bar!Reported.size = Bar!MaskSize
  BY <1>3
<1>5. Bar!Fits(a, Bar!MaskSize, input.end)
  BY <1>4, AcceptedIs
<1>6. a <= input.end /\ Bar!MaskSize <= input.end - a /\ a + Bar!MaskSize <= Limit
  BY <1>5 DEF Bar!Fits
<1>7. a < Limit /\ a + Bar!MaskSize <= input.end
  BY <1>1, <1>2, <1>6
<1>8. QED
  BY <1>2, <1>4, <1>7

LEMMA Startable ==
  ASSUME Registered, kind \in Bar!Transactions, Bar!Accepted,
         \A d \in Bar!Dwords : Sized(d) => mask[d] >= saved.bar[d]
  PROVE  Bar!Reported.start \in 0..(Limit * HighLimit + Limit)
<1>1. /\ Limit \in Nat /\ Limit * HighLimit \in Nat /\ Limit <= Limit * HighLimit
      /\ input.offset \in Nat /\ input.length \in Nat
      /\ Bar!MaskSize \in Nat \ {0}
  BY BarConstants, Products, MaskSizes DEF Registered
<1>2. /\ saved.bar[0] \in Nat /\ saved.bar[0] < Limit /\ saved.bar \in Bar!Words
      /\ mask[0] \in Nat /\ mask \in Bar!Words
  BY RegisterValues, BoundOf, DwordsAre DEF Registered
<1>3. CASE kind = "assign"
  <2>1. Bar!Reported.start \in Nat /\ Bar!Reported.start < Limit
    BY <1>3, Assignable
  <2>2. QED
    BY <1>1, <2>1
<1>4. CASE kind = "n1"
  <2>1. input.offset = 0 /\ Bar!Reported.start = saved.bar[0] + input.offset
    BY <1>4, ReportedIs DEF Registered
  <2>2. QED
    BY <1>1, <1>2, <2>1
<1>5. CASE kind = "range32"
  <2>1. /\ Bar!Reported.start = saved.bar[0] + input.offset /\ Bar!Reported.size = Bar!MaskSize
        /\ Bar!MaskSize <= Limit
    BY <1>5, ReportedIs, MaskSizes
  <2>2. Bar!RegionSane(Bar!Reported)
    BY <1>5, AcceptedIs
  <2>3. input.offset <= Bar!MaskSize
    BY <2>1, <2>2 DEF Bar!RegionSane
  <2>4. QED
    BY <1>1, <1>2, <2>1, <2>3
<1>6. CASE kind = "range64"
  <2>1. /\ Bar!Reported.start = Bar!Address(saved.bar) + input.offset
        /\ Bar!Reported.size = Bar!MaskSize
        /\ Bar!MaskSize = Limit * HighLimit - Bar!Address(mask)
    BY <1>6, ReportedIs, MaskSizes
  <2>2. Bar!RegionSane(Bar!Reported)
    BY <1>6, AcceptedIs
  <2>3. input.offset <= Bar!MaskSize
    BY <2>1, <2>2 DEF Bar!RegionSane
  <2>4. saved.bar[0] <= mask[0] /\ saved.bar[1] <= mask[1]
    <3>1. mask[0] \in Nat /\ mask[1] \in Nat /\ saved.bar[0] \in Nat /\ saved.bar[1] \in Nat
      BY RegisterValues, DwordsAre
    <3>2. QED
      BY <1>6, <3>1, DwordsAre DEF Sized
  <2>5. Bar!Address(saved.bar) <= Bar!Address(mask) /\ Bar!Address(saved.bar) \in Nat
        /\ Bar!Address(mask) \in Nat
    BY <1>2, <2>4, AddressOf
  <2>6. QED
    BY <1>1, <2>1, <2>3, <2>5
<1>7. QED
  BY <1>3, <1>4, <1>5, <1>6, KindsAre

-----------------------------------------------------------------------------
(* To the label out, without success.                                      *)

\* Where root may turn back without an access failing
Checks == {IdentifyAt, AdmitAt, VerifyAt0, VerifyAt1, AcceptAt, ReadBackAt}

\* The dword is what it was, or it is marked touched and out undoes it.
Undone(d, i) == i <= OnesAt(d) \/ (i > PutAt(d) /\ (i <= ProgramAt \/ d = 1))
Recovered(d, i) == i > TouchAt /\ i <= UntouchAt /\ 1 <= UndoAt(d)

LEMMA UndoAhead ==
  ASSUME kind \in Bar!Transactions, NEW i \in 1..SucceedAt, NEW d \in Bar!Dwords
  PROVE  /\ i # TouchAt /\ kind # "assign" => Undone(d, i) \/ Recovered(d, i)
         /\ i \in Checks /\ kind # "assign" => Undone(d, i)
         /\ i \in Checks => Undone(d, i) \/ Recovered(d, i)
         /\ i > TouchAt /\ 1 <= UndoAt(d) => i > BarAt(d)
         /\ OnesAt(d) \in Nat /\ PutAt(d) \in Nat /\ UndoAt(d) \in 0..2
<1>1. SucceedAt \in 11..16 /\ Bar!Dwords = {0, 1} /\ d \in {0, 1}
  BY PlacesInRange, BoundOf, DwordsAre
<1>2. i \in {1, 2, 3, 4, 5, 6, 7, 8, 9, 10, 11, 12, 13, 14, 15, 16} /\ i <= SucceedAt
  BY <1>1
<1>3. CASE kind = "assign"
  BY <1>1, <1>2, <1>3, Places, ExitPlaces, PlacesOf DEF Undone, Recovered, Checks
<1>4. CASE kind = "range32"
  BY <1>1, <1>2, <1>4, Places, ExitPlaces, PlacesOf DEF Undone, Recovered, Checks
<1>5. CASE kind = "range64"
  BY <1>1, <1>2, <1>5, Places, ExitPlaces, PlacesOf DEF Undone, Recovered, Checks
<1>6. CASE kind = "n1"
  BY <1>1, <1>2, <1>6, Places, ExitPlaces, PlacesOf DEF Undone, Recovered, Checks
<1>7. QED
  BY <1>3, <1>4, <1>5, <1>6, KindsAre

LEMMA ExitOrder ==
  ASSUME kind \in Bar!Transactions
  PROVE  /\ ReturnAt \in 3..5 /\ CommandUndoAt \in 2..3 /\ CommandUndoAt < ReturnAt
         /\ \A d \in Bar!Dwords : UndoAt(d) \in 0..2 /\ UndoAt(d) < CommandUndoAt
         /\ CommandVerifyAt < ReturnAt /\ CommandVerifyAt \in {0, 4}
<1>1. CASE kind = "assign"
  BY <1>1, DwordsAre, ExitPlaces, PlacesOf
<1>2. CASE kind = "range32"
  BY <1>2, DwordsAre, ExitPlaces, PlacesOf
<1>3. CASE kind = "range64"
  BY <1>3, DwordsAre, ExitPlaces, PlacesOf
<1>4. CASE kind = "n1"
  BY <1>4, DwordsAre, ExitPlaces, PlacesOf
<1>5. QED
  BY <1>1, <1>2, <1>3, <1>4, KindsAre

LEMMA DwordRefused ==
  ASSUME Registered, kind \in Bar!Transactions, NEW i \in 1..SucceedAt, NEW d \in Bar!Dwords,
         DwordAt(d, i, bar[d], saved.bar[d], mask[d], lost), Deciding(i),
         NEW e \in Nat, i \in Checks \/ (i # TouchAt /\ e # 0)
  PROVE  DwordOut(d, OutAt(flags), bar[d], saved.bar[d], lost, e, FALSE)
<1>1. /\ OnesAt(d) \in Nat /\ PutAt(d) \in Nat /\ UndoAt(d) \in 0..2 /\ ProgramAt \in Nat
      /\ TouchAt \in Nat /\ UntouchAt \in Nat /\ BarAt(d) \in Nat /\ i \in Nat
      /\ CommandUndoAt \in 2..3 /\ ReturnAt \in 3..5 /\ UndoAt(d) < CommandUndoAt
      /\ CommandUndoAt < ReturnAt
  BY UndoAhead, PlacesInRange, ExitOrder DEF Common, Own
<1>2. "touched" \in flags <=> i > TouchAt /\ i <= UntouchAt
  BY DEF Deciding
<1>3. "success" \notin flags
  BY DEF Deciding, Bar!Success
<1>4. "touched" \in flags => OutAt(flags) = 1
  BY <1>3 DEF OutAt, Undoes
<1>5. OutAt(flags) <= UndoAt(d) => "touched" \in flags /\ OutAt(flags) = 1
  BY <1>1, <1>4 DEF OutAt, Undoes
<1>6. OutAt(flags) <= UndoAt(d) => saved.bar[d] = before.bar[d]
  <2>1. SUFFICES ASSUME OutAt(flags) <= UndoAt(d) PROVE saved.bar[d] = before.bar[d]
    OBVIOUS
  <2>2. i > TouchAt /\ 1 <= UndoAt(d)
    BY <1>2, <1>5, <2>1
  <2>3. i > BarAt(d)
    BY <2>2, UndoAhead
  <2>4. QED
    BY <2>3 DEF DwordAt
<1>7. Undone(d, i) /\ lost = 0 => bar[d] = before.bar[d]
  <2>1. SUFFICES ASSUME Undone(d, i), lost = 0 PROVE bar[d] = before.bar[d]
    OBVIOUS
  <2>2. QED
    BY <2>1, <1>1 DEF Undone, DwordAt
<1>8. Recovered(d, i) => OutAt(flags) <= UndoAt(d)
  BY <1>1, <1>2, <1>4 DEF Recovered
<1>9. lost = 0 /\ e = 0 /\ kind # "assign" => bar[d] = before.bar[d]
  BY <1>7, UndoAhead
<1>10. lost = 0 /\ e <= (IF kind = "assign" THEN 0 ELSE 1) =>
         bar[d] = before.bar[d] \/ OutAt(flags) <= UndoAt(d)
  <2>1. SUFFICES ASSUME lost = 0, e <= (IF kind = "assign" THEN 0 ELSE 1)
                 PROVE  Undone(d, i) \/ Recovered(d, i)
    BY <1>7, <1>8
  <2>2. CASE i \in Checks
    BY <2>2, UndoAhead
  <2>3. CASE i # TouchAt /\ e # 0
    <3>1. kind # "assign"
      BY <2>1, <2>3
    <3>2. QED
      BY <2>3, <3>1, UndoAhead
  <2>4. QED
    BY <2>2, <2>3
<1>11. QED
  BY <1>6, <1>9, <1>10 DEF DwordOut

LEMMA Refuses ==
  ASSUME Registered, kind \in Bar!Transactions, Steady, NEW i \in 1..SucceedAt, Main(i),
         UNCHANGED <<bar, decoding, saved, mask, flags, resource, lost>>,
         barTodo' = Bar!Out(flags), barErrors' \in 0..BarErrors,
         i \in Checks \/ (i # TouchAt /\ barErrors' # 0)
  PROVE  BarInv'
<1>1. PICK j : j = OutAt(flags)
  OBVIOUS
<1>2. Deciding(i) /\ before' = before /\ kind' = kind
  BY DEF Main, Steady
<1>3. /\ CommandAt \in Nat /\ QuiesceAt \in Nat /\ TouchAt \in Nat /\ UntouchAt \in Nat
      /\ i \in Nat /\ CommandAt < QuiesceAt /\ QuiesceAt < TouchAt
      /\ CommandUndoAt \in 2..3 /\ ReturnAt \in 3..5 /\ CommandUndoAt < ReturnAt
      /\ barErrors' \in Nat
  BY PlacesInRange, ExitOrder, BarConstants DEF Common
<1>4. "touched" \in flags => "quiesced" \in flags
  BY <1>2, <1>3 DEF Deciding
<1>5. OnList(Bar!Out(flags), Exits, j)
  BY <1>1, <1>4, BarOutIs
<1>6. /\ j \in 1..ReturnAt
      /\ j < ReturnAt => "quiesced" \in flags
  BY <1>1, <1>3, <1>4 DEF OutAt, Undoes
<1>7. j < ReturnAt => saved.decoding = before.decoding /\ (lost = 0 => decoding = FALSE)
  BY <1>2, <1>3, <1>6 DEF Deciding
<1>8. ASSUME NEW d \in Bar!Dwords
      PROVE  (DwordOut(d, j, bar[d], saved.bar[d], lost, barErrors, Bar!Success))'
  <2>1. DwordAt(d, i, bar[d], saved.bar[d], mask[d], lost)
    BY DEF Main
  <2>2. DwordOut(d, j, bar[d], saved.bar[d], lost, barErrors', FALSE)
    BY <1>1, <1>2, <1>3, <2>1, DwordRefused
  <2>3. (Bar!Success)' = FALSE
    BY <1>2 DEF Deciding, Bar!Success
  <2>4. UndoAt(d)' = UndoAt(d)
    BY SameFunction
  <2>5. QED
    BY <1>2, <2>2, <2>3, <2>4 DEF DwordOut
<1>9. Exiting(j)'
  <2>1. ReturnAt' = ReturnAt /\ CommandUndoAt' = CommandUndoAt
    BY SamePlaces
  <2>2. ~(Bar!Success)'
    BY <1>2 DEF Deciding, Bar!Success
  <2>3. (j < ReturnAt => saved.decoding = before.decoding)'
    BY <1>2, <1>7, <2>1
  <2>4. (lost = 0 /\ j <= CommandUndoAt => decoding = FALSE)'
    BY <1>3, <1>6, <1>7, <2>1
  <2>5. QED
    BY <2>2, <2>3, <2>4 DEF Exiting
<1>10. Out(j)'
  BY <1>8, <1>9 DEF Out
<1>11. Registered'
  BY RegisteredNext DEF Registered
<1>12. QED
  BY <1>5, <1>6, <1>10, <1>11, GoesOut

\* A check that sends root to out
LEMMA CheckFails ==
  ASSUME Registered, kind \in Bar!Transactions, NEW i \in 1..SucceedAt, Main(i), i \in Checks,
         Bar!Decide, flags' = flags, barTodo' = Bar!Out(flags)
  PROVE  BarInv'
<1>1. Steady /\ UNCHANGED <<bar, decoding, saved, mask, resource, barErrors, lost>>
  BY DecideIs
<1>2. barErrors' \in 0..BarErrors
  BY <1>1 DEF Registered
<1>3. QED
  BY <1>1, <1>2, Refuses

LEMMA BarIdentifies == BarInv /\ Bar!Identify => BarInv'
<1> SUFFICES ASSUME BarInv, Bar!Identify PROVE BarInv'
  OBVIOUS
<1>1. /\ barTodo # <<>> /\ Head(barTodo).op = "identify" /\ flags' = flags /\ Bar!Decide
      /\ barTodo' = Tail(barTodo) \/ barTodo' = Bar!Out(flags)
  BY DEF Bar!Identify, Bar!Doing, Bar!Continue, Bar!GoOut
<1>2. Head(barTodo).op \in MainOf
  BY <1>1 DEF MainOf, Bar!MainAccess
<1>3. Registered /\ kind \in Bar!Transactions
  BY <1>1, <1>2, InMain
<1>4. PICK i \in 1..SucceedAt : /\ OnList(barTodo, Bar!Steps[kind], i) /\ Main(i)
                                /\ Found(Head(barTodo), i)
  BY <1>1, <1>2, InMain
<1>5. i = IdentifyAt
  BY <1>1, <1>4 DEF Found
<1>6. Steady /\ UNCHANGED <<bar, decoding, saved, mask, resource, barErrors, lost>>
  BY <1>1, DecideIs
<1>7. CASE barTodo' = Tail(barTodo)
  <2>1. i # AcceptAt /\ i # ReadBackAt
    BY <1>3, <1>5, CommonOrder, PlacesInRange DEF Common
  <2>2. QED
    BY <1>1, <1>3, <1>4, <1>5, <1>6, <1>7, <2>1, QuietMove
<1>8. CASE barTodo' = Bar!Out(flags)
  BY <1>1, <1>3, <1>4, <1>5, <1>8, CheckFails DEF Checks
<1>9. QED
  BY <1>1, <1>7, <1>8

LEMMA BarAdmits == BarInv /\ Bar!Admit => BarInv'
<1> SUFFICES ASSUME BarInv, Bar!Admit PROVE BarInv'
  OBVIOUS
<1>1. /\ barTodo # <<>> /\ Head(barTodo).op = "admit" /\ flags' = flags /\ Bar!Decide
      /\ barTodo' = Tail(barTodo) \/ barTodo' = Bar!Out(flags)
  BY DEF Bar!Admit, Bar!Doing, Bar!Continue, Bar!GoOut
<1>2. Head(barTodo).op \in MainOf
  BY <1>1 DEF MainOf, Bar!MainAccess
<1>3. Registered /\ kind \in Bar!Transactions
  BY <1>1, <1>2, InMain
<1>4. PICK i \in 1..SucceedAt : /\ OnList(barTodo, Bar!Steps[kind], i) /\ Main(i)
                                /\ Found(Head(barTodo), i)
  BY <1>1, <1>2, InMain
<1>5. i = AdmitAt
  BY <1>1, <1>4 DEF Found
<1>6. Steady /\ UNCHANGED <<bar, decoding, saved, mask, resource, barErrors, lost>>
  BY <1>1, DecideIs
<1>7. CASE barTodo' = Tail(barTodo)
  <2>1. i # AcceptAt /\ i # ReadBackAt
    BY <1>3, <1>5, CommonOrder, PlacesInRange DEF Common
  <2>2. QED
    BY <1>1, <1>3, <1>4, <1>5, <1>6, <1>7, <2>1, QuietMove
<1>8. CASE barTodo' = Bar!Out(flags)
  BY <1>1, <1>3, <1>4, <1>5, <1>8, CheckFails DEF Checks
<1>9. QED
  BY <1>1, <1>7, <1>8

LEMMA BarAccepts == BarInv /\ Bar!Accept => BarInv'
<1> SUFFICES ASSUME BarInv, Bar!Accept PROVE BarInv'
  OBVIOUS
<1>1. /\ barTodo # <<>> /\ Head(barTodo).op = "accept" /\ flags' = flags /\ Bar!Decide
      /\ (Bar!Accepted /\ barTodo' = Tail(barTodo)) \/ barTodo' = Bar!Out(flags)
  BY DEF Bar!Accept, Bar!Doing, Bar!Continue, Bar!GoOut
<1>2. Head(barTodo).op \in MainOf
  BY <1>1 DEF MainOf, Bar!MainAccess
<1>3. Registered /\ kind \in Bar!Transactions
  BY <1>1, <1>2, InMain
<1>4. PICK i \in 1..SucceedAt : /\ OnList(barTodo, Bar!Steps[kind], i) /\ Main(i)
                                /\ Found(Head(barTodo), i)
  BY <1>1, <1>2, InMain
<1>5. i = AcceptAt
  BY <1>1, <1>4 DEF Found
<1>6. Steady /\ UNCHANGED <<bar, decoding, saved, mask, resource, barErrors, lost>>
  BY <1>1, DecideIs
<1>7. CASE Bar!Accepted /\ barTodo' = Tail(barTodo)
  <2>1. i # ReadBackAt
    BY <1>3, <1>5, CommonOrder, PlacesInRange DEF Common
  <2>2. QED
    BY <1>1, <1>3, <1>4, <1>5, <1>6, <1>7, <2>1, QuietMove
<1>8. CASE barTodo' = Bar!Out(flags)
  BY <1>1, <1>3, <1>4, <1>5, <1>8, CheckFails DEF Checks
<1>9. QED
  BY <1>1, <1>7, <1>8

LEMMA BarReadsBack == BarInv /\ Bar!ReadBack => BarInv'
<1> SUFFICES ASSUME BarInv, Bar!ReadBack PROVE BarInv'
  OBVIOUS
<1>1. /\ barTodo # <<>> /\ Head(barTodo).op = "readBack" /\ flags' = flags /\ Bar!Decide
      /\ (bar[0] = Bar!Reported.paddr /\ barTodo' = Tail(barTodo)) \/ barTodo' = Bar!Out(flags)
  BY DEF Bar!ReadBack, Bar!Doing, Bar!Continue, Bar!GoOut
<1>2. Head(barTodo).op \in MainOf
  BY <1>1 DEF MainOf, Bar!MainAccess
<1>3. Registered /\ kind \in Bar!Transactions
  BY <1>1, <1>2, InMain
<1>4. PICK i \in 1..SucceedAt : /\ OnList(barTodo, Bar!Steps[kind], i) /\ Main(i)
                                /\ Found(Head(barTodo), i)
  BY <1>1, <1>2, InMain
<1>5. i = ReadBackAt
  BY <1>1, <1>4 DEF Found
<1>6. Steady /\ UNCHANGED <<bar, decoding, saved, mask, resource, barErrors, lost>>
  BY <1>1, DecideIs
<1>7. CASE bar[0] = Bar!Reported.paddr /\ barTodo' = Tail(barTodo)
  <2>1. i # AcceptAt
    BY <1>3, <1>5, CommonOrder, PlacesInRange DEF Common
  <2>2. QED
    BY <1>1, <1>3, <1>4, <1>5, <1>6, <1>7, <2>1, QuietMove
<1>8. CASE barTodo' = Bar!Out(flags)
  BY <1>1, <1>3, <1>4, <1>5, <1>8, CheckFails DEF Checks
<1>9. QED
  BY <1>1, <1>7, <1>8

LEMMA BarVerifies == BarInv /\ Bar!Verify => BarInv'
<1> SUFFICES ASSUME BarInv, Bar!Verify PROVE BarInv'
  OBVIOUS
<1>1. /\ barTodo # <<>> /\ Head(barTodo).op = "verify" /\ flags' = flags /\ Bar!Decide
      /\ \/ bar[Head(barTodo).dword] = saved.bar[Head(barTodo).dword]
            /\ barTodo' = Tail(barTodo)
         \/ barTodo' = Bar!Out(flags)
  BY DEF Bar!Verify, Bar!Doing, Bar!Continue, Bar!GoOut, Bar!D
<1>2. Head(barTodo).op \in MainOf
  BY <1>1 DEF MainOf, Bar!MainAccess
<1>3. Registered /\ kind \in Bar!Transactions
  BY <1>1, <1>2, InMain
<1>4. PICK i \in 1..SucceedAt : /\ OnList(barTodo, Bar!Steps[kind], i) /\ Main(i)
                                /\ Found(Head(barTodo), i)
  BY <1>1, <1>2, InMain
<1>5. PICK d \in Bar!Dwords : d = Head(barTodo).dword /\ i = VerifyAt(d)
  BY <1>1, <1>4, FoundDword
<1>6. Steady /\ UNCHANGED <<bar, decoding, saved, mask, resource, barErrors, lost>>
  BY <1>1, DecideIs
<1>7. CASE bar[d] = saved.bar[d] /\ barTodo' = Tail(barTodo)
  <2>1. i \in Own(d)
    BY <1>5 DEF Own
  <2>2. Registered'
    BY <1>1, <1>3, <1>6, RegisteredNext DEF Registered
  <2>3. DwordAt(d, i, bar[d], saved.bar[d], mask[d], lost)
    BY <1>4, <1>5 DEF Main
  <2>4. (DwordAt(d, i + 1, bar[d], saved.bar[d], mask[d], lost))'
    BY <1>3, <1>5, <1>6, <1>7, <2>3, DwordVerify
  <2>5. QED
    BY <1>1, <1>3, <1>4, <1>5, <1>6, <1>7, <2>1, <2>2, <2>4, OwnStep
<1>8. CASE barTodo' = Bar!Out(flags)
  <2>1. i \in Checks
    BY <1>5, PlacesOf, DwordsAre DEF Checks
  <2>2. QED
    BY <1>1, <1>3, <1>4, <1>8, <2>1, CheckFails
<1>9. QED
  BY <1>1, <1>5, <1>7, <1>8

LEMMA BarPrograms == BarInv /\ Bar!Program => BarInv'
<1> SUFFICES ASSUME BarInv, Bar!Program PROVE BarInv'
  OBVIOUS
<1>1. /\ barTodo # <<>> /\ barTodo' = Tail(barTodo) /\ Head(barTodo).op = "program"
      /\ Bar!WriteBar(0, Bar!Reported.paddr) /\ flags' = flags
  BY DEF Bar!Program, Bar!Doing, Bar!Continue
<1>2. Head(barTodo).op \in MainOf
  BY <1>1 DEF MainOf, Bar!MainAccess
<1>3. Registered /\ kind \in Bar!Transactions
  BY <1>1, <1>2, InMain
<1>4. PICK i \in 1..SucceedAt : /\ OnList(barTodo, Bar!Steps[kind], i) /\ Main(i)
                                /\ Found(Head(barTodo), i)
  BY <1>1, <1>2, InMain
<1>5. i = ProgramAt
  BY <1>1, <1>4 DEF Found
<1>6. /\ i < ReadBackAt /\ i > AcceptAt /\ kind = "assign" /\ i < SucceedAt
      /\ i \notin {CommandAt, QuiesceAt, TouchAt, UntouchAt} /\ i \in Common
  BY <1>3, <1>5, CommonOrder DEF Common
<1>7. Bar!Accepted /\ Deciding(i)
  BY <1>4, <1>6 DEF Main, Deciding
<1>8. Bar!Reported.paddr \in Nat /\ Bar!Reported.paddr < Bar!Bound(0) /\ 0 \in Bar!Dwords
  BY <1>3, <1>6, <1>7, Assignable, BoundOf
<1>9. Steady /\ UNCHANGED <<decoding, saved, mask, resource, barErrors>>
  BY <1>1, WriteBarIs
<1>10. /\ bar' \in Bar!Words
       /\ \A e \in Bar!Dwords : bar'[e] = Bar!Store(e, bar'[e])
       /\ \A e \in Bar!Dwords \ {0} : bar'[e] = bar[e]
       /\ lost' \in 0..BarLost /\ (lost' = 0 => lost = 0)
  BY <1>1, <1>3, <1>8, Written
<1>11. Registered'
  BY <1>1, <1>3, <1>9, <1>10, RegisteredNext DEF Registered
<1>12. ASSUME NEW d \in Bar!Dwords
       PROVE  (DwordAt(d, i + 1, bar[d], saved.bar[d], mask[d], lost))'
  <2>1. i \notin Own(d)
    BY <1>3, <1>6, PlacesApart, DwordsAre
  <2>2. DwordAt(d, i, bar[d], saved.bar[d], mask[d], lost)
    BY <1>4 DEF Main
  <2>3. bar'[d] = bar[d] \/ (d = 0 /\ i = ProgramAt)
    BY <1>5, <1>10
  <2>4. QED
    BY <1>3, <1>9, <1>10, <2>1, <2>2, <2>3, DwordCarried
<1>13. Bar!Accepted'
  BY <1>7, <1>9, SameAccepted DEF Measured
<1>14. ~(i >= ReadBackAt)
  <2>1. i \in Nat /\ ReadBackAt \in Nat
    BY <1>3, PlacesInRange DEF Common
  <2>2. QED
    BY <1>6, <2>1
<1>15. Deciding(i + 1)'
  BY <1>1, <1>3, <1>6, <1>7, <1>9, <1>10, <1>13, <1>14, DecidingCarried
<1>16. Main(i + 1)'
  BY <1>12, <1>15 DEF Main
<1>17. QED
  BY <1>1, <1>3, <1>4, <1>6, <1>9, <1>11, <1>16, GoesOn

-----------------------------------------------------------------------------
(* Success.                                                                *)
LEMMA AtSucceed ==
  ASSUME kind \in Bar!Transactions, NEW d \in Bar!Dwords
  PROVE  /\ SucceedAt > CommandAt /\ SucceedAt > QuiesceAt /\ SucceedAt > AcceptAt
         /\ kind = "assign" => SucceedAt > ReadBackAt
         /\ kind = "n1" => SucceedAt > UntouchAt
         /\ Sized(d) => SucceedAt > BarAt(d) /\ SucceedAt > MaskAt(d)
         /\ UndoAt(d) >= 1 => Sized(d)
         /\ kind # "assign" => SucceedAt > VerifyAt(d) \/ SucceedAt <= OnesAt(d)
         /\ kind = "assign" /\ d = 1 => SucceedAt <= OnesAt(d)
<1>1. d = 0 \/ d = 1
  BY DwordsAre
<1>2. CASE kind = "assign"
  BY <1>1, <1>2, Places, ExitPlaces, PlacesOf DEF Sized
<1>3. CASE kind = "range32"
  BY <1>1, <1>3, Places, ExitPlaces, PlacesOf DEF Sized
<1>4. CASE kind = "range64"
  BY <1>1, <1>4, Places, ExitPlaces, PlacesOf DEF Sized
<1>5. CASE kind = "n1"
  BY <1>1, <1>5, Places, ExitPlaces, PlacesOf DEF Sized
<1>6. QED
  BY <1>2, <1>3, <1>4, <1>5, KindsAre

LEMMA BarSucceeds == BarInv /\ Bar!Succeed => BarInv'
<1> SUFFICES ASSUME BarInv, Bar!Succeed PROVE BarInv'
  OBVIOUS
<1>1. /\ barTodo # <<>> /\ Head(barTodo).op = "succeed"
      /\ resource' = Bar!Reported /\ flags' = flags \cup {"success"}
      /\ UNCHANGED <<bar, decoding, saved, mask, barErrors, lost>> /\ Steady
  BY DEF Bar!Succeed, Bar!Doing, Bar!functionVars, Bar!faultVars, Steady
<1>2. Head(barTodo).op \in MainOf
  BY <1>1 DEF MainOf
<1>3. Registered /\ kind \in Bar!Transactions
  BY <1>1, <1>2, InMain
<1>4. PICK i \in 1..SucceedAt : /\ OnList(barTodo, Bar!Steps[kind], i) /\ Main(i)
                                /\ Found(Head(barTodo), i)
  BY <1>1, <1>2, InMain
<1>5. i = SucceedAt
  BY <1>1, <1>4 DEF Found
<1>6. PICK f : f = flags \cup {"success"}
  OBVIOUS
<1>7. PICK j : j = OutAt(f)
  OBVIOUS
<1>8. barTodo' = Bar!Out(f)
  <2>1. barTodo' = (Bar!Out(flags))'
    BY DEF Bar!Succeed, Bar!Out, Bar!OutBar, Bar!OutCommand
  <2>2. kind' = kind /\ flags' = f
    BY <1>1, <1>6 DEF Steady
  <2>3. (Bar!OutBar(flags))' = Bar!OutBar(f) /\ (Bar!OutCommand(flags))' = Bar!OutCommand(f)
    BY <2>2 DEF Bar!OutBar, Bar!OutCommand
  <2>4. QED
    BY <2>1, <2>3 DEF Bar!Out
<1>9. Deciding(i) /\ before' = before /\ kind' = kind /\ 0 \in Bar!Dwords
  BY <1>1, <1>4, DwordsAre DEF Main, Steady
<1>10. /\ i > CommandAt /\ i > QuiesceAt /\ i > AcceptAt
       /\ kind = "assign" => i > ReadBackAt
       /\ kind = "n1" => i > UntouchAt
       /\ i \in Nat /\ UntouchAt \in Nat /\ CommandUndoAt \in 2..3 /\ ReturnAt \in 3..5
       /\ CommandUndoAt < ReturnAt /\ QuiesceAt \in Nat
  BY <1>3, <1>5, <1>9, AtSucceed, ExitOrder, PlacesInRange DEF Common
<1>11. "quiesced" \in flags /\ "quiesced" \in f /\ (kind = "n1" => "touched" \notin flags)
  BY <1>6, <1>9, <1>10 DEF Deciding
<1>12. OnList(Bar!Out(f), Exits, j)
  BY <1>3, <1>7, <1>11, BarOutIs
<1>13. /\ j \in 1..ReturnAt /\ (j = 1 \/ j = CommandUndoAt)
       /\ kind # "range64" => j = CommandUndoAt
  <2>1. "success" \in f /\ ("touched" \in f <=> "touched" \in flags)
    BY <1>6
  <2>2. kind # "range64" => ~Undoes(f)
    BY <1>3, <1>11, <2>1, KindsAre DEF Undoes
  <2>3. QED
    BY <1>7, <1>10, <1>11, <2>2 DEF OutAt
<1>14. /\ saved.decoding = before.decoding /\ (lost = 0 => decoding = FALSE)
       /\ Bar!Accepted /\ (kind = "assign" => bar[0] = Bar!Reported.paddr)
  BY <1>9, <1>10 DEF Deciding
<1>15. ASSUME NEW d \in Bar!Dwords
       PROVE  /\ Sized(d) => saved.bar[d] = before.bar[d] /\ mask[d] >= before.bar[d]
                             /\ (lost = 0 => mask[d] = Ones(d))
              /\ kind # "assign" \/ d = 1 => bar[d] = before.bar[d]
  <2>1. DwordAt(d, i, bar[d], saved.bar[d], mask[d], lost)
    BY <1>4 DEF Main
  <2>2. /\ Sized(d) => i > BarAt(d) /\ i > MaskAt(d)
        /\ kind # "assign" \/ d = 1 => i > VerifyAt(d) \/ i <= OnesAt(d)
    BY <1>3, <1>5, AtSucceed
  <2>3. QED
    BY <2>1, <2>2 DEF DwordAt
<1>16. Registered'
  <2>1. \A d \in Bar!Dwords : Sized(d) => mask[d] >= saved.bar[d]
    BY <1>15
  <2>2. Bar!Reported.start \in 0..(Limit * HighLimit + Limit)
    BY <1>3, <1>14, <2>1, Startable
  <2>3. QED
    BY <1>1, <1>3, <2>2, RegisteredNext DEF Registered, Bar!Flags
<1>17. /\ Bar!Reported' = Bar!Reported /\ Bar!Accepted'
       /\ ReturnAt' = ReturnAt /\ CommandUndoAt' = CommandUndoAt /\ UndoAt0' = UndoAt0
       /\ CommandVerifyAt' = CommandVerifyAt
  BY <1>1, <1>14, SameReport, SameAccepted, SamePlaces DEF Measured
<1>18. Promised'
  <2>1. (resource = Bar!Reported)' /\ (kind = "assign" => bar[0] = Bar!Reported.paddr)'
    BY <1>1, <1>9, <1>14, <1>17
  <2>2. ASSUME NEW d \in Bar!Dwords
        PROVE  (Sized(d) => saved.bar[d] = before.bar[d] /\ (lost = 0 => mask[d] = Ones(d)))'
    <3>1. Sized(d)' = Sized(d) /\ Ones(d)' = Ones(d)
      BY <1>1, SameFunction
    <3>2. QED
      BY <1>1, <1>9, <1>15, <3>1
  <2>3. QED
    BY <1>17, <2>1, <2>2 DEF Promised
<1>19. Exiting(j)'
  <2>1. (j < ReturnAt => saved.decoding = before.decoding)'
        /\ (lost = 0 /\ j <= CommandUndoAt => decoding = FALSE)'
    BY <1>1, <1>9, <1>14, <1>17
  <2>2. (kind \in {"assign", "range32"} => j > UndoAt0)'
    <3>1. kind \in {"assign", "range32"} => UndoAt0 = 1 /\ j \in 2..3
      BY <1>10, <1>13, ExitPlaces
    <3>2. QED
      BY <1>9, <1>17, <3>1
  <2>3. (kind = "n1" /\ j > CommandVerifyAt => decoding = before.decoding)'
    <3>1. kind = "n1" => CommandVerifyAt = 4 /\ j \in 2..3
      BY <1>10, <1>13, ExitPlaces
    <3>2. QED
      BY <1>9, <1>17, <3>1
  <2>4. QED
    BY <1>18, <2>1, <2>2, <2>3 DEF Exiting
<1>20. ASSUME NEW d \in Bar!Dwords
       PROVE  (DwordOut(d, j, bar[d], saved.bar[d], lost, barErrors, Bar!Success))'
  <2>1. j <= UndoAt(d) => saved.bar[d] = before.bar[d]
    <3>1. SUFFICES ASSUME j <= UndoAt(d) PROVE saved.bar[d] = before.bar[d]
      OBVIOUS
    <3>2. UndoAt(d) \in 0..2 /\ UndoAt(d) < CommandUndoAt
      BY <1>3, ExitOrder
    <3>3. UndoAt(d) >= 1
      BY <1>10, <1>13, <3>1, <3>2
    <3>4. Sized(d)
      BY <1>3, <3>3, AtSucceed
    <3>5. QED
      BY <1>15, <3>4
  <2>2. (Bar!Success)' = TRUE
    BY <1>1 DEF Bar!Success
  <2>3. UndoAt(d)' = UndoAt(d)
    BY <1>1, SameFunction
  <2>4. d = 0 \/ d = 1
    BY DwordsAre
  <2>5. DwordOut(d, j, bar[d], saved.bar[d], lost, barErrors, TRUE)
    BY <1>15, <2>1, <2>4 DEF DwordOut
  <2>6. QED
    BY <1>1, <1>9, <2>2, <2>3, <2>5 DEF DwordOut
<1>21. Out(j)'
  BY <1>19, <1>20 DEF Out
<1>22. QED
  BY <1>1, <1>3, <1>8, <1>12, <1>13, <1>16, <1>21, GoesOut

-----------------------------------------------------------------------------
(* The steps at the label out.                                             *)

\* An access on the way in that fails
LEMMA NotTouching ==
  ASSUME kind \in Bar!Transactions, NEW i \in 1..SucceedAt, NEW s, Found(s, i),
         s.op \in Bar!MainAccess
  PROVE  i # TouchAt
<1>1. \/ i \in {IdentifyAt, CommandAt, QuiesceAt, ProgramAt, ReadBackAt}
      \/ \E d \in Bar!Dwords : i \in Own(d)
  <2>1. CASE s.op \in {"readBar", "ones", "readMask", "putBack", "verify"}
    BY <2>1, FoundDword DEF Own
  <2>2. CASE s.op \in {"identify", "readCommand", "quiesce", "program", "readBack"}
    BY <2>2 DEF Found
  <2>3. QED
    BY <2>1, <2>2 DEF Bar!MainAccess
<1>2. CASE i \in {IdentifyAt, CommandAt, QuiesceAt, ProgramAt, ReadBackAt}
  BY <1>2, CommonOrder
<1>3. CASE \E d \in Bar!Dwords : i \in Own(d)
  BY <1>3, PlacesApart, DwordsAre
<1>4. QED
  BY <1>1, <1>2, <1>3

LEMMA MainAccessFails ==
  ASSUME BarInv, Bar!AccessFails, Head(barTodo).op \in Bar!MainAccess
  PROVE  BarInv'
<1>1. Bar!MainAccess \cap Bar!UndoAccess = {}
  BY DEF Bar!MainAccess, Bar!UndoAccess
<1>2. /\ barTodo # <<>> /\ barErrors < BarErrors /\ barErrors' = barErrors + 1
      /\ barTodo' = Bar!Out(flags) /\ flags' = flags /\ Steady
      /\ UNCHANGED <<bar, decoding, saved, mask, resource, lost>>
  BY <1>1 DEF Bar!AccessFails, Bar!GoOut, Bar!functionVars, Steady
<1>3. Head(barTodo).op \in MainOf
  BY DEF MainOf
<1>4. Registered /\ kind \in Bar!Transactions
  BY <1>2, <1>3, InMain
<1>5. PICK i \in 1..SucceedAt : /\ OnList(barTodo, Bar!Steps[kind], i) /\ Main(i)
                                /\ Found(Head(barTodo), i)
  BY <1>2, <1>3, InMain
<1>6. i # TouchAt
  BY <1>4, <1>5, NotTouching
<1>7. barErrors' \in 0..BarErrors /\ barErrors' # 0
  <2>1. barErrors \in 0..BarErrors /\ BarErrors \in Nat
    BY <1>4, BarConstants DEF Registered
  <2>2. QED
    BY <1>2, <2>1
<1>8. QED
  BY <1>2, <1>4, <1>5, <1>6, <1>7, Refuses

\* From one place of out to a later one
LEMMA OutMoves ==
  ASSUME Registered, kind \in Bar!Transactions, Steady, NEW j \in 1..ReturnAt,
         NEW k \in 1..ReturnAt, j < k, Out(j), OnList(barTodo', Exits, k), Registered',
         UNCHANGED <<saved, mask, resource>>,
         Bar!Success' => Bar!Success, lost' = 0 => lost = 0,
         lost' = 0 /\ k <= CommandUndoAt => decoding' = decoding,
         Bar!Success' /\ kind = "n1" /\ k > CommandVerifyAt => decoding' = before.decoding,
         Bar!Success' /\ kind = "assign" => bar'[0] = bar[0],
         \A d \in Bar!Dwords :
           (DwordOut(d, k, bar[d], saved.bar[d], lost, barErrors, Bar!Success))'
  PROVE  BarInv'
<1>1. Exiting(j) /\ before' = before /\ kind' = kind
  BY DEF Out, Steady
<1>2. /\ ReturnAt' = ReturnAt /\ CommandUndoAt' = CommandUndoAt /\ UndoAt0' = UndoAt0
      /\ CommandVerifyAt' = CommandVerifyAt
  BY SamePlaces
<1>3. /\ ReturnAt \in 3..5 /\ CommandUndoAt \in 2..3 /\ UndoAt0 \in 0..2 /\ j \in Nat
         /\ k \in Nat
  BY ExitOrder, PlacesOf, DwordsAre
<1>4. /\ k < ReturnAt => j < ReturnAt
      /\ k <= CommandUndoAt => j <= CommandUndoAt
      /\ j > UndoAt0 => k > UndoAt0
  BY <1>3
<1>5. (Promised)' \/ ~Bar!Success'
  <2>1. SUFFICES ASSUME Bar!Success' PROVE Promised'
    OBVIOUS
  <2>2. Promised
    BY <1>1, <2>1 DEF Exiting
  <2>3. Bar!Reported' = Bar!Reported
    BY SameReport DEF Measured
  <2>4. Bar!Accepted'
    BY <2>2, SameAccepted DEF Measured, Promised
  <2>5. (resource = Bar!Reported)' /\ (kind = "assign" => bar[0] = Bar!Reported.paddr)'
    BY <1>1, <2>1, <2>2, <2>3 DEF Promised
  <2>6. ASSUME NEW d \in Bar!Dwords
        PROVE  (Sized(d) => saved.bar[d] = before.bar[d] /\ (lost = 0 => mask[d] = Ones(d)))'
    <3>1. Sized(d)' = Sized(d) /\ Ones(d)' = Ones(d)
      BY SameFunction
    <3>2. QED
      BY <1>1, <2>2, <3>1 DEF Promised
  <2>7. QED
    BY <2>4, <2>5, <2>6 DEF Promised
<1>6. (k < ReturnAt => saved.decoding = before.decoding)'
      /\ (lost = 0 /\ k <= CommandUndoAt => decoding = FALSE)'
  BY <1>1, <1>2, <1>4 DEF Exiting
<1>7. Bar!Success' => (kind \in {"assign", "range32"} => k > UndoAt0)'
                      /\ (kind = "n1" /\ k > CommandVerifyAt => decoding = before.decoding)'
  BY <1>1, <1>2, <1>4 DEF Exiting
<1>8. Exiting(k)'
  BY <1>5, <1>6, <1>7 DEF Exiting
<1>9. Out(k)'
  BY <1>8 DEF Out
<1>10. QED
  BY <1>9, GoesOut

\* A dword this step does not undo
LEMMA DwordOutCarried ==
  ASSUME Registered, kind \in Bar!Transactions, Steady, NEW j \in 1..ReturnAt,
         NEW k \in 1..ReturnAt, j < k, NEW d \in Bar!Dwords,
         DwordOut(d, j, bar[d], saved.bar[d], lost, barErrors, Bar!Success),
         bar'[d] = bar[d], saved' = saved, lost' = 0 => lost = 0,
         Bar!Success' => Bar!Success, kind = "assign" => Bar!Success' = Bar!Success,
         \/ k = j + 1 /\ j # UndoAt(d) /\ barErrors' = barErrors
         \/ barErrors' = barErrors + 1
  PROVE  (DwordOut(d, k, bar[d], saved.bar[d], lost, barErrors, Bar!Success))'
<1>1. before' = before /\ kind' = kind /\ UndoAt(d)' = UndoAt(d)
  BY SameFunction DEF Steady
<1>2. UndoAt(d) \in Nat /\ j \in Nat /\ k \in Nat /\ barErrors \in Nat
  BY ExitOrder, RegisterValues
<1>3. k <= UndoAt(d) => j <= UndoAt(d)
  BY <1>2
<1>4. (k <= UndoAt(d) => saved.bar[d] = before.bar[d])'
  BY <1>1, <1>3 DEF DwordOut
<1>5. (Bar!Success /\ kind # "assign" => bar[d] = before.bar[d])'
  BY <1>1 DEF DwordOut
<1>6. barErrors' = 0 => barErrors = 0
  BY <1>2
<1>7. (lost = 0 /\ barErrors = 0 /\ kind # "assign" => bar[d] = before.bar[d])'
  BY <1>1, <1>6 DEF DwordOut
<1>8. lost' = 0 /\ barErrors' <= (IF kind = "assign" THEN 0 ELSE 1) =>
        bar[d] = before.bar[d] \/ k <= UndoAt(d) \/ (kind = "assign" /\ d = 0 /\ Bar!Success)
  <2>1. SUFFICES ASSUME lost' = 0, barErrors' <= (IF kind = "assign" THEN 0 ELSE 1)
                 PROVE  \/ bar[d] = before.bar[d] \/ k <= UndoAt(d)
                        \/ (kind = "assign" /\ d = 0 /\ Bar!Success)
    OBVIOUS
  <2>2. CASE k = j + 1 /\ j # UndoAt(d) /\ barErrors' = barErrors
    <3>1. j <= UndoAt(d) => k <= UndoAt(d)
      BY <1>2, <2>2
    <3>2. QED
      BY <2>1, <2>2, <3>1 DEF DwordOut
  <2>3. CASE barErrors' = barErrors + 1
    <3>1. kind # "assign" /\ barErrors = 0
      BY <1>2, <2>1, <2>3
    <3>2. QED
      BY <2>1, <3>1 DEF DwordOut
  <2>4. QED
    BY <2>2, <2>3
<1>9. (lost = 0 /\ barErrors <= (IF kind = "assign" THEN 0 ELSE 1) =>
         bar[d] = before.bar[d] \/ k <= UndoAt(d) \/ (kind = "assign" /\ d = 0 /\ Bar!Success))'
  BY <1>1, <1>8
<1>10. QED
  BY <1>4, <1>5, <1>7, <1>9 DEF DwordOut

LEMMA BarUndoes == BarInv /\ Bar!UndoBar => BarInv'
<1> SUFFICES ASSUME BarInv, Bar!UndoBar PROVE BarInv'
  OBVIOUS
<1>1. /\ barTodo # <<>> /\ barTodo' = Tail(barTodo) /\ Head(barTodo).op = "undoBar"
      /\ Bar!WriteBar(Head(barTodo).dword, saved.bar[Head(barTodo).dword]) /\ flags' = flags
  BY DEF Bar!UndoBar, Bar!Doing, Bar!Continue, Bar!D
<1>2. Head(barTodo).op \in Bar!UndoAccess \cup {"return"}
  BY <1>1 DEF Bar!UndoAccess
<1>3. Registered /\ kind \in Bar!Transactions
  BY <1>1, <1>2, InOut
<1>4. PICK j \in 1..ReturnAt : /\ OnList(barTodo, Exits, j) /\ Out(j)
                               /\ FoundOut(Head(barTodo), j)
  BY <1>1, <1>2, InOut
<1>5. PICK d \in Bar!Dwords : d = Head(barTodo).dword /\ j = UndoAt(d)
  <2>1. (Head(barTodo).dword = 0 /\ j = UndoAt0) \/ (Head(barTodo).dword = 1 /\ j = UndoAt1)
    BY <1>1, <1>4 DEF FoundOut
  <2>2. QED
    BY <2>1, PlacesOf, DwordsAre
<1>6. /\ j \in Nat /\ j >= 1 /\ j < CommandUndoAt /\ CommandUndoAt < ReturnAt
      /\ CommandUndoAt \in 2..3 /\ ReturnAt \in 3..5 /\ j + 1 \in 1..ReturnAt /\ j < j + 1
      /\ OnList(barTodo', Exits, j + 1)
  <2>1. /\ j \in Nat /\ j >= 1 /\ j < CommandUndoAt /\ CommandUndoAt < ReturnAt
        /\ CommandUndoAt \in 2..3 /\ ReturnAt \in 3..5
    BY <1>3, <1>5, ExitOrder
  <2>2. j < ReturnAt /\ j + 1 \in 1..ReturnAt /\ j < j + 1
    BY <2>1
  <2>3. QED
    BY <1>1, <1>3, <1>4, <2>1, <2>2, WhereOut
<1>7. Bar!WriteBar(d, saved.bar[d])
  BY <1>1, <1>5
<1>8. Steady /\ UNCHANGED <<decoding, saved, mask, resource, barErrors>>
  BY <1>7, WriteBarIs
<1>9. saved.bar[d] \in Nat /\ saved.bar[d] < Bar!Bound(d) /\ lost \in Nat
  BY <1>3, <1>5, RegisterValues
<1>10. /\ bar' \in Bar!Words
       /\ \A e \in Bar!Dwords : bar'[e] = Bar!Store(e, bar'[e])
       /\ \/ bar'[d] = Bar!Store(d, saved.bar[d]) /\ lost' = lost
          \/ bar'[d] = bar[d] /\ lost' = lost + 1
       /\ \A e \in Bar!Dwords \ {d} : bar'[e] = bar[e]
       /\ lost' \in 0..BarLost /\ (lost' = 0 => lost = 0)
  BY <1>3, <1>5, <1>7, <1>9, Written
<1>11. Registered'
  BY <1>1, <1>3, <1>8, <1>10, RegisteredNext DEF Registered
<1>12. Bar!Success' <=> Bar!Success
  BY <1>1 DEF Bar!Success
<1>13. DwordOut(d, j, bar[d], saved.bar[d], lost, barErrors, Bar!Success)
       /\ before.bar[d] = Bar!Store(d, before.bar[d]) /\ before' = before /\ kind' = kind
  BY <1>3, <1>4, <1>5, <1>8 DEF Out, Registered, Steady
<1>14. saved.bar[d] = before.bar[d]
  BY <1>5, <1>6, <1>13 DEF DwordOut
<1>15. (DwordOut(d, j + 1, bar[d], saved.bar[d], lost, barErrors, Bar!Success))'
  <2>1. UndoAt(d)' = UndoAt(d)
    BY <1>8, SameFunction
  <2>2. ~(j + 1 <= UndoAt(d))
    BY <1>5, <1>6
  <2>3. bar'[d] = before.bar[d] \/ (bar'[d] = bar[d] /\ lost' # 0)
    BY <1>9, <1>10, <1>13, <1>14
  <2>4. (Bar!Success /\ kind # "assign" => bar[d] = before.bar[d])'
    BY <1>12, <1>13, <2>3 DEF DwordOut
  <2>5. (lost = 0 => bar[d] = before.bar[d])'
    BY <1>13, <2>3
  <2>6. (j + 1 <= UndoAt(d) => saved.bar[d] = before.bar[d])'
    BY <2>1, <2>2
  <2>7. QED
    BY <2>4, <2>5, <2>6 DEF DwordOut
<1>16. ASSUME NEW e \in Bar!Dwords \ {d}
       PROVE  (DwordOut(e, j + 1, bar[e], saved.bar[e], lost, barErrors, Bar!Success))'
  <2>1. j # UndoAt(e)
    <3>1. UndoAt(0) # UndoAt(1) \/ j # UndoAt(d)
      BY <1>3, KindsAre, ExitPlaces, PlacesOf
    <3>2. {d, e} = {0, 1}
      BY DwordsAre
    <3>3. QED
      BY <1>5, <3>1, <3>2
  <2>2. DwordOut(e, j, bar[e], saved.bar[e], lost, barErrors, Bar!Success)
    BY <1>4 DEF Out
  <2>3. QED
    BY <1>3, <1>4, <1>6, <1>8, <1>10, <1>12, <2>1, <2>2, DwordOutCarried
<1>17. \A e \in Bar!Dwords :
         (DwordOut(e, j + 1, bar[e], saved.bar[e], lost, barErrors, Bar!Success))'
  BY <1>15, <1>16
<1>18. ~(kind = "n1" /\ j + 1 > CommandVerifyAt)
  <2>1. kind = "n1" => CommandVerifyAt = 4
    BY ExitPlaces
  <2>2. QED
    BY <1>6, <2>1
<1>19. ~(Bar!Success /\ kind = "assign")
  <2>1. SUFFICES ASSUME Bar!Success, kind = "assign" PROVE FALSE
    OBVIOUS
  <2>2. j > UndoAt0
    BY <1>4, <2>1 DEF Out, Exiting
  <2>3. UndoAt0 = 1 /\ UndoAt1 = 0 /\ (j = UndoAt0 \/ j = UndoAt1)
    BY <1>5, <2>1, ExitPlaces, PlacesOf, DwordsAre
  <2>4. QED
    BY <1>6, <2>2, <2>3
<1>20. QED
  BY <1>1, <1>3, <1>4, <1>6, <1>8, <1>10, <1>11, <1>12, <1>17, <1>18, <1>19, OutMoves

LEMMA BarRestores == BarInv /\ Bar!UndoCommand => BarInv'
<1> SUFFICES ASSUME BarInv, Bar!UndoCommand PROVE BarInv'
  OBVIOUS
<1>1. /\ barTodo # <<>> /\ barTodo' = Tail(barTodo) /\ Head(barTodo).op = "undoCommand"
      /\ Bar!WriteCommand(saved.decoding) /\ flags' = flags
  BY DEF Bar!UndoCommand, Bar!Doing, Bar!Continue
<1>2. Head(barTodo).op \in Bar!UndoAccess \cup {"return"}
  BY <1>1 DEF Bar!UndoAccess
<1>3. Registered /\ kind \in Bar!Transactions
  BY <1>1, <1>2, InOut
<1>4. PICK j \in 1..ReturnAt : /\ OnList(barTodo, Exits, j) /\ Out(j)
                               /\ FoundOut(Head(barTodo), j)
  BY <1>1, <1>2, InOut
<1>5. j = CommandUndoAt
  BY <1>1, <1>4 DEF FoundOut
<1>6. /\ j \in Nat /\ j + 1 \in 1..ReturnAt /\ j < j + 1 /\ j < ReturnAt
      /\ \A d \in Bar!Dwords : UndoAt(d) \in Nat /\ UndoAt(d) < j
  BY <1>3, <1>5, ExitOrder
<1>7. OnList(barTodo', Exits, j + 1)
  BY <1>1, <1>3, <1>4, <1>6, WhereOut
<1>8. /\ Steady /\ UNCHANGED <<bar, saved, mask, resource, barErrors>>
      /\ \/ decoding' = saved.decoding /\ lost' = lost
         \/ lost < BarLost /\ lost' = lost + 1 /\ decoding' = decoding
  BY <1>1 DEF Bar!WriteCommand, Bar!functionVars, Steady
<1>9. lost' \in 0..BarLost /\ (lost' = 0 => lost = 0)
  <2>1. lost \in 0..BarLost /\ BarLost \in Nat
    BY <1>3, BarConstants DEF Registered
  <2>2. QED
    BY <1>8, <2>1
<1>10. Registered'
  <2>1. decoding' \in BOOLEAN
    BY <1>3, <1>8, RegisterValues DEF Registered
  <2>2. QED
    BY <1>1, <1>3, <1>8, <1>9, <2>1, RegisteredNext DEF Registered
<1>11. Bar!Success' <=> Bar!Success
  BY <1>1 DEF Bar!Success
<1>12. ASSUME NEW e \in Bar!Dwords
       PROVE  (DwordOut(e, j + 1, bar[e], saved.bar[e], lost, barErrors, Bar!Success))'
  <2>1. DwordOut(e, j, bar[e], saved.bar[e], lost, barErrors, Bar!Success)
    BY <1>4 DEF Out
  <2>2. j # UndoAt(e)
    BY <1>6
  <2>3. QED
    BY <1>3, <1>4, <1>6, <1>8, <1>9, <1>11, <2>1, <2>2, DwordOutCarried
<1>13. ~(kind = "n1" /\ j + 1 > CommandVerifyAt) /\ ~(j + 1 <= CommandUndoAt)
  <2>1. kind = "n1" => CommandVerifyAt = 4 /\ CommandUndoAt = 3
    BY ExitPlaces
  <2>2. QED
    BY <1>5, <1>6, <2>1
<1>14. QED
  BY <1>3, <1>4, <1>6, <1>7, <1>8, <1>9, <1>10, <1>11, <1>12, <1>13, OutMoves

LEMMA BarRechecks == BarInv /\ Bar!UndoVerify => BarInv'
<1> SUFFICES ASSUME BarInv, Bar!UndoVerify PROVE BarInv'
  OBVIOUS
<1>1. /\ barTodo # <<>> /\ barTodo' = Tail(barTodo) /\ Bar!Decide
      /\ Head(barTodo).op \in {"undoVerify", "undoVerifyCommand"}
      /\ flags' = flags \/ flags' = flags \ {"success"}
      /\ Head(barTodo).op = "undoVerifyCommand" =>
           decoding = saved.decoding \/ flags' = flags \ {"success"}
  BY DEF Bar!UndoVerify, Bar!Doing, Bar!Continue
<1>2. Head(barTodo).op \in Bar!UndoAccess \cup {"return"}
  BY <1>1 DEF Bar!UndoAccess
<1>3. Registered /\ kind \in Bar!Transactions
  BY <1>1, <1>2, InOut
<1>4. PICK j \in 1..ReturnAt : /\ OnList(barTodo, Exits, j) /\ Out(j)
                               /\ FoundOut(Head(barTodo), j)
  BY <1>1, <1>2, InOut
<1>5. \/ Head(barTodo).op = "undoVerify" /\ j = VerifyUndoAt
      \/ Head(barTodo).op = "undoVerifyCommand" /\ j = CommandVerifyAt
  BY <1>1, <1>4 DEF FoundOut
<1>6. kind = "n1" /\ j \in {2, 4} /\ (j = 4 => Head(barTodo).op = "undoVerifyCommand")
      /\ CommandVerifyAt = 4 /\ CommandUndoAt = 3 /\ ReturnAt = 5
      /\ UndoAt0 = 1 /\ UndoAt1 = 0
  <2>1. j >= 1
    BY <1>4
  <2>2. kind = "n1"
    BY <1>3, <1>5, <2>1, KindsAre, ExitPlaces
  <2>3. QED
    BY <1>5, <2>2, ExitPlaces
<1>7. j \in Nat /\ j + 1 \in 1..ReturnAt /\ j < j + 1 /\ j < ReturnAt
      /\ \A d \in Bar!Dwords : j # UndoAt(d)
  BY <1>6, PlacesOf, DwordsAre
<1>8. OnList(barTodo', Exits, j + 1)
  BY <1>1, <1>3, <1>4, <1>7, WhereOut
<1>9. Steady /\ UNCHANGED <<bar, decoding, saved, mask, resource, barErrors, lost>>
  BY <1>1, DecideIs
<1>10. Registered'
  BY <1>1, <1>3, <1>9, RegisteredNext DEF Registered
<1>11. Bar!Success' => Bar!Success
  BY <1>1 DEF Bar!Success
<1>12. ASSUME NEW e \in Bar!Dwords
       PROVE  (DwordOut(e, j + 1, bar[e], saved.bar[e], lost, barErrors, Bar!Success))'
  <2>1. DwordOut(e, j, bar[e], saved.bar[e], lost, barErrors, Bar!Success)
    BY <1>4 DEF Out
  <2>2. j # UndoAt(e) /\ kind # "assign"
    BY <1>6, <1>7
  <2>3. QED
    BY <1>3, <1>4, <1>7, <1>9, <1>11, <2>1, <2>2, DwordOutCarried
<1>13. Bar!Success' /\ j + 1 > CommandVerifyAt => decoding' = before.decoding
  <2>1. SUFFICES ASSUME Bar!Success', j + 1 > CommandVerifyAt
                 PROVE  decoding = before.decoding
    BY <1>9
  <2>2. j = 4
    BY <1>6, <2>1
  <2>3. decoding = saved.decoding
    BY <1>1, <1>6, <2>1, <2>2 DEF Bar!Success
  <2>4. saved.decoding = before.decoding
    BY <1>4, <1>7 DEF Out, Exiting
  <2>5. QED
    BY <2>3, <2>4
<1>14. QED
  BY <1>3, <1>4, <1>6, <1>7, <1>8, <1>9, <1>10, <1>11, <1>12, <1>13, OutMoves

LEMMA UndoAccessFails ==
  ASSUME BarInv, Bar!AccessFails, Head(barTodo).op \in Bar!UndoAccess
  PROVE  BarInv'
<1>1. Bar!MainAccess \cap Bar!UndoAccess = {}
  BY DEF Bar!MainAccess, Bar!UndoAccess
<1>2. /\ barTodo # <<>> /\ barErrors < BarErrors /\ barErrors' = barErrors + 1 /\ Steady
      /\ flags' = IF kind = "n1" THEN flags \ {"success"} ELSE flags
      /\ barTodo' = IF kind = "n1" /\ Head(barTodo).op \in {"undoBar", "undoCommand"}
                      THEN Tail(Tail(barTodo)) ELSE Tail(barTodo)
      /\ UNCHANGED <<bar, decoding, saved, mask, resource, lost>>
  BY <1>1 DEF Bar!AccessFails, Bar!functionVars, Steady
<1>3. Registered /\ kind \in Bar!Transactions
  BY <1>2, InOut
<1>4. PICK j \in 1..ReturnAt : /\ OnList(barTodo, Exits, j) /\ Out(j)
                               /\ FoundOut(Head(barTodo), j)
  BY <1>2, InOut
<1>5. j # ReturnAt /\ ReturnAt \in 3..5
  <2>1. Head(barTodo).op # "return"
    BY DEF Bar!UndoAccess
  <2>2. QED
    BY <1>3, <1>4, <2>1, ExitOrder DEF FoundOut
<1>6. j \in Nat /\ j < ReturnAt /\ j + 1 \in 1..ReturnAt /\ j < j + 1
  BY <1>5
<1>7. OnList(Tail(barTodo), Exits, j + 1)
  BY <1>3, <1>4, <1>6, WhereOut
<1>8. PICK k \in 1..ReturnAt : /\ j < k /\ OnList(barTodo', Exits, k)
  <2>1. CASE kind = "n1" /\ Head(barTodo).op \in {"undoBar", "undoCommand"}
    <3>1. ReturnAt = 5 /\ UndoAt0 = 1 /\ UndoAt1 = 0 /\ CommandUndoAt = 3
      BY <2>1, ExitPlaces
    <3>2. j = 1 \/ j = 3
      BY <1>4, <1>6, <2>1, <3>1 DEF FoundOut
    <3>3. Len(Exits) = ReturnAt /\ j + 1 < 5 /\ j + 2 \in 1..ReturnAt /\ j < j + 2
          /\ (j + 1) + 1 = j + 2 /\ 5 \in Nat
      BY <1>3, <1>4, <3>1, <3>2, OutFound
    <3>4. OnList(Tail(Tail(barTodo)), Exits, j + 2)
      BY <1>7, <3>1, <3>3, ListHead
    <3>5. QED
      BY <1>2, <2>1, <3>3, <3>4
  <2>2. CASE ~(kind = "n1" /\ Head(barTodo).op \in {"undoBar", "undoCommand"})
    BY <1>2, <1>6, <1>7, <2>2
  <2>3. QED
    BY <2>1, <2>2
<1>9. barErrors' \in 0..BarErrors
  <2>1. barErrors \in 0..BarErrors /\ BarErrors \in Nat
    BY <1>3, BarConstants DEF Registered
  <2>2. QED
    BY <1>2, <2>1
<1>10. Registered'
  BY <1>2, <1>3, <1>9, RegisteredNext DEF Registered
<1>11. /\ Bar!Success' => Bar!Success
       /\ kind # "n1" => Bar!Success' = Bar!Success
       /\ kind = "n1" => ~Bar!Success'
  BY <1>2 DEF Bar!Success
<1>12. ASSUME NEW e \in Bar!Dwords
       PROVE  (DwordOut(e, k, bar[e], saved.bar[e], lost, barErrors, Bar!Success))'
  <2>1. DwordOut(e, j, bar[e], saved.bar[e], lost, barErrors, Bar!Success)
    BY <1>4 DEF Out
  <2>2. QED
    BY <1>2, <1>3, <1>4, <1>8, <1>11, <2>1, DwordOutCarried
<1>13. QED
  BY <1>2, <1>3, <1>4, <1>8, <1>10, <1>11, <1>12, OutMoves

LEMMA BarAccessFails == BarInv /\ Bar!AccessFails => BarInv'
<1> SUFFICES ASSUME BarInv, Bar!AccessFails PROVE BarInv'
  OBVIOUS
<1>1. Head(barTodo).op \in Bar!MainAccess \/ Head(barTodo).op \in Bar!UndoAccess
  BY DEF Bar!AccessFails
<1>2. QED
  BY <1>1, MainAccessFails, UndoAccessFails

LEMMA WordsEqual ==
  ASSUME NEW v \in Bar!Words, NEW w \in Bar!Words, \A d \in Bar!Dwords : v[d] = w[d]
  PROVE  v = w
<1>1. v \in [Bar!Dwords -> Nat] /\ w \in [Bar!Dwords -> Nat]
  BY WordsAre
<1>2. QED
  BY <1>1

\* Nothing failed, and root has returned.
LEMMA NothingFailed ==
  ASSUME Registered, kind \in Bar!Transactions, Out(ReturnAt), lost = 0, barErrors = 0
  PROVE  bar = before.bar \/ (kind = "assign" /\ Bar!Success /\ bar[0] = resource.paddr)
<1>1. \A d \in Bar!Dwords : ~(ReturnAt <= UndoAt(d))
  <2>1. ReturnAt \in 3..5 /\ \A d \in Bar!Dwords : UndoAt(d) \in 0..2
    BY ExitOrder
  <2>2. QED
    BY <2>1
<1>2. bar \in Bar!Words /\ before.bar \in Bar!Words
  BY RegisterValues DEF Registered
<1>3. CASE kind = "assign" /\ Bar!Success
  <2>1. bar[0] = resource.paddr
    BY <1>3 DEF Out, Exiting, Promised
  <2>2. QED
    BY <1>3, <2>1
<1>4. CASE ~(kind = "assign" /\ Bar!Success)
  <2>1. 0 <= (IF kind = "assign" THEN 0 ELSE 1)
    OBVIOUS
  <2>2. \A d \in Bar!Dwords : bar[d] = before.bar[d]
    BY <1>1, <1>4, <2>1 DEF Out, DwordOut
  <2>3. QED
    BY <1>2, <2>2, WordsEqual
<1>5. QED
  BY <1>3, <1>4

LEMMA BarReturns == BarInv /\ Bar!Return => BarInv'
<1> SUFFICES ASSUME BarInv, Bar!Return PROVE BarInv'
  OBVIOUS
<1>1. /\ barTodo # <<>> /\ Head(barTodo).op = "return" /\ barTodo' = Tail(barTodo)
      /\ kind' = "none"
      /\ UNCHANGED <<size, type, bar, decoding, input, saved, mask, flags, resource,
                     barErrors, lost, before>>
  BY DEF Bar!Return, Bar!Doing, Bar!Continue, Bar!functionVars, Bar!faultVars
<1>2. Registered /\ kind \in Bar!Transactions
  BY <1>1, InOut
<1>3. PICK j \in 1..ReturnAt : /\ OnList(barTodo, Exits, j) /\ Out(j)
                               /\ FoundOut(Head(barTodo), j)
  BY <1>1, InOut
<1>4. j = ReturnAt /\ Len(Exits) = ReturnAt /\ ReturnAt \in 3..5
  BY <1>1, <1>2, <1>3, OutFound DEF FoundOut
<1>5. barTodo' = <<>>
  <2>1. barTodo \in Seq(BarStep) /\ Len(barTodo) = 1
    BY <1>3, <1>4 DEF OnList
  <2>2. QED
    BY <1>1, <2>1
<1>6. Registered'
  <2>1. \A d \in Bar!Dwords : /\ bar'[d] = (Bar!Store(d, bar[d]))'
                              /\ before'.bar[d] = (Bar!Store(d, before.bar[d]))'
    BY <1>1, <1>2 DEF Registered, Bar!Store, Bar!Implemented, Bar!Granule
  <2>2. QED
    BY <1>1, <1>2, <2>1 DEF Registered, Fixed
<1>7. Between'
  <2>1. lost = 0 /\ barErrors = 0 =>
          bar = before.bar \/ (Bar!Success /\ bar[0] = resource.paddr)
    BY <1>2, <1>3, <1>4, NothingFailed
  <2>2. QED
    BY <1>1, <2>1 DEF Between, Bar!Success
<1>8. QED
  BY <1>1, <1>5, <1>6, <1>7 DEF BarInv

-----------------------------------------------------------------------------
(* A transaction begins.                                                   *)
LEMMA NothingSaved ==
  /\ [d \in Bar!Dwords |-> 0] \in Bar!Words
  /\ [bar |-> [d \in Bar!Dwords |-> 0], decoding |-> FALSE] \in Bar!Registers
  /\ 0 \in 0..(Limit * HighLimit + Limit)
<1>1. [d \in Bar!Dwords |-> 0] \in Bar!Words
  BY WordsAre, BarConstants, DwordsAre
<1>2. 0 \in 0..(Limit * HighLimit + Limit)
  BY Products, BarConstants
<1>3. QED
  BY <1>1, <1>2 DEF Bar!Registers

LEMMA ListsStart ==
  ASSUME NEW k \in Bar!Transactions
  PROVE  OnList(Bar!Steps[k], Bar!Steps[k], 1)
<1>1. Bar!Steps[k] \in Seq(BarStep) /\ Len(Bar!Steps[k]) >= 1
  <2>1. CASE k = "assign"
    BY <2>1, AssignRows
  <2>2. CASE k = "range32"
    BY <2>2, Range32Rows
  <2>3. CASE k = "range64"
    BY <2>3, Range64Rows
  <2>4. CASE k = "n1"
    BY <2>4, N1Rows
  <2>5. QED
    BY <2>1, <2>2, <2>3, <2>4, KindsAre
<1>2. QED
  BY <1>1, ListStart

LEMMA Begun ==
  ASSUME Registered, NEW k \in Bar!Transactions, Bar!Begins(k),
         input' \in [start : Nat, end : Nat, offset : Nat, length : Nat],
         k = "range64" => type = "mem64", k = "n1" => input'.offset = 0
  PROVE  BarInv'
<1>1. /\ kind' = k /\ barTodo' = Bar!Steps[k] /\ flags' = {}
      /\ saved' = [bar |-> [d \in Bar!Dwords |-> 0], decoding |-> FALSE]
      /\ mask' = [d \in Bar!Dwords |-> 0] /\ resource' = Bar!NoRange
      /\ before' = [bar |-> bar, decoding |-> decoding]
      /\ UNCHANGED <<size, type, bar, decoding, barErrors, lost>>
  BY DEF Bar!Begins, Bar!functionVars, Bar!faultVars
<1>2. resource'.start = 0 /\ before'.bar = bar /\ before'.decoding = decoding
  BY <1>1 DEF Bar!NoRange
<1>3. saved' \in Bar!Registers /\ mask' \in Bar!Words /\ before' \in Bar!Registers
  BY <1>1, NothingSaved DEF Registered, Bar!Registers
<1>4. Registered'
  <2>1. ASSUME NEW d \in Bar!Dwords
        PROVE  /\ bar'[d] = (Bar!Store(d, bar[d]))'
               /\ before'.bar[d] = (Bar!Store(d, before.bar[d]))'
    <3>1. bar[d] = Bar!Store(d, bar[d])
      BY DEF Registered
    <3>2. bar'[d] = (Bar!Store(d, bar[d]))'
      BY <1>1, <3>1 DEF Bar!Store, Bar!Implemented, Bar!Granule
    <3>3. before'.bar[d] = bar[d]
      BY <1>2
    <3>4. (Bar!Store(d, before.bar[d]))' = Bar!Store(d, bar[d])
      BY <1>1, <3>3 DEF Bar!Store, Bar!Implemented, Bar!Granule
    <3>5. QED
      BY <3>1, <3>2, <3>3, <3>4
  <2>2. Fixed'
    BY <1>1 DEF Registered, Fixed
  <2>3. /\ bar' \in Bar!Words /\ decoding' \in BOOLEAN /\ flags' \subseteq Bar!Flags
        /\ barErrors' \in 0..BarErrors /\ lost' \in 0..BarLost
        /\ kind' \in Bar!Transactions \cup {"none"}
        /\ (kind' = "range64" => type' = "mem64") /\ (kind' = "n1" => input'.offset = 0)
    BY <1>1 DEF Registered
  <2>4. resource'.start \in 0..(Limit * HighLimit + Limit)
    BY <1>2, NothingSaved
  <2>5. QED
    BY <1>3, <2>1, <2>2, <2>3, <2>4 DEF Registered
<1>5. /\ ~(1 > CommandAt') /\ ~(1 > QuiesceAt') /\ ~(1 > TouchAt') /\ ~(1 > AcceptAt')
      /\ ~(1 > ReadBackAt')
  BY <1>1, KindsAre DEF CommandAt, QuiesceAt, TouchAt, AcceptAt, ReadBackAt, Place
<1>6. /\ ~(1 > BarAt0') /\ ~(1 > OnesAt0') /\ ~(1 > MaskAt0') /\ ~(1 > PutAt0')
      /\ ~(1 > VerifyAt0')
      /\ ~(1 > BarAt1') /\ ~(1 > OnesAt1') /\ ~(1 > MaskAt1') /\ ~(1 > PutAt1')
      /\ ~(1 > VerifyAt1')
  BY <1>1, KindsAre DEF BarAt0, OnesAt0, MaskAt0, PutAt0, VerifyAt0, BarAt1, OnesAt1, MaskAt1,
     PutAt1, VerifyAt1, Place
<1>7. Deciding(1)'
  <2>1. ("quiesced" \in flags <=> 1 > QuiesceAt)'
        /\ ("touched" \in flags <=> 1 > TouchAt /\ 1 <= UntouchAt)'
    BY <1>1, <1>5
  <2>2. (~Bar!Success)'
    BY <1>1 DEF Bar!Success
  <2>3. QED
    BY <1>1, <1>2, <1>5, <2>1, <2>2 DEF Deciding
<1>8. ASSUME NEW d \in Bar!Dwords
      PROVE  (DwordAt(d, 1, bar[d], saved.bar[d], mask[d], lost))'
  <2>1. ~(1 > BarAt(d)') /\ ~(1 > OnesAt(d)') /\ ~(1 > MaskAt(d)') /\ ~(1 > PutAt(d)')
        /\ ~(1 > VerifyAt(d)')
    BY <1>6 DEF BarAt, OnesAt, MaskAt, PutAt, VerifyAt
  <2>2. bar'[d] = before'.bar[d]
    BY <1>1, <1>2
  <2>3. QED
    BY <2>1, <2>2 DEF DwordAt
<1>9. Main(1)'
  BY <1>7, <1>8 DEF Main
<1>10. (OnList(barTodo, Bar!Steps[kind], 1))'
  <2>1. OnList(Bar!Steps[k], Bar!Steps[k], 1)
    BY ListsStart
  <2>2. QED
    BY <1>1, <2>1 DEF OnList
<1>11. Going'
  BY <1>9, <1>10 DEF Going
<1>12. kind' # "none"
  BY <1>1, KindsAre
<1>13. QED
  BY <1>4, <1>11, <1>12 DEF BarInv

LEMMA BarBegins == BarInv /\ (Bar!Assign \/ Bar!ValidateRange \/ Bar!ReadBarRange) => BarInv'
<1> SUFFICES ASSUME BarInv, Bar!Assign \/ Bar!ValidateRange \/ Bar!ReadBarRange PROVE BarInv'
  OBVIOUS
<1>1. Registered
  BY DEF BarInv
<1>2. /\ Windows \subseteq (0..Limit) \X (0..Limit) /\ Limit \in Nat
      /\ Regions \subseteq [offset : Nat, length : Nat]
  BY BarConstants
<1>3. CASE Bar!Assign
  <2>1. PICK w \in Windows : input' = [Bar!NoInput EXCEPT !.start = w[1], !.end = w[2]]
    BY <1>3 DEF Bar!Assign
  <2>2. w[1] \in Nat /\ w[2] \in Nat
    BY <1>2, <2>1
  <2>3. input' \in [start : Nat, end : Nat, offset : Nat, length : Nat]
    BY <2>1, <2>2 DEF Bar!NoInput
  <2>4. Bar!Begins("assign") /\ "assign" \in Bar!Transactions
    BY <1>3, KindsAre DEF Bar!Assign
  <2>5. QED
    BY <1>1, <2>3, <2>4, Begun
<1>4. CASE Bar!ValidateRange
  <2>1. PICK r \in Regions : input' = [Bar!NoInput EXCEPT !.offset = r.offset,
          !.length = r.length]
    BY <1>4 DEF Bar!ValidateRange
  <2>2. r.offset \in Nat /\ r.length \in Nat
    BY <1>2, <2>1
  <2>3. input' \in [start : Nat, end : Nat, offset : Nat, length : Nat]
    BY <2>1, <2>2 DEF Bar!NoInput
  <2>4. \/ Bar!Begins("range32")
        \/ Bar!Begins("range64") /\ type = "mem64"
    BY <1>4 DEF Bar!ValidateRange, Bar!Is64Bit
  <2>5. "range32" \in Bar!Transactions /\ "range64" \in Bar!Transactions
    BY KindsAre
  <2>6. CASE Bar!Begins("range32")
    BY <1>1, <2>3, <2>5, <2>6, Begun
  <2>7. CASE Bar!Begins("range64") /\ type = "mem64"
    BY <1>1, <2>3, <2>5, <2>7, Begun
  <2>8. QED
    BY <2>4, <2>6, <2>7
<1>5. CASE Bar!ReadBarRange
  <2>1. input' = Bar!NoInput /\ Bar!Begins("n1") /\ "n1" \in Bar!Transactions
    BY <1>5, KindsAre DEF Bar!ReadBarRange
  <2>2. input' \in [start : Nat, end : Nat, offset : Nat, length : Nat] /\ input'.offset = 0
    BY <2>1 DEF Bar!NoInput
  <2>3. QED
    BY <1>1, <2>1, <2>2, Begun
<1>6. QED
  BY <1>3, <1>4, <1>5

LEMMA BarStarts == Bar!Init => BarInv
<1> SUFFICES ASSUME Bar!Init PROVE BarInv
  OBVIOUS
<1>1. /\ type \in Types /\ size \in Bar!Sizes /\ (size > Limit => type = "mem64")
      /\ bar \in Bar!Words /\ (\A d \in Bar!Dwords : bar[d] = Bar!Store(d, bar[d]))
      /\ decoding \in BOOLEAN /\ kind = "none" /\ barTodo = <<>> /\ input = Bar!NoInput
      /\ saved = [bar |-> [d \in Bar!Dwords |-> 0], decoding |-> FALSE]
      /\ mask = [d \in Bar!Dwords |-> 0] /\ flags = {} /\ resource = Bar!NoRange
      /\ barErrors = 0 /\ lost = 0 /\ before = [bar |-> bar, decoding |-> decoding]
  BY DEF Bar!Init
<1>2. before.bar = bar /\ resource.start = 0
  BY <1>1 DEF Bar!NoRange
<1>3. saved \in Bar!Registers /\ mask \in Bar!Words /\ before \in Bar!Registers
  BY <1>1, NothingSaved DEF Bar!Registers
<1>4. /\ input \in [start : Nat, end : Nat, offset : Nat, length : Nat]
      /\ barErrors \in 0..BarErrors /\ lost \in 0..BarLost
      /\ resource.start \in 0..(Limit * HighLimit + Limit)
  BY <1>1, <1>2, NothingSaved, BarConstants DEF Bar!NoInput
<1>5. Fixed
  BY <1>1, BarConstants DEF Fixed
<1>6. \A d \in Bar!Dwords : bar[d] = Bar!Store(d, bar[d])
                            /\ before.bar[d] = Bar!Store(d, before.bar[d])
  BY <1>1, <1>2
<1>7. Registered
  BY <1>1, <1>3, <1>4, <1>5, <1>6 DEF Registered
<1>8. Between
  BY <1>2 DEF Between
<1>9. QED
  BY <1>1, <1>7, <1>8 DEF BarInv

LEMMA BarStays == BarInv /\ UNCHANGED barVars => BarInv'
<1> SUFFICES ASSUME BarInv, UNCHANGED barVars PROVE BarInv'
  OBVIOUS
<1>1. /\ size' = size /\ type' = type /\ bar' = bar /\ decoding' = decoding /\ kind' = kind
      /\ barTodo' = barTodo /\ input' = input /\ saved' = saved /\ mask' = mask
         /\ flags' = flags
      /\ resource' = resource /\ barErrors' = barErrors /\ lost' = lost /\ before' = before
  BY DEF barVars
<1>2. Steady /\ Measured
  BY <1>1 DEF Steady, Measured
<1>3. Registered
  BY DEF BarInv
<1>4. Registered'
  BY <1>1, <1>2, <1>3, RegisteredNext DEF Registered
<1>5. Between => Between'
  BY <1>1 DEF Between, Bar!Success
<1>6. /\ CommandAt' = CommandAt /\ QuiesceAt' = QuiesceAt /\ TouchAt' = TouchAt
      /\ UntouchAt' = UntouchAt /\ AcceptAt' = AcceptAt /\ ReadBackAt' = ReadBackAt
      /\ ProgramAt' = ProgramAt /\ ReturnAt' = ReturnAt /\ CommandUndoAt' = CommandUndoAt
      /\ UndoAt0' = UndoAt0 /\ CommandVerifyAt' = CommandVerifyAt /\ Exits' = Exits
  BY <1>2, SamePlaces
<1>7. /\ Bar!Reported' = Bar!Reported /\ (Bar!Accepted => Bar!Accepted')
      /\ (Bar!Success' <=> Bar!Success)
  BY <1>1, <1>2, SameReport, SameAccepted DEF Bar!Success
<1>8. ASSUME NEW d \in Bar!Dwords
      PROVE  /\ BarAt(d)' = BarAt(d) /\ OnesAt(d)' = OnesAt(d) /\ MaskAt(d)' = MaskAt(d)
             /\ PutAt(d)' = PutAt(d) /\ VerifyAt(d)' = VerifyAt(d)
             /\ UndoAt(d)' = UndoAt(d) /\ Ones(d)' = Ones(d) /\ Sized(d)' = Sized(d)
  BY <1>2, SameFunction
<1>9. Going => Going'
  <2>1. SUFFICES ASSUME Going PROVE Going'
    OBVIOUS
  <2>2. PICK i : OnList(barTodo, Bar!Steps[kind], i) /\ Main(i)
    BY <2>1 DEF Going
  <2>3. (OnList(barTodo, Bar!Steps[kind], i))'
    BY <1>1, <2>2 DEF OnList
  <2>4. Deciding(i)'
    BY <1>1, <1>6, <1>7, <2>2 DEF Main, Deciding
  <2>5. ASSUME NEW d \in Bar!Dwords
        PROVE  (DwordAt(d, i, bar[d], saved.bar[d], mask[d], lost))'
    <3>1. DwordAt(d, i, bar[d], saved.bar[d], mask[d], lost)
      BY <2>2 DEF Main
    <3>2. QED
      BY <1>1, <1>6, <1>8, <3>1 DEF DwordAt
  <2>6. Main(i)'
    BY <2>4, <2>5 DEF Main
  <2>7. QED
    BY <2>3, <2>6 DEF Going
<1>10. Gone => Gone'
  <2>1. SUFFICES ASSUME Gone PROVE Gone'
    OBVIOUS
  <2>2. PICK j : OnList(barTodo, Exits, j) /\ Out(j)
    BY <2>1 DEF Gone
  <2>3. (OnList(barTodo, Exits, j))'
    BY <1>1, <1>6, <2>2 DEF OnList
  <2>4. Promised => Promised'
    BY <1>1, <1>7, <1>8 DEF Promised
  <2>5. Exiting(j)'
    BY <1>1, <1>6, <1>7, <2>2, <2>4 DEF Out, Exiting
  <2>6. ASSUME NEW d \in Bar!Dwords
        PROVE  (DwordOut(d, j, bar[d], saved.bar[d], lost, barErrors, Bar!Success))'
    <3>1. DwordOut(d, j, bar[d], saved.bar[d], lost, barErrors, Bar!Success)
      BY <2>2 DEF Out
    <3>2. QED
      BY <1>1, <1>7, <1>8, <3>1 DEF DwordOut
  <2>7. Out(j)'
    BY <2>5, <2>6 DEF Out
  <2>8. QED
    BY <2>3, <2>7 DEF Gone
<1>11. QED
  BY <1>1, <1>4, <1>5, <1>9, <1>10 DEF BarInv

-----------------------------------------------------------------------------
(* What is reported is what the function decodes.                          *)
LEMMA QuotientIs ==
  ASSUME NEW v \in Nat, NEW g \in Nat \ {0}, NEW q \in Nat, q * g <= v, v < q * g + g
  PROVE  v \div g = q
<1> DEFINE p == v \div g
<1>1. p \in Nat /\ p * g <= v /\ v < p * g + g
  BY Rounding
<1>2. SUFFICES p = q
  OBVIOUS
<1> HIDE DEF p
<1>3. CASE p < q
  <2>1. p + 1 \in Nat /\ p + 1 <= q
    BY <1>1, <1>3
  <2>2. (p + 1) * g <= q * g
    BY <2>1, Times
  <2>3. (p + 1) * g = p * g + g
    BY <1>1
  <2>4. p * g \in Nat /\ q * g \in Nat
    BY <1>1
  <2>5. QED
    BY <1>1, <2>2, <2>3, <2>4
<1>4. CASE q < p
  <2>1. q + 1 \in Nat /\ q + 1 <= p
    BY <1>1, <1>4
  <2>2. (q + 1) * g <= p * g
    BY <1>1, <2>1, Times
  <2>3. (q + 1) * g = q * g + g
    OBVIOUS
  <2>4. p * g \in Nat /\ q * g \in Nat
    BY <1>1
  <2>5. QED
    BY <1>1, <2>2, <2>3, <2>4
<1>5. QED
  BY <1>1, <1>3, <1>4

\* device_feature is within one page.
LEMMA OnePage ==
  ASSUME NEW a \in Nat, NEW g \in Nat \ {0}, (a % g) + Bar!FeatureEnd <= g
  PROVE  a \div g = (a + Bar!FeatureEnd - 1) \div g
<1>1. a \div g \in Nat /\ (a \div g) * g <= a /\ a = (a \div g) * g + (a % g) /\ a % g \in Nat
  <2>1. a \div g \in Nat /\ (a \div g) * g <= a
    BY Rounding
  <2>2. a = g * (a \div g) + (a % g) /\ a % g \in 0..(g - 1)
    OBVIOUS
  <2>3. g * (a \div g) = (a \div g) * g
    BY <2>1
  <2>4. QED
    BY <2>1, <2>2, <2>3
<1> DEFINE q == a \div g
           r == a % g
<1>2. q \in Nat /\ r \in Nat /\ q * g \in Nat /\ a = q * g + r /\ r + 2 <= g
  BY <1>1 DEF Bar!FeatureEnd
<1> HIDE DEF q, r
<1>3. a + 1 \in Nat /\ q * g <= a + 1 /\ a + 1 < q * g + g
  BY <1>2
<1>4. (a + 1) \div g = q
  BY <1>2, <1>3, QuotientIs
<1>5. a + Bar!FeatureEnd - 1 = a + 1
  BY DEF Bar!FeatureEnd
<1>6. QED
  BY <1>4, <1>5 DEF q

\* Over a sizing response that was read, the size is the BAR's.
LEMMA SizeMeasured ==
  ASSUME Registered, kind \in Bar!Transactions, ~Bar!MaskZero,
         \A d \in Bar!Dwords : Sized(d) => mask[d] = Ones(d)
  PROVE  /\ Bar!MaskSize = size /\ size # 0 /\ size \in Nat
         /\ kind # "range64" => size < Limit
<1>1. Fixed /\ Limit \in Nat \ {0} /\ HighLimit \in Nat \ {0} /\ size \in Nat
      /\ 0 \in Bar!Dwords /\ 1 \in Bar!Dwords
      /\ Bar!Bound(0) = Limit /\ Bar!Bound(1) = HighLimit
  BY BarConstants, SizeFacts, BoundOf, DwordsAre DEF Registered
<1>2. mask[0] = Bar!Store(0, Limit - 1)
  BY <1>1 DEF Sized, Ones
<1>3. kind = "range64" => mask[1] = Bar!Store(1, HighLimit - 1) /\ type = "mem64"
  BY <1>1 DEF Sized, Ones, Registered
<1>4. size # 0
  <2>1. SUFFICES ASSUME size = 0 PROVE FALSE
    OBVIOUS
  <2>2. mask[0] = 0 /\ (kind = "range64" => mask[1] = 0)
    BY <1>2, <1>3, <2>1 DEF Bar!Store, Bar!Implemented
  <2>3. QED
    BY <2>2 DEF Bar!MaskZero
<1>5. Limit - 1 \in Nat /\ HighLimit - 1 \in Nat
  BY <1>1
<1>6. Bar!Implemented(0) /\ (kind = "range64" => Bar!Implemented(1))
  BY <1>3, <1>4 DEF Bar!Implemented
<1>7. mask[0] = Limit - Bar!Granule(0)
  BY <1>1, <1>2, <1>5, <1>6, StoreFacts
<1>8. kind = "range64" => mask[1] = HighLimit - Bar!Granule(1)
  BY <1>1, <1>3, <1>5, <1>6, StoreFacts
<1>9. PICK g \in Nat, h \in Nat :
        /\ g = Bar!Granule(0) /\ h = Bar!Granule(1)
        /\ size < Limit => g = size
        /\ size >= Limit => g = Limit
        /\ size <= Limit => h = 1
        /\ size > Limit => size = h * Limit
  BY <1>1, <1>4, GranuleFacts
<1>10. CASE kind # "range64"
  <2>1. Bar!MaskSize = Limit - mask[0] /\ mask[0] # 0
    BY <1>10, MaskSizes DEF Bar!MaskZero
  <2>2. Bar!MaskSize = g /\ g # Limit
    BY <1>1, <1>7, <1>9, <2>1
  <2>3. QED
    BY <1>1, <1>4, <1>9, <1>10, <2>2
<1>11. CASE kind = "range64"
  <2>1. Bar!MaskSize = Limit * HighLimit - Bar!Address(mask)
    BY <1>11, MaskSizes
  <2>2. Bar!Address(mask) = (HighLimit - h) * Limit + (Limit - g)
    BY <1>7, <1>8, <1>9, <1>11 DEF Bar!Address
  <2>3. (HighLimit - h) * Limit = Limit * HighLimit - h * Limit
    BY <1>1
  <2>4. h * Limit \in Nat /\ Limit * HighLimit \in Nat
    BY <1>1, Products
  <2>5. Bar!MaskSize = h * Limit - Limit + g
    BY <1>1, <2>1, <2>2, <2>3, <2>4
  <2>6. size <= Limit => h * Limit = Limit
    BY <1>1, <1>9
  <2>7. QED
    BY <1>1, <1>4, <1>9, <1>11, <2>4, <2>5, <2>6
<1>12. QED
  BY <1>10, <1>11

\* An address the function holds is aligned to its BAR.
LEMMA BarAligned ==
  ASSUME Registered, size # 0, type = "mem64" \/ size < Limit
  PROVE  (IF type = "mem64" THEN Bar!Address(bar) ELSE bar[0]) % size = 0
<1>1. Fixed /\ Limit \in Nat \ {0} /\ size \in Nat \ {0} /\ 0 \in Bar!Dwords /\ 1 \in Bar!Dwords
  BY BarConstants, SizeFacts, DwordsAre DEF Registered
<1>2. /\ bar[0] \in Nat /\ bar[0] < Limit /\ bar[1] \in Nat
      /\ bar[0] = Bar!Store(0, bar[0]) /\ bar[1] = Bar!Store(1, bar[1])
  BY <1>1, RegisterValues, BoundOf DEF Registered
<1>3. PICK a \in Nat : bar[0] = a * Bar!Granule(0)
  <2>1. Bar!Implemented(0)
    BY DEF Bar!Implemented
  <2>2. QED
    BY <1>1, <1>2, <2>1, StoreFacts
<1>4. CASE size < Limit
  <2>1. Bar!Granule(0) = size /\ Limit % size = 0
    BY <1>1, <1>4, GranuleFacts, SizeFacts
  <2>2. PICK q \in Nat : Limit = q * size
    BY <1>1, <2>1, Quotient
  <2>3. bar[0] % size = 0
    BY <1>1, <1>3, <2>1, MultipleOf
  <2>4. Bar!Address(bar) = bar[1] * Limit + bar[0]
    BY DEF Bar!Address
  <2>5. bar[1] * Limit = (bar[1] * q) * size /\ bar[1] * q \in Nat
    BY <1>1, <1>2, <2>2
  <2>6. PICK b \in Nat : b = bar[1] * q
    BY <2>5
  <2>7. Bar!Address(bar) = b * size + a * size
    BY <1>3, <2>1, <2>4, <2>5, <2>6
  <2>8. b * size + a * size = (b + a) * size /\ b + a \in Nat
    BY <1>1
  <2>9. Bar!Address(bar) % size = 0
    BY <1>1, <2>7, <2>8, MultipleOf
  <2>10. QED
    BY <2>3, <2>9
<1>5. CASE ~(size < Limit)
  <2>1. size >= Limit /\ type = "mem64"
    BY <1>1, <1>5
  <2>2. Bar!Granule(0) = Limit
    BY <1>1, <2>1, GranuleFacts
  <2>3. bar[0] = a * Limit
    BY <1>3, <2>2
  <2>4. a = 0
    <3>1. SUFFICES ASSUME a # 0 PROVE FALSE
      OBVIOUS
    <3>2. 1 * Limit <= a * Limit
      BY <1>1, <3>1, Times
    <3>3. QED
      BY <1>1, <1>2, <2>3, <3>2
  <2>5. bar[0] = 0
    BY <1>1, <2>3, <2>4
  <2>6. Bar!Address(bar) = bar[1] * Limit
    <3>1. bar[1] * Limit \in Nat
      BY <1>1, <1>2
    <3>2. QED
      BY <2>5, <3>1 DEF Bar!Address
  <2>7. CASE size = Limit
    BY <1>1, <1>2, <2>1, <2>6, <2>7, MultipleOf
  <2>8. CASE size > Limit
    <3>1. Bar!Granule(1) \in Nat /\ size = Bar!Granule(1) * Limit
      BY <1>1, <2>8, GranuleFacts
    <3>2. Bar!Implemented(1)
      BY <2>1 DEF Bar!Implemented
    <3>3. PICK b \in Nat : bar[1] = b * Bar!Granule(1)
      <4>1. \E b \in Nat : Bar!Store(1, bar[1]) = b * Bar!Granule(1)
        BY <1>1, <1>2, <3>2, StoreFacts
      <4>2. QED
        BY <1>2, <4>1, Zenon
    <3>4. PICK h \in Nat : h = Bar!Granule(1)
      BY <3>1
    <3>5. bar[1] * Limit = (b * h) * Limit
      BY <3>3, <3>4
    <3>6. (b * h) * Limit = b * (h * Limit)
      BY <1>1
    <3>7. bar[1] * Limit = b * size
      BY <3>1, <3>4, <3>5, <3>6
    <3>8. QED
      BY <1>1, <2>1, <2>6, <3>7, MultipleOf
  <2>9. QED
    BY <1>1, <2>1, <2>7, <2>8
<1>6. QED
  BY <1>4, <1>5

LEMMA ReturnsOut ==
  ASSUME BarInv, Bar!Returning
  PROVE  /\ Registered /\ kind \in Bar!Transactions /\ Out(ReturnAt)
         /\ \A d \in Bar!Dwords : ~(ReturnAt <= UndoAt(d))
<1>1. barTodo # <<>> /\ Head(barTodo).op = "return"
  BY DEF Bar!Returning, Bar!Doing
<1>2. Registered /\ kind \in Bar!Transactions
  BY <1>1, InOut
<1>3. PICK j \in 1..ReturnAt : Out(j) /\ FoundOut(Head(barTodo), j)
  BY <1>1, InOut
<1>4. j = ReturnAt
  BY <1>1, <1>3 DEF FoundOut
<1>5. ReturnAt \in 3..5 /\ \A d \in Bar!Dwords : UndoAt(d) \in 0..2
  BY <1>2, ExitOrder
<1>6. QED
  BY <1>2, <1>3, <1>4, <1>5

LEMMA LeavesConfiguration == BarInv => Bar!SuccessLeavesConfiguration /\ Bar!FailureRollsBack
<1> SUFFICES ASSUME BarInv, Bar!Returning
             PROVE  /\ Bar!Success => /\ kind # "assign" => bar = before.bar
                                      /\ kind = "n1" => decoding = before.decoding
                    /\ ~Bar!Success /\ kind # "assign" /\ lost = 0 /\ barErrors <= 1 =>
                         bar = before.bar
  BY DEF Bar!SuccessLeavesConfiguration, Bar!FailureRollsBack
<1>1. /\ Registered /\ kind \in Bar!Transactions /\ Out(ReturnAt)
      /\ \A d \in Bar!Dwords : ~(ReturnAt <= UndoAt(d))
  BY ReturnsOut
<1>2. bar \in Bar!Words /\ before.bar \in Bar!Words
  BY <1>1, RegisterValues DEF Registered
<1>3. ASSUME Bar!Success, kind # "assign"
      PROVE  bar = before.bar
  <2>1. \A d \in Bar!Dwords : bar[d] = before.bar[d]
    BY <1>1, <1>3 DEF Out, DwordOut
  <2>2. QED
    BY <1>2, <2>1, WordsEqual
<1>4. ASSUME Bar!Success, kind = "n1"
      PROVE  decoding = before.decoding
  <2>1. ReturnAt > CommandVerifyAt
    BY <1>4, ExitPlaces
  <2>2. QED
    BY <1>1, <1>4, <2>1 DEF Out, Exiting
<1>5. ASSUME ~Bar!Success, kind # "assign", lost = 0, barErrors <= 1
      PROVE  bar = before.bar
  <2>1. barErrors <= (IF kind = "assign" THEN 0 ELSE 1)
    BY <1>5
  <2>2. \A d \in Bar!Dwords : bar[d] = before.bar[d]
    BY <1>1, <1>5, <2>1 DEF Out, DwordOut
  <2>3. QED
    BY <1>2, <2>2, WordsEqual
<1>6. QED
  BY <1>3, <1>4, <1>5

LEMMA DecodesBar == BarInv => Bar!DecodesOnlyRealBar
<1> SUFFICES ASSUME BarInv, decoding, lost = 0,
                    barErrors <= (IF kind \in {"assign", "none"} THEN 0 ELSE 1)
             PROVE  \/ bar = before.bar
                    \/ kind \in {"assign", "none"} /\ Bar!Success /\ bar[0] = resource.paddr
  BY DEF Bar!DecodesOnlyRealBar
<1>1. /\ Registered /\ bar \in Bar!Words /\ before.bar \in Bar!Words /\ barErrors \in Nat
  BY RegisterValues DEF BarInv, Registered
<1>2. CASE kind = "none"
  <2>1. barErrors = 0 /\ Between
    BY <1>1, <1>2 DEF BarInv
  <2>2. QED
    BY <1>2, <2>1 DEF Between
<1>3. CASE kind # "none" /\ Going
  <2>1. kind \in Bar!Transactions
    BY <1>1, <1>3 DEF Registered
  <2>2. PICK i : OnList(barTodo, Bar!Steps[kind], i) /\ Main(i)
    BY <1>3 DEF Going
  <2>3. i \in 1..SucceedAt
    BY <2>1, <2>2, Where
  <2>4. i \in Nat /\ QuiesceAt \in Nat /\ ~(i > QuiesceAt)
    BY <2>1, <2>2, <2>3, PlacesInRange DEF Main, Deciding, Common
  <2>5. ASSUME NEW d \in Bar!Dwords PROVE bar[d] = before.bar[d]
    <3>1. QuiesceAt < OnesAt(d) /\ OnesAt(d) \in Nat
      BY <2>1, DwordsAre, KindsAre, Places, PlacesOf
    <3>2. i <= OnesAt(d)
      BY <2>4, <3>1
    <3>3. QED
      BY <2>2, <3>2 DEF Main, DwordAt
  <2>6. QED
    BY <1>1, <2>5, WordsEqual
<1>4. CASE kind # "none" /\ Gone
  <2>1. kind \in Bar!Transactions
    BY <1>1, <1>4 DEF Registered
  <2>2. PICK j : OnList(barTodo, Exits, j) /\ Out(j)
    BY <1>4 DEF Gone
  <2>3. j \in Nat /\ ~(j <= CommandUndoAt) /\ CommandUndoAt \in Nat
    BY <2>1, <2>2, WhereOut, ExitOrder DEF Out, Exiting
  <2>4. \A d \in Bar!Dwords : ~(j <= UndoAt(d))
    BY <2>1, <2>3, ExitOrder
  <2>5. CASE kind = "assign" /\ Bar!Success
    <3>1. Promised
      BY <2>2, <2>5 DEF Out, Exiting
    <3>2. bar[0] = resource.paddr
      BY <2>5, <3>1 DEF Promised
    <3>3. QED
      BY <2>5, <3>2
  <2>6. CASE ~(kind = "assign" /\ Bar!Success)
    <3>1. barErrors <= (IF kind = "assign" THEN 0 ELSE 1)
      BY <1>4
    <3>2. \A d \in Bar!Dwords : bar[d] = before.bar[d]
      BY <2>2, <2>4, <2>6, <3>1 DEF Out, DwordOut
    <3>3. QED
      BY <1>1, <3>2, WordsEqual
  <2>7. QED
    BY <2>5, <2>6
<1>5. QED
  BY <1>2, <1>3, <1>4 DEF BarInv

LEMMA ReportsTruth == BarInv => Bar!ReportIsTrue
<1> SUFFICES ASSUME BarInv, Bar!Returning, Bar!Success, lost = 0
             PROVE  /\ resource.size = size
                    /\ resource.paddr = IF type = "mem64" THEN Bar!Address(bar) ELSE bar[0]
                    /\ resource.paddr % size = 0
                    /\ kind = "assign" => /\ input.start <= resource.paddr
                                          /\ resource.paddr + size <= input.end
                    /\ kind \in {"range32", "range64"} =>
                         /\ resource.start + input.length <= resource.paddr + size
                         /\ resource.start \div BarPage
                              = (resource.start + Bar!FeatureEnd - 1) \div BarPage
  BY DEF Bar!ReportIsTrue
<1>1. Registered /\ kind \in Bar!Transactions /\ Out(ReturnAt)
  BY ReturnsOut
<1>2. Promised
  BY <1>1 DEF Out, Exiting
<1>3. resource = Bar!Reported /\ Bar!Accepted
      /\ \A d \in Bar!Dwords : Sized(d) => saved.bar[d] = before.bar[d] /\ mask[d] = Ones(d)
  BY <1>2 DEF Promised
<1>4. /\ Bar!MaskSize = size /\ size # 0 /\ size \in Nat
      /\ kind # "range64" => size < Limit
  BY <1>1, <1>3, AcceptedIs, SizeMeasured
<1>5. /\ kind = "assign" => type # "mem64"
      /\ kind \in {"range32", "n1"} => type # "mem64"
      /\ kind = "range64" => type = "mem64"
  BY <1>1, <1>3, AcceptedIs DEF Bar!Is32Bit, Registered
<1>6. ASSUME NEW d \in Bar!Dwords, kind # "assign", Sized(d)
      PROVE  saved.bar[d] = bar[d]
  <2>1. bar[d] = before.bar[d]
    BY <1>1, <1>6 DEF Out, DwordOut
  <2>2. QED
    BY <1>3, <1>6, <2>1
<1>7. 0 \in Bar!Dwords /\ 1 \in Bar!Dwords /\ Sized(0) /\ (kind = "range64" => Sized(1))
  BY DwordsAre DEF Sized
<1>8. resource.size = size
  <2>1. Bar!Reported.size = Bar!MaskSize
    BY <1>1, ReportedIs
  <2>2. QED
    BY <1>3, <1>4, <2>1
<1>9. resource.paddr = IF type = "mem64" THEN Bar!Address(bar) ELSE bar[0]
  <2>1. CASE kind = "assign"
    BY <1>2, <1>3, <1>5, <2>1 DEF Promised
  <2>2. CASE kind \in {"range32", "n1"}
    <3>1. Bar!Reported.paddr = saved.bar[0]
      BY <1>1, <2>2, ReportedIs
    <3>2. saved.bar[0] = bar[0]
      BY <1>6, <1>7, <2>2
    <3>3. QED
      BY <1>3, <1>5, <2>2, <3>1, <3>2
  <2>3. CASE kind = "range64"
    <3>1. Bar!Reported.paddr = Bar!Address(saved.bar)
      BY <1>1, <2>3, ReportedIs
    <3>2. saved.bar[0] = bar[0] /\ saved.bar[1] = bar[1]
      BY <1>6, <1>7, <2>3
    <3>3. Bar!Address(saved.bar) = Bar!Address(bar)
      BY <3>2 DEF Bar!Address
    <3>4. QED
      BY <1>3, <1>5, <2>3, <3>1, <3>3
  <2>4. QED
    BY <1>1, <2>1, <2>2, <2>3, KindsAre
<1>10. resource.paddr % size = 0
  <2>1. type = "mem64" \/ size < Limit
    BY <1>1, <1>4, <1>5, KindsAre
  <2>2. QED
    BY <1>1, <1>4, <1>9, <2>1, BarAligned
<1>11. ASSUME kind = "assign"
       PROVE  input.start <= resource.paddr /\ resource.paddr + size <= input.end
  BY <1>1, <1>3, <1>4, <1>11, Assignable
<1>12. ASSUME kind \in {"range32", "range64"}
       PROVE  /\ resource.start + input.length <= resource.paddr + size
              /\ resource.start \div BarPage
                   = (resource.start + Bar!FeatureEnd - 1) \div BarPage
  <2>1. Bar!RegionSane(resource)
    BY <1>3, <1>12, AcceptedIs
  <2>2. /\ input.offset <= size /\ input.length <= size - input.offset
        /\ (resource.start % BarPage) + Bar!FeatureEnd <= BarPage
    BY <1>8, <2>1 DEF Bar!RegionSane
  <2>3. resource.start = resource.paddr + input.offset
    BY <1>1, <1>3, <1>12, ReportedIs
  <2>4. input.offset \in Nat /\ input.length \in Nat /\ resource.paddr \in Nat
        /\ BarPage \in Nat \ {0}
    <3>1. bar[0] \in Nat /\ Bar!Address(bar) \in Nat
      BY <1>1, <1>7, RegisterValues, AddressOf DEF Registered
    <3>2. QED
      BY <1>1, <1>9, <3>1, BarConstants DEF Registered
  <2>5. resource.start \in Nat
    BY <2>3, <2>4
  <2>6. resource.start + input.length <= resource.paddr + size
    BY <1>4, <2>2, <2>3, <2>4
  <2>7. QED
    BY <2>2, <2>4, <2>5, <2>6, OnePage
<1>13. QED
  BY <1>8, <1>9, <1>10, <1>11, <1>12

LEMMA BarTypes == BarInv => Bar!TypeOK
BY DEF BarInv, Registered, Fixed, Bar!TypeOK

(* A range read that succeeds leaves the configuration it found, and, if   *)
(* no write was lost, what a success reports is the range the function     *)
(* decodes.  If besides at most one access has failed, a range read that   *)
(* fails puts the BAR back and the function decodes nothing but a real BAR. *)
(* Of the allocator the last is said only where no access has failed: one  *)
(* inside its size probe leaves the sizing ones (selinos_pci.c:316, and    *)
(* the label out of M0, M2 and N1).                                        *)
THEOREM TransactionsHold == PciSpec => []TransactionsCorrect
<1>1. PciInit => BarInv
  BY BarStarts DEF PciInit
<1>2. ASSUME BarInv, Bar!Next PROVE BarInv'
  BY <1>2, BarBegins, BarIdentifies, BarSnapshots, BarAdmits, BarQuiesces, BarProbes,
     BarMeasures, BarPutsBack, BarTouches, BarVerifies, BarAccepts, BarPrograms,
     BarReadsBack, BarSucceeds, BarUndoes, BarRestores, BarRechecks, BarAccessFails,
     BarReturns DEF Bar!Next
<1>3. BarInv /\ [PciNext]_<<part, vars, barVars, stageVars>> => BarInv'
  <2>1. SUFFICES ASSUME BarInv, [PciNext]_<<part, vars, barVars, stageVars>>
                 PROVE  BarInv'
    OBVIOUS
  <2>2. Bar!Next \/ UNCHANGED barVars
    BY <2>1 DEF PciNext
  <2>3. QED
    BY <1>2, <2>1, <2>2, BarStays
<1>4. BarInv => TransactionsCorrect
  BY BarTypes, LeavesConfiguration, DecodesBar, ReportsTruth DEF TransactionsCorrect
<1>5. QED
  BY <1>1, <1>3, <1>4, PTL DEF PciSpec
=============================================================================
