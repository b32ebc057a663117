------------------------------ MODULE BootProofs ------------------------------
(***************************************************************************)
(* Safety of root's boot, for any set of builds and machines, any steps    *)
(* that fail and any modulus of the device tokens, and of the NX probe, on *)
(* a kernel that honours the attribute and on one that does not.           *)
(***************************************************************************)
EXTENDS MCBootSequence, TLAPS, WellFoundedInduction

-----------------------------------------------------------------------------
(* The NX probe.                                                           *)

SettingUp == {"configure", "endpoint", "copy_endpoint", "spawn", "fault_endpoint",
              "frame", "slot", "copy_frame", "map_nx", "write", "resume"}

\* Where root is, and how far the child has come meanwhile
ProgressInv ==
  /\ at \in SettingUp =>
       child \in {"none", "suspended"} /\ witnessed = {} /\ childMap # "exec" /\ ~success
  /\ at = "fault" =>
       /\ child \in {"calls", "faulted", "sends", "strayed"} /\ childMap # "exec" /\ ~success
       /\ child = "calls" => witnessed = {}
       /\ child = "faulted" => witnessed = {"fault"}
  /\ at \in {"unmap", "map_exec"} => witnessed = {"fault"} /\ childMap # "exec" /\ ~success
  /\ at = "map_exec" => ~alias
  /\ at = "success" =>
       /\ childMap = "exec" /\ ~success
       /\ child = "calls" => witnessed = {"fault"}
       /\ child = "sends" => witnessed = {"fault", "exec"}

\* What the clean-up reads its flags for
FlagsInv ==
  /\ at # "returned" /\ childMap # "none" => "copied" \in flags
  /\ at \in {"map_nx", "write", "resume", "fault", "unmap", "map_exec", "success"} =>
       "copied" \in flags
  /\ at \in {"write", "resume", "fault", "unmap"} => childMap = "nx"
  /\ "copy" \in owns => "copied" \in flags
  /\ at \in SettingUp \cup {"fault", "unmap", "map_exec", "success", "out", "returned"}

NxInv == NxProbeCorrect /\ ProgressInv /\ FlagsInv

(* The steps up to the resume are the eleven of the list, and the resume   *)
(* is the last.                                                            *)
LEMMA SetUpSteps ==
  /\ Len(Nx!SetUp) = 11
  /\ {Nx!SetUp[k] : k \in 1..11} = SettingUp
  /\ \A k \in 1..11 : Nx!SetUp[k] = "resume" <=> k = 11
BY DEF Nx!SetUp, SettingUp

LEMMA InSetUpIs == Nx!InSetUp <=> at \in SettingUp
BY SetUpSteps DEF Nx!InSetUp

LEMMA NxInit == Nx!Init => NxInv
<1> SUFFICES ASSUME Nx!Init PROVE NxInv
  OBVIOUS
<1>1. at = "configure"
  BY DEF Nx!Init, Nx!SetUp
<1>2. at \in SettingUp /\ Nx!InSetUp
  BY <1>1, InSetUpIs DEF SettingUp
<1>3. QED
  BY <1>1, <1>2 DEF Nx!Init, NxInv, NxProbeCorrect, ProgressInv, FlagsInv, Nx!TypeOK,
     Nx!MappingsTornDown, Nx!ResidueIsKnown, Nx!SuccessIsPaired, Nx!NeverWritableAndExecutable

(* Root's steps within the set-up follow each other in the order of the    *)
(* list.                                                                   *)
LEMMA NxPrepare ==
  ASSUME Nx!Prepare
  PROVE  <<at, at'>> \in
           {<<"configure", "endpoint">>, <<"endpoint", "copy_endpoint">>,
            <<"copy_endpoint", "spawn">>, <<"spawn", "fault_endpoint">>,
            <<"fault_endpoint", "frame">>, <<"frame", "slot">>, <<"slot", "copy_frame">>,
            <<"copy_frame", "map_nx">>, <<"map_nx", "write">>, <<"write", "resume">>,
            <<"resume", "fault">>}
<1>1. PICK j \in 1..11 : Nx!SetUp[j] = at
  BY SetUpSteps DEF Nx!Prepare, Nx!InSetUp
<1>2. \A i \in 1..11 : Nx!SetUp[i] = at => i = j
  BY <1>1 DEF Nx!SetUp
<1> DEFINE k == CHOOSE i \in 1..Len(Nx!SetUp) : Nx!SetUp[i] = at
<1>3. k = j
  BY <1>1, <1>2, SetUpSteps
<1>4. at' = IF k = Len(Nx!SetUp) THEN "fault" ELSE Nx!SetUp[k + 1]
  BY DEF Nx!Prepare
<1> HIDE DEF k
<1>5. at' = IF j = 11 THEN "fault" ELSE Nx!SetUp[j + 1]
  BY <1>3, <1>4, SetUpSteps, Zenon
<1>6. QED
  BY <1>1, <1>5 DEF Nx!SetUp

(* Every step of root and of the child preserves the invariant.            *)
LEMMA NxStep == NxInv /\ [Nx!Next]_nxVars => NxInv'
<1> SUFFICES ASSUME NxInv, [Nx!Next]_nxVars PROVE NxInv'
  OBVIOUS
<1> USE DEF NxInv, NxProbeCorrect, ProgressInv, FlagsInv, Nx!TypeOK,
     Nx!MappingsTornDown, Nx!ResidueIsKnown, Nx!SuccessIsPaired,
     Nx!NeverWritableAndExecutable, Nx!owned, Nx!ended
<1>0. Nx!InSetUp' <=> at' \in SettingUp
  BY InSetUpIs, SetUpSteps DEF Nx!InSetUp
<1> USE <1>0
<1>1. CASE Nx!Fail
  BY <1>1 DEF Nx!Fail, SettingUp, EveryNxStep
<1>2. CASE Nx!Prepare
  <2>1. /\ owns' = owns \cup (IF at \in DOMAIN Nx!Allocates THEN Nx!Allocates[at] ELSE {})
                         \cup (IF at = "map_nx" THEN {"tables"} ELSE {})
        /\ flags' = flags \cup (IF at = "copy_frame" THEN {"copied"} ELSE {})
                           \cup (IF at = "resume" THEN {"mapped"} ELSE {})
        /\ childMap' = IF at = "map_nx" THEN "nx" ELSE childMap
        /\ alias' = (alias \/ at = "write")
        /\ child' = CASE at = "configure" -> "suspended"
                      [] at = "resume" -> "calls"
                      [] OTHER -> child
        /\ UNCHANGED <<world, witnessed, victim, success>>
    BY <1>2 DEF Nx!Prepare
  <2>2. DOMAIN Nx!Allocates = {"endpoint", "frame", "slot", "copy_frame"}
        /\ Nx!Allocates["endpoint"] = {"endpoint"} /\ Nx!Allocates["frame"] = {"frame"}
        /\ Nx!Allocates["slot"] = {"slot"} /\ Nx!Allocates["copy_frame"] = {"copy"}
    BY DEF Nx!Allocates
  <2>3. CASE at \in {"copy_frame", "map_nx", "write", "resume"}
    BY <1>2, <2>1, <2>2, <2>3, NxPrepare DEF SettingUp
  <2>4. CASE at \in {"configure", "endpoint", "copy_endpoint", "spawn", "fault_endpoint",
                     "frame", "slot"}
    BY <1>2, <2>1, <2>2, <2>4, NxPrepare DEF SettingUp
  <2>5. QED
    BY <1>2, <2>3, <2>4, NxPrepare
<1>3. CASE Nx!ReceiveFault
  BY <1>3 DEF Nx!ReceiveFault, SettingUp
<1>4. CASE Nx!Unmap
  BY <1>4 DEF Nx!Unmap, SettingUp
<1>5. CASE Nx!UnmapFails
  BY <1>5 DEF Nx!UnmapFails, SettingUp
<1>6. CASE Nx!Remap
  BY <1>6 DEF Nx!Remap, SettingUp
<1>7. CASE Nx!ReceiveSuccess
  BY <1>7 DEF Nx!ReceiveSuccess, SettingUp
<1>8. CASE Nx!CleanUp
  BY <1>8 DEF Nx!CleanUp, SettingUp
<1>9. CASE Nx!ChildCalls
  <2>1. at \in {"fault", "success"} /\ child = "calls"
        /\ UNCHANGED <<world, at, owns, flags, childMap, alias, victim, success>>
        /\ \/ child' = "faulted" /\ childMap = "nx" /\ witnessed' = witnessed \cup {"fault"}
           \/ child' = "sends" /\ witnessed' = witnessed \cup {childMap}
    BY <1>9 DEF Nx!ChildCalls, Nx!Waiting
  <2>2. CASE at = "fault"
    BY <2>1, <2>2 DEF SettingUp
  <2>3. CASE at = "success"
    BY <2>1, <2>3 DEF SettingUp
  <2>4. QED
    BY <2>1, <2>2, <2>3
<1>10. CASE Nx!ChildStrays
  BY <1>10 DEF Nx!ChildStrays, Nx!Waiting, SettingUp
<1>11. CASE UNCHANGED nxVars
  BY <1>11 DEF nxVars
<1>12. QED
  BY <1>1, <1>2, <1>3, <1>4, <1>5, <1>6, <1>7, <1>8, <1>9, <1>10, <1>11
  DEF Nx!Next, Nx!RootStep, Nx!ChildStep

(* NxProbeCorrect: on every path the probe tears its mappings down and     *)
(* leaks only what is known, reports success only of both paths, and root  *)
(* writes the page only while nobody can execute it                        *)
(* (x86_nx_mapping_probe.c).                                               *)
THEOREM NxCorrect == RootSpec => []NxProbeCorrect
<1>1. RootInit => NxInv
  BY NxInit DEF RootInit
<1>2. NxInv /\ [RootNext]_<<part, vars, nxVars>> => NxInv'
  BY NxStep DEF RootNext
<1>3. NxInv => NxProbeCorrect
  BY DEF NxInv
<1>4. QED
  BY <1>1, <1>2, <1>3, PTL DEF RootSpec

-----------------------------------------------------------------------------
(* The slots of the tables.                                                *)

\* The entries of a process stand together and ask for the slots they land in.
Told(table) ==
  /\ Len(table) \in Nat
  /\ \A k \in 1..Len(table) :
       \/ /\ table[k].slot = FirstFree
          /\ \A j \in 1..k - 1 : table[j].to # table[k].to
       \/ /\ k > 1 /\ table[k - 1].to = table[k].to
          /\ table[k].slot = table[k - 1].slot + table[k - 1].count

LEMMA CapFields ==
  \A to, obj, slot, count :
    /\ Cap(to, obj, slot).to = to /\ Cap(to, obj, slot).obj = obj /\ Cap(to, obj, slot).slot = slot
    /\ Block(to, obj, slot, count).to = to /\ Block(to, obj, slot, count).obj = obj
    /\ Block(to, obj, slot, count).slot = slot
    /\ Cap(to, obj, slot).count = 1 /\ Block(to, obj, slot, count).count = count
BY DEF Cap, Block

(* Every set of naturals that is not empty has a least element.            *)
LEMMA LeastNatural ==
  ASSUME NEW T \in SUBSET Nat, T # {}
  PROVE  \E x \in T : \A y \in T : x <= y
<1> DEFINE R == OpToRel(<, Nat)
<1>1. IsWellFoundedOn(R, Nat)
  BY NatLessThanWellFounded, Zenon
<1> HIDE DEF R
<1>2. PICK x \in T : \A y \in T : ~(<<y, x>> \in R)
  BY <1>1, WFMin
<1>3. \A y \in T : y < x => <<y, x>> \in R
  BY DEF R, OpToRel
<1>4. \A y \in T : ~(y < x)
  BY <1>2, <1>3, Zenon
<1>5. \A y \in T : y \in Nat /\ x \in Nat
  OBVIOUS
<1>6. QED
  BY <1>4, <1>5

(* Every cap of such a table lands in the slot it asks for: the slots it   *)
(* asks for obey what defines the slots it lands in, and a least entry     *)
(* where the two differ would contradict it.                               *)
LEMMA ToldLands ==
  ASSUME NEW table, Told(table)
  PROVE  \A k \in 1..Len(table) : Landing(table)[k] = table[k].slot
<1> DEFINE n == Len(table)
           given(k) == {j \in 1..(k - 1) : table[j].to = table[k].to}
           Lands(f) == f = [k \in 1..n |->
                              IF given(k) = {} THEN FirstFree
                              ELSE f[Max(given(k))] + table[Max(given(k))].count]
           slots == [k \in 1..n |-> table[k].slot]
           land == Landing(table)
<1>1. land = CHOOSE f : Lands(f)
  BY DEF Landing
<1>2. n \in Nat
  BY DEF Told
<1>3. ASSUME NEW k \in 1..n
      PROVE  IF given(k) = {} THEN table[k].slot = FirstFree
             ELSE /\ Max(given(k)) = k - 1 /\ k - 1 \in 1..n
                  /\ table[k].slot = table[k - 1].slot + table[k - 1].count
  <2>1. CASE table[k].slot = FirstFree /\ \A j \in 1..k - 1 : table[j].to # table[k].to
    BY <2>1
  <2>2. CASE /\ k > 1 /\ table[k - 1].to = table[k].to
             /\ table[k].slot = table[k - 1].slot + table[k - 1].count
    <3>1. k - 1 \in given(k) /\ \A j \in given(k) : j \in Nat /\ j <= k - 1
      BY <1>2, <2>2
    <3> HIDE DEF given
    <3>2. Max(given(k)) = k - 1
      BY <3>1 DEF Max
    <3>3. QED
      BY <1>2, <2>2, <3>1, <3>2
  <2>3. QED
    BY <1>2, <2>1, <2>2 DEF Told
<1> HIDE DEF given, n
<1>4. Lands(slots)
  <2>1. \A k \in 1..n :
          slots[k] = IF given(k) = {} THEN FirstFree
                     ELSE slots[Max(given(k))] + table[Max(given(k))].count
    BY <1>3
  <2> DEFINE again == [k \in 1..n |->
                         IF given(k) = {} THEN FirstFree
                         ELSE slots[Max(given(k))] + table[Max(given(k))].count]
  <2>2. again = slots
    BY <2>1
  <2>3. QED
    BY <2>2, Zenon
<1>5. Lands(land)
  BY <1>1, <1>4, Zenon
<1> HIDE DEF land
<1>6. \A k \in 1..n :
        land[k] = IF given(k) = {} THEN FirstFree
                  ELSE land[Max(given(k))] + table[Max(given(k))].count
  BY <1>5
<1> DEFINE Wrong == {k \in 1..n : land[k] # table[k].slot}
<1>7. CASE Wrong # {}
  <2>1. Wrong \in SUBSET Nat
    BY <1>2
  <2> HIDE DEF Wrong
  <2>2. PICK k \in Wrong : \A j \in Wrong : k <= j
    BY <1>7, <2>1, LeastNatural
  <2> USE DEF Wrong
  <2>3. k \in 1..n /\ k \in Nat /\ land[k] # table[k].slot /\ k - 1 \notin Wrong
    BY <1>2, <2>2
  <2>4. given(k) # {}
    BY <1>3, <1>6, <2>3
  <2>5. land[k - 1] = table[k - 1].slot
    BY <1>3, <2>3, <2>4
  <2>6. QED
    BY <1>3, <1>6, <2>3, <2>4, <2>5
<1>8. QED
  BY <1>7 DEF land, n

(* The tables of root are such tables.                                     *)
LEMMA PairsTold ==
  ASSUME NEW server, NEW client, NEW obj, server # client
  PROVE  Told(Between(server, client, obj))
BY CapFields DEF Told, Between, FirstFree

LEMMA OneTold == ASSUME NEW to, NEW obj PROVE Told(<<Cap(to, obj, 8)>>)
BY CapFields DEF Told, FirstFree

LEMMA FixturesTold ==
  /\ Told(ReservationCaps) /\ Told(LifecycleCaps) /\ Told(ResumeCaps) /\ Told(DynamicCaps)
  /\ \A leased : Told(LeaseCaps(leased))
<1>1. Told(ReservationCaps)
  BY CapFields DEF Told, ReservationCaps, FirstFree
<1>2. Told(LifecycleCaps)
  BY CapFields DEF Told, LifecycleCaps, FirstFree
<1>3. Told(ResumeCaps)
  BY CapFields DEF Told, ResumeCaps, FirstFree
<1>4. Told(DynamicCaps)
  BY CapFields DEF Told, DynamicCaps, FirstFree
<1>5. \A leased : Told(LeaseCaps(leased))
  BY CapFields DEF Told, LeaseCaps, FirstFree
<1>6. QED
  BY <1>1, <1>2, <1>3, <1>4, <1>5

LEMMA EduTold == Told(DriverCaps) /\ Told(DmadCaps) /\ Told(IrqdCaps)
<1>1. Told(DriverCaps)
  BY CapFields DEF Told, DriverCaps, FirstFree, EduPages
<1>2. Told(DmadCaps)
  BY CapFields DEF Told, DmadCaps, FirstFree
<1>3. Told(IrqdCaps)
  BY CapFields DEF Told, IrqdCaps, FirstFree
<1>4. QED
  BY <1>1, <1>2, <1>3

-----------------------------------------------------------------------------
(* The plan of the boot.                                                   *)

IsSeq(s) == \E S : s \in Seq(S)
Entries(table) == {table[n] : n \in 1..Len(table)}

\* All the caps that are copied within the groups of a bundle
TableOf(name) ==
  CASE name = "dynamic"     -> Entries(DynamicCaps)
    [] name = "objectd"     -> Entries(Between("objectd", "probe", "ep"))
    [] name = "memd"        -> Entries(Between("memd", "probe", "ep"))
    [] name = "romfs"       -> Entries(Between("romfsd", "probe", "ep"))
    [] name = "dispatch"    -> Entries(<<Cap("probe", "ep", 8)>>)
    [] name = "lifecycle"   -> Entries(LifecycleCaps)
    [] name = "reservation" -> Entries(ReservationCaps)
    [] name = "opaque"      -> Entries(LeaseCaps("token"))
    [] name = "tcb_lease"   -> Entries(LeaseCaps("child_tcb"))
    [] name = "tcb_resume"  -> Entries(ResumeCaps)
    [] name = "edu"         -> Entries(<<Cap("deviced", "deviced", 8)>>) \cup Entries(DriverCaps)
                                 \cup Entries(DmadCaps) \cup Entries(IrqdCaps)
    [] OTHER                -> {}

Spawns(s, j, g, who) == s[j].op = "spawn" /\ s[j].group = g /\ s[j].arg = who
Issues(s, j, g) == s[j].op = "token" /\ s[j].group = g

\* A process is given caps only before it is spawned ...
WireInOrder(s, k, g) ==
  /\ Told(s[k].arg)
  /\ Entries(s[k].arg) \subseteq TableOf(g[1])
  /\ \A j \in 1..k - 1 : \A b \in Entries(s[k].arg) : ~Spawns(s, j, g, b.to)
\* ... and all of its caps; and whoever it calls has been spawned before it, and
\* its token has been issued.
SpawnInOrder(s, k, g) ==
  /\ \A b \in TableOf(g[1]) : b.to = s[k].arg =>
       \E j \in 1..k - 1 : s[j].op = "wire" /\ s[j].group = g /\ b \in Entries(s[j].arg)
  /\ \A l \in Of(Calls, g) : l.from = s[k].arg /\ ~Suspended(g, l.from) =>
       ~Suspended(g, l.to) /\ \E j \in 1..k - 1 : Spawns(s, j, g, l.to)
  /\ g[1] = "edu" => g[2] \in Instances /\ \E j \in 1..k - 1 : Issues(s, j, g)
\* A token is issued once, and that of the second device after that of the first.
IssueInOrder(s, k, g) ==
  /\ g \in {<<"edu", 0>>, <<"edu", 1>>}
  /\ \A j \in 1..k - 1 : ~Issues(s, j, g)
  /\ g[2] = 1 => \E j \in 1..k - 1 : Issues(s, j, <<"edu", 0>>)

StepInOrder(s, k, g) ==
  /\ s[k].op = "wire" => WireInOrder(s, k, g)
  /\ s[k].op = "spawn" => SpawnInOrder(s, k, g)
  /\ s[k].op = "token" => IssueInOrder(s, k, g)
Ordered(s, g) == \A k \in 1..Len(s) : s[k].group = g => StepInOrder(s, k, g)
Without(s, g) == \A k \in 1..Len(s) : s[k].group # g
Quiet(s, g) ==
  \A k \in 1..Len(s) : s[k].group = g => s[k].op \notin {"wire", "spawn", "token"}

IsPair(g) == g = <<g[1], g[2]>>

\* The groups in which nothing is wired and nobody calls a server
LooseNames == {"root", "pci", "dormant", "consoled", "abi-gated", "nx", "modld", "modexec"}
Segment(s, names) ==
  /\ IsSeq(s)
  /\ \A k \in 1..Len(s) :
       /\ IsPair(s[k].group)
       /\ s[k].group[1] \in names \cup LooseNames
       /\ s[k].group[1] \in LooseNames => s[k].op \notin {"wire", "token"}
  /\ \A g : g[1] \notin LooseNames => Ordered(s, g)

(* Where the elements of a concatenation come from.                        *)
LEMMA Concatenation ==
  ASSUME NEW s, NEW t, IsSeq(s), IsSeq(t)
  PROVE  /\ IsSeq(s \o t) /\ Len(s \o t) = Len(s) + Len(t)
         /\ Len(s) \in Nat /\ Len(t) \in Nat
         /\ \A k \in 1..Len(s) : (s \o t)[k] = s[k]
         /\ \A k \in 1..Len(t) : (s \o t)[Len(s) + k] = t[k] /\ Len(s) + k \in 1..Len(s) + Len(t)
         /\ \A k \in 1..Len(s) + Len(t) :
              k \in 1..Len(s) \/ \E i \in 1..Len(t) : k = Len(s) + i
<1>0. PICK S, T : s \in Seq(S) /\ t \in Seq(T)
  BY DEF IsSeq
<1> DEFINE Steps == S \cup T
<1>a. s \in Seq(Steps) /\ t \in Seq(Steps)
  BY <1>0
<1>1. s \o t \in Seq(Steps) /\ Len(s \o t) = Len(s) + Len(t) /\ Len(s) \in Nat /\ Len(t) \in Nat
  BY <1>a
<1>2. \A k \in 1..Len(s) : (s \o t)[k] = s[k]
  BY <1>a
<1>3. ASSUME NEW k \in 1..Len(t)
      PROVE  (s \o t)[Len(s) + k] = t[k] /\ Len(s) + k \in 1..Len(s) + Len(t)
  BY <1>a, <1>1
<1>4. ASSUME NEW k \in 1..Len(s) + Len(t)
      PROVE  k \in 1..Len(s) \/ \E i \in 1..Len(t) : k = Len(s) + i
  <2>1. CASE k > Len(s)
    <3>1. k - Len(s) \in 1..Len(t) /\ k = Len(s) + (k - Len(s))
      BY <1>1, <2>1
    <3>2. QED
      BY <3>1
  <2>2. CASE ~(k > Len(s))
    BY <1>1, <2>2
  <2>3. QED
    BY <2>1, <2>2
<1>5. IsSeq(s \o t)
  BY <1>1, Zenon DEF IsSeq
<1>6. QED
  BY <1>1, <1>2, <1>3, <1>4, <1>5, Zenon

\* u consists of the elements of s and then those of t.
Joined(u, s, t) ==
  /\ IsSeq(u) /\ Len(u) = Len(s) + Len(t)
  /\ Len(s) \in Nat /\ Len(t) \in Nat
  /\ \A k \in 1..Len(s) : u[k] = s[k]
  /\ \A k \in 1..Len(t) : u[Len(s) + k] = t[k]
  /\ \A k \in 1..Len(s) + Len(t) : k \in 1..Len(s) \/ \E i \in 1..Len(t) : k = Len(s) + i

LEMMA Concatenated ==
  ASSUME NEW s, NEW t, NEW u, IsSeq(s), IsSeq(t), u = s \o t
  PROVE  Joined(u, s, t)
BY Concatenation DEF Joined

\* Step m of u is step k of s, and has the same steps of its group before it.
SameBefore(s, k, u, m, g) ==
  /\ u[m] = s[k]
  /\ \A j \in 1..m - 1 : u[j].group = g => \E i \in 1..k - 1 : u[j] = s[i]
  /\ \A i \in 1..k - 1 : \E j \in 1..m - 1 : u[j] = s[i]

(* The order of a step depends on the steps of its group before it only.   *)
LEMMA SameOrder ==
  ASSUME NEW s, NEW u, NEW k, NEW m, NEW g, SameBefore(s, k, u, m, g), StepInOrder(s, k, g)
  PROVE  StepInOrder(u, m, g)
<1> USE DEF SameBefore
<1>1. \A who : (\E j \in 1..m - 1 : Spawns(u, j, g, who)) <=> \E i \in 1..k - 1 : Spawns(s, i, g, who)
  BY DEF Spawns
<1>2. (\E j \in 1..m - 1 : Issues(u, j, g)) <=> \E i \in 1..k - 1 : Issues(s, i, g)
  BY DEF Issues
<1>3. (\E i \in 1..k - 1 : Issues(s, i, <<"edu", 0>>)) => \E j \in 1..m - 1 : Issues(u, j, <<"edu", 0>>)
  BY DEF Issues
<1>4. CASE u[m].op = "wire"
  <2>1. WireInOrder(s, k, g)
    BY <1>4 DEF StepInOrder
  <2>2. WireInOrder(u, m, g)
    BY <1>1, <2>1 DEF WireInOrder
  <2>3. QED
    BY <1>4, <2>2 DEF StepInOrder
<1>5. CASE u[m].op = "spawn"
  <2>1. SpawnInOrder(s, k, g)
    BY <1>5 DEF StepInOrder
  <2>2. \A b \in TableOf(g[1]) : b.to = u[m].arg =>
          \E j \in 1..m - 1 : u[j].op = "wire" /\ u[j].group = g /\ b \in Entries(u[j].arg)
    BY <2>1 DEF SpawnInOrder
  <2>3. SpawnInOrder(u, m, g)
    BY <1>1, <1>2, <2>1, <2>2 DEF SpawnInOrder
  <2>4. QED
    BY <1>5, <2>3 DEF StepInOrder
<1>6. CASE u[m].op = "token"
  <2>1. IssueInOrder(s, k, g)
    BY <1>6 DEF StepInOrder
  <2>2. IssueInOrder(u, m, g)
    BY <1>2, <1>3, <2>1 DEF IssueInOrder
  <2>3. QED
    BY <1>6, <2>2 DEF StepInOrder
<1>7. QED
  BY <1>4, <1>5, <1>6 DEF StepInOrder

(* Steps of other groups before a group's own do not disturb it, nor do    *)
(* quiet ones after.                                                       *)
LEMMA OrderedBeside ==
  ASSUME NEW s, NEW t, IsSeq(s), IsSeq(t), NEW g,
         \/ Ordered(s, g) /\ Quiet(t, g)
         \/ Without(s, g) /\ Ordered(t, g)
  PROVE  Ordered(s \o t, g)
<1> DEFINE u == s \o t
<1>1. /\ Len(u) = Len(s) + Len(t) /\ Len(s) \in Nat /\ Len(t) \in Nat
      /\ \A k \in 1..Len(s) : u[k] = s[k]
      /\ \A k \in 1..Len(t) : u[Len(s) + k] = t[k]
      /\ \A k \in 1..Len(s) + Len(t) : k \in 1..Len(s) \/ \E i \in 1..Len(t) : k = Len(s) + i
  BY Concatenation
<1> HIDE DEF u
<1> SUFFICES ASSUME NEW m \in 1..Len(u), u[m].group = g PROVE StepInOrder(u, m, g)
  BY DEF Ordered, u
<1>2. CASE Ordered(s, g) /\ Quiet(t, g)
  <2>1. CASE m \in 1..Len(s)
    <3>1. StepInOrder(s, m, g) /\ u[m] = s[m] /\ \A j \in 1..m - 1 : u[j] = s[j]
      BY <1>1, <1>2, <2>1 DEF Ordered
    <3>2. SameBefore(s, m, u, m, g)
      BY <3>1 DEF SameBefore
    <3>3. QED
      BY <3>1, <3>2, SameOrder
  <2>2. CASE m \notin 1..Len(s)
    <3>0. m \in 1..Len(s) + Len(t)
      BY <1>1, Zenon
    <3>1. \E i \in 1..Len(t) : u[m] = t[i]
      <4>1. PICK i \in 1..Len(t) : m = Len(s) + i
        BY <1>1, <2>2, <3>0, Zenon
      <4>2. QED
        BY <1>1, <4>1, Zenon
    <3>2. u[m].op \notin {"wire", "spawn", "token"}
      BY <1>2, <3>1 DEF Quiet
    <3>3. QED
      BY <3>2 DEF StepInOrder
  <2>3. QED
    BY <2>1, <2>2
<1>3. CASE Without(s, g) /\ Ordered(t, g)
  <2>0. \A j \in 1..Len(s) : u[j].group # g
    BY <1>1, <1>3 DEF Without
  <2>a. m \in 1..Len(s) + Len(t) /\ m \notin 1..Len(s)
    BY <1>1, <2>0, Zenon
  <2>1. PICK k \in 1..Len(t) : m = Len(s) + k /\ u[m] = t[k]
    BY <1>1, <2>a, Zenon
  <2>2. StepInOrder(t, k, g)
    BY <1>3, <2>1 DEF Ordered
  <2>3. \A i \in 1..k - 1 : Len(s) + i \in 1..m - 1 /\ u[Len(s) + i] = t[i]
    BY <1>1, <2>1
  <2>4. ASSUME NEW j \in 1..m - 1, u[j].group = g PROVE \E i \in 1..k - 1 : u[j] = t[i]
    <3>1. j \notin 1..Len(s) /\ j \in 1..Len(s) + Len(t)
      BY <1>1, <2>0, <2>1, <2>4
    <3>2. PICK i \in 1..Len(t) : j = Len(s) + i
      BY <1>1, <3>1
    <3>3. i \in 1..k - 1 /\ u[j] = t[i]
      BY <1>1, <2>1, <3>2
    <3>4. QED
      BY <3>3
  <2>5. \A i \in 1..k - 1 : \E j \in 1..m - 1 : u[j] = t[i]
    BY <2>3
  <2>6. \A j \in 1..m - 1 : u[j].group = g => \E i \in 1..k - 1 : u[j] = t[i]
    BY <2>4
  <2> HIDE <1>3
  <2>7. QED
    <3>1. SameBefore(t, k, u, m, g)
      BY <2>1, <2>5, <2>6 DEF SameBefore
    <3>2. QED
      BY <2>2, <3>1, SameOrder
<1>4. QED
  BY <1>2, <1>3

(* Two parts of the plan with different groups are in order one after the  *)
(* other.                                                                  *)
LEMMA SegmentsJoin ==
  ASSUME NEW M, NEW N, M \cap N = {}, NEW s, NEW t, Segment(s, M), Segment(t, N),
         M \cap LooseNames = {}, N \cap LooseNames = {}
  PROVE  Segment(s \o t, M \cup N)
<1>1. IsSeq(s) /\ IsSeq(t)
  BY DEF Segment
<1>2. ASSUME NEW g, g[1] \notin LooseNames PROVE Ordered(s \o t, g)
  <2>1. Ordered(s, g) /\ Ordered(t, g)
    BY <1>2 DEF Segment
  <2>2. CASE g[1] \in M
    <3>1. Quiet(t, g)
      BY <1>2, <2>2 DEF Segment, Quiet
    <3>2. QED
      BY <1>1, <2>1, <3>1, OrderedBeside
  <2>3. CASE g[1] \notin M
    <3>1. Without(s, g)
      BY <1>2, <2>3 DEF Segment, Without
    <3>2. QED
      BY <1>1, <2>1, <3>1, OrderedBeside
  <2>4. QED
    BY <2>2, <2>3
<1> DEFINE u == s \o t
<1>3. /\ IsSeq(u) /\ Len(u) = Len(s) + Len(t)
      /\ \A k \in 1..Len(s) : u[k] = s[k]
      /\ \A k \in 1..Len(t) : u[Len(s) + k] = t[k]
      /\ \A k \in 1..Len(s) + Len(t) : k \in 1..Len(s) \/ \E i \in 1..Len(t) : k = Len(s) + i
  BY <1>1, Concatenation
<1> HIDE DEF u
<1>4. ASSUME NEW k \in 1..Len(u)
      PROVE  /\ IsPair(u[k].group)
             /\ u[k].group[1] \in (M \cup N) \cup LooseNames
             /\ u[k].group[1] \in LooseNames => u[k].op \notin {"wire", "token"}
  <2>0. k \in 1..Len(s) + Len(t)
    BY <1>3, Zenon
  <2>1. (\E i \in 1..Len(s) : u[k] = s[i]) \/ \E i \in 1..Len(t) : u[k] = t[i]
    BY <1>3, <2>0, Zenon
  <2>2. CASE \E i \in 1..Len(s) : u[k] = s[i]
    BY <2>2 DEF Segment
  <2>3. CASE \E i \in 1..Len(t) : u[k] = t[i]
    BY <2>3 DEF Segment
  <2>4. QED
    BY <2>1, <2>2, <2>3
<1>5. QED
  BY <1>2, <1>3, <1>4 DEF Segment, u

(* A bundle wires before it spawns, so it is in order when whoever is      *)
(* called comes before the callers.                                        *)
LEMMA StepFields ==
  \A op, g, arg : /\ Step(op, g, arg).op = op
                  /\ Step(op, g, arg).group = g
                  /\ Step(op, g, arg).arg = arg
BY DEF Step

LEMMA BundleInOrder ==
  ASSUME NEW name, name \notin LooseNames, name # "edu",
         NEW table, Entries(table) = TableOf(name), Told(table), NEW order, IsSeq(order),
         \A k \in 1..Len(order) : \A l \in Of(Calls, One(name)) :
           l.from = order[k] /\ ~Suspended(One(name), l.from) =>
             ~Suspended(One(name), l.to) /\ \E j \in 1..k - 1 : order[j] = l.to
  PROVE  Segment(Bundle(name, table, order), {name})
<1> DEFINE g == One(name)
           u == Bundle(name, table, order)
           heads == <<Prepare(g), Wire(g, table)>>
           tail == [k \in 1..Len(order) |-> Spawn(g, order[k])]
<1>1. g[1] = name
  BY DEF One
<1>2. IsSeq(heads) /\ Len(heads) = 2
  <2>1. heads \in Seq({Prepare(g), Wire(g, table)})
    OBVIOUS
  <2>2. QED
    BY <2>1 DEF IsSeq
<1>3. IsSeq(tail) /\ Len(tail) = Len(order) /\ Len(order) \in Nat /\ u = heads \o tail
  <2>1. Len(order) \in Nat
    BY DEF IsSeq
  <2>2. tail \in Seq({Spawn(g, order[k]) : k \in 1..Len(order)}) /\ Len(tail) = Len(order)
    BY <2>1
  <2>3. QED
    BY <2>1, <2>2 DEF IsSeq, Bundle
<1> HIDE DEF u, heads, tail
<1>a. IsSeq(heads) /\ IsSeq(tail) /\ u = heads \o tail
  BY <1>2, <1>3
<1>b. Joined(u, heads, tail)
  BY <1>a, Concatenated
<1>4. /\ IsSeq(u) /\ Len(u) = 2 + Len(order)
      /\ \A k \in 1..2 : u[k] = heads[k]
      /\ \A k \in 1..Len(order) : u[2 + k] = tail[k]
      /\ \A k \in 1..Len(u) : k \in 1..2 \/ \E i \in 1..Len(order) : k = 2 + i
  BY <1>2, <1>3, <1>b DEF Joined
<1> USE DEF heads, tail
<1>5. u[1] = Prepare(g) /\ u[2] = Wire(g, table) /\ \A i \in 1..Len(order) : u[2 + i] = Spawn(g, order[i])
  BY <1>4
<1> HIDE DEF g, heads, tail
<1>6. /\ u[1].op = "prepare" /\ u[1].group = g
      /\ u[2].op = "wire" /\ u[2].group = g /\ u[2].arg = table
      /\ \A i \in 1..Len(order) : u[2 + i].op = "spawn" /\ u[2 + i].group = g /\ u[2 + i].arg = order[i]
  <2>1. Prepare(g).op = "prepare" /\ Prepare(g).group = g
    BY StepFields DEF Prepare
  <2>2. Wire(g, table).op = "wire" /\ Wire(g, table).group = g /\ Wire(g, table).arg = table
    BY StepFields DEF Wire
  <2>3. \A who : Spawn(g, who).op = "spawn" /\ Spawn(g, who).group = g /\ Spawn(g, who).arg = who
    BY StepFields DEF Spawn
  <2>4. QED
    BY <1>5, <2>1, <2>2, <2>3, Zenon
<1>7. \A k \in 1..Len(u) : u[k].group = g
  BY <1>4, <1>6
<1>8. WireInOrder(u, 2, g)
  <2>1. \A j \in 1..2 - 1 : u[j].op = "prepare"
    BY <1>6
  <2>2. QED
    BY <1>1, <1>6, <2>1 DEF WireInOrder, Spawns
<1>9. ASSUME NEW i \in 1..Len(order) PROVE SpawnInOrder(u, 2 + i, g)
  <2>1. 2 \in 1..(2 + i) - 1 /\ \A j \in 1..i - 1 : 2 + j \in 1..(2 + i) - 1 /\ j \in 1..Len(order)
    BY <1>3
  <2>2. \A b \in TableOf(g[1]) : b \in Entries(u[2].arg)
    BY <1>1, <1>6
  <2>3. \A l \in Of(Calls, g) : l.from = u[2 + i].arg /\ ~Suspended(g, l.from) =>
          ~Suspended(g, l.to) /\ \E j \in 1..(2 + i) - 1 : Spawns(u, j, g, l.to)
    <3> SUFFICES ASSUME NEW l \in Of(Calls, g), l.from = u[2 + i].arg, ~Suspended(g, l.from)
                 PROVE  ~Suspended(g, l.to) /\ \E j \in 1..(2 + i) - 1 : Spawns(u, j, g, l.to)
      OBVIOUS
    <3>1. l.from = order[i]
      BY <1>6
    <3>2. ~Suspended(g, l.to) /\ \E j \in 1..i - 1 : order[j] = l.to
      BY <3>1 DEF g
    <3>3. PICK j \in 1..i - 1 : order[j] = l.to
      BY <3>2
    <3>4. Spawns(u, 2 + j, g, l.to) /\ 2 + j \in 1..(2 + i) - 1
      BY <1>6, <2>1, <3>3 DEF Spawns
    <3>5. QED
      BY <3>2, <3>4
  <2>4. QED
    BY <1>1, <1>6, <2>1, <2>2, <2>3 DEF SpawnInOrder
<1>10. \A k \in 1..Len(u) : StepInOrder(u, k, g)
  <2> SUFFICES ASSUME NEW k \in 1..Len(u) PROVE StepInOrder(u, k, g)
    OBVIOUS
  <2>1. CASE k = 1
    BY <1>6, <2>1 DEF StepInOrder
  <2>2. CASE k = 2
    BY <1>6, <1>8, <2>2 DEF StepInOrder
  <2>3. CASE \E i \in 1..Len(order) : k = 2 + i
    BY <1>6, <1>9, <2>3 DEF StepInOrder
  <2>4. QED
    BY <1>4, <2>1, <2>2, <2>3
<1>11. \A h : Ordered(u, h)
  BY <1>7, <1>10 DEF Ordered
<1>12. \A k \in 1..Len(u) : u[k].group[1] = name /\ IsPair(u[k].group)
  BY <1>1, <1>7 DEF IsPair, One, g
<1>13. Segment(u, {name})
  BY <1>4, <1>11, <1>12 DEF Segment
<1>14. QED
  BY <1>13 DEF u

(* A part of the plan that is only run under a condition                   *)
LEMMA SegmentWhen ==
  ASSUME NEW s, NEW N, Segment(s, N), NEW condition
  PROVE  Segment(When(condition, s), N)
<1>1. CASE condition
  BY <1>1 DEF When
<1>2. CASE ~condition
  <2>1. When(condition, s) = <<>> /\ Len(<<>>) = 0
    BY <1>2 DEF When
  <2>2. IsSeq(<<>>)
    <3>1. <<>> \in Seq({})
      OBVIOUS
    <3>2. QED
      BY <3>1 DEF IsSeq
  <2>3. Segment(<<>>, N)
    BY <2>1, <2>2 DEF Segment, Ordered
  <2>4. QED
    BY <2>1, <2>3
<1>3. QED
  BY <1>1, <1>2

(* Steps of the groups in which nothing is wired                           *)
LEMMA LooseSegment ==
  ASSUME NEW s, IsSeq(s),
         \A k \in 1..Len(s) : /\ IsPair(s[k].group) /\ s[k].group[1] \in LooseNames
                              /\ s[k].op \notin {"wire", "token"}
  PROVE  Segment(s, {})
BY DEF Segment, Ordered

(* A wait for a bundle's own probe follows the bundle.                     *)
LEMMA SegmentThenWait ==
  ASSUME NEW s, NEW name, name \notin LooseNames, Segment(s, {name}), NEW arg
  PROVE  Segment(s \o <<Step("await", One(name), arg)>>, {name})
<1> DEFINE t == <<Step("await", One(name), arg)>>
           u == s \o t
<1>1. IsSeq(s)
  BY DEF Segment
<1>2. IsSeq(t) /\ Len(t) = 1 /\ t[1].op = "await" /\ t[1].group = One(name)
  <2> DEFINE await == Step("await", One(name), arg)
  <2>1. await.op = "await" /\ await.group = One(name)
    BY StepFields
  <2> HIDE DEF await
  <2>2. <<await>> \in Seq({await}) /\ Len(<<await>>) = 1 /\ <<await>>[1] = await
    OBVIOUS
  <2>3. IsSeq(<<await>>)
    BY <2>2, Zenon DEF IsSeq
  <2>4. t = <<await>>
    BY DEF await
  <2>5. QED
    BY <2>1, <2>2, <2>3, <2>4
<1> HIDE DEF t
<1>3. \A g : Quiet(t, g)
  BY <1>2 DEF Quiet
<1>4. ASSUME NEW g, g[1] \notin LooseNames PROVE Ordered(u, g)
  <2>1. Ordered(s, g)
    BY <1>4 DEF Segment
  <2>2. QED
    BY <1>1, <1>2, <1>3, <2>1, OrderedBeside
<1> HIDE DEF u
<1>5. IsSeq(s) /\ IsSeq(t) /\ u = s \o t
  BY <1>1, <1>2 DEF u
<1>6. Joined(u, s, t)
  BY <1>5, Concatenated
<1>7. /\ IsSeq(u) /\ Len(u) = Len(s) + Len(t) /\ Len(s) \in Nat
      /\ \A k \in 1..Len(s) : u[k] = s[k]
      /\ \A k \in 1..Len(t) : u[Len(s) + k] = t[k]
  BY <1>6 DEF Joined
<1>8. \A k \in 1..Len(u) : u[k].group = One(name) \/ \E i \in 1..Len(s) : u[k] = s[i]
  <2>1. \A k \in 1..Len(u) : k \in 1..Len(s) \/ k = Len(s) + 1
    BY <1>2, <1>7
  <2>2. u[Len(s) + 1].group = One(name)
    BY <1>2, <1>7
  <2>3. QED
    BY <1>7, <2>1, <2>2
<1>9. \A k \in 1..Len(u) :
        /\ IsPair(u[k].group)
        /\ u[k].group[1] \in {name} \cup LooseNames
        /\ u[k].group[1] \in LooseNames => u[k].op \notin {"wire", "token"}
  <2>1. IsPair(One(name)) /\ One(name)[1] = name
    BY DEF IsPair, One
  <2>2. QED
    BY <1>8, <2>1 DEF Segment
<1>10. Segment(u, {name})
  BY <1>4, <1>7, <1>9 DEF Segment
<1>11. QED
  BY <1>10 DEF u, t

(* Who calls whom in a group                                               *)
LEMMA GroupOf == \A name : One(name)[1] = name /\ One(name)[2] = 0 /\ IsPair(One(name))
BY DEF One, IsPair

LEMMA CallsOf ==
  /\ Of(Calls, One("objectd")) = {Link("probe", 8, "objectd", 8)}
  /\ Of(Calls, One("memd")) = {Link("probe", 8, "memd", 8)}
  /\ Of(Calls, One("romfs")) = {Link("probe", 8, "romfsd", 8)}
  /\ Of(Calls, One("dynamic")) = {Link("probe", 8, "taskd", 8)}
  /\ Of(Calls, One("lifecycle")) = {Link("probe", 8, "taskd", 8)}
  /\ Of(Calls, One("reservation")) = {Link("probe", 8, "taskd", 8), Link("taskd", 9, "objectd", 8),
         Link("taskd", 10, "memd", 8)}
  /\ Of(Calls, One("opaque")) = {Link("probe", 8, "taskd", 8), Link("taskd", 9, "objectd", 8)}
  /\ Of(Calls, One("tcb_lease")) = {Link("probe", 8, "taskd", 8), Link("taskd", 9, "objectd", 8)}
  /\ Of(Calls, One("tcb_resume")) = {Link("probe", 8, "taskd", 8), Link("taskd", 9, "objectd", 8),
         Link("child", 8, "taskd", 10)}
  /\ Of(Calls, One("dispatch")) = {}
<1>1. DOMAIN Calls = {"objectd", "memd", "romfs", "dynamic", "lifecycle", "reservation",
                      "opaque", "tcb_lease", "tcb_resume", "edu"}
  BY DEF Calls
<1>2. \A name \in DOMAIN Calls : Of(Calls, One(name)) = Calls[name]
  BY GroupOf DEF Of
<1>3. Of(Calls, One("dispatch")) = {}
  BY <1>1, GroupOf DEF Of
<1>4. Calls["objectd"] = {Link("probe", 8, "objectd", 8)}
  BY DEF Calls
<1>5. Calls["memd"] = {Link("probe", 8, "memd", 8)}
  BY DEF Calls
<1>6. Calls["romfs"] = {Link("probe", 8, "romfsd", 8)}
  BY DEF Calls
<1>7. Calls["dynamic"] = {Link("probe", 8, "taskd", 8)}
  BY DEF Calls
<1>8. Calls["lifecycle"] = {Link("probe", 8, "taskd", 8)}
  BY DEF Calls
<1>9. Calls["reservation"] = {Link("probe", 8, "taskd", 8), Link("taskd", 9, "objectd", 8),
         Link("taskd", 10, "memd", 8)}
  BY DEF Calls
<1>10. Calls["opaque"] = {Link("probe", 8, "taskd", 8), Link("taskd", 9, "objectd", 8)}
  BY DEF Calls
<1>11. Calls["tcb_lease"] = {Link("probe", 8, "taskd", 8), Link("taskd", 9, "objectd", 8)}
  BY DEF Calls
<1>12. Calls["tcb_resume"] = {Link("probe", 8, "taskd", 8), Link("taskd", 9, "objectd", 8),
         Link("child", 8, "taskd", 10)}
  BY DEF Calls
<1>13. QED
  BY <1>1, <1>2, <1>3, <1>4, <1>5, <1>6, <1>7, <1>8, <1>9, <1>10, <1>11, <1>12, Zenon

LEMMA LinkFields ==
  \A from, here, to, there : /\ Link(from, here, to, there).from = from
                            /\ Link(from, here, to, there).to = to
BY DEF Link

LEMMA ObjectdInOrder ==
  Segment(Bundle("objectd", Between("objectd", "probe", "ep"), <<"objectd", "probe">>), {"objectd"})
<1> DEFINE order == <<"objectd", "probe">>
<1>1. "objectd" \notin LooseNames /\ "objectd" # "edu"
      /\ Entries(Between("objectd", "probe", "ep")) = TableOf("objectd")
  BY DEF LooseNames, TableOf
<1>t. Told(Between("objectd", "probe", "ep"))
  BY PairsTold
<1>2. IsSeq(order)
  <2>1. order \in Seq({"objectd", "probe"})
    OBVIOUS
  <2>2. QED
    BY <2>1 DEF IsSeq
<1>3. Len(order) = 2 /\ order[1] = "objectd" /\ order[2] = "probe"
  OBVIOUS
<1>4. \A l \in Of(Calls, One("objectd")) : <<l.from, l.to>> \in {<<"probe", "objectd">>}
  BY CallsOf, LinkFields
<1>5. \A who : Suspended(One("objectd"), who) <=> FALSE
  BY GroupOf DEF Suspended
<1> HIDE DEF order
<1>6. ASSUME NEW k \in 1..Len(order), NEW l \in Of(Calls, One("objectd")),
             l.from = order[k], ~Suspended(One("objectd"), l.from)
      PROVE  ~Suspended(One("objectd"), l.to) /\ \E j \in 1..k - 1 : order[j] = l.to
  BY <1>3, <1>4, <1>5, <1>6
<1>7. QED
  BY <1>1, <1>2, <1>6, <1>t, BundleInOrder DEF order

LEMMA MemdInOrder ==
  Segment(Bundle("memd", Between("memd", "probe", "ep"), <<"memd", "probe">>), {"memd"})
<1> DEFINE order == <<"memd", "probe">>
<1>1. "memd" \notin LooseNames /\ "memd" # "edu"
      /\ Entries(Between("memd", "probe", "ep")) = TableOf("memd")
  BY DEF LooseNames, TableOf
<1>t. Told(Between("memd", "probe", "ep"))
  BY PairsTold
<1>2. IsSeq(order)
  <2>1. order \in Seq({"memd", "probe"})
    OBVIOUS
  <2>2. QED
    BY <2>1 DEF IsSeq
<1>3. Len(order) = 2 /\ order[1] = "memd" /\ order[2] = "probe"
  OBVIOUS
<1>4. \A l \in Of(Calls, One("memd")) : <<l.from, l.to>> \in {<<"probe", "memd">>}
  BY CallsOf, LinkFields
<1>5. \A who : Suspended(One("memd"), who) <=> FALSE
  BY GroupOf DEF Suspended
<1> HIDE DEF order
<1>6. ASSUME NEW k \in 1..Len(order), NEW l \in Of(Calls, One("memd")),
             l.from = order[k], ~Suspended(One("memd"), l.from)
      PROVE  ~Suspended(One("memd"), l.to) /\ \E j \in 1..k - 1 : order[j] = l.to
  BY <1>3, <1>4, <1>5, <1>6
<1>7. QED
  BY <1>1, <1>2, <1>6, <1>t, BundleInOrder DEF order

LEMMA RomfsInOrder ==
  Segment(Bundle("romfs", Between("romfsd", "probe", "ep"), <<"romfsd", "probe">>), {"romfs"})
<1> DEFINE order == <<"romfsd", "probe">>
<1>1. "romfs" \notin LooseNames /\ "romfs" # "edu"
      /\ Entries(Between("romfsd", "probe", "ep")) = TableOf("romfs")
  BY DEF LooseNames, TableOf
<1>t. Told(Between("romfsd", "probe", "ep"))
  BY PairsTold
<1>2. IsSeq(order)
  <2>1. order \in Seq({"romfsd", "probe"})
    OBVIOUS
  <2>2. QED
    BY <2>1 DEF IsSeq
<1>3. Len(order) = 2 /\ order[1] = "romfsd" /\ order[2] = "probe"
  OBVIOUS
<1>4. \A l \in Of(Calls, One("romfs")) : <<l.from, l.to>> \in {<<"probe", "romfsd">>}
  BY CallsOf, LinkFields
<1>5. \A who : Suspended(One("romfs"), who) <=> FALSE
  BY GroupOf DEF Suspended
<1> HIDE DEF order
<1>6. ASSUME NEW k \in 1..Len(order), NEW l \in Of(Calls, One("romfs")),
             l.from = order[k], ~Suspended(One("romfs"), l.from)
      PROVE  ~Suspended(One("romfs"), l.to) /\ \E j \in 1..k - 1 : order[j] = l.to
  BY <1>3, <1>4, <1>5, <1>6
<1>7. QED
  BY <1>1, <1>2, <1>6, <1>t, BundleInOrder DEF order

LEMMA DynamicInOrder ==
  Segment(Bundle("dynamic", DynamicCaps, <<"taskd", "probe">>), {"dynamic"})
<1> DEFINE order == <<"taskd", "probe">>
<1>1. "dynamic" \notin LooseNames /\ "dynamic" # "edu"
      /\ Entries(DynamicCaps) = TableOf("dynamic")
  BY DEF LooseNames, TableOf
<1>t. Told(DynamicCaps)
  BY FixturesTold
<1>2. IsSeq(order)
  <2>1. order \in Seq({"taskd", "probe"})
    OBVIOUS
  <2>2. QED
    BY <2>1 DEF IsSeq
<1>3. Len(order) = 2 /\ order[1] = "taskd" /\ order[2] = "probe"
  OBVIOUS
<1>4. \A l \in Of(Calls, One("dynamic")) : <<l.from, l.to>> \in {<<"probe", "taskd">>}
  BY CallsOf, LinkFields
<1>5. \A who : Suspended(One("dynamic"), who) <=> FALSE
  BY GroupOf DEF Suspended
<1> HIDE DEF order
<1>6. ASSUME NEW k \in 1..Len(order), NEW l \in Of(Calls, One("dynamic")),
             l.from = order[k], ~Suspended(One("dynamic"), l.from)
      PROVE  ~Suspended(One("dynamic"), l.to) /\ \E j \in 1..k - 1 : order[j] = l.to
  BY <1>3, <1>4, <1>5, <1>6
<1>7. QED
  BY <1>1, <1>2, <1>6, <1>t, BundleInOrder DEF order

LEMMA LifecycleInOrder ==
  Segment(Bundle("lifecycle", LifecycleCaps, <<"child", "taskd", "probe">>), {"lifecycle"})
<1> DEFINE order == <<"child", "taskd", "probe">>
<1>1. "lifecycle" \notin LooseNames /\ "lifecycle" # "edu"
      /\ Entries(LifecycleCaps) = TableOf("lifecycle")
  BY DEF LooseNames, TableOf
<1>t. Told(LifecycleCaps)
  BY FixturesTold
<1>2. IsSeq(order)
  <2>1. order \in Seq({"child", "taskd", "probe"})
    OBVIOUS
  <2>2. QED
    BY <2>1 DEF IsSeq
<1>3. Len(order) = 3 /\ order[1] = "child" /\ order[2] = "taskd" /\ order[3] = "probe"
  OBVIOUS
<1>4. \A l \in Of(Calls, One("lifecycle")) : <<l.from, l.to>> \in {<<"probe", "taskd">>}
  BY CallsOf, LinkFields
<1>5. \A who : Suspended(One("lifecycle"), who) <=> FALSE
  BY GroupOf DEF Suspended
<1> HIDE DEF order
<1>6. ASSUME NEW k \in 1..Len(order), NEW l \in Of(Calls, One("lifecycle")),
             l.from = order[k], ~Suspended(One("lifecycle"), l.from)
      PROVE  ~Suspended(One("lifecycle"), l.to) /\ \E j \in 1..k - 1 : order[j] = l.to
  BY <1>3, <1>4, <1>5, <1>6
<1>7. QED
  BY <1>1, <1>2, <1>6, <1>t, BundleInOrder DEF order

LEMMA ReservationInOrder ==
  Segment(Bundle("reservation", ReservationCaps, <<"objectd", "memd", "taskd", "probe">>), {"reservation"})
<1> DEFINE order == <<"objectd", "memd", "taskd", "probe">>
<1>1. "reservation" \notin LooseNames /\ "reservation" # "edu"
      /\ Entries(ReservationCaps) = TableOf("reservation")
  BY DEF LooseNames, TableOf
<1>t. Told(ReservationCaps)
  BY FixturesTold
<1>2. IsSeq(order)
  <2>1. order \in Seq({"objectd", "memd", "taskd", "probe"})
    OBVIOUS
  <2>2. QED
    BY <2>1 DEF IsSeq
<1>3. Len(order) = 4
      /\ order[1] = "objectd" /\ order[2] = "memd" /\ order[3] = "taskd" /\ order[4] = "probe"
  OBVIOUS
<1>4. \A l \in Of(Calls, One("reservation")) : <<l.from, l.to>> \in
          {<<"probe", "taskd">>, <<"taskd", "objectd">>, <<"taskd", "memd">>}
  BY CallsOf, LinkFields
<1>5. \A who : Suspended(One("reservation"), who) <=> FALSE
  BY GroupOf DEF Suspended
<1> HIDE DEF order
<1>6. ASSUME NEW k \in 1..Len(order), NEW l \in Of(Calls, One("reservation")),
             l.from = order[k], ~Suspended(One("reservation"), l.from)
      PROVE  ~Suspended(One("reservation"), l.to) /\ \E j \in 1..k - 1 : order[j] = l.to
  BY <1>3, <1>4, <1>5, <1>6
<1>7. QED
  BY <1>1, <1>2, <1>6, <1>t, BundleInOrder DEF order

LEMMA OpaqueInOrder ==
  Segment(Bundle("opaque", LeaseCaps("token"), <<"objectd", "taskd", "probe">>), {"opaque"})
<1> DEFINE order == <<"objectd", "taskd", "probe">>
<1>1. "opaque" \notin LooseNames /\ "opaque" # "edu"
      /\ Entries(LeaseCaps("token")) = TableOf("opaque")
  BY DEF LooseNames, TableOf
<1>t. Told(LeaseCaps("token"))
  BY FixturesTold
<1>2. IsSeq(order)
  <2>1. order \in Seq({"objectd", "taskd", "probe"})
    OBVIOUS
  <2>2. QED
    BY <2>1 DEF IsSeq
<1>3. Len(order) = 3 /\ order[1] = "objectd" /\ order[2] = "taskd" /\ order[3] = "probe"
  OBVIOUS
<1>4. \A l \in Of(Calls, One("opaque")) : <<l.from, l.to>> \in
          {<<"probe", "taskd">>, <<"taskd", "objectd">>}
  BY CallsOf, LinkFields
<1>5. \A who : Suspended(One("opaque"), who) <=> FALSE
  BY GroupOf DEF Suspended
<1> HIDE DEF order
<1>6. ASSUME NEW k \in 1..Len(order), NEW l \in Of(Calls, One("opaque")),
             l.from = order[k], ~Suspended(One("opaque"), l.from)
      PROVE  ~Suspended(One("opaque"), l.to) /\ \E j \in 1..k - 1 : order[j] = l.to
  BY <1>3, <1>4, <1>5, <1>6
<1>7. QED
  BY <1>1, <1>2, <1>6, <1>t, BundleInOrder DEF order

LEMMA TcbLeaseInOrder ==
  Segment(Bundle("tcb_lease", LeaseCaps("child_tcb"), <<"objectd", "taskd", "probe">>), {"tcb_lease"})
<1> DEFINE order == <<"objectd", "taskd", "probe">>
<1>1. "tcb_lease" \notin LooseNames /\ "tcb_lease" # "edu"
      /\ Entries(LeaseCaps("child_tcb")) = TableOf("tcb_lease")
  BY DEF LooseNames, TableOf
<1>t. Told(LeaseCaps("child_tcb"))
  BY FixturesTold
<1>2. IsSeq(order)
  <2>1. order \in Seq({"objectd", "taskd", "probe"})
    OBVIOUS
  <2>2. QED
    BY <2>1 DEF IsSeq
<1>3. Len(order) = 3 /\ order[1] = "objectd" /\ order[2] = "taskd" /\ order[3] = "probe"
  OBVIOUS
<1>4. \A l \in Of(Calls, One("tcb_lease")) : <<l.from, l.to>> \in
          {<<"probe", "taskd">>, <<"taskd", "objectd">>}
  BY CallsOf, LinkFields
<1>5. \A who : Suspended(One("tcb_lease"), who) <=> FALSE
  BY GroupOf DEF Suspended
<1> HIDE DEF order
<1>6. ASSUME NEW k \in 1..Len(order), NEW l \in Of(Calls, One("tcb_lease")),
             l.from = order[k], ~Suspended(One("tcb_lease"), l.from)
      PROVE  ~Suspended(One("tcb_lease"), l.to) /\ \E j \in 1..k - 1 : order[j] = l.to
  BY <1>3, <1>4, <1>5, <1>6
<1>7. QED
  BY <1>1, <1>2, <1>6, <1>t, BundleInOrder DEF order

LEMMA TcbResumeInOrder ==
  Segment(Bundle("tcb_resume", ResumeCaps, <<"child", "objectd", "taskd", "probe">>), {"tcb_resume"})
<1> DEFINE order == <<"child", "objectd", "taskd", "probe">>
<1>1. "tcb_resume" \notin LooseNames /\ "tcb_resume" # "edu"
      /\ Entries(ResumeCaps) = TableOf("tcb_resume")
  BY DEF LooseNames, TableOf
<1>t. Told(ResumeCaps)
  BY FixturesTold
<1>2. IsSeq(order)
  <2>1. order \in Seq({"child", "objectd", "taskd", "probe"})
    OBVIOUS
  <2>2. QED
    BY <2>1 DEF IsSeq
<1>3. Len(order) = 4
      /\ order[1] = "child" /\ order[2] = "objectd" /\ order[3] = "taskd" /\ order[4] = "probe"
  OBVIOUS
<1>4. \A l \in Of(Calls, One("tcb_resume")) : <<l.from, l.to>> \in
          {<<"probe", "taskd">>, <<"taskd", "objectd">>, <<"child", "taskd">>}
  BY CallsOf, LinkFields
<1>5. \A who : Suspended(One("tcb_resume"), who) <=> who = "child"
  BY GroupOf DEF Suspended
<1> HIDE DEF order
<1>6. ASSUME NEW k \in 1..Len(order), NEW l \in Of(Calls, One("tcb_resume")),
             l.from = order[k], ~Suspended(One("tcb_resume"), l.from)
      PROVE  ~Suspended(One("tcb_resume"), l.to) /\ \E j \in 1..k - 1 : order[j] = l.to
  BY <1>3, <1>4, <1>5, <1>6
<1>7. QED
  BY <1>1, <1>2, <1>6, <1>t, BundleInOrder DEF order

LEMMA DispatchInOrder ==
  Segment(Bundle("dispatch", <<Cap("probe", "ep", 8)>>, <<"probe">>), {"dispatch"})
<1> DEFINE order == <<"probe">>
<1>1. "dispatch" \notin LooseNames /\ "dispatch" # "edu"
      /\ Entries(<<Cap("probe", "ep", 8)>>) = TableOf("dispatch")
  BY DEF LooseNames, TableOf
<1>t. Told(<<Cap("probe", "ep", 8)>>)
  BY OneTold
<1>2. IsSeq(order)
  <2>1. order \in Seq({"probe"})
    OBVIOUS
  <2>2. QED
    BY <2>1 DEF IsSeq
<1>3. Len(order) = 1 /\ order[1] = "probe"
  OBVIOUS
<1>4. Of(Calls, One("dispatch")) = {}
  BY CallsOf
<1> HIDE DEF order
<1>6. ASSUME NEW k \in 1..Len(order), NEW l \in Of(Calls, One("dispatch")),
             l.from = order[k], ~Suspended(One("dispatch"), l.from)
      PROVE  ~Suspended(One("dispatch"), l.to) /\ \E j \in 1..k - 1 : order[j] = l.to
  BY <1>4, <1>6
<1>7. QED
  BY <1>1, <1>2, <1>6, <1>t, BundleInOrder DEF order

-----------------------------------------------------------------------------
(* The domains of an edu device.                                           *)

\* Where the steps of a device's domains are in a list
HasDeviced(s, a, i) == \A k \in 1..4 : s[a + k] = Deviced(i)[k]
HasDriver(s, b, i) == \A k \in 1..11 : s[b + k] = Driver(i)[k]
Elsewhere(s, a, b, g) ==
  \A k \in 1..Len(s) : s[k].group = g => k \in a + 1..a + 4 \/ k \in b + 1..b + 11

LEMMA EduTable ==
  LET devicedCaps == <<Cap("deviced", "deviced", 8)>> IN
  /\ TableOf("edu") = Entries(devicedCaps) \cup Entries(DriverCaps)
                        \cup Entries(DmadCaps) \cup Entries(IrqdCaps)
  /\ \A b \in Entries(devicedCaps) : b.to = "deviced"
  /\ \A b \in Entries(DriverCaps) : b.to = "driver"
  /\ \A b \in Entries(DmadCaps) : b.to = "dmad"
  /\ \A b \in Entries(IrqdCaps) : b.to = "irqd"
<1>1. TableOf("edu") = Entries(<<Cap("deviced", "deviced", 8)>>) \cup Entries(DriverCaps)
                         \cup Entries(DmadCaps) \cup Entries(IrqdCaps)
  BY DEF TableOf
<1>2. \A to, obj, slot, count : Block(to, obj, slot, count).to = to /\ Cap(to, obj, slot).to = to
  BY DEF Block, Cap
<1>3. \A b \in Entries(<<Cap("deviced", "deviced", 8)>>) : b.to = "deviced"
  BY <1>2 DEF Entries
<1>4. \A b \in Entries(DriverCaps) : b.to = "driver"
  BY <1>2 DEF Entries, DriverCaps
<1>5. \A b \in Entries(DmadCaps) : b.to = "dmad"
  BY <1>2 DEF Entries, DmadCaps
<1>6. \A b \in Entries(IrqdCaps) : b.to = "irqd"
  BY <1>2 DEF Entries, IrqdCaps
<1>7. QED
  BY <1>1, <1>3, <1>4, <1>5, <1>6, Zenon

LEMMA EduCalls ==
  ASSUME NEW i, NEW l \in Of(Calls, <<"edu", i>>)
  PROVE  l.from = "driver" /\ l.to \in {"dmad", "irqd", "deviced"}
<1>1. Of(Calls, <<"edu", i>>) =
        {Link("driver", 268, "dmad", 8), Link("driver", 266, "irqd", 10),
         Link("driver", 267, "irqd", 12), Link("driver", 271, "deviced", 8)}
  BY DEF Of, Calls
<1>2. QED
  BY <1>1, LinkFields

LEMMA EduSteps ==
  ASSUME NEW i
  PROVE  LET g == <<"edu", i>>
             d == Deviced(i)
             v == Driver(i)
         IN
         /\ Len(d) = 4 /\ Len(v) = 11 /\ IsSeq(d) /\ IsSeq(v)
         /\ \A k \in 1..4 : d[k].group = g
         /\ \A k \in 1..11 : v[k].group = g
         /\ d[1].op = "token" /\ d[2].op = "prepare"
         /\ d[3].op = "wire" /\ d[3].arg = <<Cap("deviced", "deviced", 8)>>
         /\ d[4].op = "spawn" /\ d[4].arg = "deviced"
         /\ \A k \in {1, 2, 3, 5, 8} : v[k].op \in {"irq", "dma", "prepare"}
         /\ v[4].op = "wire" /\ v[4].arg = DriverCaps
         /\ v[6].op = "wire" /\ v[6].arg = DmadCaps
         /\ v[7].op = "spawn" /\ v[7].arg = "dmad"
         /\ v[9].op = "wire" /\ v[9].arg = IrqdCaps
         /\ v[10].op = "spawn" /\ v[10].arg = "irqd"
         /\ v[11].op = "spawn" /\ v[11].arg = "driver"
<1> DEFINE g == <<"edu", i>>
           d == Deviced(i)
           v == Driver(i)
           dcaps == <<Cap("deviced", "deviced", 8)>>
<1>1. /\ Len(d) = 4 /\ d[1] = Step("token", g, "none") /\ d[2] = Prepare(g)
      /\ d[3] = Wire(g, dcaps) /\ d[4] = Spawn(g, "deviced")
  BY DEF Deviced
<1>2. /\ Len(v) = 11 /\ v[1] = Step("irq", g, "none") /\ v[2] = Step("dma", g, "none")
      /\ v[3] = Prepare(g) /\ v[4] = Wire(g, DriverCaps)
      /\ v[5] = Prepare(g) /\ v[6] = Wire(g, DmadCaps) /\ v[7] = Spawn(g, "dmad")
      /\ v[8] = Prepare(g) /\ v[9] = Wire(g, IrqdCaps) /\ v[10] = Spawn(g, "irqd")
      /\ v[11] = Spawn(g, "driver")
  BY DEF Driver
<1>3. IsSeq(d)
  <2>1. d \in Seq({Step("token", g, "none"), Prepare(g), Wire(g, dcaps), Spawn(g, "deviced")})
    BY DEF Deviced
  <2>2. QED
    BY <2>1, Zenon DEF IsSeq
<1>4. IsSeq(v)
  <2>1. v \in Seq({Step("irq", g, "none"), Step("dma", g, "none"), Prepare(g),
                   Wire(g, DriverCaps), Wire(g, DmadCaps), Spawn(g, "dmad"),
                   Wire(g, IrqdCaps), Spawn(g, "irqd"), Spawn(g, "driver")})
    BY DEF Driver
  <2>2. QED
    BY <2>1, Zenon DEF IsSeq
<1> HIDE DEF g, d, v, dcaps
<1>5. Prepare(g).op = "prepare" /\ Prepare(g).group = g
  BY StepFields DEF Prepare
<1>6. \A table : /\ Wire(g, table).op = "wire" /\ Wire(g, table).group = g
                  /\ Wire(g, table).arg = table
  BY StepFields DEF Wire
<1>7. \A who : /\ Spawn(g, who).op = "spawn" /\ Spawn(g, who).group = g
                /\ Spawn(g, who).arg = who
  BY StepFields DEF Spawn
<1>8. \A k \in 1..4 : d[k].group = g
  BY <1>1, <1>5, <1>6, <1>7, StepFields
<1>9. \A k \in 1..11 : v[k].group = g
  BY <1>2, <1>5, <1>6, <1>7, StepFields
<1>10. /\ d[1].op = "token" /\ d[2].op = "prepare"
       /\ d[3].op = "wire" /\ d[3].arg = dcaps
       /\ d[4].op = "spawn" /\ d[4].arg = "deviced"
  BY <1>1, <1>5, <1>6, <1>7, StepFields
<1>11. /\ \A k \in {1, 2, 3, 5, 8} : v[k].op \in {"irq", "dma", "prepare"}
       /\ v[4].op = "wire" /\ v[4].arg = DriverCaps
       /\ v[6].op = "wire" /\ v[6].arg = DmadCaps
       /\ v[7].op = "spawn" /\ v[7].arg = "dmad"
       /\ v[9].op = "wire" /\ v[9].arg = IrqdCaps
       /\ v[10].op = "spawn" /\ v[10].arg = "irqd"
       /\ v[11].op = "spawn" /\ v[11].arg = "driver"
  BY <1>2, <1>5, <1>6, <1>7, StepFields
<1>12. QED
  BY <1>1, <1>2, <1>3, <1>4, <1>8, <1>9, <1>10, <1>11 DEF g, d, v, dcaps

LEMMA EduOrdered ==
  ASSUME NEW i \in Instances, NEW s, NEW a \in Nat, NEW b \in Nat, a + 4 <= b,
         HasDeviced(s, a, i), HasDriver(s, b, i), Elsewhere(s, a, b, <<"edu", i>>),
         i = 1 => \E j \in 1..a : Issues(s, j, <<"edu", 0>>)
  PROVE  Ordered(s, <<"edu", i>>)
<1> DEFINE g == <<"edu", i>>
           d == Deviced(i)
           v == Driver(i)
           dcaps == <<Cap("deviced", "deviced", 8)>>
<1>g. g[1] = "edu" /\ g[2] = i
  OBVIOUS
<1>0. /\ \A k \in 1..4 : d[k].group = g
      /\ \A k \in 1..11 : v[k].group = g
      /\ d[1].op = "token" /\ d[2].op = "prepare"
      /\ d[3].op = "wire" /\ d[3].arg = dcaps
      /\ d[4].op = "spawn" /\ d[4].arg = "deviced"
      /\ \A k \in {1, 2, 3, 5, 8} : v[k].op \in {"irq", "dma", "prepare"}
      /\ v[4].op = "wire" /\ v[4].arg = DriverCaps
      /\ v[6].op = "wire" /\ v[6].arg = DmadCaps
      /\ v[7].op = "spawn" /\ v[7].arg = "dmad"
      /\ v[9].op = "wire" /\ v[9].arg = IrqdCaps
      /\ v[10].op = "spawn" /\ v[10].arg = "irqd"
      /\ v[11].op = "spawn" /\ v[11].arg = "driver"
  BY EduSteps
<1> HIDE DEF d, v
<1>1. \A k \in 1..4 : s[a + k] = d[k]
  BY DEF HasDeviced, d
<1>2. \A k \in 1..11 : s[b + k] = v[k]
  BY DEF HasDriver, v
<1>d. s[a + 1] = d[1] /\ s[a + 2] = d[2] /\ s[a + 3] = d[3] /\ s[a + 4] = d[4]
  BY <1>1
<1>v. /\ s[b + 4] = v[4] /\ s[b + 6] = v[6] /\ s[b + 7] = v[7]
      /\ s[b + 9] = v[9] /\ s[b + 10] = v[10] /\ s[b + 11] = v[11]
      /\ \A k \in {1, 2, 3, 5, 8} : s[b + k] = v[k]
  BY <1>2
<1>3. /\ \A k \in 1..4 : s[a + k].group = g
      /\ \A k \in 1..11 : s[b + k].group = g
  BY <1>0, <1>1, <1>2
<1>4. /\ s[a + 1].op = "token" /\ s[a + 2].op = "prepare"
      /\ s[a + 3].op = "wire" /\ s[a + 3].arg = dcaps
      /\ s[a + 4].op = "spawn" /\ s[a + 4].arg = "deviced"
  BY <1>0, <1>d
<1>5. /\ \A k \in {1, 2, 3, 5, 8} : s[b + k].op \in {"irq", "dma", "prepare"}
      /\ s[b + 4].op = "wire" /\ s[b + 4].arg = DriverCaps
      /\ s[b + 6].op = "wire" /\ s[b + 6].arg = DmadCaps
      /\ s[b + 7].op = "spawn" /\ s[b + 7].arg = "dmad"
      /\ s[b + 9].op = "wire" /\ s[b + 9].arg = IrqdCaps
      /\ s[b + 10].op = "spawn" /\ s[b + 10].arg = "irqd"
      /\ s[b + 11].op = "spawn" /\ s[b + 11].arg = "driver"
  BY <1>0, <1>v
<1>6. \A k \in 1..Len(s) : s[k].group = g =>
        \/ k \in {a + 1, a + 2, a + 3, a + 4}
        \/ k \in {b + n : n \in {1, 2, 3, 5, 8}}
        \/ k \in {b + 4, b + 6, b + 7, b + 9, b + 10, b + 11}
  BY DEF Elsewhere
<1> HIDE DEF g, dcaps
\* What may have been spawned before step k
<1>7. ASSUME NEW k \in 1..Len(s), NEW j \in 1..k - 1, NEW who, Spawns(s, j, g, who)
      PROVE  /\ k <= a + 4 => FALSE
             /\ k <= b + 7 => who = "deviced"
             /\ k <= b + 10 => who \in {"deviced", "dmad"}
  <2>1. j \in 1..Len(s) /\ s[j].group = g /\ s[j].op = "spawn" /\ s[j].arg = who
    BY <1>7 DEF Spawns
  <2>2. \/ j = a + 4 /\ who = "deviced"
        \/ j = b + 7 /\ who = "dmad"
        \/ j = b + 10 /\ who = "irqd"
        \/ j = b + 11
    BY <1>4, <1>5, <1>6, <2>1
  <2>3. QED
    BY <2>2
<1>8. /\ TableOf("edu") = Entries(dcaps) \cup Entries(DriverCaps)
                            \cup Entries(DmadCaps) \cup Entries(IrqdCaps)
      /\ \A c \in Entries(dcaps) : c.to = "deviced"
      /\ \A c \in Entries(DriverCaps) : c.to = "driver"
      /\ \A c \in Entries(DmadCaps) : c.to = "dmad"
      /\ \A c \in Entries(IrqdCaps) : c.to = "irqd"
  BY EduTable DEF dcaps
<1>t. Told(dcaps) /\ Told(DriverCaps) /\ Told(DmadCaps) /\ Told(IrqdCaps)
  BY OneTold, EduTold DEF dcaps
<1>9. ASSUME NEW k \in 1..Len(s), s[k].group = g, s[k].op = "wire"
      PROVE  WireInOrder(s, k, g)
  <2>1. \/ k = a + 3 /\ s[k].arg = dcaps
        \/ k = b + 4 /\ s[k].arg = DriverCaps
        \/ k = b + 6 /\ s[k].arg = DmadCaps
        \/ k = b + 9 /\ s[k].arg = IrqdCaps
    BY <1>4, <1>5, <1>6, <1>9
  <2>2. Entries(s[k].arg) \subseteq TableOf("edu")
    BY <1>8, <2>1
  <2>3. ASSUME NEW j \in 1..k - 1, NEW c \in Entries(s[k].arg), Spawns(s, j, g, c.to)
        PROVE  FALSE
    BY <1>7, <1>8, <2>1, <2>3
  <2>4. QED
    BY <1>g, <1>t, <2>1, <2>2, <2>3 DEF WireInOrder
<1>10. ASSUME NEW k \in 1..Len(s), s[k].group = g, s[k].op = "spawn"
       PROVE  SpawnInOrder(s, k, g)
  <2>1. \/ k = a + 4 /\ s[k].arg = "deviced"
        \/ k = b + 7 /\ s[k].arg = "dmad"
        \/ k = b + 10 /\ s[k].arg = "irqd"
        \/ k = b + 11 /\ s[k].arg = "driver"
    BY <1>4, <1>5, <1>6, <1>10
  <2>2. /\ a + 1 \in 1..k - 1 /\ a + 3 \in 1..k - 1
        /\ s[k].arg = "dmad" => b + 6 \in 1..k - 1
        /\ s[k].arg = "irqd" => b + 9 \in 1..k - 1
        /\ s[k].arg = "driver" => {a + 4, b + 4, b + 7, b + 10} \subseteq 1..k - 1
    <3>1. k \in Nat /\ k >= a + 4
      BY <2>1
    <3>2. a + 1 \in 1..k - 1 /\ a + 3 \in 1..k - 1
      BY <3>1
    <3>3. s[k].arg = "dmad" => k = b + 7 /\ b + 6 \in 1..k - 1
      BY <2>1
    <3>4. s[k].arg = "irqd" => k = b + 10 /\ b + 9 \in 1..k - 1
      BY <2>1
    <3>5. s[k].arg = "driver" => {a + 4, b + 4, b + 7, b + 10} \subseteq 1..k - 1
      <4>1. s[k].arg = "driver" => k = b + 11
        BY <2>1
      <4>2. QED
        BY <4>1
    <3>6. QED
      BY <3>2, <3>3, <3>4, <3>5, Zenon
  <2>3. ASSUME NEW c \in TableOf("edu"), c.to = s[k].arg
        PROVE  \E j \in 1..k - 1 : s[j].op = "wire" /\ s[j].group = g /\ c \in Entries(s[j].arg)
    <3>1. CASE s[k].arg = "deviced"
      <4>1. c \in Entries(dcaps)
        BY <1>8, <2>3, <3>1
      <4>2. a + 3 \in 1..k - 1
        BY <2>2, <3>1
      <4>3. s[a + 3].op = "wire" /\ s[a + 3].group = g /\ c \in Entries(s[a + 3].arg)
        BY <1>3, <1>4, <4>1
      <4>4. QED
        BY <4>2, <4>3
    <3>2. CASE s[k].arg = "dmad"
      <4>1. c \in Entries(DmadCaps)
        BY <1>8, <2>3, <3>2
      <4>2. b + 6 \in 1..k - 1
        BY <2>2, <3>2
      <4>3. s[b + 6].op = "wire" /\ s[b + 6].group = g /\ c \in Entries(s[b + 6].arg)
        BY <1>3, <1>5, <4>1
      <4>4. QED
        BY <4>2, <4>3
    <3>3. CASE s[k].arg = "irqd"
      <4>1. c \in Entries(IrqdCaps)
        BY <1>8, <2>3, <3>3
      <4>2. b + 9 \in 1..k - 1
        BY <2>2, <3>3
      <4>3. s[b + 9].op = "wire" /\ s[b + 9].group = g /\ c \in Entries(s[b + 9].arg)
        BY <1>3, <1>5, <4>1
      <4>4. QED
        BY <4>2, <4>3
    <3>4. CASE s[k].arg = "driver"
      <4>1. c \in Entries(DriverCaps)
        BY <1>8, <2>3, <3>4
      <4>2. b + 4 \in 1..k - 1
        BY <2>2, <3>4
      <4>3. s[b + 4].op = "wire" /\ s[b + 4].group = g /\ c \in Entries(s[b + 4].arg)
        BY <1>3, <1>5, <4>1
      <4>4. QED
        BY <4>2, <4>3
    <3>5. QED
      BY <2>1, <3>1, <3>2, <3>3, <3>4
  <2>4. ASSUME NEW l \in Of(Calls, g), l.from = s[k].arg
        PROVE  ~Suspended(g, l.to) /\ \E j \in 1..k - 1 : Spawns(s, j, g, l.to)
    <3>1. l.from = "driver" /\ l.to \in {"dmad", "irqd", "deviced"}
      BY EduCalls DEF g
    <3>2. /\ Spawns(s, a + 4, g, "deviced")
          /\ Spawns(s, b + 7, g, "dmad")
          /\ Spawns(s, b + 10, g, "irqd")
      BY <1>3, <1>4, <1>5 DEF Spawns
    <3>3. \E j \in 1..k - 1 : Spawns(s, j, g, l.to)
      BY <2>2, <2>4, <3>1, <3>2
    <3>4. QED
      BY <1>g, <3>3 DEF Suspended
  <2>5. Issues(s, a + 1, g)
    BY <1>3, <1>4 DEF Issues
  <2>6. QED
    BY <1>g, <2>2, <2>3, <2>4, <2>5 DEF SpawnInOrder
<1>11. ASSUME NEW k \in 1..Len(s), s[k].group = g, s[k].op = "token"
       PROVE  IssueInOrder(s, k, g)
  <2>1. k = a + 1
    BY <1>4, <1>5, <1>6, <1>11
  <2>2. \A j \in 1..k - 1 : ~Issues(s, j, g)
    <3>1. \A j \in 1..k - 1 : j \in 1..Len(s) /\ j < a + 1
      BY <2>1
    <3>2. \A j \in 1..k - 1 : s[j].group # g
      BY <1>6, <3>1
    <3>3. QED
      BY <3>2 DEF Issues
  <2>3. g \in {<<"edu", 0>>, <<"edu", 1>>}
    BY DEF g, Instances, MaxEdu
  <2>4. QED
    BY <1>g, <2>1, <2>2, <2>3 DEF IssueInOrder
<1>12. QED
  BY <1>9, <1>10, <1>11 DEF Ordered, StepInOrder, g

LEMMA EduGroups == <<"edu", 0>> # <<"edu", 1>> /\ 0 \in Instances /\ 1 \in Instances
BY DEF Instances, MaxEdu

\* When all the steps are of the two devices, and each device's are in order
LEMMA EduSegment ==
  ASSUME NEW s, IsSeq(s),
         \A k \in 1..Len(s) : s[k].group \in {<<"edu", 0>>, <<"edu", 1>>},
         Ordered(s, <<"edu", 0>>), Ordered(s, <<"edu", 1>>)
  PROVE  Segment(s, {"edu"})
<1>1. \A k \in 1..Len(s) : s[k].group[1] = "edu" /\ IsPair(s[k].group)
  BY DEF IsPair
<1>2. \A g : Ordered(s, g)
  BY DEF Ordered
<1>3. "edu" \notin LooseNames
  BY DEF LooseNames
<1>4. QED
  BY <1>1, <1>2, <1>3 DEF Segment

LEMMA OneEduInOrder == Segment(Deviced(0) \o Driver(0), {"edu"})
<1> DEFINE d == Deviced(0)
           v == Driver(0)
           g == <<"edu", 0>>
           e == d \o v
<1>1. /\ Len(d) = 4 /\ Len(v) = 11 /\ IsSeq(d) /\ IsSeq(v)
      /\ \A k \in 1..4 : d[k].group = g
      /\ \A k \in 1..11 : v[k].group = g
  BY EduSteps
<1> HIDE DEF d, v
<1>2. e = d \o v
  OBVIOUS
<1> HIDE DEF e
<1>3. IsSeq(d) /\ IsSeq(v)
  BY <1>1
<1>4. Joined(e, d, v)
  BY <1>2, <1>3, Concatenated
<1>5. /\ Len(e) = 15 /\ IsSeq(e)
      /\ \A k \in 1..4 : e[k] = d[k]
      /\ \A k \in 1..11 : e[4 + k] = v[k]
  BY <1>1, <1>4 DEF Joined
<1>6. \A k \in 1..15 : k \in 1..4 \/ \E n \in 1..11 : k = 4 + n
  <2> SUFFICES ASSUME NEW k \in 1..15, k \notin 1..4 PROVE \E n \in 1..11 : k = 4 + n
    OBVIOUS
  <2>1. k - 4 \in 1..11 /\ k = 4 + (k - 4)
    OBVIOUS
  <2>2. QED
    BY <2>1
<1>7. \A k \in 1..Len(e) : e[k].group = g
  BY <1>1, <1>5, <1>6
<1>8. Ordered(e, g)
  <2>1. HasDeviced(e, 0, 0) /\ HasDriver(e, 4, 0)
    BY <1>5 DEF HasDeviced, HasDriver, d, v
  <2>2. Elsewhere(e, 0, 4, g)
    BY <1>5 DEF Elsewhere
  <2>3. QED
    BY <2>1, <2>2, EduGroups, EduOrdered
<1>9. Ordered(e, <<"edu", 1>>)
  BY <1>7, EduGroups DEF Ordered
<1>10. Segment(e, {"edu"})
  BY <1>5, <1>7, <1>8, <1>9, EduSegment
<1>11. QED
  BY <1>10 DEF e, d, v

LEMMA TwoEduInOrder == Segment(Deviced(0) \o Deviced(1) \o Driver(0) \o Driver(1), {"edu"})
<1> DEFINE d == Deviced(0)
           f == Deviced(1)
           v == Driver(0)
           w == Driver(1)
           g == <<"edu", 0>>
           h == <<"edu", 1>>
           p == d \o f
           q == p \o v
           e == q \o w
<1>1. /\ Len(d) = 4 /\ Len(v) = 11 /\ IsSeq(d) /\ IsSeq(v) /\ d[1].op = "token"
      /\ \A k \in 1..4 : d[k].group = g
      /\ \A k \in 1..11 : v[k].group = g
  BY EduSteps
<1>2. /\ Len(f) = 4 /\ Len(w) = 11 /\ IsSeq(f) /\ IsSeq(w)
      /\ \A k \in 1..4 : f[k].group = h
      /\ \A k \in 1..11 : w[k].group = h
  BY EduSteps
<1> HIDE DEF d, f, v, w
<1>3. p = d \o f /\ q = p \o v /\ e = q \o w
  OBVIOUS
<1> HIDE DEF p, q, e
<1>4. /\ IsSeq(p) /\ Len(p) = 8
      /\ \A k \in 1..4 : p[k] = d[k]
      /\ \A k \in 1..4 : p[4 + k] = f[k]
  <2>1. IsSeq(d) /\ IsSeq(f) /\ p = d \o f
    BY <1>1, <1>2, <1>3
  <2>2. Joined(p, d, f)
    BY <2>1, Concatenated
  <2>3. QED
    BY <1>1, <1>2, <2>2 DEF Joined
<1>5. /\ IsSeq(q) /\ Len(q) = 19
      /\ \A k \in 1..8 : q[k] = p[k]
      /\ \A k \in 1..11 : q[8 + k] = v[k]
  <2>1. IsSeq(p) /\ IsSeq(v) /\ q = p \o v
    BY <1>1, <1>3, <1>4
  <2>2. Joined(q, p, v)
    BY <2>1, Concatenated
  <2>3. QED
    BY <1>1, <1>4, <2>2 DEF Joined
<1>6. /\ IsSeq(e) /\ Len(e) = 30
      /\ \A k \in 1..19 : e[k] = q[k]
      /\ \A k \in 1..11 : e[19 + k] = w[k]
  <2>1. IsSeq(q) /\ IsSeq(w) /\ e = q \o w
    BY <1>2, <1>3, <1>5
  <2>2. Joined(e, q, w)
    BY <2>1, Concatenated
  <2>3. QED
    BY <1>2, <1>5, <2>2 DEF Joined
<1>7. /\ \A k \in 1..4 : e[k] = d[k]
      /\ \A k \in 1..4 : e[4 + k] = f[k]
      /\ \A k \in 1..11 : e[8 + k] = v[k]
      /\ \A k \in 1..11 : e[19 + k] = w[k]
  <2>1. ASSUME NEW k \in 1..4 PROVE e[k] = d[k] /\ e[4 + k] = f[k]
    <3>1. k \in 1..8 /\ k \in 1..19 /\ 4 + k \in 1..8 /\ 4 + k \in 1..19
      OBVIOUS
    <3>2. e[k] = q[k] /\ q[k] = p[k] /\ p[k] = d[k]
      BY <1>4, <1>5, <1>6, <3>1, Zenon
    <3>3. e[4 + k] = q[4 + k] /\ q[4 + k] = p[4 + k] /\ p[4 + k] = f[k]
      BY <1>4, <1>5, <1>6, <3>1, Zenon
    <3>4. QED
      BY <3>2, <3>3, Zenon
  <2>2. ASSUME NEW k \in 1..11 PROVE e[8 + k] = v[k]
    <3>1. 8 + k \in 1..19
      OBVIOUS
    <3>2. e[8 + k] = q[8 + k] /\ q[8 + k] = v[k]
      BY <1>5, <1>6, <3>1, Zenon
    <3>3. QED
      BY <3>2, Zenon
  <2>3. QED
    BY <1>6, <2>1, <2>2, Zenon
<1>8. ASSUME NEW k \in 1..30
      PROVE  \/ k \in 1..4 /\ e[k].group = g
             \/ k \in 5..8 /\ e[k].group = h
             \/ k \in 9..19 /\ e[k].group = g
             \/ k \in 20..30 /\ e[k].group = h
  <2>1. CASE k \in 1..4
    BY <1>1, <1>7, <2>1
  <2>2. CASE k \in 5..8
    <3>1. k - 4 \in 1..4 /\ k = 4 + (k - 4)
      BY <2>2
    <3>2. e[k].group = h
      BY <1>2, <1>7, <3>1
    <3>3. QED
      BY <2>2, <3>2
  <2>3. CASE k \in 9..19
    <3>1. k - 8 \in 1..11 /\ k = 8 + (k - 8)
      BY <2>3
    <3>2. e[k].group = g
      BY <1>1, <1>7, <3>1
    <3>3. QED
      BY <2>3, <3>2
  <2>4. CASE k \in 20..30
    <3>1. k - 19 \in 1..11 /\ k = 19 + (k - 19)
      BY <2>4
    <3>2. e[k].group = h
      BY <1>2, <1>7, <3>1
    <3>3. QED
      BY <2>4, <3>2
  <2>5. QED
    BY <2>1, <2>2, <2>3, <2>4
<1>9. Ordered(e, g)
  <2>1. HasDeviced(e, 0, 0) /\ HasDriver(e, 8, 0)
    BY <1>7 DEF HasDeviced, HasDriver, d, v
  <2>2. Elsewhere(e, 0, 8, g)
    BY <1>6, <1>8, EduGroups DEF Elsewhere
  <2>3. QED
    BY <2>1, <2>2, EduGroups, EduOrdered
<1>10. Ordered(e, h)
  <2>1. HasDeviced(e, 4, 1) /\ HasDriver(e, 19, 1)
    BY <1>7 DEF HasDeviced, HasDriver, f, w
  <2>2. Elsewhere(e, 4, 19, h)
    BY <1>6, <1>8, EduGroups DEF Elsewhere
  <2>3. Issues(e, 1, g)
    BY <1>1, <1>7 DEF Issues
  <2>4. \E j \in 1..4 : Issues(e, j, g)
    BY <2>3
  <2>5. QED
    BY <2>1, <2>2, <2>4, EduGroups, EduOrdered
<1>11. \A k \in 1..Len(e) : e[k].group \in {g, h}
  BY <1>6, <1>8
<1>12. Segment(e, {"edu"})
  BY <1>6, <1>9, <1>10, <1>11, EduSegment
<1>13. QED
  BY <1>12 DEF e, q, p, d, f, v, w

-----------------------------------------------------------------------------
(* The whole plan.                                                         *)

LEMMA LooseStep ==
  ASSUME NEW op, op \notin {"wire", "token"}, NEW name \in LooseNames, NEW arg
  PROVE  Segment(<<Step(op, One(name), arg)>>, {})
<1> DEFINE e == Step(op, One(name), arg)
<1>1. e.op = op /\ IsPair(e.group) /\ e.group[1] = name
  BY StepFields, GroupOf
<1> HIDE DEF e
<1>2. <<e>> \in Seq({e}) /\ Len(<<e>>) = 1 /\ <<e>>[1] = e
  OBVIOUS
<1>3. IsSeq(<<e>>)
  BY <1>2, Zenon DEF IsSeq
<1>4. \A k \in 1..Len(<<e>>) : /\ IsPair(<<e>>[k].group) /\ <<e>>[k].group[1] \in LooseNames
                               /\ <<e>>[k].op \notin {"wire", "token"}
  BY <1>1, <1>2
<1>5. Segment(<<e>>, {})
  BY <1>3, <1>4, LooseSegment
<1>6. QED
  BY <1>5 DEF e

\* A process of a bundle in which nothing is wired: prepared, and spawned
LEMMA LooseProcess ==
  ASSUME NEW name \in LooseNames, NEW who
  PROVE  Segment(<<Prepare(One(name)), Spawn(One(name), who)>>, {})
<1> DEFINE d == Prepare(One(name))
           e == Spawn(One(name), who)
<1>1. /\ d.op = "prepare" /\ IsPair(d.group) /\ d.group[1] = name
      /\ e.op = "spawn" /\ IsPair(e.group) /\ e.group[1] = name
  BY StepFields, GroupOf DEF Prepare, Spawn
<1> HIDE DEF d, e
<1>2. /\ <<d, e>> \in Seq({d, e}) /\ Len(<<d, e>>) = 2
      /\ <<d, e>>[1] = d /\ <<d, e>>[2] = e
  OBVIOUS
<1>3. IsSeq(<<d, e>>)
  BY <1>2, Zenon DEF IsSeq
<1>4. \A k \in 1..Len(<<d, e>>) : /\ IsPair(<<d, e>>[k].group)
                                  /\ <<d, e>>[k].group[1] \in LooseNames
                                  /\ <<d, e>>[k].op \notin {"wire", "token"}
  BY <1>1, <1>2
<1>5. Segment(<<d, e>>, {})
  BY <1>3, <1>4, LooseSegment
<1>6. QED
  BY <1>5 DEF d, e

LEMMA ServiceInOrder == ASSUME NEW name \in LooseNames PROVE Segment(Service(name), {})
BY LooseProcess DEF Service

LEMMA ExperimentsInOrder == Segment(DeviceProbes, {})
<1> DEFINE n == Len(Experiments)
           s == [k \in 1..n |-> Step("experiment", One("pci"), Experiments[k])]
<1>1. n \in Nat
  BY DEF Experiments
<1> HIDE DEF n
<1>2. /\ s \in Seq({Step("experiment", One("pci"), Experiments[k]) : k \in 1..n})
      /\ Len(s) = n
  BY <1>1
<1>3. IsSeq(s)
  BY <1>2, Zenon DEF IsSeq
<1>4. \A k \in 1..n : s[k].op = "experiment" /\ IsPair(s[k].group) /\ s[k].group[1] = "pci"
  BY StepFields, GroupOf
<1>5. DeviceProbes = s
  BY DEF DeviceProbes, n
<1> HIDE DEF s
<1>6. \A k \in 1..Len(s) : /\ IsPair(s[k].group) /\ s[k].group[1] \in LooseNames
                           /\ s[k].op \notin {"wire", "token"}
  BY <1>2, <1>4 DEF LooseNames
<1>7. QED
  BY <1>3, <1>5, <1>6, LooseSegment

\* The gateway's probe: nothing is wired, and root waits.
LEMMA AbiInOrder ==
  Segment(<<Prepare(One("abi")), Spawn(One("abi"), "probe"),
            Step("await", One("abi"), "fallible")>>, {"abi"})
<1> DEFINE c == Prepare(One("abi"))
           d == Spawn(One("abi"), "probe")
           e == Step("await", One("abi"), "fallible")
           s == <<c, d, e>>
<1>1. /\ c.op = "prepare" /\ d.op = "spawn" /\ e.op = "await"
      /\ c.group = One("abi") /\ d.group = One("abi") /\ e.group = One("abi")
  BY StepFields, GroupOf DEF Prepare, Spawn
<1> HIDE DEF c, d, e
<1>2. s \in Seq({c, d, e}) /\ Len(s) = 3 /\ s[1] = c /\ s[2] = d /\ s[3] = e
  OBVIOUS
<1>3. IsSeq(s)
  BY <1>2, Zenon DEF IsSeq
<1> HIDE DEF s
<1>4. \A k \in 1..Len(s) : /\ IsPair(s[k].group) /\ s[k].group[1] = "abi"
                           /\ s[k].op \notin {"wire", "token"}
  BY <1>1, <1>2, GroupOf
<1>5. TableOf("abi") = {}
  BY DEF TableOf
<1>6. ASSUME NEW g, g[1] = "abi" PROVE Of(Calls, g) = {}
  BY <1>6 DEF Of, Calls
<1>7. ASSUME NEW g, NEW k \in 1..Len(s), s[k].group = g PROVE StepInOrder(s, k, g)
  <2>1. g[1] = "abi"
    BY <1>4, <1>7
  <2>2. SpawnInOrder(s, k, g)
    BY <1>5, <1>6, <2>1 DEF SpawnInOrder
  <2>3. QED
    BY <1>4, <2>2 DEF StepInOrder
<1>8. \A g : Ordered(s, g)
  BY <1>7 DEF Ordered
<1>9. "abi" \notin LooseNames
  BY DEF LooseNames
<1>10. Segment(s, {"abi"})
  BY <1>3, <1>4, <1>8, <1>9 DEF Segment
<1>11. QED
  BY <1>10 DEF s, c, d, e

LEMMA EduDomainsInOrder == ASSUME NEW p PROVE Segment(EduDomains(p), {"edu"})
<1>1. CASE p.edu = <<>>
  <2>1. "dormant" \in LooseNames
    BY DEF LooseNames
  <2>2. Segment(EduDomains(p), {})
    BY <1>1, <2>1, LooseProcess DEF EduDomains
  <2>3. QED
    BY <2>2 DEF Segment
<1>2. CASE p.edu # <<>> /\ Len(p.edu) >= MaxEdu
  BY <1>2, TwoEduInOrder DEF EduDomains, When
<1>3. CASE p.edu # <<>> /\ ~(Len(p.edu) >= MaxEdu)
  <2> DEFINE d == Deviced(0)
             v == Driver(0)
  <2>1. d \o <<>> = d /\ (d \o v) \o <<>> = d \o v
    <3>1. d \in Seq({d[k] : k \in 1..4}) /\ v \in Seq({v[k] : k \in 1..11})
      BY DEF Deviced, Driver
    <3> HIDE DEF d, v
    <3>2. QED
      BY <3>1
  <2>2. EduDomains(p) = ((d \o <<>>) \o v) \o <<>>
    BY <1>3 DEF EduDomains, When
  <2>3. EduDomains(p) = d \o v
    BY <2>1, <2>2
  <2>4. QED
    BY <2>3, OneEduInOrder
<1>4. QED
  BY <1>1, <1>2, <1>3

LEMMA Join ==
  ASSUME NEW M, NEW N, NEW s, NEW t, NEW u, Segment(s, M), Segment(t, N), u = s \o t,
         M \cap N = {}, M \cap LooseNames = {}, N \cap LooseNames = {}
  PROVE  Segment(u, M \cup N)
BY SegmentsJoin, Zenon

FixtureNames == {"objectd", "lifecycle", "memd", "reservation", "opaque", "tcb_lease",
                 "tcb_resume"}

LEMMA FixturesInOrder == Segment(Fixtures, FixtureNames)
<1> DEFINE q1 == Bundle("objectd", Between("objectd", "probe", "ep"), <<"objectd", "probe">>)
           q2 == q1 \o Bundle("lifecycle", LifecycleCaps, <<"child", "taskd", "probe">>)
           q3 == q2 \o Bundle("memd", Between("memd", "probe", "ep"), <<"memd", "probe">>)
           q4 == q3 \o Bundle("reservation", ReservationCaps, <<"objectd", "memd", "taskd", "probe">>)
           q5 == q4 \o Bundle("opaque", LeaseCaps("token"), <<"objectd", "taskd", "probe">>)
           q6 == q5 \o Bundle("tcb_lease", LeaseCaps("child_tcb"), <<"objectd", "taskd", "probe">>)
           q7 == q6 \o Bundle("tcb_resume", ResumeCaps, <<"child", "objectd", "taskd", "probe">>)
<1>1. Segment(q1, {"objectd"})
  BY ObjectdInOrder
<1>2. Segment(q2, {"objectd", "lifecycle"})
  <2>1. Segment(Bundle("lifecycle", LifecycleCaps, <<"child", "taskd", "probe">>), {"lifecycle"})
    BY LifecycleInOrder
  <2> HIDE DEF q1
  <2>2. Segment(q2, {"objectd"} \cup {"lifecycle"})
    BY <1>1, <2>1, Join DEF LooseNames
  <2>3. {"objectd"} \cup {"lifecycle"} = {"objectd", "lifecycle"}
    BY DEF FixtureNames
  <2>4. QED
    BY <2>2, <2>3
<1>3. Segment(q3, {"objectd", "lifecycle", "memd"})
  <2>1. Segment(Bundle("memd", Between("memd", "probe", "ep"), <<"memd", "probe">>), {"memd"})
    BY MemdInOrder
  <2> HIDE DEF q2
  <2>2. Segment(q3, {"objectd", "lifecycle"} \cup {"memd"})
    BY <1>2, <2>1, Join DEF LooseNames
  <2>3. {"objectd", "lifecycle"} \cup {"memd"} = {"objectd", "lifecycle", "memd"}
    BY DEF FixtureNames
  <2>4. QED
    BY <2>2, <2>3
<1>4. Segment(q4, {"objectd", "lifecycle", "memd", "reservation"})
  <2>1. Segment(Bundle("reservation", ReservationCaps, <<"objectd", "memd", "taskd", "probe">>), {"reservation"})
    BY ReservationInOrder
  <2> HIDE DEF q3
  <2>2. Segment(q4, {"objectd", "lifecycle", "memd"} \cup {"reservation"})
    BY <1>3, <2>1, Join DEF LooseNames
  <2>3. {"objectd", "lifecycle", "memd"} \cup {"reservation"} = {"objectd", "lifecycle", "memd", "reservation"}
    BY DEF FixtureNames
  <2>4. QED
    BY <2>2, <2>3
<1>5. Segment(q5, {"objectd", "lifecycle", "memd", "reservation", "opaque"})
  <2>1. Segment(Bundle("opaque", LeaseCaps("token"), <<"objectd", "taskd", "probe">>), {"opaque"})
    BY OpaqueInOrder
  <2> HIDE DEF q4
  <2>2. Segment(q5, {"objectd", "lifecycle", "memd", "reservation"} \cup {"opaque"})
    BY <1>4, <2>1, Join DEF LooseNames
  <2>3. {"objectd", "lifecycle", "memd", "reservation"} \cup {"opaque"} = {"objectd", "lifecycle", "memd", "reservation", "opaque"}
    BY DEF FixtureNames
  <2>4. QED
    BY <2>2, <2>3
<1>6. Segment(q6, {"objectd", "lifecycle", "memd", "reservation", "opaque", "tcb_lease"})
  <2>1. Segment(Bundle("tcb_lease", LeaseCaps("child_tcb"), <<"objectd", "taskd", "probe">>), {"tcb_lease"})
    BY TcbLeaseInOrder
  <2> HIDE DEF q5
  <2>2. Segment(q6, {"objectd", "lifecycle", "memd", "reservation", "opaque"} \cup {"tcb_lease"})
    BY <1>5, <2>1, Join DEF LooseNames
  <2>3. {"objectd", "lifecycle", "memd", "reservation", "opaque"} \cup {"tcb_lease"} = {"objectd", "lifecycle", "memd", "reservation", "opaque", "tcb_lease"}
    BY DEF FixtureNames
  <2>4. QED
    BY <2>2, <2>3
<1>7. Segment(q7, FixtureNames)
  <2>1. Segment(Bundle("tcb_resume", ResumeCaps, <<"child", "objectd", "taskd", "probe">>), {"tcb_resume"})
    BY TcbResumeInOrder
  <2> HIDE DEF q6
  <2>2. Segment(q7, {"objectd", "lifecycle", "memd", "reservation", "opaque", "tcb_lease"} \cup {"tcb_resume"})
    BY <1>6, <2>1, Join DEF LooseNames
  <2>3. {"objectd", "lifecycle", "memd", "reservation", "opaque", "tcb_lease"} \cup {"tcb_resume"} = FixtureNames
    BY DEF FixtureNames
  <2>4. QED
    BY <2>2, <2>3
<1>8. Fixtures = q7
  BY DEF Fixtures
<1>9. QED
  BY <1>7, <1>8

\* The parts of the plan: up to the server root finds behind the syscalls, up to
\* the gateway's probe, and after
RomfsBundle == Bundle("romfs", Between("romfsd", "probe", "ep"), <<"romfsd", "probe">>)
UpToRomfs(p) ==
  <<Step("environment", One("root"), "none")>>
    \o When(p.dynamic, DynamicProbe)
    \o When(p.experiments, DeviceProbes)
    \o EduDomains(p)
    \o Fixtures
    \o Bundle("dispatch", <<Cap("probe", "ep", 8)>>, <<"probe">>)
    \o RomfsBundle
UpToAbi(p) == UpToRomfs(p) \o Service("consoled") \o Service("abi-gated")
AbiProbe ==
  <<Prepare(One("abi")), Spawn(One("abi"), "probe"), Step("await", One("abi"), "fallible")>>

RomfsNames == {"dynamic", "edu", "dispatch", "romfs"} \cup FixtureNames

LEMMA PlanParts ==
  ASSUME NEW p
  PROVE  Plan(p) = UpToAbi(p) \o AbiProbe
                     \o When(p.nx, <<Step("await", One("nx"), "fallible")>>)
                     \o Service("modld") \o Service("modexec")
                     \o When(p.edu = <<>>,
                             <<Prepare(One("dormant")), Spawn(One("dormant"), "driver")>>)
BY DEF Plan, UpToAbi, UpToRomfs, AbiProbe, RomfsBundle

LEMMA UpToRomfsInOrder ==
  ASSUME NEW p
  PROVE  /\ Segment(UpToRomfs(p), RomfsNames)
         /\ \E j \in 1..Len(UpToRomfs(p)) : Spawns(UpToRomfs(p), j, One("romfs"), "romfsd")
<1> DEFINE q0 == <<Step("environment", One("root"), "none")>>
           q1 == q0 \o When(p.dynamic, DynamicProbe)
           q2 == q1 \o When(p.experiments, DeviceProbes)
           q3 == q2 \o EduDomains(p)
           q4 == q3 \o Fixtures
           q5 == q4 \o Bundle("dispatch", <<Cap("probe", "ep", 8)>>, <<"probe">>)
           q6 == q5 \o RomfsBundle
<1>0. UpToRomfs(p) = q6
  BY DEF UpToRomfs
<1>1. Segment(q0, {})
  BY LooseStep DEF LooseNames
<1>2. Segment(When(p.dynamic, DynamicProbe), {"dynamic"})
  <2>1. "dynamic" \notin LooseNames
    BY DEF LooseNames
  <2>2. Segment(DynamicProbe, {"dynamic"})
    BY <2>1, DynamicInOrder, SegmentThenWait DEF DynamicProbe
  <2>3. QED
    BY <2>2, SegmentWhen
<1>3. Segment(When(p.experiments, DeviceProbes), {})
  BY ExperimentsInOrder, SegmentWhen
<1>4. Segment(EduDomains(p), {"edu"})
  BY EduDomainsInOrder
<1>5. Segment(RomfsBundle, {"romfs"})
  BY RomfsInOrder DEF RomfsBundle
<1> HIDE DEF q0
<1>6. Segment(q1, {"dynamic"})
  <2>1. Segment(q1, ({}) \cup {"dynamic"})
    BY <1>1, <1>2, Join DEF LooseNames, FixtureNames
  <2>2. ({}) \cup {"dynamic"} = {"dynamic"}
    BY DEF RomfsNames
  <2>3. QED
    BY <2>1, <2>2
<1> HIDE DEF q1
<1>7. Segment(q2, {"dynamic"})
  <2>1. Segment(q2, ({"dynamic"}) \cup {})
    BY <1>6, <1>3, Join DEF LooseNames, FixtureNames
  <2>2. ({"dynamic"}) \cup {} = {"dynamic"}
    BY DEF RomfsNames
  <2>3. QED
    BY <2>1, <2>2
<1> HIDE DEF q2
<1>8. Segment(q3, {"dynamic", "edu"})
  <2>1. Segment(q3, ({"dynamic"}) \cup {"edu"})
    BY <1>7, <1>4, Join DEF LooseNames, FixtureNames
  <2>2. ({"dynamic"}) \cup {"edu"} = {"dynamic", "edu"}
    BY DEF RomfsNames
  <2>3. QED
    BY <2>1, <2>2
<1> HIDE DEF q3
<1>9. Segment(q4, {"dynamic", "edu"} \cup FixtureNames)
  <2>1. Segment(q4, ({"dynamic", "edu"}) \cup FixtureNames)
    BY <1>8, FixturesInOrder, Join DEF LooseNames, FixtureNames
  <2>2. ({"dynamic", "edu"}) \cup FixtureNames = {"dynamic", "edu"} \cup FixtureNames
    BY DEF RomfsNames
  <2>3. QED
    BY <2>1, <2>2
<1> HIDE DEF q4
<1>10. Segment(q5, {"dynamic", "edu", "dispatch"} \cup FixtureNames)
  <2>1. Segment(q5, ({"dynamic", "edu"} \cup FixtureNames) \cup {"dispatch"})
    <3> DEFINE M == {"dynamic", "edu"} \cup FixtureNames
               t == Bundle("dispatch", <<Cap("probe", "ep", 8)>>, <<"probe">>)
    <3>1. M \cap {"dispatch"} = {} /\ M \cap LooseNames = {} /\ {"dispatch"} \cap LooseNames = {}
      BY DEF LooseNames, FixtureNames
    <3>2. Segment(q4, M) /\ Segment(t, {"dispatch"}) /\ q5 = q4 \o t
      BY <1>9, DispatchInOrder
    <3> HIDE DEF M, t, q5
    <3>3. Segment(q5, M \cup {"dispatch"})
      BY <3>1, <3>2, Join
    <3>4. QED
      BY <3>3 DEF M
  <2>2. ({"dynamic", "edu"} \cup FixtureNames) \cup {"dispatch"} = {"dynamic", "edu", "dispatch"} \cup FixtureNames
    BY DEF RomfsNames
  <2>3. QED
    BY <2>1, <2>2
<1> HIDE DEF q5
<1>11. Segment(q6, RomfsNames)
  <2>1. Segment(q6, ({"dynamic", "edu", "dispatch"} \cup FixtureNames) \cup {"romfs"})
    BY <1>10, <1>5, Join DEF LooseNames, FixtureNames
  <2>2. ({"dynamic", "edu", "dispatch"} \cup FixtureNames) \cup {"romfs"} = RomfsNames
    BY DEF RomfsNames
  <2>3. QED
    BY <2>1, <2>2
<1>12. \E j \in 1..Len(RomfsBundle) : Spawns(RomfsBundle, j, One("romfs"), "romfsd")
  <2> DEFINE order == <<"romfsd", "probe">>
             heads == <<Prepare(One("romfs")), Wire(One("romfs"), Between("romfsd", "probe", "ep"))>>
             tail == [k \in 1..Len(order) |-> Spawn(One("romfs"), order[k])]
  <2>1. /\ Len(heads) = 2 /\ Len(tail) = 2
        /\ heads \in Seq({heads[1], heads[2]}) /\ tail \in Seq({tail[1], tail[2]})
        /\ tail[1] = Spawn(One("romfs"), "romfsd")
    OBVIOUS
  <2>2. RomfsBundle = heads \o tail
    BY DEF RomfsBundle, Bundle
  <2> HIDE DEF heads, tail
  <2>a. IsSeq(heads) /\ IsSeq(tail)
    BY <2>1, Zenon DEF IsSeq
  <2>b. Joined(RomfsBundle, heads, tail)
    BY <2>2, <2>a, Concatenated
  <2>3. Len(RomfsBundle) = 4 /\ RomfsBundle[3] = tail[1]
    <3>1. RomfsBundle[2 + 1] = tail[1]
      BY <2>1, <2>b DEF Joined
    <3>2. QED
      BY <2>1, <2>b, <3>1 DEF Joined
  <2>4. Spawns(RomfsBundle, 3, One("romfs"), "romfsd")
    BY <2>1, <2>3, StepFields DEF Spawns, Spawn
  <2>5. QED
    BY <2>3, <2>4
<1>13. \E j \in 1..Len(q6) : Spawns(q6, j, One("romfs"), "romfsd")
  <2>1. IsSeq(q5) /\ IsSeq(RomfsBundle) /\ q6 = q5 \o RomfsBundle
    BY <1>5, <1>10 DEF Segment
  <2> HIDE DEF q6
  <2>2. Joined(q6, q5, RomfsBundle)
    BY <2>1, Concatenated
  <2>3. PICK j \in 1..Len(RomfsBundle) : Spawns(RomfsBundle, j, One("romfs"), "romfsd")
    BY <1>12
  <2>4. Len(q5) + j \in 1..Len(q6) /\ q6[Len(q5) + j] = RomfsBundle[j]
    BY <2>2 DEF Joined
  <2>5. Spawns(q6, Len(q5) + j, One("romfs"), "romfsd")
    BY <2>3, <2>4 DEF Spawns
  <2>6. QED
    BY <2>4, <2>5
<1>14. QED
  BY <1>0, <1>11, <1>13

\* romfsd is spawned, and the gateway's probe only after it.
AfterRomfsd(s) ==
  /\ \E j \in 1..Len(s) : Spawns(s, j, One("romfs"), "romfsd")
  /\ \A k \in 1..Len(s) : s[k].group[1] = "abi" =>
       \E j \in 1..k - 1 : Spawns(s, j, One("romfs"), "romfsd")

LEMMA AfterRomfsdJoin ==
  ASSUME NEW s, NEW t, NEW u, IsSeq(s), IsSeq(t), u = s \o t, AfterRomfsd(s)
  PROVE  AfterRomfsd(u)
<1>1. Joined(u, s, t)
  BY Concatenated
<1>2. PICK j \in 1..Len(s) : Spawns(s, j, One("romfs"), "romfsd")
  BY DEF AfterRomfsd
<1>3. j \in 1..Len(u) /\ Spawns(u, j, One("romfs"), "romfsd")
  BY <1>1, <1>2 DEF Joined, Spawns
<1>4. ASSUME NEW k \in 1..Len(u), u[k].group[1] = "abi"
      PROVE  \E i \in 1..k - 1 : Spawns(u, i, One("romfs"), "romfsd")
  <2>1. CASE k \in 1..Len(s)
    <3>1. u[k] = s[k]
      BY <1>1, <2>1 DEF Joined
    <3>2. PICK i \in 1..k - 1 : Spawns(s, i, One("romfs"), "romfsd")
      BY <1>4, <2>1, <3>1 DEF AfterRomfsd
    <3>3. i \in 1..Len(s)
      BY <1>1, <2>1 DEF Joined
    <3>4. u[i] = s[i]
      BY <1>1, <3>3 DEF Joined
    <3>5. QED
      BY <3>2, <3>4 DEF Spawns
  <2>2. CASE k \notin 1..Len(s)
    <3>1. j \in 1..k - 1
      BY <1>1, <2>2 DEF Joined
    <3>2. QED
      BY <1>3, <3>1
  <2>3. QED
    BY <2>1, <2>2
<1>5. QED
  BY <1>3, <1>4 DEF AfterRomfsd

(* Every plan is in order.                                                 *)
LEMMA PlanInOrder ==
  ASSUME NEW p
  PROVE  Segment(Plan(p), RomfsNames \cup {"abi"}) /\ AfterRomfsd(Plan(p))
<1> DEFINE nx == When(p.nx, <<Step("await", One("nx"), "fallible")>>)
           dormant == When(p.edu = <<>>,
                           <<Prepare(One("dormant")), Spawn(One("dormant"), "driver")>>)
           r0 == UpToRomfs(p)
           r1 == r0 \o Service("consoled")
           r2 == r1 \o Service("abi-gated")
           r3 == r2 \o AbiProbe
           r4 == r3 \o nx
           r5 == r4 \o Service("modld")
           r6 == r5 \o Service("modexec")
           r7 == r6 \o dormant
<1>0. Plan(p) = r7
  BY PlanParts DEF UpToAbi
<1>1. Segment(r0, RomfsNames)
  BY UpToRomfsInOrder
<1>2. AfterRomfsd(r0)
  <2>1. \A k \in 1..Len(r0) : r0[k].group[1] # "abi"
    BY <1>1 DEF Segment, RomfsNames, FixtureNames, LooseNames
  <2>2. QED
    BY <2>1, UpToRomfsInOrder DEF AfterRomfsd
<1>3. /\ Segment(Service("consoled"), {}) /\ Segment(Service("abi-gated"), {})
      /\ Segment(Service("modld"), {}) /\ Segment(Service("modexec"), {})
  BY ServiceInOrder DEF LooseNames
<1>4. Segment(AbiProbe, {"abi"})
  BY AbiInOrder DEF AbiProbe
<1>5. Segment(nx, {})
  BY LooseStep, SegmentWhen DEF LooseNames
<1>6. Segment(dormant, {})
  BY LooseProcess, SegmentWhen DEF LooseNames
<1>7. RomfsNames \cap LooseNames = {} /\ (RomfsNames \cup {"abi"}) \cap LooseNames = {}
  BY DEF RomfsNames, FixtureNames, LooseNames
<1> HIDE DEF nx, dormant, r0
\* A part that nothing is wired in may follow.
<1>8. ASSUME NEW N, N \cap LooseNames = {}, NEW s, NEW t, NEW u, Segment(s, N), Segment(t, {}),
             u = s \o t, AfterRomfsd(s)
      PROVE  Segment(u, N) /\ AfterRomfsd(u)
  <2>1. Segment(u, N \cup {})
    BY <1>8, Join
  <2>2. IsSeq(s) /\ IsSeq(t)
    BY <1>8 DEF Segment
  <2>3. AfterRomfsd(u)
    BY <1>8, <2>2, AfterRomfsdJoin
  <2>4. QED
    BY <2>1, <2>3
<1>9. Segment(r1, RomfsNames) /\ AfterRomfsd(r1)
  BY <1>3, <1>7, <1>8, <1>1, <1>2
<1> HIDE DEF r1
<1>10. Segment(r2, RomfsNames) /\ AfterRomfsd(r2)
  BY <1>3, <1>7, <1>8, <1>9
<1> HIDE DEF r2
<1>11. Segment(r3, RomfsNames \cup {"abi"}) /\ AfterRomfsd(r3)
  <2>1. RomfsNames \cap {"abi"} = {} /\ {"abi"} \cap LooseNames = {}
    BY DEF RomfsNames, FixtureNames, LooseNames
  <2>2. Segment(r3, RomfsNames \cup {"abi"})
    BY <1>4, <1>7, <1>10, <2>1, Join
  <2>3. IsSeq(r2) /\ IsSeq(AbiProbe)
    BY <1>4, <1>10 DEF Segment
  <2>4. QED
    BY <1>10, <2>2, <2>3, AfterRomfsdJoin
<1> HIDE DEF r3
<1>12. Segment(r4, RomfsNames \cup {"abi"}) /\ AfterRomfsd(r4)
  BY <1>5, <1>7, <1>8, <1>11
<1> HIDE DEF r4
<1>13. Segment(r5, RomfsNames \cup {"abi"}) /\ AfterRomfsd(r5)
  BY <1>3, <1>7, <1>8, <1>12
<1> HIDE DEF r5
<1>14. Segment(r6, RomfsNames \cup {"abi"}) /\ AfterRomfsd(r6)
  BY <1>3, <1>7, <1>8, <1>13
<1> HIDE DEF r6
<1>15. Segment(r7, RomfsNames \cup {"abi"}) /\ AfterRomfsd(r7)
  BY <1>6, <1>7, <1>8, <1>14
<1>16. QED
  BY <1>0, <1>15

-----------------------------------------------------------------------------
(* What has been done when root is at step pc of its plan.                 *)

P == Plan(profile)
Behind == 1..pc - 1

CapOf(g, b) == <<Process(g, b.to), b.slot, Object(g, b.obj)>>

\* Root waits at a step of its plan that says so.
PlaceInv ==
  /\ pc \in Nat \ {0}
  /\ root = "waiting" => pc \in 1..Len(P) /\ P[pc].op = "await"

\* The caps are those of the tables behind root, ...
CapsInv ==
  /\ \A c \in caps : \E j \in Behind :
       j \in 1..Len(P) /\ P[j].op = "wire" /\ \E b \in Entries(P[j].arg) : c = CapOf(P[j].group, b)
  /\ \A j \in Behind : P[j].op = "wire" =>
       \A b \in Entries(P[j].arg) : CapOf(P[j].group, b) \in caps

\* ... the processes those spawned behind root, ...
RunInv ==
  /\ \A p \in live \cup held : \E j \in Behind :
       /\ j \in 1..Len(P) /\ P[j].op = "spawn" /\ p = Process(P[j].group, P[j].arg)
       /\ p \in held <=> Suspended(P[j].group, P[j].arg)
       /\ p \in live <=> ~Suspended(P[j].group, P[j].arg)
  /\ \A j \in Behind : P[j].op = "spawn" =>
       Process(P[j].group, P[j].arg) \in IF Suspended(P[j].group, P[j].arg) THEN held ELSE live

\* ... and a device has its number as its token from when it is issued.
Issued(i) == \E j \in Behind : Issues(P, j, <<"edu", i>>)
TokenInv ==
  /\ token = [i \in Instances |-> IF Issued(i) THEN i + 1 ELSE 0]
  /\ next = IF Issued(1) THEN 3 % TokenModulus ELSE IF Issued(0) THEN 2 ELSE 1
ToldInv ==
  \A t \in told : \E g, who : g[2] \in Instances /\ t = <<Process(g, who), g[2] + 1>>

BootInv == PlaceInv /\ CapsInv /\ RunInv /\ TokenInv /\ ToldInv

(* What the plan promises of root's next step, and of those behind it.     *)
LEMMA PlanFacts ==
  /\ IsSeq(P) /\ Len(P) \in Nat
  /\ \A k \in 1..Len(P) :
       /\ IsPair(P[k].group)
       /\ P[k].op = "wire" => WireInOrder(P, k, P[k].group)
       /\ P[k].op = "token" => IssueInOrder(P, k, P[k].group)
       /\ P[k].op = "spawn" /\ P[k].group[1] \notin LooseNames => SpawnInOrder(P, k, P[k].group)
  /\ AfterRomfsd(P)
<1>1. Segment(P, RomfsNames \cup {"abi"}) /\ AfterRomfsd(P)
  BY PlanInOrder DEF P
<1>2. IsSeq(P)
  BY <1>1 DEF Segment
<1>3. Len(P) \in Nat
  BY <1>2 DEF IsSeq
<1> HIDE DEF P
<1>4. ASSUME NEW k \in 1..Len(P)
      PROVE  /\ IsPair(P[k].group)
             /\ P[k].group[1] \in LooseNames => P[k].op \notin {"wire", "token"}
             /\ P[k].group[1] \notin LooseNames => StepInOrder(P, k, P[k].group)
  BY <1>1 DEF Segment, Ordered
<1>5. QED
  BY <1>1, <1>2, <1>3, <1>4 DEF StepInOrder

LEMMA BootInit == Init => BootInv
<1> SUFFICES ASSUME Init PROVE BootInv
  OBVIOUS
<1>1. pc = 1 /\ Behind = {}
  BY DEF Init, Behind
<1>2. ~Issued(0) /\ ~Issued(1) /\ \A i \in Instances : ~Issued(i)
  BY <1>1 DEF Issued
<1>3. TokenInv
  BY <1>2 DEF Init, TokenInv
<1>4. QED
  BY <1>1, <1>3 DEF Init, BootInv, PlaceInv, CapsInv, RunInv, ToldInv

\* A step that does not move root on
LEMMA BootStays ==
  ASSUME BootInv, UNCHANGED <<profile, pc, caps, live, held, token, next, told>>,
         root' = "waiting" => pc \in 1..Len(P) /\ P[pc].op = "await"
  PROVE  BootInv'
<1>1. P' = P /\ Behind' = Behind
  BY DEF P, Behind
<1> HIDE DEF P, Behind
<1>2. PlaceInv' /\ CapsInv' /\ RunInv' /\ ToldInv'
  BY <1>1 DEF BootInv, PlaceInv, CapsInv, RunInv, ToldInv
<1>3. \A i : Issued(i)' <=> Issued(i)
  BY <1>1 DEF Issued
<1>4. TokenInv'
  BY <1>3 DEF BootInv, TokenInv
<1>5. QED
  BY <1>2, <1>4 DEF BootInv

\* A step that does
Moves == pc' = pc + 1 /\ profile' = profile /\ root' # "waiting" /\ pc \in 1..Len(P)

LEMMA BehindMoves ==
  ASSUME BootInv, Moves
  PROVE  P' = P /\ PlaceInv' /\ Behind' = Behind \cup {pc} /\ pc \notin Behind
<1>1. pc \in Nat \ {0}
  BY DEF BootInv, PlaceInv
<1>2. QED
  BY <1>1 DEF Moves, P, PlaceInv, Behind

LEMMA CapsMove ==
  ASSUME BootInv, Moves,
         caps' = IF At.op = "wire" THEN caps \cup Copies(At.group, At.arg) ELSE caps
  PROVE  CapsInv'
<1>1. P' = P /\ Behind' = Behind \cup {pc} /\ At = P[pc] /\ pc \in 1..Len(P)
  BY BehindMoves DEF At, P, Moves
<1> HIDE DEF P
<1>2. Copies(P[pc].group, P[pc].arg) = {CapOf(P[pc].group, b) : b \in Entries(P[pc].arg)}
  BY DEF Copies, CapOf, Entries
<1>3. CapsInv
  BY DEF BootInv
<1>4. caps' = IF P[pc].op = "wire" THEN caps \cup {CapOf(P[pc].group, b) : b \in Entries(P[pc].arg)}
                                   ELSE caps
  BY <1>1, <1>2
<1>5. ASSUME NEW c \in caps'
      PROVE  \E j \in Behind \cup {pc} : /\ j \in 1..Len(P) /\ P[j].op = "wire"
                                        /\ \E b \in Entries(P[j].arg) : c = CapOf(P[j].group, b)
  BY <1>1, <1>3, <1>4 DEF CapsInv
<1>6. ASSUME NEW j \in Behind \cup {pc}, P[j].op = "wire", NEW b \in Entries(P[j].arg)
      PROVE  CapOf(P[j].group, b) \in caps'
  BY <1>3, <1>4, <1>6 DEF CapsInv
<1>7. QED
  BY <1>1, <1>5, <1>6 DEF CapsInv, CapOf, Process, Object

LEMMA RunMove ==
  ASSUME BootInv, Moves,
         IF At.op = "spawn"
           THEN LET p == Process(At.group, At.arg) IN
                IF Suspended(At.group, At.arg) THEN held' = held \cup {p} /\ live' = live
                                               ELSE live' = live \cup {p} /\ held' = held
           ELSE UNCHANGED <<live, held>>
  PROVE  RunInv'
<1>1. P' = P /\ Behind' = Behind \cup {pc} /\ At = P[pc] /\ pc \in 1..Len(P)
  BY BehindMoves DEF At, P, Moves
<1> HIDE DEF P
<1> DEFINE q(j) == Process(P[j].group, P[j].arg)
           susp(j) == Suspended(P[j].group, P[j].arg)
<1>2. RunInv
  BY DEF BootInv
<1>3. \A j, k : q(j) = q(k) => (susp(j) <=> susp(k))
  BY DEF Process, Suspended
<1>4. /\ \A p \in live \cup held : \E j \in Behind :
            /\ j \in 1..Len(P) /\ P[j].op = "spawn" /\ p = q(j)
            /\ (p \in held <=> susp(j)) /\ (p \in live <=> ~susp(j))
      /\ \A j \in Behind : P[j].op = "spawn" => q(j) \in IF susp(j) THEN held ELSE live
  BY <1>2 DEF RunInv
<1>5. IF P[pc].op = "spawn"
        THEN IF susp(pc) THEN held' = held \cup {q(pc)} /\ live' = live
                         ELSE live' = live \cup {q(pc)} /\ held' = held
        ELSE UNCHANGED <<live, held>>
  BY <1>1
<1> HIDE DEF q, susp
<1>6. ASSUME NEW p \in (live \cup held)'
      PROVE  \E j \in Behind \cup {pc} :
               /\ j \in 1..Len(P) /\ P[j].op = "spawn" /\ p = q(j)
               /\ (p \in held' <=> susp(j)) /\ (p \in live' <=> ~susp(j))
  <2>1. CASE p \in live \cup held
    <3>1. PICK j \in Behind : /\ j \in 1..Len(P) /\ P[j].op = "spawn" /\ p = q(j)
                              /\ (p \in held <=> susp(j)) /\ (p \in live <=> ~susp(j))
      BY <1>4, <2>1
    <3>2. (p \in held' <=> susp(j)) /\ (p \in live' <=> ~susp(j))
      BY <1>3, <1>5, <3>1
    <3>3. QED
      BY <3>1, <3>2
  <2>2. CASE p \notin live \cup held
    <3>1. /\ P[pc].op = "spawn" /\ p = q(pc)
          /\ (p \in held' <=> susp(pc)) /\ (p \in live' <=> ~susp(pc))
      BY <1>5, <1>6, <2>2
    <3>2. QED
      BY <1>1, <3>1
  <2>3. QED
    BY <2>1, <2>2
<1>7. ASSUME NEW j \in Behind \cup {pc}, P[j].op = "spawn"
      PROVE  q(j) \in IF susp(j) THEN held' ELSE live'
  <2>1. CASE j \in Behind
    <3>1. q(j) \in IF susp(j) THEN held ELSE live
      BY <1>4, <1>7, <2>1
    <3>2. held \subseteq held' /\ live \subseteq live'
      BY <1>5
    <3>3. QED
      BY <3>1, <3>2
  <2>2. CASE j = pc
    BY <1>5, <1>7, <2>2
  <2>3. QED
    BY <2>1, <2>2
<1>8. QED
  BY <1>1, <1>6, <1>7 DEF RunInv, q, susp, Process, Suspended

LEMMA TokenMove ==
  ASSUME BootInv, Moves,
         IF At.op = "token"
           THEN LET i == At.group[2]
                    fresh == IF next = 0 THEN 1 ELSE next IN
                /\ token' = [token EXCEPT ![i] = fresh]
                /\ next' = (fresh + 1) % TokenModulus
           ELSE UNCHANGED <<token, next>>
  PROVE  TokenInv'
<1>1. P' = P /\ Behind' = Behind \cup {pc} /\ At = P[pc] /\ pc \in 1..Len(P) /\ Behind = 1..pc - 1
  BY BehindMoves DEF At, P, Moves, Behind
<1>2. P[pc].op = "token" => IssueInOrder(P, pc, P[pc].group)
  BY <1>1, PlanFacts
<1> HIDE DEF P
<1>3. TokenInv
  BY DEF BootInv
<1>4. \A i : Issued(i)' <=> Issued(i) \/ Issues(P, pc, <<"edu", i>>)
  BY <1>1 DEF Issued, Issues
<1>5. Instances = {0, 1}
  BY DEF Instances, MaxEdu
<1>6. CASE P[pc].op # "token"
  <2>1. \A i : Issued(i)' <=> Issued(i)
    BY <1>4, <1>6 DEF Issues
  <2>2. token' = token /\ next' = next
    BY <1>1, <1>6
  <2>3. QED
    BY <1>3, <2>1, <2>2 DEF TokenInv
<1>7. CASE P[pc].op = "token" /\ P[pc].group = <<"edu", 0>>
  <2>1. ~Issued(0)
    BY <1>1, <1>2, <1>7 DEF IssueInOrder, Issued
  <2>2. ~Issued(1)
    <3> SUFFICES ASSUME NEW j \in Behind, Issues(P, j, <<"edu", 1>>) PROVE FALSE
      BY DEF Issued
    <3>1. j \in 1..Len(P) /\ j \in 1..pc - 1
      BY <1>1
    <3>2. IssueInOrder(P, j, <<"edu", 1>>)
      BY <3>1, PlanFacts DEF Issues
    <3>3. PICK m \in 1..j - 1 : Issues(P, m, <<"edu", 0>>)
      BY <3>2 DEF IssueInOrder
    <3>4. m \in Behind
      BY <1>1, <3>1, <3>3
    <3>5. QED
      BY <2>1, <3>3, <3>4 DEF Issued
  <2>3. Issued(0)' /\ ~Issued(1)'
    BY <1>4, <1>7, <2>2 DEF Issues
  <2>4. next = 1 /\ token = [i \in Instances |-> 0]
    BY <1>3, <1>5, <2>1, <2>2 DEF TokenInv
  <2>5. 2 % TokenModulus = 2
    BY TokenModulusAssumption DEF MaxEdu
  <2>6. token' = [token EXCEPT ![0] = 1] /\ next' = 2
    BY <1>1, <1>7, <2>4, <2>5
  <2>7. token' = [i \in Instances |-> IF Issued(i)' THEN i + 1 ELSE 0]
    <3>1. \A i \in Instances : Issued(i)' <=> i = 0
      <4>1. \A i \in Instances : Issued(i) \/ Issues(P, pc, <<"edu", i>>) <=> i = 0
        BY <1>5, <1>7, <2>2 DEF Issues
      <4>2. QED
        BY <1>4, <4>1
    <3>2. token' = [i \in Instances |-> IF i = 0 THEN i + 1 ELSE 0]
      <4>1. token' = [i \in Instances |-> IF i = 0 THEN 1 ELSE 0]
        BY <2>4, <2>6
      <4>2. \A i \in Instances : (IF i = 0 THEN 1 ELSE 0) = IF i = 0 THEN i + 1 ELSE 0
        OBVIOUS
      <4>3. QED
        BY <4>1, <4>2
    <3>3. QED
      BY <3>1, <3>2
  <2>8. QED
    BY <2>3, <2>6, <2>7 DEF TokenInv
<1>8. CASE P[pc].op = "token" /\ P[pc].group = <<"edu", 1>>
  <2>1. ~Issued(1) /\ Issued(0)
    BY <1>1, <1>2, <1>8 DEF IssueInOrder, Issued
  <2>2. Issued(0)' /\ Issued(1)'
    BY <1>4, <1>8, <2>1 DEF Issues
  <2>3. next = 2 /\ token = [i \in Instances |-> IF i = 0 THEN 1 ELSE 0]
    BY <1>3, <1>5, <2>1 DEF TokenInv
  <2>4. token' = [token EXCEPT ![1] = 2] /\ next' = 3 % TokenModulus
    BY <1>1, <1>8, <2>3
  <2>5. token' = [i \in Instances |-> IF Issued(i)' THEN i + 1 ELSE 0]
    <3>1. \A i \in Instances : Issued(i)'
      <4>1. \A i \in Instances : Issued(i) \/ Issues(P, pc, <<"edu", i>>)
        BY <1>5, <1>8, <2>1 DEF Issues
      <4>2. QED
        BY <1>4, <4>1
    <3>2. token' = [i \in Instances |-> i + 1]
      <4>1. token' = [i \in Instances |-> IF i = 1 THEN 2 ELSE IF i = 0 THEN 1 ELSE 0]
        BY <2>3, <2>4
      <4>2. \A i \in Instances : (IF i = 1 THEN 2 ELSE IF i = 0 THEN 1 ELSE 0) = i + 1
        BY <1>5
      <4>3. QED
        BY <4>1, <4>2
    <3>3. QED
      BY <3>1, <3>2
  <2>6. QED
    BY <2>2, <2>4, <2>5 DEF TokenInv
<1>9. QED
  BY <1>2, <1>6, <1>7, <1>8 DEF IssueInOrder

LEMMA ToldMove ==
  ASSUME BootInv, Moves,
         \/ told' = told
         \/ /\ At.op = "spawn" /\ At.group[1] = "edu"
            /\ told' = told \cup {<<Process(At.group, At.arg), token[At.group[2]]>>}
  PROVE  ToldInv'
<1>1. ToldInv /\ TokenInv
  BY DEF BootInv
<1>2. CASE told' = told
  BY <1>1, <1>2 DEF ToldInv
<1>3. CASE /\ At.op = "spawn" /\ At.group[1] = "edu"
           /\ told' = told \cup {<<Process(At.group, At.arg), token[At.group[2]]>>}
  <2>1. At = P[pc] /\ pc \in 1..Len(P) /\ Behind = 1..pc - 1
    BY DEF Moves, At, P, Behind
  <2> DEFINE g == P[pc].group
  <2>2. "edu" \notin LooseNames
    BY DEF LooseNames
  <2>3. SpawnInOrder(P, pc, g) /\ IsPair(g)
    BY <1>3, <2>1, <2>2, PlanFacts
  <2>4. g[1] = "edu"
    BY <1>3, <2>1
  <2> HIDE DEF g
  <2>5. g[2] \in Instances /\ \E j \in Behind : Issues(P, j, g)
    BY <2>1, <2>3, <2>4 DEF SpawnInOrder
  <2>6. g = <<"edu", g[2]>>
    BY <2>3, <2>4 DEF IsPair
  <2>7. Issued(g[2])
    BY <2>5, <2>6 DEF Issued
  <2>8. token[g[2]] = g[2] + 1
    BY <1>1, <2>5, <2>7 DEF TokenInv
  <2>9. told' = told \cup {<<Process(g, At.arg), g[2] + 1>>}
    BY <1>3, <2>1, <2>8 DEF g
  <2>10. QED
    BY <1>1, <2>5, <2>9 DEF ToldInv
<1>4. QED
  BY <1>2, <1>3

LEMMA BootStep == BootInv /\ [Next]_vars => BootInv'
<1> SUFFICES ASSUME BootInv, [Next]_vars PROVE BootInv'
  OBVIOUS
<1>p. PlaceInv /\ Len(P) \in Nat /\ At = P[pc]
  BY PlanFacts DEF BootInv, At, P
\* Whatever moves root on does so for the four parts of the invariant.
<1>m. ASSUME Moves, CapsInv', RunInv', TokenInv', ToldInv' PROVE BootInv'
  BY <1>m, BehindMoves DEF BootInv
<1>q. ASSUME Moves, At.op \notin {"wire", "spawn", "token"},
             UNCHANGED <<caps, live, held, token, next, told>>
      PROVE  BootInv'
  <2>1. CapsInv'
    BY <1>q, CapsMove
  <2>2. RunInv'
    BY <1>q, RunMove
  <2>3. TokenInv'
    BY <1>q, TokenMove
  <2>4. ToldInv'
    BY <1>q, ToldMove
  <2>5. QED
    BY <1>q, <1>m, <2>1, <2>2, <2>3, <2>4
<1>r. ASSUME NEW op, Reached(op), Done PROVE Moves /\ At.op = op
  BY <1>p, <1>r DEF Reached, Done, Moves, P, PlaceInv
<1>s. ASSUME UNCHANGED <<profile, pc, caps, live, held, token, next, told>>,
             root' # "waiting" \/ root' = root
      PROVE  BootInv'
  BY <1>p, <1>s, BootStays DEF PlaceInv
<1>1. CASE Fails
  BY <1>1, <1>s DEF Fails, Stop
<1>2. CASE Passes
  <2>1. PICK op \in {"environment", "experiment", "prepare", "dma"} : Reached(op)
    BY <1>2 DEF Passes
  <2>2. Done /\ UNCHANGED <<caps, live, held, token, next, told>>
    BY <1>2 DEF Passes
  <2>3. Moves /\ At.op = op
    BY <1>r, <2>1, <2>2
  <2>4. QED
    BY <1>q, <2>2, <2>3
<1>3. CASE IssueToken
  <2>1. Reached("token") /\ Done /\ UNCHANGED <<caps, live, held, told>>
    BY <1>3 DEF IssueToken
  <2>2. Moves /\ At.op = "token"
    BY <1>r, <2>1
  <2>3. CapsInv'
    BY <2>1, <2>2, CapsMove
  <2>4. RunInv'
    BY <2>1, <2>2, RunMove
  <2>5. TokenInv'
    BY <1>3, <2>2, TokenMove DEF IssueToken
  <2>6. ToldInv'
    BY <2>1, <2>2, ToldMove
  <2>7. QED
    BY <1>m, <2>2, <2>3, <2>4, <2>5, <2>6
<1>4. CASE IssueIrq
  <2>1. CASE Stop(TRUE)
    BY <1>s, <2>1 DEF Stop
  <2>2. CASE Done /\ UNCHANGED <<caps, live, held, token, next, told>>
    <3>1. Reached("irq")
      BY <1>4 DEF IssueIrq
    <3>2. Moves /\ At.op = "irq"
      BY <1>r, <2>2, <3>1
    <3>3. QED
      BY <1>q, <2>2, <3>2
  <2>3. QED
    BY <1>4, <2>1, <2>2 DEF IssueIrq
<1>5. CASE WireStep
  <2>1. CASE Stop(FALSE)
    BY <1>s, <2>1 DEF Stop
  <2>2. CASE /\ caps' = caps \cup Copies(At.group, At.arg)
             /\ Done /\ UNCHANGED <<live, held, token, next, told>>
    <3>1. Reached("wire")
      BY <1>5 DEF WireStep
    <3>2. Moves /\ At.op = "wire"
      BY <1>r, <2>2, <3>1
    <3>3. CapsInv'
      BY <2>2, <3>2, CapsMove
    <3>4. RunInv'
      BY <2>2, <3>2, RunMove
    <3>5. TokenInv'
      BY <2>2, <3>2, TokenMove
    <3>6. ToldInv'
      BY <2>2, <3>2, ToldMove
    <3>7. QED
      BY <1>m, <3>2, <3>3, <3>4, <3>5, <3>6
  <2>3. QED
    BY <1>5, <2>1, <2>2 DEF WireStep
<1>6. CASE SpawnStep
  <2>1. Reached("spawn") /\ Done /\ UNCHANGED <<caps, token, next>>
    BY <1>6 DEF SpawnStep
  <2>2. Moves /\ At.op = "spawn"
    BY <1>r, <2>1
  <2>3. CapsInv'
    BY <2>1, <2>2, CapsMove
  <2>4. RunInv'
    BY <1>6, <2>2, RunMove DEF SpawnStep
  <2>5. TokenInv'
    BY <2>1, <2>2, TokenMove
  <2>6. ToldInv'
    BY <1>6, <2>2, ToldMove DEF SpawnStep
  <2>7. QED
    BY <1>m, <2>2, <2>3, <2>4, <2>5, <2>6
<1>7. CASE BeginWait
  <2>1. Reached("await") /\ UNCHANGED <<profile, pc, caps, live, held, token, next, told>>
    BY <1>7 DEF BeginWait
  <2>2. pc \in 1..Len(P) /\ P[pc].op = "await"
    BY <1>p, <2>1 DEF Reached, P, PlaceInv
  <2>3. QED
    BY <2>1, <2>2, BootStays
<1>8. CASE Lower
  BY <1>8, <1>s DEF Lower
<1>9. CASE LowerFails
  BY <1>9, <1>s DEF LowerFails, Stop
<1>10. CASE Dispatch
  BY <1>10, <1>s DEF Dispatch
<1>11. CASE WaitEnds
  <2>1. root = "waiting" /\ root' = "booting" /\ pc' = pc + 1
        /\ UNCHANGED <<profile, caps, live, held, token, next, told>>
    BY <1>11 DEF WaitEnds, CanPass
  <2>2. Moves /\ At.op = "await"
    BY <1>p, <2>1 DEF Moves, PlaceInv
  <2>3. QED
    BY <1>q, <2>1, <2>2
<1>12. CASE WaitFails
  BY <1>12, <1>s DEF WaitFails, Stop
<1>13. CASE DispatchCall
  BY <1>13, <1>s DEF DispatchCall
<1>14. CASE UNCHANGED vars
  BY <1>14, <1>s DEF vars
<1>15. QED
  BY <1>1, <1>2, <1>3, <1>4, <1>5, <1>6, <1>7, <1>8, <1>9, <1>10, <1>11, <1>12, <1>13, <1>14
  DEF Next, RootStep, Others

LEMMA BootInvariant == RootSpec => []BootInv
<1>1. RootInit => BootInv
  BY BootInit DEF RootInit
<1>2. BootInv /\ [RootNext]_<<part, vars, nxVars>> => BootInv'
  <2>1. [RootNext]_<<part, vars, nxVars>> => [Next]_vars
    BY DEF RootNext
  <2>2. QED
    BY <2>1, BootStep
<1>3. QED
  BY <1>1, <1>2, PTL DEF RootSpec

(* TokensIdentify: the daemons started for one edu device have been given  *)
(* the same token, never zero, and those of two devices different ones, for *)
(* any profile and modulus (edu_device_token and next_device_token of      *)
(* selinos_edu_domain.c, domain_manager.c).                                *)
THEOREM TokensCorrect == RootSpec => []TokensIdentify
<1>1. BootInv => TokensIdentify
  <2> SUFFICES ASSUME BootInv PROVE TokensIdentify
    OBVIOUS
  <2>1. \A t \in told : \E g, who : g[2] \in Instances /\ t = <<Process(g, who), g[2] + 1>>
    BY DEF BootInv, ToldInv
  <2>2. \A g, who : Process(g, who)[2] = g[2]
    BY DEF Process
  <2>3. \A t \in told : t[1][2] \in Instances /\ t[2] = t[1][2] + 1
    BY <2>1, <2>2
  <2>4. Instances \subseteq Nat
    BY DEF Instances
  <2>5. ASSUME NEW s \in told, NEW t \in told
        PROVE  s[2] # 0 /\ (s[2] = t[2] <=> s[1][2] = t[1][2])
    <3>1. PICK m \in Nat : s[1][2] = m /\ s[2] = m + 1
      BY <2>3, <2>4
    <3>2. PICK n \in Nat : t[1][2] = n /\ t[2] = n + 1
      BY <2>3, <2>4
    <3>3. m + 1 # 0 /\ (m + 1 = n + 1 <=> m = n)
      OBVIOUS
    <3>4. QED
      BY <3>1, <3>2, <3>3
  <2>6. QED
    BY <2>5 DEF TokensIdentify
<1>2. QED
  BY <1>1, BootInvariant, PTL

\* Of and Suspended depend on the bundle alone.
LEMMA SameBundle ==
  ASSUME NEW g, NEW h, g[1] = h[1]
  PROVE  /\ Of(Calls, g) = Of(Calls, h) /\ Of(Shares, g) = Of(Shares, h)
         /\ \A who : Suspended(g, who) <=> Suspended(h, who)
BY DEF Of, Suspended

LEMMA LooseCalls ==
  ASSUME NEW g, g[1] \in LooseNames \cup {"abi"}
  PROVE  Of(Calls, g) = {} /\ Of(Shares, g) = {}
<1>1. DOMAIN Calls = {"objectd", "memd", "romfs", "dynamic", "lifecycle", "reservation",
                      "opaque", "tcb_lease", "tcb_resume", "edu"}
  BY DEF Calls
<1>2. DOMAIN Shares = {"lifecycle", "reservation", "opaque", "tcb_lease", "tcb_resume", "edu"}
  BY DEF Shares
<1>3. QED
  BY <1>1, <1>2 DEF Of, LooseNames

\* A process that runs or is held was spawned by a step behind root.
LEMMA SpawnedBehind ==
  ASSUME BootInv, NEW g, NEW who, Process(g, who) \in live \cup held
  PROVE  \E j \in Behind :
           /\ j \in 1..Len(P) /\ P[j].op = "spawn" /\ P[j].arg = who
           /\ P[j].group[1] = g[1] /\ P[j].group[2] = g[2]
           /\ Process(g, who) \in live <=> ~Suspended(P[j].group, who)
<1>1. \A h, r : Process(h, r)[1] = h[1] /\ Process(h, r)[2] = h[2] /\ Process(h, r)[3] = r
  BY DEF Process
<1>2. PICK j \in Behind :
        /\ j \in 1..Len(P) /\ P[j].op = "spawn"
        /\ Process(g, who) = Process(P[j].group, P[j].arg)
        /\ Process(g, who) \in live <=> ~Suspended(P[j].group, P[j].arg)
  BY DEF BootInv, RunInv
<1>3. P[j].arg = who /\ P[j].group[1] = g[1] /\ P[j].group[2] = g[2]
  BY <1>1, <1>2
<1>4. QED
  BY <1>2, <1>3

(* Whoever calls runs only after whoever answers.                          *)
LEMMA ServersAreFirst == BootInv => ServersFirst
<1> SUFFICES ASSUME BootInv PROVE ServersFirst
  OBVIOUS
<1>1. ASSUME NEW g, NEW l \in Of(Calls, g), Process(g, l.from) \in live
      PROVE  Process(g, l.to) \in live
  <2>1. PICK j \in Behind :
          /\ j \in 1..Len(P) /\ P[j].op = "spawn" /\ P[j].arg = l.from
          /\ P[j].group[1] = g[1] /\ P[j].group[2] = g[2]
          /\ ~Suspended(P[j].group, l.from)
    BY <1>1, SpawnedBehind
  <2> DEFINE h == P[j].group
  <2>2. Of(Calls, h) = Of(Calls, g)
    BY <2>1, SameBundle
  <2>3. h[1] \notin LooseNames
    BY <1>1, <2>2, LooseCalls
  <2>4. SpawnInOrder(P, j, h)
    BY <2>1, <2>3, PlanFacts
  <2>5. PICK i \in 1..j - 1 : Spawns(P, i, h, l.to)
    BY <1>1, <2>1, <2>2, <2>4 DEF SpawnInOrder
  <2>6. ~Suspended(h, l.to)
    BY <1>1, <2>1, <2>2, <2>4 DEF SpawnInOrder
  <2>7. i \in Behind
    BY <2>1, <2>5 DEF Behind, BootInv, PlaceInv
  <2>8. Process(h, l.to) \in live
    BY <2>5, <2>6, <2>7 DEF BootInv, RunInv, Spawns
  <2>9. Process(h, l.to) = Process(g, l.to)
    BY <2>1 DEF Process
  <2>10. QED
    BY <2>8, <2>9
<1>2. ASSUME root = "waiting", At.group = One("abi") PROVE <<"romfs", 0, "romfsd">> \in live
  <2>1. pc \in 1..Len(P) /\ P[pc].group[1] = "abi"
    BY <1>2, GroupOf DEF BootInv, PlaceInv, At, P
  <2>2. PICK j \in 1..pc - 1 : Spawns(P, j, One("romfs"), "romfsd")
    BY <2>1, PlanFacts DEF AfterRomfsd
  <2>3. ~Suspended(One("romfs"), "romfsd")
    BY GroupOf DEF Suspended
  <2>4. Process(One("romfs"), "romfsd") \in live
    BY <2>2, <2>3 DEF Spawns, BootInv, RunInv, Behind
  <2>5. Process(One("romfs"), "romfsd") = <<"romfs", 0, "romfsd">>
    BY GroupOf DEF Process
  <2>6. QED
    BY <2>4, <2>5
<1>3. QED
  BY <1>1, <1>2 DEF ServersFirst

(* Whatever is still to be wired belongs to a process not yet spawned.     *)
LEMMA WiredFirst == BootInv => WiredBeforeRun
<1> SUFFICES ASSUME BootInv, NEW k \in pc..Len(P), P[k].op = "wire",
                    NEW i \in 1..Len(P[k].arg),
                    Process(P[k].group, P[k].arg[i].to) \in live \cup held
             PROVE  FALSE
  BY DEF WiredBeforeRun, P
<1> DEFINE g == P[k].group
           b == P[k].arg[i]
<1>1. k \in 1..Len(P) /\ b \in Entries(P[k].arg)
  BY PlanFacts DEF BootInv, PlaceInv, Entries
<1>2. IsPair(g) /\ WireInOrder(P, k, g)
  BY <1>1, PlanFacts
<1>3. PICK j \in Behind :
        /\ j \in 1..Len(P) /\ P[j].op = "spawn" /\ P[j].arg = b.to
        /\ P[j].group[1] = g[1] /\ P[j].group[2] = g[2]
  BY SpawnedBehind
<1>4. P[j].group = g
  BY <1>2, <1>3, PlanFacts DEF IsPair
<1>5. j \in 1..k - 1
  BY <1>1, <1>3 DEF Behind, BootInv, PlaceInv
<1>6. Spawns(P, j, g, b.to)
  BY <1>3, <1>4 DEF Spawns
<1>7. QED
  BY <1>1, <1>2, <1>5, <1>6 DEF WireInOrder

(* WiredInOrder: wherever the boot stops, whoever may call runs only after *)
(* whoever answers, and no cap is left to give to a process that was       *)
(* spawned (the order of the copies and of the spawns in domain_manager.c  *)
(* and selinos_edu_domain.c).                                              *)
THEOREM WiringCorrect == RootSpec => []WiredInOrder
<1>1. BootInv => WiredInOrder
  BY ServersAreFirst, WiredFirst DEF WiredInOrder
<1>2. QED
  BY <1>1, BootInvariant, PTL

-----------------------------------------------------------------------------
(* Which object a slot of a wired process names.                           *)

\* What the tables of a bundle put in a slot of a process
Names(name, who, slot) ==
  {b.obj : b \in {c \in TableOf(name) : c.to = who /\ c.slot = slot}}
LinkMeets(name, l) ==
  /\ Names(name, l.from, l.at) = Names(name, l.to, l.there)
  /\ Names(name, l.from, l.at) # {}

LEMMA LinkEnds ==
  \A from, here, to, there :
    /\ Link(from, here, to, there).from = from /\ Link(from, here, to, there).at = here
    /\ Link(from, here, to, there).to = to /\ Link(from, here, to, there).there = there
BY DEF Link

LEMMA LinkMet ==
  ASSUME NEW name, NEW from, NEW here, NEW to, NEW there, NEW obj,
         Names(name, from, here) = {obj}, Names(name, to, there) = {obj}
  PROVE  LinkMeets(name, Link(from, here, to, there))
<1> DEFINE l == Link(from, here, to, there)
<1>1. l.from = from /\ l.at = here /\ l.to = to /\ l.there = there
  BY LinkEnds
<1> HIDE DEF l
<1>2. LinkMeets(name, l)
  BY <1>1 DEF LinkMeets
<1>3. QED
  BY <1>2 DEF l

LEMMA ObjectdMeets ==
  ASSUME NEW g, g[1] = "objectd"
  PROVE  \A l \in Of(Calls, g) \cup Of(Shares, g) : LinkMeets("objectd", l)
<1>1. TableOf("objectd") = {Cap("objectd", "ep", 8), Cap("probe", "ep", 8)}
  BY DEF TableOf, Entries, Between
<1>2. Names("objectd", "probe", 8) = {"ep"}
  BY <1>1, CapFields DEF Names
<1>3. Names("objectd", "objectd", 8) = {"ep"}
  BY <1>1, CapFields DEF Names
<1>4. Of(Calls, g) \cup Of(Shares, g) = {Link("probe", 8, "objectd", 8)}
  <2>1. Of(Calls, g) = {Link("probe", 8, "objectd", 8)}
    BY CallsOf, SameBundle, GroupOf
  <2>2. Of(Shares, g) = {}
    BY DEF Of, Shares
  <2>3. QED
    BY <2>1, <2>2
<1>5. LinkMeets("objectd", Link("probe", 8, "objectd", 8))
  BY <1>2, <1>3, LinkMet
<1>6. QED
  BY <1>4, <1>5

LEMMA MemdMeets ==
  ASSUME NEW g, g[1] = "memd"
  PROVE  \A l \in Of(Calls, g) \cup Of(Shares, g) : LinkMeets("memd", l)
<1>1. TableOf("memd") = {Cap("memd", "ep", 8), Cap("probe", "ep", 8)}
  BY DEF TableOf, Entries, Between
<1>2. Names("memd", "probe", 8) = {"ep"}
  BY <1>1, CapFields DEF Names
<1>3. Names("memd", "memd", 8) = {"ep"}
  BY <1>1, CapFields DEF Names
<1>4. Of(Calls, g) \cup Of(Shares, g) = {Link("probe", 8, "memd", 8)}
  <2>1. Of(Calls, g) = {Link("probe", 8, "memd", 8)}
    BY CallsOf, SameBundle, GroupOf
  <2>2. Of(Shares, g) = {}
    BY DEF Of, Shares
  <2>3. QED
    BY <2>1, <2>2
<1>5. LinkMeets("memd", Link("probe", 8, "memd", 8))
  BY <1>2, <1>3, LinkMet
<1>6. QED
  BY <1>4, <1>5

LEMMA RomfsMeets ==
  ASSUME NEW g, g[1] = "romfs"
  PROVE  \A l \in Of(Calls, g) \cup Of(Shares, g) : LinkMeets("romfs", l)
<1>1. TableOf("romfs") = {Cap("romfsd", "ep", 8), Cap("probe", "ep", 8)}
  BY DEF TableOf, Entries, Between
<1>2. Names("romfs", "probe", 8) = {"ep"}
  BY <1>1, CapFields DEF Names
<1>3. Names("romfs", "romfsd", 8) = {"ep"}
  BY <1>1, CapFields DEF Names
<1>4. Of(Calls, g) \cup Of(Shares, g) = {Link("probe", 8, "romfsd", 8)}
  <2>1. Of(Calls, g) = {Link("probe", 8, "romfsd", 8)}
    BY CallsOf, SameBundle, GroupOf
  <2>2. Of(Shares, g) = {}
    BY DEF Of, Shares
  <2>3. QED
    BY <2>1, <2>2
<1>5. LinkMeets("romfs", Link("probe", 8, "romfsd", 8))
  BY <1>2, <1>3, LinkMet
<1>6. QED
  BY <1>4, <1>5

LEMMA DynamicMeets ==
  ASSUME NEW g, g[1] = "dynamic"
  PROVE  \A l \in Of(Calls, g) \cup Of(Shares, g) : LinkMeets("dynamic", l)
<1>1. TableOf("dynamic") = {Cap("taskd", "client", 8), Cap("probe", "client", 8),
                            Cap("probe", "success", 9)}
  BY DEF TableOf, Entries, DynamicCaps
<1>2. Names("dynamic", "probe", 8) = {"client"}
  BY <1>1, CapFields DEF Names
<1>3. Names("dynamic", "taskd", 8) = {"client"}
  BY <1>1, CapFields DEF Names
<1>4. Of(Calls, g) \cup Of(Shares, g) = {Link("probe", 8, "taskd", 8)}
  <2>1. Of(Calls, g) = {Link("probe", 8, "taskd", 8)}
    BY CallsOf, SameBundle, GroupOf
  <2>2. Of(Shares, g) = {}
    BY DEF Of, Shares
  <2>3. QED
    BY <2>1, <2>2
<1>5. LinkMeets("dynamic", Link("probe", 8, "taskd", 8))
  BY <1>2, <1>3, LinkMet
<1>6. QED
  BY <1>4, <1>5

LEMMA LifecycleMeets ==
  ASSUME NEW g, g[1] = "lifecycle"
  PROVE  \A l \in Of(Calls, g) \cup Of(Shares, g) : LinkMeets("lifecycle", l)
<1>1. TableOf("lifecycle") = {Cap("taskd", "client", 8), Cap("taskd", "completion", 9),
                              Cap("taskd", "start", 10), Cap("taskd", "child_tcb", 11),
                              Cap("taskd", "success", 12), Cap("child", "start", 8),
                              Cap("child", "completion", 9), Cap("probe", "client", 8),
                              Cap("probe", "success", 9)}
  BY DEF TableOf, Entries, LifecycleCaps
<1>2. Names("lifecycle", "probe", 8) = {"client"}
  BY <1>1, CapFields DEF Names
<1>3. Names("lifecycle", "taskd", 8) = {"client"}
  BY <1>1, CapFields DEF Names
<1>4. Names("lifecycle", "taskd", 12) = {"success"}
  BY <1>1, CapFields DEF Names
<1>5. Names("lifecycle", "probe", 9) = {"success"}
  BY <1>1, CapFields DEF Names
<1>6. Names("lifecycle", "taskd", 10) = {"start"}
  BY <1>1, CapFields DEF Names
<1>7. Names("lifecycle", "child", 8) = {"start"}
  BY <1>1, CapFields DEF Names
<1>8. Names("lifecycle", "child", 9) = {"completion"}
  BY <1>1, CapFields DEF Names
<1>9. Names("lifecycle", "taskd", 9) = {"completion"}
  BY <1>1, CapFields DEF Names
<1>10. Of(Calls, g) \cup Of(Shares, g) = {Link("probe", 8, "taskd", 8), Link("taskd", 12, "probe", 9),
            Link("taskd", 10, "child", 8), Link("child", 9, "taskd", 9)}
  <2>1. Of(Calls, g) = {Link("probe", 8, "taskd", 8)}
    BY CallsOf, SameBundle, GroupOf
  <2>2. Of(Shares, g) = {Link("taskd", 12, "probe", 9), Link("taskd", 10, "child", 8),
            Link("child", 9, "taskd", 9)}
    BY DEF Of, Shares
  <2>3. QED
    BY <2>1, <2>2
<1>11. LinkMeets("lifecycle", Link("probe", 8, "taskd", 8))
  BY <1>2, <1>3, LinkMet
<1>12. LinkMeets("lifecycle", Link("taskd", 12, "probe", 9))
  BY <1>4, <1>5, LinkMet
<1>13. LinkMeets("lifecycle", Link("taskd", 10, "child", 8))
  BY <1>6, <1>7, LinkMet
<1>14. LinkMeets("lifecycle", Link("child", 9, "taskd", 9))
  BY <1>8, <1>9, LinkMet
<1>15. QED
  BY <1>10, <1>11, <1>12, <1>13, <1>14

LEMMA ReservationMeets ==
  ASSUME NEW g, g[1] = "reservation"
  PROVE  \A l \in Of(Calls, g) \cup Of(Shares, g) : LinkMeets("reservation", l)
<1>1. TableOf("reservation") = {Cap("taskd", "client", 8), Cap("taskd", "object", 9),
                                Cap("taskd", "mem", 10), Cap("taskd", "success", 11),
                                Cap("objectd", "object", 8), Cap("memd", "mem", 8),
                                Cap("probe", "client", 8), Cap("probe", "success", 9)}
  BY DEF TableOf, Entries, ReservationCaps
<1>2. Names("reservation", "probe", 8) = {"client"}
  BY <1>1, CapFields DEF Names
<1>3. Names("reservation", "taskd", 8) = {"client"}
  BY <1>1, CapFields DEF Names
<1>4. Names("reservation", "taskd", 9) = {"object"}
  BY <1>1, CapFields DEF Names
<1>5. Names("reservation", "objectd", 8) = {"object"}
  BY <1>1, CapFields DEF Names
<1>6. Names("reservation", "taskd", 10) = {"mem"}
  BY <1>1, CapFields DEF Names
<1>7. Names("reservation", "memd", 8) = {"mem"}
  BY <1>1, CapFields DEF Names
<1>8. Names("reservation", "taskd", 11) = {"success"}
  BY <1>1, CapFields DEF Names
<1>9. Names("reservation", "probe", 9) = {"success"}
  BY <1>1, CapFields DEF Names
<1>10. Of(Calls, g) \cup Of(Shares, g) = {Link("probe", 8, "taskd", 8), Link("taskd", 9, "objectd", 8),
            Link("taskd", 10, "memd", 8), Link("taskd", 11, "probe", 9)}
  <2>1. Of(Calls, g) = {Link("probe", 8, "taskd", 8), Link("taskd", 9, "objectd", 8),
            Link("taskd", 10, "memd", 8)}
    BY CallsOf, SameBundle, GroupOf
  <2>2. Of(Shares, g) = {Link("taskd", 11, "probe", 9)}
    BY DEF Of, Shares
  <2>3. QED
    BY <2>1, <2>2
<1>11. LinkMeets("reservation", Link("probe", 8, "taskd", 8))
  BY <1>2, <1>3, LinkMet
<1>12. LinkMeets("reservation", Link("taskd", 9, "objectd", 8))
  BY <1>4, <1>5, LinkMet
<1>13. LinkMeets("reservation", Link("taskd", 10, "memd", 8))
  BY <1>6, <1>7, LinkMet
<1>14. LinkMeets("reservation", Link("taskd", 11, "probe", 9))
  BY <1>8, <1>9, LinkMet
<1>15. QED
  BY <1>10, <1>11, <1>12, <1>13, <1>14

LEMMA OpaqueMeets ==
  ASSUME NEW g, g[1] = "opaque"
  PROVE  \A l \in Of(Calls, g) \cup Of(Shares, g) : LinkMeets("opaque", l)
<1>1. TableOf("opaque") = {Cap("taskd", "client", 8), Cap("taskd", "object", 9),
                           Cap("taskd", "success", 10), Cap("objectd", "object", 8),
                           Cap("objectd", "token", 9), Cap("probe", "client", 8),
                           Cap("probe", "success", 9)}
  BY DEF TableOf, Entries, LeaseCaps
<1>2. Names("opaque", "probe", 8) = {"client"}
  BY <1>1, CapFields DEF Names
<1>3. Names("opaque", "taskd", 8) = {"client"}
  BY <1>1, CapFields DEF Names
<1>4. Names("opaque", "taskd", 9) = {"object"}
  BY <1>1, CapFields DEF Names
<1>5. Names("opaque", "objectd", 8) = {"object"}
  BY <1>1, CapFields DEF Names
<1>6. Names("opaque", "taskd", 10) = {"success"}
  BY <1>1, CapFields DEF Names
<1>7. Names("opaque", "probe", 9) = {"success"}
  BY <1>1, CapFields DEF Names
<1>8. Of(Calls, g) \cup Of(Shares, g) = {Link("probe", 8, "taskd", 8), Link("taskd", 9, "objectd", 8),
            Link("taskd", 10, "probe", 9)}
  <2>1. Of(Calls, g) = {Link("probe", 8, "taskd", 8), Link("taskd", 9, "objectd", 8)}
    BY CallsOf, SameBundle, GroupOf
  <2>2. Of(Shares, g) = {Link("taskd", 10, "probe", 9)}
    BY DEF Of, Shares
  <2>3. QED
    BY <2>1, <2>2
<1>9. LinkMeets("opaque", Link("probe", 8, "taskd", 8))
  BY <1>2, <1>3, LinkMet
<1>10. LinkMeets("opaque", Link("taskd", 9, "objectd", 8))
  BY <1>4, <1>5, LinkMet
<1>11. LinkMeets("opaque", Link("taskd", 10, "probe", 9))
  BY <1>6, <1>7, LinkMet
<1>12. QED
  BY <1>8, <1>9, <1>10, <1>11

LEMMA TcbLeaseMeets ==
  ASSUME NEW g, g[1] = "tcb_lease"
  PROVE  \A l \in Of(Calls, g) \cup Of(Shares, g) : LinkMeets("tcb_lease", l)
<1>1. TableOf("tcb_lease") = {Cap("taskd", "client", 8), Cap("taskd", "object", 9),
                              Cap("taskd", "success", 10), Cap("objectd", "object", 8),
                              Cap("objectd", "child_tcb", 9), Cap("probe", "client", 8),
                              Cap("probe", "success", 9)}
  BY DEF TableOf, Entries, LeaseCaps
<1>2. Names("tcb_lease", "probe", 8) = {"client"}
  BY <1>1, CapFields DEF Names
<1>3. Names("tcb_lease", "taskd", 8) = {"client"}
  BY <1>1, CapFields DEF Names
<1>4. Names("tcb_lease", "taskd", 9) = {"object"}
  BY <1>1, CapFields DEF Names
<1>5. Names("tcb_lease", "objectd", 8) = {"object"}
  BY <1>1, CapFields DEF Names
<1>6. Names("tcb_lease", "taskd", 10) = {"success"}
  BY <1>1, CapFields DEF Names
<1>7. Names("tcb_lease", "probe", 9) = {"success"}
  BY <1>1, CapFields DEF Names
<1>8. Of(Calls, g) \cup Of(Shares, g) = {Link("probe", 8, "taskd", 8), Link("taskd", 9, "objectd", 8),
            Link("taskd", 10, "probe", 9)}
  <2>1. Of(Calls, g) = {Link("probe", 8, "taskd", 8), Link("taskd", 9, "objectd", 8)}
    BY CallsOf, SameBundle, GroupOf
  <2>2. Of(Shares, g) = {Link("taskd", 10, "probe", 9)}
    BY DEF Of, Shares
  <2>3. QED
    BY <2>1, <2>2
<1>9. LinkMeets("tcb_lease", Link("probe", 8, "taskd", 8))
  BY <1>2, <1>3, LinkMet
<1>10. LinkMeets("tcb_lease", Link("taskd", 9, "objectd", 8))
  BY <1>4, <1>5, LinkMet
<1>11. LinkMeets("tcb_lease", Link("taskd", 10, "probe", 9))
  BY <1>6, <1>7, LinkMet
<1>12. QED
  BY <1>8, <1>9, <1>10, <1>11

LEMMA TcbResumeMeets ==
  ASSUME NEW g, g[1] = "tcb_resume"
  PROVE  \A l \in Of(Calls, g) \cup Of(Shares, g) : LinkMeets("tcb_resume", l)
<1>1. TableOf("tcb_resume") = {Cap("taskd", "client", 8), Cap("taskd", "object", 9),
                               Cap("taskd", "completion", 10), Cap("taskd", "success", 11),
                               Cap("objectd", "object", 8), Cap("objectd", "child_tcb", 9),
                               Cap("child", "completion", 8), Cap("probe", "client", 8),
                               Cap("probe", "success", 9)}
  BY DEF TableOf, Entries, ResumeCaps
<1>2. Names("tcb_resume", "probe", 8) = {"client"}
  BY <1>1, CapFields DEF Names
<1>3. Names("tcb_resume", "taskd", 8) = {"client"}
  BY <1>1, CapFields DEF Names
<1>4. Names("tcb_resume", "taskd", 9) = {"object"}
  BY <1>1, CapFields DEF Names
<1>5. Names("tcb_resume", "objectd", 8) = {"object"}
  BY <1>1, CapFields DEF Names
<1>6. Names("tcb_resume", "child", 8) = {"completion"}
  BY <1>1, CapFields DEF Names
<1>7. Names("tcb_resume", "taskd", 10) = {"completion"}
  BY <1>1, CapFields DEF Names
<1>8. Names("tcb_resume", "taskd", 11) = {"success"}
  BY <1>1, CapFields DEF Names
<1>9. Names("tcb_resume", "probe", 9) = {"success"}
  BY <1>1, CapFields DEF Names
<1>10. Of(Calls, g) \cup Of(Shares, g) = {Link("probe", 8, "taskd", 8), Link("taskd", 9, "objectd", 8),
            Link("child", 8, "taskd", 10), Link("taskd", 11, "probe", 9)}
  <2>1. Of(Calls, g) = {Link("probe", 8, "taskd", 8), Link("taskd", 9, "objectd", 8),
            Link("child", 8, "taskd", 10)}
    BY CallsOf, SameBundle, GroupOf
  <2>2. Of(Shares, g) = {Link("taskd", 11, "probe", 9)}
    BY DEF Of, Shares
  <2>3. QED
    BY <2>1, <2>2
<1>11. LinkMeets("tcb_resume", Link("probe", 8, "taskd", 8))
  BY <1>2, <1>3, LinkMet
<1>12. LinkMeets("tcb_resume", Link("taskd", 9, "objectd", 8))
  BY <1>4, <1>5, LinkMet
<1>13. LinkMeets("tcb_resume", Link("child", 8, "taskd", 10))
  BY <1>6, <1>7, LinkMet
<1>14. LinkMeets("tcb_resume", Link("taskd", 11, "probe", 9))
  BY <1>8, <1>9, LinkMet
<1>15. QED
  BY <1>10, <1>11, <1>12, <1>13, <1>14

LEMMA EduMeets ==
  ASSUME NEW g, g[1] = "edu"
  PROVE  \A l \in Of(Calls, g) \cup Of(Shares, g) : LinkMeets("edu", l)
<1>1. TableOf("edu") = {Cap("deviced", "deviced", 8), Block("driver", "bar", 8, EduPages),
                        Cap("driver", "frame", 264), Cap("driver", "notify", 265),
                        Cap("driver", "complete", 266), Cap("driver", "request", 267),
                        Cap("driver", "free", 268), Cap("driver", "register", 269),
                        Cap("driver", "unregister", 270), Cap("driver", "deviced", 271),
                        Cap("dmad", "free", 8), Cap("dmad", "frame", 9),
                        Cap("dmad", "driver_cnode", 10), Cap("irqd", "hw", 8),
                        Cap("irqd", "handler", 9), Cap("irqd", "complete", 10),
                        Cap("irqd", "notify", 11), Cap("irqd", "request", 12),
                        Cap("irqd", "driver_cnode", 13)}
  <2>1. Entries(<<Cap("deviced", "deviced", 8)>>) = {Cap("deviced", "deviced", 8)}
    BY DEF Entries
  <2>2. Entries(DriverCaps) = {Block("driver", "bar", 8, EduPages), Cap("driver", "frame", 264),
                             Cap("driver", "notify", 265), Cap("driver", "complete", 266),
                             Cap("driver", "request", 267), Cap("driver", "free", 268),
                             Cap("driver", "register", 269), Cap("driver", "unregister", 270),
                             Cap("driver", "deviced", 271)}
    BY DEF Entries, DriverCaps
  <2>3. Entries(DmadCaps) = {Cap("dmad", "free", 8), Cap("dmad", "frame", 9),
                           Cap("dmad", "driver_cnode", 10)}
    BY DEF Entries, DmadCaps
  <2>4. Entries(IrqdCaps) = {Cap("irqd", "hw", 8), Cap("irqd", "handler", 9),
                           Cap("irqd", "complete", 10), Cap("irqd", "notify", 11),
                           Cap("irqd", "request", 12), Cap("irqd", "driver_cnode", 13)}
    BY DEF Entries, IrqdCaps
  <2>5. QED
    BY <2>1, <2>2, <2>3, <2>4, EduTable
<1>2. Names("edu", "driver", 268) = {"free"}
  BY <1>1, CapFields DEF Names
<1>3. Names("edu", "dmad", 8) = {"free"}
  BY <1>1, CapFields DEF Names
<1>4. Names("edu", "driver", 266) = {"complete"}
  BY <1>1, CapFields DEF Names
<1>5. Names("edu", "irqd", 10) = {"complete"}
  BY <1>1, CapFields DEF Names
<1>6. Names("edu", "driver", 267) = {"request"}
  BY <1>1, CapFields DEF Names
<1>7. Names("edu", "irqd", 12) = {"request"}
  BY <1>1, CapFields DEF Names
<1>8. Names("edu", "driver", 271) = {"deviced"}
  BY <1>1, CapFields DEF Names
<1>9. Names("edu", "deviced", 8) = {"deviced"}
  BY <1>1, CapFields DEF Names
<1>10. Names("edu", "irqd", 11) = {"notify"}
  BY <1>1, CapFields DEF Names
<1>11. Names("edu", "driver", 265) = {"notify"}
  BY <1>1, CapFields DEF Names
<1>12. Names("edu", "dmad", 9) = {"frame"}
  BY <1>1, CapFields DEF Names
<1>13. Names("edu", "driver", 264) = {"frame"}
  BY <1>1, CapFields DEF Names
<1>14. Of(Calls, g) \cup Of(Shares, g) = {Link("driver", 268, "dmad", 8), Link("driver", 266, "irqd", 10),
            Link("driver", 267, "irqd", 12), Link("driver", 271, "deviced", 8),
            Link("irqd", 11, "driver", 265), Link("dmad", 9, "driver", 264)}
  <2>1. Of(Calls, g) = {Link("driver", 268, "dmad", 8), Link("driver", 266, "irqd", 10),
            Link("driver", 267, "irqd", 12), Link("driver", 271, "deviced", 8)}
    BY DEF Of, Calls
  <2>2. Of(Shares, g) = {Link("irqd", 11, "driver", 265), Link("dmad", 9, "driver", 264)}
    BY DEF Of, Shares
  <2>3. QED
    BY <2>1, <2>2
<1>15. LinkMeets("edu", Link("driver", 268, "dmad", 8))
  <2> DEFINE slot == 268
  <2>1. \E obj : /\ Names("edu", "driver", slot) = {obj}
                 /\ Names("edu", "dmad", 8) = {obj}
    BY <1>2, <1>3
  <2> HIDE DEF slot
  <2>2. LinkMeets("edu", Link("driver", slot, "dmad", 8))
    BY <2>1, LinkMet, Zenon
  <2>3. QED
    BY <2>2 DEF slot
<1>16. LinkMeets("edu", Link("driver", 266, "irqd", 10))
  <2> DEFINE slot == 266
  <2>1. \E obj : /\ Names("edu", "driver", slot) = {obj}
                 /\ Names("edu", "irqd", 10) = {obj}
    BY <1>4, <1>5
  <2> HIDE DEF slot
  <2>2. LinkMeets("edu", Link("driver", slot, "irqd", 10))
    BY <2>1, LinkMet, Zenon
  <2>3. QED
    BY <2>2 DEF slot
<1>17. LinkMeets("edu", Link("driver", 267, "irqd", 12))
  <2> DEFINE slot == 267
  <2>1. \E obj : /\ Names("edu", "driver", slot) = {obj}
                 /\ Names("edu", "irqd", 12) = {obj}
    BY <1>6, <1>7
  <2> HIDE DEF slot
  <2>2. LinkMeets("edu", Link("driver", slot, "irqd", 12))
    BY <2>1, LinkMet, Zenon
  <2>3. QED
    BY <2>2 DEF slot
<1>18. LinkMeets("edu", Link("driver", 271, "deviced", 8))
  <2> DEFINE slot == 271
  <2>1. \E obj : /\ Names("edu", "driver", slot) = {obj}
                 /\ Names("edu", "deviced", 8) = {obj}
    BY <1>8, <1>9
  <2> HIDE DEF slot
  <2>2. LinkMeets("edu", Link("driver", slot, "deviced", 8))
    BY <2>1, LinkMet, Zenon
  <2>3. QED
    BY <2>2 DEF slot
<1>19. LinkMeets("edu", Link("irqd", 11, "driver", 265))
  <2> DEFINE slot == 265
  <2>1. \E obj : /\ Names("edu", "irqd", 11) = {obj}
                 /\ Names("edu", "driver", slot) = {obj}
    BY <1>10, <1>11
  <2> HIDE DEF slot
  <2>2. LinkMeets("edu", Link("irqd", 11, "driver", slot))
    BY <2>1, LinkMet, Zenon
  <2>3. QED
    BY <2>2 DEF slot
<1>20. LinkMeets("edu", Link("dmad", 9, "driver", 264))
  <2> DEFINE slot == 264
  <2>1. \E obj : /\ Names("edu", "dmad", 9) = {obj}
                 /\ Names("edu", "driver", slot) = {obj}
    BY <1>12, <1>13
  <2> HIDE DEF slot
  <2>2. LinkMeets("edu", Link("dmad", 9, "driver", slot))
    BY <2>1, LinkMet, Zenon
  <2>3. QED
    BY <2>2 DEF slot
<1>21. QED
  BY <1>14, <1>15, <1>16, <1>17, <1>18, <1>19, <1>20

\* A process that has been spawned holds what the tables of its bundle give it,
\* and nothing else.
LEMMA SlotsHold ==
  ASSUME BootInv, NEW g, g[1] \notin LooseNames, NEW who,
         Process(g, who) \in live \cup held, NEW slot
  PROVE  AtSlot(Process(g, who), slot) = {Object(g, o) : o \in Names(g[1], who, slot)}
<1>0. \A h, b : /\ CapOf(h, b)[1] = Process(h, b.to) /\ CapOf(h, b)[2] = b.slot
                /\ CapOf(h, b)[3] = Object(h, b.obj)
  BY DEF CapOf
<1>1. ASSUME NEW c \in caps, c[1] = Process(g, who), c[2] = slot
      PROVE  \E o \in Names(g[1], who, slot) : c[3] = Object(g, o)
  <2>1. PICK j \in Behind :
          j \in 1..Len(P) /\ P[j].op = "wire" /\ \E b \in Entries(P[j].arg) : c = CapOf(P[j].group, b)
    BY DEF BootInv, CapsInv
  <2> DEFINE h == P[j].group
  <2>2. PICK b \in Entries(P[j].arg) : c = CapOf(h, b)
    BY <2>1
  <2>3. Process(h, b.to) = Process(g, who) /\ b.slot = slot /\ c[3] = Object(h, b.obj)
    BY <1>0, <1>1, <2>2
  <2>4. h[1] = g[1] /\ h[2] = g[2] /\ b.to = who
    BY <2>3 DEF Process
  <2>5. b \in TableOf(g[1])
    BY <2>1, <2>2, <2>4, PlanFacts DEF WireInOrder
  <2>6. b.obj \in Names(g[1], who, slot)
    BY <2>3, <2>4, <2>5 DEF Names
  <2>7. Object(h, b.obj) = Object(g, b.obj)
    BY <2>4 DEF Object
  <2>8. QED
    BY <2>3, <2>6, <2>7
<1>2. ASSUME NEW o \in Names(g[1], who, slot)
      PROVE  \E c \in caps : c[1] = Process(g, who) /\ c[2] = slot /\ c[3] = Object(g, o)
  <2>1. PICK b \in TableOf(g[1]) : b.to = who /\ b.slot = slot /\ b.obj = o
    BY <1>2 DEF Names
  <2>2. PICK j \in Behind : /\ j \in 1..Len(P) /\ P[j].op = "spawn" /\ P[j].arg = who
                            /\ P[j].group[1] = g[1] /\ P[j].group[2] = g[2]
    BY SpawnedBehind
  <2> DEFINE h == P[j].group
  <2>3. SpawnInOrder(P, j, h)
    BY <2>2, PlanFacts
  <2>4. PICK i \in 1..j - 1 : P[i].op = "wire" /\ P[i].group = h /\ b \in Entries(P[i].arg)
    BY <2>1, <2>2, <2>3 DEF SpawnInOrder
  <2>5. i \in Behind
    BY <2>2, <2>4 DEF Behind, BootInv, PlaceInv
  <2>6. CapOf(h, b) \in caps
    BY <2>4, <2>5 DEF BootInv, CapsInv
  <2>7. Process(h, b.to) = Process(g, who) /\ Object(h, b.obj) = Object(g, o)
    BY <2>1, <2>2 DEF Process, Object
  <2>8. QED
    BY <1>0, <2>1, <2>6, <2>7
<1>3. QED
  BY <1>1, <1>2 DEF AtSlot

(* EndsMeet: when both ends of a link have been spawned, the slot each was *)
(* compiled to use names the same object (the SLOT constants of the        *)
(* protocol headers, and the order of the copies in domain_manager.c); the *)
(* badges of the copies are not in the model.                              *)
THEOREM EndsCorrect == RootSpec => []EndsMeet
<1>1. BootInv => EndsMeet
  <2> SUFFICES ASSUME BootInv, NEW g, NEW l \in Of(Calls, g) \cup Of(Shares, g),
                      Process(g, l.from) \in live \cup held, Process(g, l.to) \in live \cup held
               PROVE  /\ AtSlot(Process(g, l.from), l.at) = AtSlot(Process(g, l.to), l.there)
                      /\ AtSlot(Process(g, l.from), l.at) # {}
    BY DEF EndsMeet
  <2>1. g[1] \notin LooseNames
    BY LooseCalls
  <2>2. g[1] \in {"objectd", "memd", "romfs", "dynamic", "lifecycle", "reservation",
                  "opaque", "tcb_lease", "tcb_resume", "edu"}
    <3>1. DOMAIN Calls = {"objectd", "memd", "romfs", "dynamic", "lifecycle", "reservation",
                          "opaque", "tcb_lease", "tcb_resume", "edu"}
      BY DEF Calls
    <3>2. DOMAIN Shares = {"lifecycle", "reservation", "opaque", "tcb_lease", "tcb_resume", "edu"}
      BY DEF Shares
    <3>3. QED
      BY <3>1, <3>2 DEF Of
  <2>3. LinkMeets(g[1], l)
    <3>1. CASE g[1] = "objectd"
      BY <3>1, ObjectdMeets
    <3>2. CASE g[1] = "memd"
      BY <3>2, MemdMeets
    <3>3. CASE g[1] = "romfs"
      BY <3>3, RomfsMeets
    <3>4. CASE g[1] = "dynamic"
      BY <3>4, DynamicMeets
    <3>5. CASE g[1] = "lifecycle"
      BY <3>5, LifecycleMeets
    <3>6. CASE g[1] = "reservation"
      BY <3>6, ReservationMeets
    <3>7. CASE g[1] = "opaque"
      BY <3>7, OpaqueMeets
    <3>8. CASE g[1] = "tcb_lease"
      BY <3>8, TcbLeaseMeets
    <3>9. CASE g[1] = "tcb_resume"
      BY <3>9, TcbResumeMeets
    <3>10. CASE g[1] = "edu"
      BY <3>10, EduMeets
    <3>11. QED
      BY <2>2, <3>1, <3>2, <3>3, <3>4, <3>5, <3>6, <3>7, <3>8, <3>9, <3>10
  <2>4. AtSlot(Process(g, l.from), l.at) = {Object(g, o) : o \in Names(g[1], l.from, l.at)}
    BY <2>1, SlotsHold
  <2>5. AtSlot(Process(g, l.to), l.there) = {Object(g, o) : o \in Names(g[1], l.to, l.there)}
    BY <2>1, SlotsHold
  <2>6. QED
    BY <2>3, <2>4, <2>5 DEF LinkMeets
<1>2. QED
  BY <1>1, BootInvariant, PTL

-----------------------------------------------------------------------------
(* Type correctness.                                                       *)

LEMMA TableSlots == \A name : \A b \in TableOf(name) : b.slot \in Slots
<1>1. \A b \in Entries(Between("objectd", "probe", "ep")) : b.slot \in 8..271
  BY CapFields DEF Entries, Between
<1>2. \A b \in Entries(Between("memd", "probe", "ep")) : b.slot \in 8..271
  BY CapFields DEF Entries, Between
<1>3. \A b \in Entries(Between("romfsd", "probe", "ep")) : b.slot \in 8..271
  BY CapFields DEF Entries, Between
<1>4. \A b \in Entries(<<Cap("probe", "ep", 8)>>) : b.slot \in 8..271
  BY CapFields DEF Entries
<1>5. \A b \in Entries(DynamicCaps) : b.slot \in 8..271
  BY CapFields DEF Entries, DynamicCaps
<1>6. \A b \in Entries(LifecycleCaps) : b.slot \in 8..271
  BY CapFields DEF Entries, LifecycleCaps
<1>7. \A b \in Entries(ReservationCaps) : b.slot \in 8..271
  BY CapFields DEF Entries, ReservationCaps
<1>8. \A b \in Entries(LeaseCaps("token")) : b.slot \in 8..271
  BY CapFields DEF Entries, LeaseCaps
<1>9. \A b \in Entries(LeaseCaps("child_tcb")) : b.slot \in 8..271
  BY CapFields DEF Entries, LeaseCaps
<1>10. \A b \in Entries(ResumeCaps) : b.slot \in 8..271
  BY CapFields DEF Entries, ResumeCaps
<1>11. \A b \in Entries(<<Cap("deviced", "deviced", 8)>>) : b.slot \in 8..271
  BY CapFields DEF Entries
<1>12. \A b \in Entries(DriverCaps) : b.slot \in 8..271
  BY CapFields DEF Entries, DriverCaps
<1>13. \A b \in Entries(DmadCaps) : b.slot \in 8..271
  BY CapFields DEF Entries, DmadCaps
<1>14. \A b \in Entries(IrqdCaps) : b.slot \in 8..271
  BY CapFields DEF Entries, IrqdCaps
<1>15. 8..271 \subseteq Slots
  BY DEF Slots, FirstFree, EduPages
<1>16. ASSUME NEW name, NEW b \in TableOf(name) PROVE b.slot \in 8..271
  <2> HIDE DEF Slots
  <2>1. \/ name \in {"objectd", "memd", "romfs", "dispatch", "dynamic"}
        \/ name \in {"lifecycle", "reservation", "opaque", "tcb_lease", "tcb_resume", "edu"}
    BY <1>16 DEF TableOf
  <2>2. CASE name \in {"objectd", "memd", "romfs", "dispatch", "dynamic"}
    BY <1>16, <1>1, <1>2, <1>3, <1>4, <1>5, <2>2 DEF TableOf
  <2>3. CASE name \in {"lifecycle", "reservation", "opaque", "tcb_lease", "tcb_resume"}
    BY <1>16, <1>6, <1>7, <1>8, <1>9, <1>10, <2>3 DEF TableOf
  <2>4. CASE name = "edu"
    BY <1>16, <1>11, <1>12, <1>13, <1>14, <2>4, EduTable
  <2>5. QED
    BY <2>1, <2>2, <2>3, <2>4
<1>17. QED
  BY <1>15, <1>16

\* What does not depend on the plan
FlowInv ==
  /\ root \in {"booting", "waiting", "dispatching", "idle", "suspended"}
  /\ asked \in {"none", "exact", "other"}
  /\ answer \in {"none", "READY", "InvalidArgument"} /\ faulted \in BOOLEAN

LEMMA FlowInvariant == RootSpec => []FlowInv
<1>1. RootInit => FlowInv
  BY DEF RootInit, Init, FlowInv
<1>2. FlowInv /\ [Next]_vars => FlowInv'
  <2> SUFFICES ASSUME FlowInv, [Next]_vars PROVE FlowInv'
    OBVIOUS
  <2> USE DEF FlowInv
  <2>1. CASE Fails \/ IssueIrq \/ WireStep \/ WaitFails \/ LowerFails
    BY <2>1 DEF Fails, IssueIrq, WireStep, WaitFails, LowerFails, Stop, Done
  <2>2. CASE Passes \/ IssueToken \/ SpawnStep
    BY <2>2 DEF Passes, IssueToken, SpawnStep, Done
  <2>3. CASE BeginWait \/ Lower \/ WaitEnds
    BY <2>3 DEF BeginWait, Lower, WaitEnds, CanPass
  <2>4. CASE Dispatch
    BY <2>4 DEF Dispatch
  <2>5. CASE DispatchCall
    BY <2>5, RequestsAssumption DEF DispatchCall
  <2>6. CASE UNCHANGED vars
    BY <2>6 DEF vars
  <2>7. QED
    BY <2>1, <2>2, <2>3, <2>4, <2>5, <2>6 DEF Next, RootStep, Others
<1>3. FlowInv /\ [RootNext]_<<part, vars, nxVars>> => FlowInv'
  <2>1. [RootNext]_<<part, vars, nxVars>> => [Next]_vars
    BY DEF RootNext
  <2>2. QED
    BY <1>2, <2>1
<1>4. QED
  BY <1>1, <1>3, PTL DEF RootSpec

(* TypeOK: every cap is in a slot a program can name, no process both runs *)
(* and is held, and a token is one the unsigned counter can hold.          *)
THEOREM BootTypeCorrect == RootSpec => []TypeOK
<1>1. BootInv /\ FlowInv => TypeOK
  <2> SUFFICES ASSUME BootInv, FlowInv PROVE TypeOK
    OBVIOUS
  <2>1. ASSUME NEW c \in caps PROVE c[2] \in Slots
    <3>1. PICK j \in Behind :
            /\ j \in 1..Len(P) /\ P[j].op = "wire"
            /\ \E b \in Entries(P[j].arg) : c = CapOf(P[j].group, b)
      BY DEF BootInv, CapsInv
    <3>2. PICK b \in Entries(P[j].arg) : c[2] = b.slot
      BY <3>1 DEF CapOf
    <3>3. b \in TableOf(P[j].group[1])
      BY <3>1, <3>2, PlanFacts DEF WireInOrder
    <3>4. QED
      BY <3>2, <3>3, TableSlots
  <2>2. live \cap held = {}
    <3>1. \A p \in live \cup held : p \in held <=> p \notin live
      BY DEF BootInv, RunInv
    <3>2. QED
      BY <3>1
  <2>3. TokenModulus \in Nat /\ TokenModulus > 2 /\ Instances = {0, 1}
    BY TokenModulusAssumption DEF MaxEdu, Instances
  <2>4. TokenInv
    BY DEF BootInv
  <2>5. token \in [Instances -> 0..(TokenModulus - 1)]
    <3>1. \A i \in Instances : (IF Issued(i) THEN i + 1 ELSE 0) \in 0..(TokenModulus - 1)
      BY <2>3
    <3>2. QED
      BY <2>4, <3>1 DEF TokenInv
  <2>6. next \in 0..(TokenModulus - 1)
    <3>1. 3 % TokenModulus \in 0..(TokenModulus - 1)
      BY <2>3
    <3>2. QED
      BY <2>3, <2>4, <3>1 DEF TokenInv
  <2>7. QED
    BY <2>1, <2>2, <2>5, <2>6 DEF TypeOK, BootInv, PlaceInv, FlowInv
<1>2. QED
  BY <1>1, BootInvariant, FlowInvariant, PTL

(* OnlyFaultsStop: the slots that the headers give are those the caps land  *)
(* in, so no comparison of domain_manager.c or selinos_edu_domain.c stops   *)
(* a boot: root gives up only over a call that failed, a line that is taken *)
(* or a request that is not the one it serves.                              *)
THEOREM FaultsCorrect == RootSpec => []OnlyFaultsStop
<1>1. RootInit => OnlyFaultsStop
  BY DEF RootInit, Init, OnlyFaultsStop
<1>2. BootInv /\ FlowInv /\ OnlyFaultsStop /\ [Next]_vars => OnlyFaultsStop'
  <2> SUFFICES ASSUME BootInv, FlowInv, OnlyFaultsStop, [Next]_vars, root' = "suspended"
               PROVE  faulted'
    BY DEF OnlyFaultsStop
  <2>f. root = "suspended" => faulted
    BY DEF OnlyFaultsStop
  <2>1. CASE Fails \/ WaitFails \/ LowerFails
    BY <2>1, Zenon DEF Fails, WaitFails, LowerFails, Stop
  <2>2. CASE WireStep
    <3>1. root = "booting" /\ At = P[pc] /\ At.op = "wire" /\ pc \in 1..Len(P)
      BY <2>2, PlanFacts DEF WireStep, Reached, At, P, BootInv, PlaceInv
    <3>2. Told(At.arg)
      BY <3>1, PlanFacts DEF WireInOrder
    <3>3. \A k \in 1..Len(At.arg) : Landing(At.arg)[k] = At.arg[k].slot
      BY <3>2, ToldLands
    <3>4. Done
      BY <2>2, <3>3 DEF WireStep
    <3>5. root' = root
      BY <3>4 DEF Done
    <3>6. QED
      BY <3>1, <3>5
  <2>3. CASE IssueIrq
    <3>1. root = "booting"
      BY <2>3 DEF IssueIrq, Reached
    <3>2. CASE Stop(TRUE)
      BY <3>2, Zenon DEF Stop
    <3>3. CASE Done
      BY <3>1, <3>3 DEF Done
    <3>4. QED
      BY <2>3, <3>2, <3>3, Zenon DEF IssueIrq
  <2>4. CASE Passes \/ IssueToken \/ SpawnStep
    BY <2>4 DEF Passes, IssueToken, SpawnStep, Reached, Done
  <2>5. CASE BeginWait \/ Lower \/ WaitEnds
    BY <2>5 DEF BeginWait, Lower, WaitEnds, CanPass
  <2>6. CASE Dispatch
    <3>1. asked \in {"none", "exact", "other"} /\ asked # "none" /\ asked # "exact"
      BY <2>6 DEF Dispatch, FlowInv
    <3>2. asked = "other" /\ faulted' = (faulted \/ asked = "other")
      BY <2>6, <3>1 DEF Dispatch
    <3>3. QED
      BY <3>2, Zenon
  <2>7. CASE DispatchCall
    BY <2>7, <2>f, Zenon DEF DispatchCall
  <2>8. CASE UNCHANGED vars
    BY <2>8, <2>f, Zenon DEF vars
  <2>9. QED
    BY <2>1, <2>2, <2>3, <2>4, <2>5, <2>6, <2>7, <2>8 DEF Next, RootStep, Others
<1>3. BootInv /\ FlowInv /\ OnlyFaultsStop /\ [RootNext]_<<part, vars, nxVars>>
        => OnlyFaultsStop'
  <2>1. [RootNext]_<<part, vars, nxVars>> => [Next]_vars
    BY DEF RootNext
  <2>2. QED
    BY <1>2, <2>1
<1>4. QED
  BY <1>1, <1>3, BootInvariant, FlowInvariant, PTL DEF RootSpec
===============================================================================
