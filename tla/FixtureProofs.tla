---------------------------- MODULE FixtureProofs ----------------------------
(***************************************************************************)
(* Safety of the fixtures.  First the one-slot inventories, for any number *)
(* of clients that call anything any number of times, and for their probes: *)
(* what a client has been told (Told) is the bridge between the callers and *)
(* the slot, because an answer grants, frees or keeps both together         *)
(* (ServeOutcome), and reading it later changes neither.  Then taskd's five *)
(* bundles: what each thread's next call can be and whom it can meet        *)
(* (TransferOutcome and its like), which leaves few combinations of their   *)
(* positions (StageInv), and from these what a success stands for.          *)
(***************************************************************************)
EXTENDS MCFixtures, FiniteSetTheorems, TLAPS

\* A service that is never released has counted one grant at most, and a message
\* is on its way only from a thread that holds the send cap.
SlotInv ==
  /\ OneShot => generation = IF reserved THEN 1 ELSE 0
  /\ \A c \in Clients : /\ request[c] = Idle => answer[c] = Unread
                        /\ request[c] # Idle => c \in users

IInv == TypeOK /\ SlotInv /\ GrantsDistinct /\ HolderAgrees

\* What an answer to c does to the slot and to what c has been told.
Grants(c) == /\ ~reserved /\ reserved'
             /\ generation' = generation + 1 /\ Told(c)' = generation'
Frees(c) == /\ service = "dynamic" /\ reserved /\ ~reserved'
            /\ generation' = generation /\ Told(c)' = 0
Keeps(c) == UNCHANGED <<reserved, generation>> /\ Told(c)' = Told(c)

(* Nothing is reserved and nobody has been told anything at the start.     *)
LEMMA InitIInv == Init => IInv
<1> SUFFICES ASSUME Init PROVE IInv
  OBVIOUS
<1> USE DEF Init, Idle, Unread, Told
<1>1. TypeOK
  BY DEF TypeOK, Statuses, Requests
<1>2. SlotInv
  BY DEF SlotInv
<1>3. GrantsDistinct /\ HolderAgrees
  BY DEF GrantsDistinct, HolderAgrees
<1>4. QED
  BY <1>1, <1>2, <1>3 DEF IInv

(* A client, whether it runs a probe's program or not, sends a request of  *)
(* the alphabet.                                                           *)
LEMMA AskedRequests ==
  ASSUME TypeOK, NEW c \in Clients PROVE MayAsk(c) \subseteq Requests
<1>1. CASE ~scripted
  BY <1>1 DEF MayAsk
<1>2. CASE scripted
  <2> SUFFICES ASSUME calls[c] < Len(Script)
               PROVE  Script[calls[c] + 1].request \in Requests
    BY <1>2 DEF MayAsk
  <2>1. calls[c] \in Nat
    BY DEF TypeOK
  <2>2. CASE service = "dynamic"
    <3>1. Script = <<Expect(Reserve, "RESERVED", 1), Expect(Reserve, "EBUSY", 1),
                     Expect(Release, "RELEASED", 1), Expect(Reserve, "RESERVED", 2)>>
      BY <2>2 DEF Script, DynamicScript
    <3>2. calls[c] = 0 \/ calls[c] = 1 \/ calls[c] = 2 \/ calls[c] = 3
      BY <2>1, <3>1
    <3>3. Script[calls[c] + 1].request \in {Reserve, Release}
      <4>1. CASE calls[c] = 0
        BY <3>1, <4>1 DEF Expect
      <4>2. CASE calls[c] = 1
        BY <3>1, <4>2 DEF Expect
      <4>3. CASE calls[c] = 2
        BY <3>1, <4>3 DEF Expect
      <4>4. CASE calls[c] = 3
        BY <3>1, <4>4 DEF Expect
      <4>5. QED
        BY <3>2, <4>1, <4>2, <4>3, <4>4
    <3>4. Reserve \in Requests /\ Release \in Requests
      BY DEF Reserve, Release, Requests
    <3>5. QED
      BY <3>3, <3>4
  <2>3. CASE service # "dynamic"
    <3>1. Script = <<Expect(Reserve, "RESERVED", 0), Expect(Reserve, "EBUSY", 0)>>
      BY <2>3 DEF Script, OneShotScript
    <3>2. calls[c] = 0 \/ calls[c] = 1
      BY <2>1, <3>1
    <3>3. Script[calls[c] + 1].request = Reserve
      BY <3>1, <3>2 DEF Expect
    <3>4. QED
      BY <3>3 DEF Reserve, Requests
  <2>4. QED
    BY <2>2, <2>3
<1>3. QED
  BY <1>1, <1>2

(* A call and the reading of its answer leave what everybody has been told. *)
LEMMA ClientOutcome ==
  ASSUME TypeOK, NEW c \in Clients, Ask(c) \/ Return(c)
  PROVE  UNCHANGED server /\ \A d \in Clients : Told(d)' = Told(d)
<1>1. CASE Ask(c)
  BY <1>1 DEF Ask, Told, Learns, wiring, server
<1>2. CASE Return(c)
  <2>1. UNCHANGED server
    BY <1>2 DEF Return
  <2>2. ASSUME NEW d \in Clients PROVE Told(d)' = Told(d)
    <3>1. CASE d = c
      BY <1>2, <3>1 DEF Return, Told, TypeOK, Unread
    <3>2. CASE d # c
      BY <1>2, <3>2 DEF Return, Told, Learns, TypeOK, wiring
    <3>3. QED
      BY <3>1, <3>2
  <2>3. QED
    BY <2>1, <2>2
<1>3. QED
  BY <1>1, <1>2

(* An answer changes what the one caller has been told, and the slot with  *)
(* it.                                                                     *)
LEMMA ServeOutcome ==
  ASSUME TypeOK, SlotInv, NEW c \in Clients, Serve(c)
  PROVE  /\ Grants(c) \/ Frees(c) \/ Keeps(c)
         /\ \A d \in Clients \ {c} : Told(d)' = Told(d)
<1> USE DEF TypeOK, Takes, Answered, Told, Learns, Unread, wiring, server
<1>1. \A d \in Clients \ {c} : Told(d)' = Told(d)
  BY DEF Serve, OneShotInvalid, OneShotReserve, OneShotDuplicate,
         DynamicReserve, DynamicRelease, DynamicBusy
<1>2. Grants(c) \/ Frees(c) \/ Keeps(c)
  <2>1. CASE OneShotInvalid(c)
    BY <2>1 DEF OneShotInvalid, Keeps
  <2>2. CASE OneShotReserve(c)
    BY <2>2 DEF OneShotReserve, OneShot, SlotInv, Grants
  <2>3. CASE OneShotDuplicate(c)
    BY <2>3 DEF OneShotDuplicate, Keeps
  <2>4. CASE DynamicReserve(c)
    BY <2>4 DEF DynamicReserve, Grants
  <2>5. CASE DynamicRelease(c)
    BY <2>5 DEF DynamicRelease, Frees
  <2>6. CASE DynamicBusy(c)
    BY <2>6 DEF DynamicBusy, Keeps
  <2>7. QED
    BY <2>1, <2>2, <2>3, <2>4, <2>5, <2>6 DEF Serve
<1>3. QED
  BY <1>1, <1>2

(* Every step preserves the types and who may be waiting.                  *)
LEMMA TypeStep == TypeOK /\ SlotInv /\ [Next]_vars => TypeOK' /\ SlotInv'
<1> SUFFICES ASSUME TypeOK, SlotInv, [Next]_vars PROVE TypeOK' /\ SlotInv'
  OBVIOUS
<1> USE DEF TypeOK, SlotInv, Idle, Unread, Statuses, wiring, server
<1>1. ASSUME NEW c \in Clients, Ask(c) PROVE TypeOK' /\ SlotInv'
  <2>1. PICK r \in Requests : request' = [request EXCEPT ![c] = r]
    BY <1>1, AskedRequests DEF Ask
  <2>2. TypeOK'
    BY <1>1, <2>1 DEF Ask
  <2>3. SlotInv'
    <3>1. UNCHANGED <<service, users, generation, reserved, answer>> /\ c \in users
          /\ request[c] = Idle
      BY <1>1 DEF Ask
    <3>2. \A d \in Clients \ {c} : request'[d] = request[d]
      BY <2>1
    <3>3. QED
      BY <3>1, <3>2 DEF OneShot
  <2>4. QED
    BY <2>2, <2>3
<1>2. ASSUME NEW c \in Clients, Return(c) PROVE TypeOK' /\ SlotInv'
  <2>1. Learns(c) \in Nat
    BY DEF Learns
  <2>2. verdict' \in [Clients -> {"running", "passed", "failed"}]
    BY <1>2 DEF Return
  <2>3. QED
    BY <1>2, <2>1, <2>2 DEF Return, OneShot
<1>3. ASSUME NEW c \in Clients, Serve(c) PROVE TypeOK' /\ SlotInv'
  <2> USE DEF Takes, Answered, OneShot
  <2>1. CASE OneShotInvalid(c)
    BY <2>1 DEF OneShotInvalid
  <2>2. CASE OneShotReserve(c)
    BY <2>2 DEF OneShotReserve
  <2>3. CASE OneShotDuplicate(c)
    BY <2>3 DEF OneShotDuplicate
  <2>4. CASE DynamicReserve(c)
    BY <2>4 DEF DynamicReserve
  <2>5. CASE DynamicRelease(c)
    BY <2>5 DEF DynamicRelease
  <2>6. CASE DynamicBusy(c)
    BY <2>6 DEF DynamicBusy
  <2>7. QED
    BY <1>3, <2>1, <2>2, <2>3, <2>4, <2>5, <2>6 DEF Serve
<1>4. CASE UNCHANGED vars
  BY <1>4 DEF vars, OneShot
<1>5. QED
  BY <1>1, <1>2, <1>3, <1>4 DEF Next

(* Grants stay distinct: a new one is larger than all before it.           *)
LEMMA GrantStep == IInv /\ [Next]_vars => GrantsDistinct'
<1> SUFFICES ASSUME IInv, [Next]_vars PROVE GrantsDistinct'
  OBVIOUS
<1> USE DEF IInv, GrantsDistinct
<1>1. generation \in Nat
  BY DEF TypeOK
<1>2. \A d \in Clients : Told(d) \in Nat
  BY DEF TypeOK, Told, Learns
<1>3. ASSUME NEW c \in Clients, Ask(c) \/ Return(c) PROVE GrantsDistinct'
  BY <1>3, ClientOutcome DEF server
<1>4. ASSUME NEW c \in Clients, Serve(c) PROVE GrantsDistinct'
  BY <1>1, <1>2, <1>4, ServeOutcome DEF Grants, Frees, Keeps
<1>5. CASE UNCHANGED vars
  BY <1>5 DEF vars, wiring, server, Told, Learns
<1>6. QED
  BY <1>3, <1>4, <1>5 DEF Next

(* A single holder of the cap and the service keep agreeing.               *)
LEMMA HolderStep == IInv /\ [Next]_vars => HolderAgrees'
<1> SUFFICES ASSUME IInv, [Next]_vars, Cardinality(users') = 1
             PROVE  \A d \in users' : Told(d)' = IF reserved' THEN generation' ELSE 0
  BY DEF HolderAgrees
<1>1. users' = users /\ users \in SUBSET Clients
  BY DEF IInv, TypeOK, Next, Ask, Return, Serve, OneShotInvalid, OneShotReserve,
         OneShotDuplicate, DynamicReserve, DynamicRelease, DynamicBusy, vars, wiring
<1>2. PICK u \in Clients : users = {u}
  BY <1>1, FS_Singleton, FS_Subset, ClientsAssumption
<1>3. Told(u) = IF reserved THEN generation ELSE 0
  BY <1>1, <1>2 DEF IInv, HolderAgrees
<1> SUFFICES Told(u)' = IF reserved' THEN generation' ELSE 0
  BY <1>1, <1>2
<1>4. ASSUME NEW c \in Clients, Ask(c) \/ Return(c)
      PROVE Told(u)' = IF reserved' THEN generation' ELSE 0
  BY <1>3, <1>4, ClientOutcome DEF IInv, server
<1>5. ASSUME NEW c \in Clients, Serve(c)
      PROVE Told(u)' = IF reserved' THEN generation' ELSE 0
  <2>1. c = u
    BY <1>2, <1>5 DEF IInv, SlotInv, Serve, OneShotInvalid, OneShotReserve, Takes,
                      OneShotDuplicate, DynamicReserve, DynamicRelease, DynamicBusy
  <2>2. QED
    BY <1>3, <1>5, <2>1, ServeOutcome DEF IInv, Grants, Frees, Keeps
<1>6. CASE UNCHANGED vars
  BY <1>3, <1>6 DEF vars, wiring, server, Told, Learns
<1>7. QED
  BY <1>4, <1>5, <1>6 DEF Next

(* Every reachable state satisfies the invariant.                          *)
THEOREM Invariance == Spec => []IInv
<1>1. IInv /\ [Next]_vars => IInv'
  BY TypeStep, GrantStep, HolderStep DEF IInv
<1>2. QED
  BY InitIInv, <1>1, PTL DEF Spec

(* Every variable keeps its type, however many clients call what.          *)
THEOREM TypeCorrect == Spec => []TypeOK
<1>1. IInv => TypeOK
  BY DEF IInv
<1>2. QED
  BY Invariance, <1>1, PTL

(* No two clients are told the same grant, however their calls interleave  *)
(* (objectd_m1.c, memd_m1.c, taskd_dynamic_alloc_m0.c).                    *)
THEOREM GrantsCorrect == Spec => []GrantsDistinct
<1>1. IInv => GrantsDistinct
  BY DEF IInv
<1>2. QED
  BY Invariance, <1>1, PTL

(* A client that holds the cap alone agrees with the service about it.     *)
THEOREM HolderCorrect == Spec => []HolderAgrees
<1>1. IInv => HolderAgrees
  BY DEF IInv
<1>2. QED
  BY Invariance, <1>1, PTL

(* Every service implements the abstract slot: an answer that grants is its *)
(* Grant, one that frees its GiveBack, and nothing else touches it.        *)
THEOREM SlotRefined == Spec => ImplementsOneSlot
<1>1. Init => Slot!Init
  BY DEF Init, Slot!Init
<1>2. IInv /\ [Next]_vars => [Slot!Next]_Slot!vars
  <2> SUFFICES ASSUME IInv, [Next]_vars PROVE [Slot!Next]_Slot!vars
    OBVIOUS
  <2> USE DEF Slot!Next, Slot!Grant, Slot!GiveBack, Slot!vars
  <2>1. service' = service
    BY DEF Next, Ask, Return, Serve, OneShotInvalid, OneShotReserve, OneShotDuplicate,
           DynamicReserve, DynamicRelease, DynamicBusy, vars, wiring
  <2>2. ASSUME NEW c \in Clients, Ask(c) \/ Return(c) PROVE [Slot!Next]_Slot!vars
    BY <2>1, <2>2, ClientOutcome DEF IInv, server
  <2>3. ASSUME NEW c \in Clients, Serve(c) PROVE [Slot!Next]_Slot!vars
    BY <2>1, <2>3, ServeOutcome DEF IInv, Grants, Frees, Keeps, TypeOK
  <2>4. CASE UNCHANGED vars
    BY <2>4 DEF vars, wiring, server
  <2>5. QED
    BY <2>2, <2>3, <2>4 DEF Next
<1>3. QED
  BY <1>1, <1>2, Invariance, PTL DEF Spec, ImplementsOneSlot, Slot!Spec

-----------------------------------------------------------------------------
(* The bundles.  A bundle is its threads' positions in their programs, and  *)
(* few combinations of them are reachable: taskd's position decides what    *)
(* the child, objectd and memd have done, which is what its success stands  *)
(* for.                                                                     *)

Asks == IF bundle = "lifecycle" THEN "START" ELSE "REQUEST"
Grantors == {"opaque", "tcb_lease", "tcb_resume"}
Taskd == pc["taskd"]

\* Nobody runs before root has gone on or given up.
Running == root \in {"gone_on", "suspended"}
QuietInv ==
  /\ ~Running => \A t \in Bundle!Threads :
                   /\ pc[t] = 1
                   /\ status[t] \in {"none", "configured", "ready", "suspended"}
  /\ root = "spawning" /\ Bundle!HeldChild(bundle) => status["child"] # "none"

\* Only the bundle's own threads ever run, and the child of a held bundle is
\* there from the time any thread is.
ThreadInv ==
  /\ pc \in [Bundle!Threads -> Nat]
  /\ \A t \in Bundle!Threads :
        /\ t \notin DOMAIN Bundle!Program(bundle) => pc[t] = 1
        /\ status[t] \in {"ready", "awaiting", "rejected"} => t \in DOMAIN Bundle!Program(bundle)
        /\ Bundle!HeldChild(bundle) /\ status["child"] = "none" => status[t] = "none"

\* taskd awaits no reply, or s has its request and will reply to it.
Free == status["taskd"] # "awaiting"
Busy(s) == status["taskd"] = "awaiting" /\ caller[s] = "taskd"

LifecycleInv ==
  /\ control /\ Free
  /\ \/ Taskd \in {1, 2} /\ pc["child"] = 1 /\ pending = {}
     \/ Taskd = 3 /\ pc["child"] = 1 /\ pending = {"start"}
     \/ Taskd = 3 /\ pc["child"] = 2 /\ pending = {}
     \/ Taskd \in {4, 5, 6} /\ pc["child"] = 3 /\ pending = {}
     \/ Taskd = 7 /\ pc["child"] = 3 /\ pending = {"start"}
     \/ Taskd = 7 /\ pc["child"] = 4 /\ pending = {}
     \/ Taskd = 8 /\ pc["child"] = 5 /\ pending = {}
     \/ Taskd = 9 /\ pc["child"] = 5 /\ pending \subseteq {"success"}

ReservationInv ==
  /\ ~control
  /\ \/ Taskd \in {1, 2} /\ pc["objectd"] = 1 /\ pc["memd"] = 1 /\ Free
     \/ Taskd = 2 /\ pc["objectd"] = 2 /\ pc["memd"] = 1 /\ Busy("objectd")
     \/ Taskd = 3 /\ pc["objectd"] = 3 /\ pc["memd"] = 1 /\ Free
     \/ Taskd = 3 /\ pc["objectd"] = 3 /\ pc["memd"] = 2 /\ Busy("memd")
     \/ Taskd \in {4, 5} /\ pc["objectd"] = 3 /\ pc["memd"] = 3 /\ Free
  /\ pending \subseteq IF Taskd = 5 THEN {"success"} ELSE {}

GrantInv ==
  /\ \/ Taskd \in {1, 2} /\ pc["objectd"] = 1 /\ ~control /\ Free
     \/ Taskd = 2 /\ pc["objectd"] = 2 /\ ~control /\ Busy("objectd")
     \/ Taskd >= 3 /\ pc["objectd"] = 3 /\ control /\ Free
  /\ IF bundle = "tcb_resume"
     THEN /\ \/ Taskd \in 1..3 /\ pc["child"] = 1
                /\ status["child"] \in {"none", "configured", "suspended"}
             \/ Taskd = 4 /\ pc["child"] = 1 /\ status["child"] = "ready"
             \/ Taskd \in {5, 6} /\ pc["child"] = 2 /\ status["child"] = "ready"
          /\ pending \subseteq IF Taskd = 6 THEN {"success"} ELSE {}
     ELSE /\ Taskd \in 1..4
          /\ status["child"] # "ready"
          /\ pending \subseteq IF Taskd = 4 THEN {"success"} ELSE {}

StageInv ==
  /\ bundle = "lifecycle" => LifecycleInv
  /\ bundle = "reservation" => ReservationInv
  /\ bundle \in Grantors => GrantInv
  /\ Taskd > 1 => asked = Asks
  /\ pc["probe"] \in 1..3

BundleInv == Bundle!TypeOK /\ QuietInv /\ ThreadInv /\ StageInv

-----------------------------------------------------------------------------
(* What the programs say.                                                  *)

(* There are five bundles.                                                 *)
LEMMA BundleCases ==
  ASSUME Bundle!TypeOK
  PROVE  bundle \in {"lifecycle", "reservation"} \cup Grantors
<1>1. bundle \in Bundle!BundleNames
  BY BundleAssumption DEF Bundle!TypeOK, Bundle!BundlesAssumption
<1>2. QED
  BY <1>1 DEF Bundle!BundleNames, Grantors

(* The threads of each bundle.                                             *)
LEMMA ProgramThreads ==
  /\ DOMAIN Bundle!Program("lifecycle") = {"taskd", "child", "probe"}
  /\ DOMAIN Bundle!Program("reservation") = {"taskd", "objectd", "memd", "probe"}
  /\ DOMAIN Bundle!Program("opaque") = {"taskd", "objectd", "probe"}
  /\ DOMAIN Bundle!Program("tcb_lease") = {"taskd", "objectd", "probe"}
  /\ DOMAIN Bundle!Program("tcb_resume") = {"taskd", "objectd", "child", "probe"}
BY DEF Bundle!Program

(* A thread that offers a call is ready, root has let it run, and the call *)
(* is its program's next one unless it is a probe that sends anything.     *)
LEMMA OfferIsNext ==
  ASSUME BundleInv, NEW t \in Bundle!Threads, NEW o \in Bundle!Offers(t)
  PROVE  /\ Running /\ status[t] = "ready" /\ t \in DOMAIN Bundle!Program(bundle)
         /\ \/ t = "probe" /\ ~probing /\ o \in Bundle!AnyRequest
            \/ /\ t = "probe" => probing
               /\ pc[t] <= Len(Bundle!Program(bundle)[t])
               /\ o = Bundle!Program(bundle)[t][pc[t]]
<1>1. Running /\ status[t] = "ready"
  BY DEF Bundle!Offers, Running
<1>2. t \in DOMAIN Bundle!Program(bundle)
  BY <1>1 DEF BundleInv, ThreadInv
<1>3. CASE t = "probe" /\ ~probing
  BY <1>1, <1>2, <1>3 DEF Bundle!Offers, Running
<1>4. CASE ~(t = "probe" /\ ~probing)
  <2>1. ~(pc[t] > Len(Bundle!Program(bundle)[t])) /\ o = Bundle!Program(bundle)[t][pc[t]]
    BY <1>1, <1>4 DEF Bundle!Offers, Running
  <2>2. Len(Bundle!Program(bundle)[t]) \in Nat /\ pc[t] \in Nat
    BY <1>2 DEF BundleInv, ThreadInv, Bundle!TypeOK
  <2>3. QED
    BY <1>1, <1>2, <1>4, <2>1, <2>2
<1>5. QED
  BY <1>3, <1>4

(* taskd's calls.                                                          *)
LEMMA TaskdCalls ==
  ASSUME BundleInv, NEW o \in Bundle!Offers("taskd")
  PROVE  \/ Taskd = 1 /\ o = Bundle!Recv("client", Asks)
         \/ /\ bundle = "lifecycle"
            /\ \/ Taskd \in {2, 6} /\ o = Bundle!Signal("start")
               \/ Taskd = 3 /\ o = Bundle!Recv("completion", "DONE1")
               \/ Taskd = 4 /\ o = Bundle!Invoke("suspend")
               \/ Taskd = 5 /\ o = Bundle!Invoke("resume")
               \/ Taskd = 7 /\ o = Bundle!Recv("completion", "DONE2")
               \/ Taskd = 8 /\ o = Bundle!Signal("success")
         \/ /\ bundle = "reservation"
            /\ \/ Taskd = 2 /\ o = Bundle!Call("object", "RESERVE", "RESERVED", 0)
               \/ Taskd = 3 /\ o = Bundle!Call("mem", "RESERVE_PLAN", "PLAN_RESERVED", 0)
               \/ Taskd = 4 /\ o = Bundle!Signal("success")
         \/ /\ bundle \in Grantors
            /\ \/ Taskd = 2 /\ o = Bundle!Call("object", "REQUEST", "GRANTED", 1)
               \/ bundle # "tcb_resume" /\ Taskd = 3 /\ o = Bundle!Signal("success")
               \/ bundle = "tcb_resume" /\ Taskd = 3 /\ o = Bundle!Invoke("resume")
               \/ bundle = "tcb_resume" /\ Taskd = 4 /\ o = Bundle!Recv("completion", "RAN")
               \/ bundle = "tcb_resume" /\ Taskd = 5 /\ o = Bundle!Signal("success")
<1> DEFINE list == Bundle!Program(bundle)["taskd"]
<1>1. Taskd <= Len(list) /\ o = list[Taskd] /\ Taskd \in 1..(Len(list) + 1)
  BY OfferIsNext DEF BundleInv, Bundle!TypeOK, Bundle!Threads, Taskd
<1> USE DEF Asks, Grantors
<1>2. CASE bundle = "lifecycle"
  <2>1. list = Bundle!LifecycleTaskd
    BY <1>2 DEF Bundle!Program
  <2>2. Len(list) = 8
    BY <2>1 DEF Bundle!LifecycleTaskd
  <2>3. Taskd \in 1..8
    BY <1>1, <2>2
  <2>4. QED
    BY <1>1, <1>2, <2>1, <2>3 DEF Bundle!LifecycleTaskd
<1>3. CASE bundle = "reservation"
  <2>1. list = Bundle!ReservationTaskd
    BY <1>3 DEF Bundle!Program
  <2>2. Len(list) = 4
    BY <2>1 DEF Bundle!ReservationTaskd
  <2>3. Taskd \in 1..4
    BY <1>1, <2>2
  <2>4. QED
    BY <1>1, <1>3, <2>1, <2>3 DEF Bundle!ReservationTaskd
<1>4. CASE bundle \in {"opaque", "tcb_lease"}
  <2>1. list = Bundle!OpaqueTaskd
    BY <1>4 DEF Bundle!Program, Bundle!OpaqueTaskd, Bundle!LeaseTaskd
  <2>2. Len(list) = 3
    BY <2>1 DEF Bundle!OpaqueTaskd
  <2>3. Taskd \in 1..3
    BY <1>1, <2>2
  <2>4. QED
    BY <1>1, <1>4, <2>1, <2>3 DEF Bundle!OpaqueTaskd
<1>5. CASE bundle = "tcb_resume"
  <2>1. list = Bundle!ResumeTaskd
    BY <1>5 DEF Bundle!Program
  <2>2. Len(list) = 5
    BY <2>1 DEF Bundle!ResumeTaskd
  <2>3. Taskd \in 1..5
    BY <1>1, <2>2
  <2>4. QED
    BY <1>1, <1>5, <2>1, <2>3 DEF Bundle!ResumeTaskd
<1>6. QED
  BY <1>2, <1>3, <1>4, <1>5, BundleCases DEF BundleInv

(* The child's calls.                                                      *)
LEMMA ChildCalls ==
  ASSUME BundleInv, NEW o \in Bundle!Offers("child")
  PROVE  \/ /\ bundle = "lifecycle"
            /\ \/ pc["child"] \in {1, 3} /\ o = Bundle!Wait("start")
               \/ pc["child"] = 2 /\ o = Bundle!Send("completion", "DONE1")
               \/ pc["child"] = 4 /\ o = Bundle!Send("completion", "DONE2")
         \/ bundle = "tcb_resume" /\ pc["child"] = 1 /\ o = Bundle!Send("completion", "RAN")
<1> DEFINE list == Bundle!Program(bundle)["child"]
<1>1. /\ pc["child"] <= Len(list) /\ o = list[pc["child"]]
      /\ pc["child"] \in 1..(Len(list) + 1)
      /\ "child" \in DOMAIN Bundle!Program(bundle)
  BY OfferIsNext DEF BundleInv, Bundle!TypeOK, Bundle!Threads
<1>2. CASE bundle = "lifecycle"
  <2>1. list = Bundle!LifecycleChild
    BY <1>2 DEF Bundle!Program
  <2>2. Len(list) = 4
    BY <2>1 DEF Bundle!LifecycleChild
  <2>3. pc["child"] \in 1..4
    BY <1>1, <2>2
  <2>4. QED
    BY <1>1, <1>2, <2>1, <2>3 DEF Bundle!LifecycleChild
<1>3. CASE bundle = "tcb_resume"
  <2>1. list = Bundle!ResumeChild
    BY <1>3 DEF Bundle!Program
  <2>2. Len(list) = 1
    BY <2>1 DEF Bundle!ResumeChild
  <2>3. pc["child"] = 1
    BY <1>1, <2>2
  <2>4. QED
    BY <1>1, <1>3, <2>1, <2>3 DEF Bundle!ResumeChild
<1>4. QED
  BY <1>1, <1>2, <1>3, BundleCases, ProgramThreads DEF BundleInv, Grantors

(* The calls of the services: a receive and the answer.                    *)
LEMMA ServiceCalls ==
  ASSUME BundleInv, NEW t \in {"objectd", "memd"}, NEW o \in Bundle!Offers(t)
  PROVE  \/ /\ bundle = "reservation" /\ t = "objectd"
            /\ \/ pc[t] = 1 /\ o = Bundle!Recv("object", "RESERVE")
               \/ pc[t] = 2 /\ o = Bundle!Answer("RESERVED", 0)
         \/ /\ bundle = "reservation" /\ t = "memd"
            /\ \/ pc[t] = 1 /\ o = Bundle!Recv("mem", "RESERVE_PLAN")
               \/ pc[t] = 2 /\ o = Bundle!Answer("PLAN_RESERVED", 0)
         \/ /\ bundle \in Grantors /\ t = "objectd"
            /\ \/ pc[t] = 1 /\ o = Bundle!Recv("object", "REQUEST")
               \/ pc[t] = 2 /\ o = Bundle!Answer("GRANTED", 1)
<1> DEFINE list == Bundle!Program(bundle)[t]
<1>1. /\ pc[t] <= Len(list) /\ o = list[pc[t]] /\ pc[t] \in 1..(Len(list) + 1)
      /\ t \in DOMAIN Bundle!Program(bundle)
  BY OfferIsNext DEF BundleInv, Bundle!TypeOK, Bundle!Threads
<1>2. CASE bundle = "reservation" /\ t = "objectd"
  <2>1. list = Bundle!ReservationObjectd
    BY <1>2 DEF Bundle!Program
  <2>2. pc[t] \in 1..2
    BY <1>1, <2>1 DEF Bundle!ReservationObjectd
  <2>3. QED
    BY <1>1, <1>2, <2>1, <2>2 DEF Bundle!ReservationObjectd
<1>3. CASE bundle = "reservation" /\ t = "memd"
  <2>1. list = Bundle!ReservationMemd
    BY <1>3 DEF Bundle!Program
  <2>2. pc[t] \in 1..2
    BY <1>1, <2>1 DEF Bundle!ReservationMemd
  <2>3. QED
    BY <1>1, <1>3, <2>1, <2>2 DEF Bundle!ReservationMemd
<1>4. CASE bundle \in Grantors /\ t = "objectd"
  <2>1. list = <<Bundle!Recv("object", "REQUEST"), Bundle!Answer("GRANTED", 1)>>
    BY <1>4 DEF Bundle!Program, Grantors, Bundle!OpaqueObjectd, Bundle!LeaseObjectd,
       Bundle!ResumeObjectd
  <2>2. pc[t] \in 1..2
    BY <1>1, <2>1
  <2>3. QED
    BY <1>1, <1>4, <2>1, <2>2
<1>5. QED
  BY <1>1, <1>2, <1>3, <1>4, BundleCases, ProgramThreads DEF BundleInv, Grantors

(* A probe sends to taskd, calls taskd, or waits for success.              *)
LEMMA ProbeCalls ==
  ASSUME BundleInv, NEW o \in Bundle!Offers("probe")
  PROVE  \/ /\ o.op \in {"send", "call"} /\ o.on = "client"
            /\ o.msg \in {"START", "REQUEST", "other"}
            /\ probing => pc["probe"] = 1 /\ o.op = "send"
         \/ /\ o = Bundle!Wait("success")
            /\ probing => pc["probe"] = 2
<1> DEFINE list == Bundle!Program(bundle)["probe"]
<1>1. CASE o \in Bundle!AnyRequest /\ ~probing
  BY <1>1 DEF Bundle!AnyRequest, Bundle!Send, Bundle!Call
<1>2. CASE probing
  <2>1. /\ pc["probe"] <= Len(list) /\ o = list[pc["probe"]]
        /\ pc["probe"] \in 1..3
    BY <1>2, OfferIsNext DEF BundleInv, StageInv, Bundle!Threads
  <2>2. list = Bundle!LifecycleProbe \/ list = Bundle!RequestProbe
    BY BundleCases DEF BundleInv, Bundle!Program, Grantors
  <2>3. pc["probe"] \in 1..2
    BY <2>1, <2>2 DEF Bundle!LifecycleProbe, Bundle!RequestProbe
  <2>4. QED
    BY <1>2, <2>1, <2>2, <2>3 DEF Bundle!LifecycleProbe, Bundle!RequestProbe, Bundle!Send
<1>3. QED
  BY <1>1, <1>2, OfferIsNext DEF Bundle!Threads


-----------------------------------------------------------------------------
(* What the steps do.                                                      *)

\* Nothing but the threads' positions and states, and who owes a reply.
KeepsRest == UNCHANGED <<Bundle!bootVars, control, pending>>

\* The probe's request reaches taskd, which goes on if it is the exact one and
\* stops otherwise.
RequestArrives ==
  /\ Taskd = 1 /\ status["taskd"] = "ready" /\ status["probe"] = "ready"
  /\ asked' \in {"START", "REQUEST", "other"}
  /\ pc' = [pc EXCEPT !["taskd"] = IF asked' = Asks THEN 2 ELSE 1, !["probe"] = pc'["probe"]]
  /\ pc'["probe"] \in 1..3
  /\ status' = [status EXCEPT !["taskd"] = IF asked' = Asks THEN "ready" ELSE "rejected",
                              !["probe"] = status'["probe"]]
  /\ status'["probe"] \in {"ready", "awaiting"}
  /\ caller' \in {caller, [caller EXCEPT !["taskd"] = "probe"]}

\* The child's completion reaches taskd.
CompletionArrives ==
  /\ status["taskd"] = "ready" /\ status["child"] = "ready"
  /\ \/ bundle = "lifecycle" /\ Taskd = 3 /\ pc["child"] = 2
     \/ bundle = "lifecycle" /\ Taskd = 7 /\ pc["child"] = 4
     \/ bundle = "tcb_resume" /\ Taskd = 4 /\ pc["child"] = 1
  /\ pc' = [pc EXCEPT !["taskd"] = Taskd + 1, !["child"] = pc["child"] + 1]
  /\ UNCHANGED <<status, caller, asked>>

\* taskd's request reaches service s.
ServiceAsked(s) ==
  /\ status["taskd"] = "ready" /\ status[s] = "ready" /\ pc[s] = 1
  /\ \/ bundle \in {"reservation"} \cup Grantors /\ s = "objectd" /\ Taskd = 2
     \/ bundle = "reservation" /\ s = "memd" /\ Taskd = 3
  /\ pc' = [pc EXCEPT ![s] = 2]
  /\ status' = [status EXCEPT !["taskd"] = "awaiting"]
  /\ caller' = [caller EXCEPT ![s] = "taskd"]
  /\ UNCHANGED asked

(* Who receives what.                                                      *)
LEMMA Receivers ==
  ASSUME BundleInv, NEW r \in Bundle!Threads, NEW i \in Bundle!Offers(r), i.op = "recv"
  PROVE  \/ r = "taskd" /\ Taskd = 1 /\ i.on = "client" /\ i.msg = Asks
         \/ /\ r = "taskd" /\ i.on = "completion"
            /\ \/ bundle = "lifecycle" /\ Taskd = 3 /\ i.msg = "DONE1"
               \/ bundle = "lifecycle" /\ Taskd = 7 /\ i.msg = "DONE2"
               \/ bundle = "tcb_resume" /\ Taskd = 4 /\ i.msg = "RAN"
         \/ /\ r = "objectd" /\ pc[r] = 1 /\ i.on = "object"
            /\ \/ bundle = "reservation" /\ i.msg = "RESERVE"
               \/ bundle \in Grantors /\ i.msg = "REQUEST"
         \/ /\ r = "memd" /\ pc[r] = 1 /\ i.on = "mem"
            /\ bundle = "reservation" /\ i.msg = "RESERVE_PLAN"
<1> USE DEF Bundle!Send, Bundle!Recv, Bundle!Call, Bundle!Answer, Bundle!Signal, Bundle!Wait,
        Bundle!Invoke
<1>1. CASE r = "taskd"
  <2>1. i \in Bundle!Offers("taskd")
    BY <1>1
  <2>2. QED
    BY <1>1, <2>1, TaskdCalls
<1>2. CASE r = "child"
  <2>1. i \in Bundle!Offers("child")
    BY <1>2
  <2>2. QED
    BY <2>1, ChildCalls
<1>3. CASE r \in {"objectd", "memd"}
  BY <1>3, ServiceCalls
<1>4. CASE r = "probe"
  <2>1. i \in Bundle!Offers("probe")
    BY <1>4
  <2>2. QED
    BY <2>1, ProbeCalls
<1>5. QED
  BY <1>1, <1>2, <1>3, <1>4 DEF Bundle!Threads

(* Who sends what.                                                         *)
LEMMA Senders ==
  ASSUME BundleInv, NEW s \in Bundle!Threads, NEW o \in Bundle!Offers(s),
         o.op \in {"send", "call"}
  PROVE  \/ /\ s = "probe" /\ o.on = "client" /\ o.msg \in {"START", "REQUEST", "other"}
            /\ probing => pc["probe"] = 1 /\ o.op = "send"
         \/ /\ s = "child" /\ o.op = "send" /\ o.on = "completion"
            /\ \/ bundle = "lifecycle" /\ pc["child"] = 2 /\ o.msg = "DONE1"
               \/ bundle = "lifecycle" /\ pc["child"] = 4 /\ o.msg = "DONE2"
               \/ bundle = "tcb_resume" /\ pc["child"] = 1 /\ o.msg = "RAN"
         \/ /\ s = "taskd" /\ o.op = "call"
            /\ \/ bundle = "reservation" /\ Taskd = 2 /\ o.on = "object" /\ o.msg = "RESERVE"
               \/ bundle = "reservation" /\ Taskd = 3 /\ o.on = "mem" /\ o.msg = "RESERVE_PLAN"
               \/ bundle \in Grantors /\ Taskd = 2 /\ o.on = "object" /\ o.msg = "REQUEST"
<1> USE DEF Bundle!Send, Bundle!Recv, Bundle!Call, Bundle!Answer, Bundle!Signal, Bundle!Wait,
        Bundle!Invoke
<1>1. CASE s = "taskd"
  <2>1. o \in Bundle!Offers("taskd")
    BY <1>1
  <2>2. QED
    BY <1>1, <2>1, TaskdCalls
<1>2. CASE s = "child"
  <2>1. o \in Bundle!Offers("child")
    BY <1>2
  <2>2. QED
    BY <1>2, <2>1, ChildCalls
<1>3. CASE s \in {"objectd", "memd"}
  BY <1>3, ServiceCalls
<1>4. CASE s = "probe"
  <2>1. o \in Bundle!Offers("probe")
    BY <1>4
  <2>2. QED
    BY <1>4, <2>1, ProbeCalls
<1>5. QED
  BY <1>1, <1>2, <1>3, <1>4 DEF Bundle!Threads

(* A message passes between the probe and taskd, the child and taskd, or   *)
(* taskd and a service; only the first can be one its receiver refuses.    *)
LEMMA TransferOutcome ==
  ASSUME BundleInv, NEW s \in Bundle!Threads, NEW r \in Bundle!Threads, Bundle!Transfer(s, r)
  PROVE  /\ Running /\ KeepsRest
         /\ RequestArrives \/ CompletionArrives \/ \E x \in {"objectd", "memd"} : ServiceAsked(x)
<1>1. PICK o \in Bundle!Offers(s), i \in Bundle!Offers(r) :
        /\ o.op \in {"send", "call"} /\ i.op = "recv" /\ o.on = i.on
        /\ pc' = [pc EXCEPT ![s] = IF o.op = "send" THEN Bundle!After(s) ELSE pc[s],
                            ![r] = IF o.msg = i.msg THEN pc[r] + 1 ELSE pc[r]]
        /\ status' = [status EXCEPT ![s] = IF o.op = "call" THEN "awaiting" ELSE @,
                                    ![r] = IF o.msg = i.msg THEN @ ELSE "rejected"]
        /\ caller' = IF o.op = "call" THEN [caller EXCEPT ![r] = s] ELSE caller
        /\ asked' = IF s = "probe" THEN o.msg ELSE asked
        /\ KeepsRest
  BY DEF Bundle!Transfer, KeepsRest
<1>2. Running /\ status[s] = "ready" /\ status[r] = "ready"
  BY OfferIsNext
<1>3. /\ pc \in [Bundle!Threads -> Nat]
      /\ status \in [Bundle!Threads -> {"none", "configured", "ready", "awaiting",
                                        "suspended", "rejected"}]
  BY DEF BundleInv, ThreadInv, Bundle!TypeOK
<1>4. CASE s = "probe"
  <2>1. /\ o.on = "client" /\ o.msg \in {"START", "REQUEST", "other"}
        /\ probing => pc["probe"] = 1 /\ o.op = "send"
    BY <1>1, <1>4, Senders
  <2>2. r = "taskd" /\ Taskd = 1 /\ i.msg = Asks
    BY <1>1, <2>1, Receivers DEF Grantors
  <2>3. Bundle!After("probe") \in 1..3 /\ pc["probe"] \in 1..3
    BY <2>1 DEF Bundle!After, BundleInv, StageInv
  <2>4. asked' = o.msg /\ (asked' = Asks <=> o.msg = i.msg)
    BY <1>1, <1>4, <2>2
  <2>5. pc' = [pc EXCEPT !["taskd"] = IF asked' = Asks THEN 2 ELSE 1, !["probe"] = pc'["probe"]]
        /\ pc'["probe"] \in 1..3
    <3> DEFINE q == IF o.op = "send" THEN Bundle!After("probe") ELSE pc["probe"]
    <3>1. pc' = [pc EXCEPT !["probe"] = q, !["taskd"] = IF asked' = Asks THEN 2 ELSE 1]
      BY <1>1, <1>4, <2>2, <2>4 DEF Taskd
    <3>2. q \in 1..3
      BY <2>3
    <3>3. pc'["probe"] = q
      BY <1>3, <3>1 DEF Bundle!Threads
    <3> HIDE DEF q
    <3>4. QED
      BY <1>3, <3>1, <3>2, <3>3 DEF Bundle!Threads
  <2>6. /\ status' = [status EXCEPT !["taskd"] = IF asked' = Asks THEN "ready" ELSE "rejected",
                                    !["probe"] = status'["probe"]]
        /\ status'["probe"] \in {"ready", "awaiting"}
    BY <1>1, <1>2, <1>3, <1>4, <2>2, <2>4 DEF Bundle!Threads
  <2>7. RequestArrives
    BY <1>1, <1>2, <1>4, <2>1, <2>2, <2>4, <2>5, <2>6 DEF RequestArrives
  <2>8. QED
    BY <1>1, <1>2, <2>7
<1>5. CASE s = "child"
  <2>1. /\ o.op = "send" /\ o.on = "completion"
        /\ \/ bundle = "lifecycle" /\ pc["child"] = 2 /\ o.msg = "DONE1"
           \/ bundle = "lifecycle" /\ pc["child"] = 4 /\ o.msg = "DONE2"
           \/ bundle = "tcb_resume" /\ pc["child"] = 1 /\ o.msg = "RAN"
    BY <1>1, <1>5, Senders
  <2>2. /\ r = "taskd"
        /\ \/ bundle = "lifecycle" /\ Taskd = 3 /\ i.msg = "DONE1"
           \/ bundle = "lifecycle" /\ Taskd = 7 /\ i.msg = "DONE2"
           \/ bundle = "tcb_resume" /\ Taskd = 4 /\ i.msg = "RAN"
    BY <1>1, <2>1, Receivers DEF Grantors
  <2>3. /\ o.msg = i.msg
        /\ \/ bundle = "lifecycle" /\ Taskd = 3 /\ pc["child"] = 2
           \/ bundle = "lifecycle" /\ Taskd = 7 /\ pc["child"] = 4
           \/ bundle = "tcb_resume" /\ Taskd = 4 /\ pc["child"] = 1
    <3>1. CASE bundle = "lifecycle"
      <4>1. LifecycleInv
        BY <3>1 DEF BundleInv, StageInv
      <4>2. QED
        BY <2>1, <2>2, <3>1, <4>1 DEF LifecycleInv
    <3>2. CASE bundle = "tcb_resume"
      BY <2>1, <2>2, <3>2
    <3>3. QED
      BY <2>1, <3>1, <3>2
  <2>4. pc' = [pc EXCEPT !["taskd"] = Taskd + 1, !["child"] = pc["child"] + 1]
    BY <1>1, <1>3, <1>5, <2>1, <2>2, <2>3 DEF Taskd, Bundle!Threads, Bundle!After
  <2>5. UNCHANGED <<status, caller, asked>>
    <3>1. status' = [status EXCEPT !["child"] = @, !["taskd"] = @]
      BY <1>1, <1>5, <2>1, <2>2, <2>3
    <3>2. QED
      BY <1>1, <1>3, <1>5, <2>1, <3>1
  <2>6. QED
    BY <1>1, <1>2, <1>5, <2>2, <2>3, <2>4, <2>5 DEF CompletionArrives
<1>6. CASE s = "taskd"
  <2>1. /\ o.op = "call"
        /\ \/ bundle = "reservation" /\ Taskd = 2 /\ o.on = "object" /\ o.msg = "RESERVE"
           \/ bundle = "reservation" /\ Taskd = 3 /\ o.on = "mem" /\ o.msg = "RESERVE_PLAN"
           \/ bundle \in Grantors /\ Taskd = 2 /\ o.on = "object" /\ o.msg = "REQUEST"
    BY <1>1, <1>6, Senders
  <2>2. /\ o.msg = i.msg /\ pc[r] = 1 /\ r \in {"objectd", "memd"}
        /\ \/ bundle \in {"reservation"} \cup Grantors /\ r = "objectd" /\ Taskd = 2
           \/ bundle = "reservation" /\ r = "memd" /\ Taskd = 3
    BY <1>1, <2>1, Receivers DEF Grantors
  <2>3. pc' = [pc EXCEPT ![r] = 2]
    <3>1. pc' = [pc EXCEPT !["taskd"] = pc["taskd"], ![r] = 2]
      BY <1>1, <1>6, <2>1, <2>2
    <3>2. [pc EXCEPT !["taskd"] = pc["taskd"]] = pc
      BY <1>3
    <3>3. QED
      BY <3>1, <3>2
  <2>4. status' = [status EXCEPT !["taskd"] = "awaiting"]
    BY <1>1, <1>3, <1>6, <2>1, <2>2 DEF Bundle!Threads
  <2>5. ServiceAsked(r)
    BY <1>1, <1>2, <1>6, <2>1, <2>2, <2>3, <2>4 DEF ServiceAsked
  <2>6. QED
    BY <1>1, <1>2, <2>2, <2>5
<1>7. CASE s \in {"objectd", "memd"}
  BY <1>1, <1>7, Senders
<1>8. QED
  BY <1>4, <1>5, <1>6, <1>7 DEF Bundle!Threads


\* Service s replies to taskd, which finds the reply it wants.
ServiceReplies(s) ==
  /\ status[s] = "ready" /\ pc[s] = 2 /\ Busy(s)
  /\ s = "memd" => bundle = "reservation"
  /\ bundle \in {"reservation"} \cup Grantors
  /\ pc' = [pc EXCEPT ![s] = 3, !["taskd"] = Taskd + 1]
  /\ status' = [status EXCEPT !["taskd"] = "ready"]
  /\ caller' = [caller EXCEPT ![s] = "nobody"]
  /\ control' = (control \/ bundle \in Grantors)
  /\ UNCHANGED <<Bundle!bootVars, asked, pending>>

(* What taskd is awaiting when it awaits.                                  *)
LEMMA Awaited ==
  /\ bundle = "reservation" =>
       /\ Bundle!Program(bundle)["taskd"][2] = Bundle!Call("object", "RESERVE", "RESERVED", 0)
       /\ Bundle!Program(bundle)["taskd"][3]
            = Bundle!Call("mem", "RESERVE_PLAN", "PLAN_RESERVED", 0)
  /\ bundle \in Grantors =>
       Bundle!Program(bundle)["taskd"][2] = Bundle!Call("object", "REQUEST", "GRANTED", 1)
<1>1. CASE bundle = "reservation"
  <2>1. Bundle!Program(bundle)["taskd"] = Bundle!ReservationTaskd
    BY <1>1 DEF Bundle!Program
  <2>2. QED
    BY <1>1, <2>1 DEF Bundle!ReservationTaskd, Grantors
<1>2. CASE bundle \in {"opaque", "tcb_lease"}
  <2>1. Bundle!Program(bundle)["taskd"] = Bundle!OpaqueTaskd
    BY <1>2 DEF Bundle!Program, Bundle!OpaqueTaskd, Bundle!LeaseTaskd
  <2>2. QED
    BY <1>2, <2>1 DEF Bundle!OpaqueTaskd, Grantors
<1>3. CASE bundle = "tcb_resume"
  <2>1. Bundle!Program(bundle)["taskd"] = Bundle!ResumeTaskd
    BY <1>3 DEF Bundle!Program
  <2>2. QED
    BY <1>3, <2>1 DEF Bundle!ResumeTaskd, Grantors
<1>4. QED
  BY <1>1, <1>2, <1>3 DEF Grantors

(* A reply is a service's, to taskd, and the one taskd wants.              *)
LEMMA ReplyOutcome ==
  ASSUME BundleInv, NEW t \in Bundle!Threads, Bundle!Reply(t)
  PROVE  Running /\ \E s \in {"objectd", "memd"} : ServiceReplies(s)
<1> DEFINE c == caller[t]
           call == Bundle!Program(bundle)[c][pc[c]]
<1>1. PICK o \in Bundle!Offers(t) :
        /\ o.op = "answer"
        /\ pc' = [pc EXCEPT ![t] = pc[t] + 1,
                            ![c] = IF o.msg = call.wants /\ o.caps = call.caps THEN @ + 1 ELSE @]
        /\ status' = [status EXCEPT ![c] = IF o.msg = call.wants /\ o.caps = call.caps
                                           THEN "ready" ELSE "rejected"]
        /\ caller' = [caller EXCEPT ![t] = "nobody"]
        /\ control' = (control \/ o.caps = 1)
        /\ UNCHANGED <<Bundle!bootVars, asked, pending>>
  BY DEF Bundle!Reply
<1>2. Running /\ status[t] = "ready"
  BY OfferIsNext
<1> USE DEF Bundle!Send, Bundle!Recv, Bundle!Call, Bundle!Answer, Bundle!Signal, Bundle!Wait,
        Bundle!Invoke
<1>3. t \in {"objectd", "memd"}
  <2>1. ASSUME t = "taskd" PROVE FALSE
    <3>1. o \in Bundle!Offers("taskd")
      BY <2>1
    <3>2. QED
      BY <1>1, <3>1, TaskdCalls
  <2>2. ASSUME t = "child" PROVE FALSE
    <3>1. o \in Bundle!Offers("child")
      BY <2>2
    <3>2. QED
      BY <1>1, <3>1, ChildCalls
  <2>3. ASSUME t = "probe" PROVE FALSE
    <3>1. o \in Bundle!Offers("probe")
      BY <2>3
    <3>2. QED
      BY <1>1, <3>1, ProbeCalls
  <2>4. QED
    BY <2>1, <2>2, <2>3 DEF Bundle!Threads
<1>4. /\ pc[t] = 2
      /\ \/ bundle = "reservation" /\ t = "objectd" /\ o.msg = "RESERVED" /\ o.caps = 0
         \/ bundle = "reservation" /\ t = "memd" /\ o.msg = "PLAN_RESERVED" /\ o.caps = 0
         \/ bundle \in Grantors /\ t = "objectd" /\ o.msg = "GRANTED" /\ o.caps = 1
  BY <1>1, <1>3, ServiceCalls
<1>5. Busy(t) /\ Taskd = IF t = "memd" THEN 3 ELSE 2
  <2>1. CASE bundle = "reservation"
    BY <1>4, <2>1 DEF BundleInv, StageInv, ReservationInv
  <2>2. CASE bundle \in Grantors
    <3>1. GrantInv
      BY <2>2 DEF BundleInv, StageInv
    <3>2. QED
      BY <1>4, <2>2, <3>1 DEF GrantInv, Grantors
  <2>3. QED
    BY <1>4, <2>1, <2>2
<1>6. c = "taskd"
  BY <1>5 DEF Busy
<1>7. o.msg = call.wants /\ o.caps = call.caps
  BY <1>4, <1>5, <1>6, Awaited DEF Taskd, Grantors
<1>8. /\ pc \in [Bundle!Threads -> Nat]
      /\ status \in [Bundle!Threads -> {"none", "configured", "ready", "awaiting",
                                        "suspended", "rejected"}]
  BY DEF BundleInv, ThreadInv, Bundle!TypeOK
<1>9. pc' = [pc EXCEPT ![t] = 3, !["taskd"] = Taskd + 1]
  <2>1. pc' = [pc EXCEPT ![t] = 3, !["taskd"] = @ + 1]
    BY <1>1, <1>4, <1>6, <1>7
  <2>2. t # "taskd"
    BY <1>3
  <2>3. QED
    BY <1>8, <2>1, <2>2 DEF Taskd
<1>10. status' = [status EXCEPT !["taskd"] = "ready"]
  BY <1>1, <1>6, <1>7
<1>11. control' = (control \/ bundle \in Grantors)
  BY <1>1, <1>4 DEF Grantors
<1>12. ServiceReplies(t)
  BY <1>1, <1>2, <1>4, <1>5, <1>9, <1>10, <1>11 DEF ServiceReplies
<1>13. QED
  BY <1>2, <1>3, <1>12

\* taskd's last call but for a child's start is the signal of success.
LastCall == IF bundle = "lifecycle" THEN 8
            ELSE IF bundle = "reservation" THEN 4
            ELSE IF bundle = "tcb_resume" THEN 5 ELSE 3

(* Only taskd signals: a start of the child, or success at its end.        *)
LEMMA SignalOutcome ==
  ASSUME BundleInv, NEW t \in Bundle!Threads, Bundle!SignalStep(t)
  PROVE  /\ Running /\ status["taskd"] = "ready"
         /\ \/ bundle = "lifecycle" /\ Taskd \in {2, 6} /\ pending' = pending \cup {"start"}
            \/ Taskd = LastCall /\ pending' = pending \cup {"success"}
         /\ pc' = [pc EXCEPT !["taskd"] = Taskd + 1]
         /\ UNCHANGED <<Bundle!bootVars, status, caller, asked, control>>
<1>1. PICK o \in Bundle!Offers(t) :
        /\ o.op = "signal" /\ pending' = pending \cup {o.on}
        /\ pc' = [pc EXCEPT ![t] = pc[t] + 1]
        /\ UNCHANGED <<Bundle!bootVars, status, caller, asked, control>>
  BY DEF Bundle!SignalStep
<1>2. Running /\ status[t] = "ready"
  BY OfferIsNext
<1> USE DEF Bundle!Send, Bundle!Recv, Bundle!Call, Bundle!Answer, Bundle!Signal, Bundle!Wait,
        Bundle!Invoke
<1>3. CASE t = "taskd"
  <2>1. o \in Bundle!Offers("taskd")
    BY <1>3
  <2>2. \/ bundle = "lifecycle" /\ Taskd \in {2, 6} /\ o.on = "start"
        \/ Taskd = LastCall /\ o.on = "success"
    BY <1>1, <2>1, TaskdCalls DEF LastCall, Grantors
  <2>3. QED
    BY <1>1, <1>2, <1>3, <2>2 DEF Taskd
<1>4. CASE t = "child"
  <2>1. o \in Bundle!Offers("child")
    BY <1>4
  <2>2. QED
    BY <1>1, <2>1, ChildCalls
<1>5. CASE t \in {"objectd", "memd"}
  BY <1>1, <1>5, ServiceCalls
<1>6. CASE t = "probe"
  <2>1. o \in Bundle!Offers("probe")
    BY <1>6
  <2>2. QED
    BY <1>1, <2>1, ProbeCalls
<1>7. QED
  BY <1>3, <1>4, <1>5, <1>6 DEF Bundle!Threads

(* The child waits for its start, the probe for success.                   *)
LEMMA WaitOutcome ==
  ASSUME BundleInv, NEW t \in Bundle!Threads, Bundle!WaitStep(t)
  PROVE  /\ Running /\ status[t] = "ready"
         /\ \/ /\ bundle = "lifecycle" /\ t = "child" /\ pc[t] \in {1, 3}
               /\ "start" \in pending /\ pending' = pending \ {"start"}
               /\ pc' = [pc EXCEPT !["child"] = pc["child"] + 1]
            \/ /\ "success" \in pending /\ pending' = pending \ {"success"}
               /\ \E q \in 1..3 : pc' = [pc EXCEPT !["probe"] = q]
         /\ UNCHANGED <<Bundle!bootVars, status, caller, asked, control>>
<1>1. PICK o \in Bundle!Offers(t) :
        /\ o.op = "wait" /\ o.on \in pending /\ pending' = pending \ {o.on}
        /\ pc' = [pc EXCEPT ![t] = Bundle!After(t)]
        /\ UNCHANGED <<Bundle!bootVars, status, caller, asked, control>>
  BY DEF Bundle!WaitStep
<1>2. Running /\ status[t] = "ready"
  BY OfferIsNext
<1> USE DEF Bundle!Send, Bundle!Recv, Bundle!Call, Bundle!Answer, Bundle!Signal, Bundle!Wait,
        Bundle!Invoke
<1>3. CASE t = "taskd"
  <2>1. o \in Bundle!Offers("taskd")
    BY <1>3
  <2>2. QED
    BY <1>1, <2>1, TaskdCalls
<1>4. CASE t = "child"
  <2>1. o \in Bundle!Offers("child")
    BY <1>4
  <2>2. bundle = "lifecycle" /\ pc["child"] \in {1, 3} /\ o.on = "start"
    BY <1>1, <2>1, ChildCalls
  <2>3. Bundle!After(t) = pc["child"] + 1
    BY <1>4 DEF Bundle!After
  <2>4. QED
    BY <1>1, <1>2, <1>4, <2>2, <2>3
<1>5. CASE t \in {"objectd", "memd"}
  BY <1>1, <1>5, ServiceCalls
<1>6. CASE t = "probe"
  <2>1. o \in Bundle!Offers("probe")
    BY <1>6
  <2>2. o.on = "success" /\ (probing => pc["probe"] = 2)
    BY <1>1, <2>1, ProbeCalls
  <2>3. Bundle!After(t) \in 1..3
    BY <1>6, <2>2 DEF Bundle!After, BundleInv, StageInv
  <2>4. QED
    BY <1>1, <1>2, <1>6, <2>2, <2>3
<1>7. QED
  BY <1>3, <1>4, <1>5, <1>6 DEF Bundle!Threads

(* taskd controls the child where its program says so, or is refused.      *)
LEMMA ControlOutcome ==
  ASSUME BundleInv, Bundle!SuspendTcb \/ Bundle!ResumeTcb \/ Bundle!ControlFails
  PROVE  /\ Running /\ status["taskd"] = "ready"
         /\ \/ /\ bundle = "lifecycle" /\ Taskd = 4
               /\ status' = [status EXCEPT !["child"] = "suspended"]
               /\ pc' = [pc EXCEPT !["taskd"] = Taskd + 1]
            \/ /\ \/ bundle = "lifecycle" /\ Taskd = 5
                  \/ bundle = "tcb_resume" /\ Taskd = 3
               /\ control
               /\ status' = [status EXCEPT !["child"] = "ready"]
               /\ pc' = [pc EXCEPT !["taskd"] = Taskd + 1]
            \/ /\ status' = [status EXCEPT !["taskd"] = "rejected"]
               /\ pc' = pc
         /\ UNCHANGED <<Bundle!bootVars, caller, asked, control, pending>>
<1> USE DEF Bundle!Send, Bundle!Recv, Bundle!Call, Bundle!Answer, Bundle!Signal, Bundle!Wait,
        Bundle!Invoke
<1>1. CASE Bundle!SuspendTcb
  <2>1. PICK o \in Bundle!Offers("taskd") : o.op = "suspend"
    BY <1>1 DEF Bundle!SuspendTcb
  <2>2. Running /\ status["taskd"] = "ready"
    BY OfferIsNext DEF Bundle!Threads
  <2>3. bundle = "lifecycle" /\ Taskd = 4
    BY <2>1, TaskdCalls
  <2>4. QED
    BY <1>1, <2>2, <2>3 DEF Bundle!SuspendTcb, Taskd
<1>2. CASE Bundle!ResumeTcb
  <2>1. PICK o \in Bundle!Offers("taskd") : o.op = "resume"
    BY <1>2 DEF Bundle!ResumeTcb
  <2>2. Running /\ status["taskd"] = "ready"
    BY OfferIsNext DEF Bundle!Threads
  <2>3. \/ bundle = "lifecycle" /\ Taskd = 5
        \/ bundle = "tcb_resume" /\ Taskd = 3
    BY <2>1, TaskdCalls
  <2>4. /\ control /\ status' = [status EXCEPT !["child"] = "ready"]
        /\ pc' = [pc EXCEPT !["taskd"] = Taskd + 1]
        /\ UNCHANGED <<Bundle!bootVars, caller, asked, control, pending>>
    BY <1>2 DEF Bundle!ResumeTcb, Taskd
  <2>5. QED
    BY <2>2, <2>3, <2>4
<1>3. CASE Bundle!ControlFails
  <2>1. PICK o \in Bundle!Offers("taskd") : TRUE
    BY <1>3 DEF Bundle!ControlFails
  <2>2. Running /\ status["taskd"] = "ready"
    BY OfferIsNext DEF Bundle!Threads
  <2>3. QED
    BY <1>3, <2>2 DEF Bundle!ControlFails
<1>4. QED
  BY <1>1, <1>2, <1>3


-----------------------------------------------------------------------------
(* The invariant is kept.                                                  *)

ThreadStates == {"none", "configured", "ready", "awaiting", "suspended", "rejected"}

\* What BundleInv says when the bundle runs, but for the positions' bounds.
Valued ==
  /\ bundle \in Bundles /\ probing \in Probes
  /\ root \in {"preparing", "spawning", "gone_on", "suspended"}
  /\ spawned \in 0..Len(Bundle!SpawnOrder(bundle))
  /\ status \in [Bundle!Threads -> ThreadStates]
  /\ caller \in [Bundle!Threads -> {"nobody", "taskd", "probe"}]
  /\ asked \in {"none", "START", "REQUEST", "other"}
  /\ control \in BOOLEAN
  /\ pending \subseteq {"start", "success"}

(* How long the programs are.                                              *)
Length(t) == IF t = "taskd" THEN LastCall
             ELSE IF t = "child" /\ bundle = "lifecycle" THEN 4
             ELSE IF t = "child" THEN 1 ELSE 2

LEMMA Lengths ==
  ASSUME bundle \in {"lifecycle", "reservation"} \cup Grantors
  PROVE  \A t \in DOMAIN Bundle!Program(bundle) : Len(Bundle!Program(bundle)[t]) = Length(t)
<1> USE DEF Length, LastCall
<1>1. CASE bundle = "lifecycle"
  <2>1. /\ Bundle!Program(bundle)["taskd"] = Bundle!LifecycleTaskd
        /\ Bundle!Program(bundle)["child"] = Bundle!LifecycleChild
        /\ Bundle!Program(bundle)["probe"] = Bundle!LifecycleProbe
    BY <1>1 DEF Bundle!Program
  <2>2. DOMAIN Bundle!Program(bundle) = {"taskd", "child", "probe"}
    BY <1>1, ProgramThreads
  <2>3. /\ Len(Bundle!LifecycleTaskd) = Length("taskd")
        /\ Len(Bundle!LifecycleChild) = Length("child")
        /\ Len(Bundle!LifecycleProbe) = Length("probe")
    BY <1>1 DEF Bundle!LifecycleTaskd, Bundle!LifecycleChild, Bundle!LifecycleProbe
  <2>4. QED
    BY <2>1, <2>2, <2>3
<1>2. CASE bundle = "reservation"
  <2>1. /\ Bundle!Program(bundle)["taskd"] = Bundle!ReservationTaskd
        /\ Bundle!Program(bundle)["objectd"] = Bundle!ReservationObjectd
        /\ Bundle!Program(bundle)["memd"] = Bundle!ReservationMemd
        /\ Bundle!Program(bundle)["probe"] = Bundle!RequestProbe
    BY <1>2 DEF Bundle!Program
  <2>2. DOMAIN Bundle!Program(bundle) = {"taskd", "objectd", "memd", "probe"}
    BY <1>2, ProgramThreads
  <2>3. /\ Len(Bundle!ReservationTaskd) = Length("taskd")
        /\ Len(Bundle!ReservationObjectd) = Length("objectd")
        /\ Len(Bundle!ReservationMemd) = Length("memd")
        /\ Len(Bundle!RequestProbe) = Length("probe")
    BY <1>2 DEF Bundle!ReservationTaskd, Bundle!ReservationObjectd,
       Bundle!ReservationMemd, Bundle!RequestProbe
  <2>4. QED
    BY <2>1, <2>2, <2>3
<1>3. CASE bundle = "opaque"
  <2>1. /\ Bundle!Program(bundle)["taskd"] = Bundle!OpaqueTaskd
        /\ Bundle!Program(bundle)["objectd"] = Bundle!OpaqueObjectd
        /\ Bundle!Program(bundle)["probe"] = Bundle!RequestProbe
    BY <1>3 DEF Bundle!Program
  <2>2. DOMAIN Bundle!Program(bundle) = {"taskd", "objectd", "probe"}
    BY <1>3, ProgramThreads
  <2>3. /\ Len(Bundle!OpaqueTaskd) = Length("taskd")
        /\ Len(Bundle!OpaqueObjectd) = Length("objectd")
        /\ Len(Bundle!RequestProbe) = Length("probe")
    BY <1>3 DEF Bundle!OpaqueTaskd, Bundle!OpaqueObjectd, Bundle!RequestProbe
  <2>4. QED
    BY <2>1, <2>2, <2>3
<1>4. CASE bundle = "tcb_lease"
  <2>1. /\ Bundle!Program(bundle)["taskd"] = Bundle!LeaseTaskd
        /\ Bundle!Program(bundle)["objectd"] = Bundle!LeaseObjectd
        /\ Bundle!Program(bundle)["probe"] = Bundle!RequestProbe
    BY <1>4 DEF Bundle!Program
  <2>2. DOMAIN Bundle!Program(bundle) = {"taskd", "objectd", "probe"}
    BY <1>4, ProgramThreads
  <2>3. /\ Len(Bundle!LeaseTaskd) = Length("taskd")
        /\ Len(Bundle!LeaseObjectd) = Length("objectd")
        /\ Len(Bundle!RequestProbe) = Length("probe")
    BY <1>4 DEF Bundle!LeaseTaskd, Bundle!LeaseObjectd, Bundle!RequestProbe
  <2>4. QED
    BY <2>1, <2>2, <2>3
<1>5. CASE bundle = "tcb_resume"
  <2>1. /\ Bundle!Program(bundle)["taskd"] = Bundle!ResumeTaskd
        /\ Bundle!Program(bundle)["objectd"] = Bundle!ResumeObjectd
        /\ Bundle!Program(bundle)["child"] = Bundle!ResumeChild
        /\ Bundle!Program(bundle)["probe"] = Bundle!RequestProbe
    BY <1>5 DEF Bundle!Program
  <2>2. DOMAIN Bundle!Program(bundle) = {"taskd", "objectd", "child", "probe"}
    BY <1>5, ProgramThreads
  <2>3. /\ Len(Bundle!ResumeTaskd) = Length("taskd")
        /\ Len(Bundle!ResumeObjectd) = Length("objectd")
        /\ Len(Bundle!ResumeChild) = Length("child")
        /\ Len(Bundle!RequestProbe) = Length("probe")
    BY <1>5 DEF Bundle!ResumeTaskd, Bundle!ResumeObjectd, Bundle!ResumeChild, Bundle!RequestProbe
  <2>4. QED
    BY <2>1, <2>2, <2>3
<1>6. QED
  BY <1>1, <1>2, <1>3, <1>4, <1>5 DEF Grantors

(* The stages bound every position.                                        *)
LEMMA StagesBound == Valued /\ ThreadInv /\ StageInv => Bundle!TypeOK
<1> SUFFICES ASSUME Valued, ThreadInv, StageInv PROVE Bundle!TypeOK
  OBVIOUS
<1>1. bundle \in {"lifecycle", "reservation"} \cup Grantors
  BY BundleAssumption DEF Valued, Bundle!BundlesAssumption, Bundle!BundleNames, Grantors
<1>2. \A t \in DOMAIN Bundle!Program(bundle) : pc[t] \in 1..(Length(t) + 1)
  <2> USE DEF StageInv, Length, LastCall, Taskd
  <2>1. CASE bundle = "lifecycle"
    BY <2>1, ProgramThreads DEF LifecycleInv
  <2>2. CASE bundle = "reservation"
    BY <2>2, ProgramThreads DEF ReservationInv
  <2>3. CASE bundle \in {"opaque", "tcb_lease"}
    BY <2>3, ProgramThreads DEF GrantInv, Grantors
  <2>4. CASE bundle = "tcb_resume"
    BY <2>4, ProgramThreads DEF GrantInv, Grantors
  <2>5. QED
    BY <1>1, <2>1, <2>2, <2>3, <2>4 DEF Grantors
<1>3. \A t \in DOMAIN Bundle!Program(bundle) : pc[t] \in 1..(Len(Bundle!Program(bundle)[t]) + 1)
  BY <1>1, <1>2, Lengths
<1>4. QED
  BY <1>3 DEF Valued, ThreadInv, Bundle!TypeOK, ThreadStates

(* ... and once a bundle runs there is nothing else to keep.               *)
LEMMA RunningKept ==
  ASSUME Running', Valued', ThreadInv', StageInv'
  PROVE  BundleInv'
<1>1. Bundle!TypeOK'
  BY StagesBound, PTL
<1>2. QED
  BY <1>1 DEF BundleInv, QuietInv, Running


(* The probe's request: taskd goes on with the exact one only.             *)
LEMMA RequestStep ==
  ASSUME BundleInv, Running, KeepsRest, RequestArrives PROVE BundleInv'
<1> USE DEF BundleInv
<1>1. UNCHANGED <<bundle, probing, root, spawned, control, pending>>
  BY DEF KeepsRest, Bundle!bootVars
<1>2. Valued /\ ThreadInv /\ StageInv
  BY DEF Bundle!TypeOK, Valued, ThreadStates
<1>3. /\ pc' \in [Bundle!Threads -> Nat]
      /\ \A t \in {"objectd", "memd", "child"} : pc'[t] = pc[t] /\ status'[t] = status[t]
      /\ pc'["probe"] \in 1..3
      /\ pc'["taskd"] = IF asked' = Asks THEN 2 ELSE 1
      /\ status'["taskd"] \in {"ready", "rejected"}
      /\ status' \in [Bundle!Threads -> ThreadStates]
  BY <1>2 DEF RequestArrives, Valued, ThreadInv, Bundle!Threads, ThreadStates
<1>4. "taskd" \in DOMAIN Bundle!Program(bundle) /\ "probe" \in DOMAIN Bundle!Program(bundle)
  BY BundleCases, ProgramThreads DEF Grantors
<1>5. Valued'
  BY <1>1, <1>2, <1>3 DEF RequestArrives, Valued, Bundle!Threads
<1>6. ThreadInv'
  BY <1>1, <1>2, <1>3, <1>4 DEF RequestArrives, ThreadInv, Bundle!Threads, Bundle!HeldChild
<1>7. StageInv'
  <2>1. Taskd = 1 /\ Taskd' \in {1, 2} /\ Free' /\ Free /\ (Taskd' > 1 => asked' = Asks')
    BY <1>1, <1>3 DEF RequestArrives, Taskd, Free, Asks
  <2>2. bundle = "lifecycle" => LifecycleInv'
    BY <1>1, <1>2, <1>3, <2>1 DEF StageInv, LifecycleInv
  <2>3. bundle = "reservation" => ReservationInv'
    BY <1>1, <1>2, <1>3, <2>1 DEF StageInv, ReservationInv, Busy
  <2>4. bundle \in Grantors => GrantInv'
    BY <1>1, <1>2, <1>3, <2>1 DEF StageInv, GrantInv, Busy, Grantors
  <2>5. QED
    BY <1>1, <1>3, <2>1, <2>2, <2>3, <2>4 DEF StageInv, Grantors
<1>8. QED
  BY <1>1, <1>5, <1>6, <1>7, RunningKept DEF Running

(* A completion of the child: both go on.                                  *)
LEMMA CompletionStep ==
  ASSUME BundleInv, Running, KeepsRest, CompletionArrives PROVE BundleInv'
<1> USE DEF BundleInv
<1>1. UNCHANGED <<bundle, probing, root, spawned, control, pending, status, caller, asked>>
  BY DEF KeepsRest, Bundle!bootVars, CompletionArrives
<1>2. Valued /\ ThreadInv /\ StageInv
  BY DEF Bundle!TypeOK, Valued, ThreadStates
<1>3. /\ pc' \in [Bundle!Threads -> Nat]
      /\ \A t \in {"objectd", "memd", "probe"} : pc'[t] = pc[t]
      /\ pc'["child"] = pc["child"] + 1
      /\ Taskd' = Taskd + 1
  BY <1>2 DEF CompletionArrives, ThreadInv, Bundle!Threads, Taskd
<1>4. Valued'
  BY <1>1, <1>2 DEF Valued
<1>5. ThreadInv'
  <2>1. {"taskd", "child"} \subseteq DOMAIN Bundle!Program(bundle)
    BY ProgramThreads DEF CompletionArrives
  <2>2. QED
    BY <1>1, <1>2, <1>3, <2>1 DEF ThreadInv, Bundle!Threads, Bundle!HeldChild
<1>6. StageInv'
  <2>1. Taskd > 1 /\ Taskd \in Nat /\ Free /\ (Free' <=> Free)
    BY <1>1 DEF CompletionArrives, Free
  <2>2. CASE bundle = "lifecycle"
    <3>1. LifecycleInv'
      BY <1>1, <1>2, <1>3, <2>1, <2>2 DEF StageInv, LifecycleInv, CompletionArrives
    <3>2. QED
      BY <1>1, <1>2, <1>3, <2>1, <2>2, <3>1 DEF StageInv, Grantors, Asks
  <2>3. CASE bundle = "tcb_resume"
    <3>1. GrantInv'
      BY <1>1, <1>2, <1>3, <2>1, <2>3 DEF StageInv, GrantInv, CompletionArrives, Busy, Grantors
    <3>2. QED
      BY <1>1, <1>2, <1>3, <2>1, <2>3, <3>1 DEF StageInv, Grantors, Asks
  <2>4. QED
    BY <2>2, <2>3 DEF CompletionArrives
<1>7. QED
  BY <1>1, <1>4, <1>5, <1>6, RunningKept DEF Running

(* A call of taskd: the service owes the reply.                            *)
LEMMA AskedStep ==
  ASSUME BundleInv, Running, KeepsRest, NEW s \in {"objectd", "memd"}, ServiceAsked(s)
  PROVE  BundleInv'
<1> USE DEF BundleInv
<1>1. UNCHANGED <<bundle, probing, root, spawned, control, pending, asked>>
  BY DEF KeepsRest, Bundle!bootVars, ServiceAsked
<1>2. Valued /\ ThreadInv /\ StageInv
  BY DEF Bundle!TypeOK, Valued, ThreadStates
<1>3. /\ pc' \in [Bundle!Threads -> Nat]
      /\ pc'[s] = 2 /\ Taskd' = Taskd
      /\ \A t \in Bundle!Threads \ {s} : pc'[t] = pc[t]
      /\ status' \in [Bundle!Threads -> ThreadStates]
      /\ \A t \in Bundle!Threads \ {"taskd"} : status'[t] = status[t]
      /\ status'["taskd"] = "awaiting" /\ caller'[s] = "taskd"
      /\ caller' \in [Bundle!Threads -> {"nobody", "taskd", "probe"}]
  BY <1>2 DEF ServiceAsked, Valued, ThreadInv, Bundle!Threads, Taskd, ThreadStates
<1>4. Valued'
  BY <1>1, <1>2, <1>3 DEF Valued
<1>5. ThreadInv'
  <2>1. "taskd" \in DOMAIN Bundle!Program(bundle) /\ s \in DOMAIN Bundle!Program(bundle)
    BY ProgramThreads DEF ServiceAsked, Grantors
  <2>2. QED
    BY <1>1, <1>2, <1>3, <2>1 DEF ThreadInv, Bundle!Threads, Bundle!HeldChild, ServiceAsked
<1>6. StageInv'
  <2>1. Free /\ ~Free' /\ Busy(s)' /\ pc[s] = 1 /\ Taskd \in {2, 3}
    BY <1>3 DEF ServiceAsked, Free, Busy
  <2>2. CASE bundle = "reservation"
    <3>1. ReservationInv'
      BY <1>1, <1>2, <1>3, <2>1, <2>2
         DEF StageInv, ReservationInv, ServiceAsked, Bundle!Threads, Grantors, Busy, Free
    <3>2. QED
      BY <1>1, <1>2, <1>3, <2>2, <3>1 DEF StageInv, Grantors, Asks, Bundle!Threads
  <2>3. CASE bundle \in Grantors
    <3>1. s = "objectd" /\ Taskd = 2
      BY <2>3 DEF ServiceAsked, Grantors
    <3>2. GrantInv'
      BY <1>1, <1>2, <1>3, <2>1, <2>3, <3>1
         DEF StageInv, GrantInv, Bundle!Threads, Busy, Free
    <3>3. QED
      BY <1>1, <1>2, <1>3, <2>3, <3>2 DEF StageInv, Grantors, Asks, Bundle!Threads
  <2>4. QED
    BY <2>2, <2>3 DEF ServiceAsked
<1>7. QED
  BY <1>1, <1>4, <1>5, <1>6, RunningKept DEF Running

(* A reply: taskd goes on, with the cap if one came.                       *)
LEMMA RepliedStep ==
  ASSUME BundleInv, Running, NEW s \in {"objectd", "memd"}, ServiceReplies(s)
  PROVE  BundleInv'
<1> USE DEF BundleInv
<1>1. UNCHANGED <<bundle, probing, root, spawned, pending, asked>>
  BY DEF Bundle!bootVars, ServiceReplies
<1>2. Valued /\ ThreadInv /\ StageInv
  BY DEF Bundle!TypeOK, Valued, ThreadStates
<1>3. /\ pc' \in [Bundle!Threads -> Nat]
      /\ pc'[s] = 3 /\ Taskd' = Taskd + 1
      /\ \A t \in Bundle!Threads \ {s, "taskd"} : pc'[t] = pc[t]
      /\ status' \in [Bundle!Threads -> ThreadStates]
      /\ \A t \in Bundle!Threads \ {"taskd"} : status'[t] = status[t]
      /\ status'["taskd"] = "ready"
      /\ caller' \in [Bundle!Threads -> {"nobody", "taskd", "probe"}]
  BY <1>2 DEF ServiceReplies, Valued, ThreadInv, Bundle!Threads, Taskd, ThreadStates
<1>4. Valued'
  <2>1. control' \in BOOLEAN
    BY DEF ServiceReplies
  <2>2. QED
    BY <1>1, <1>2, <1>3, <2>1 DEF Valued
<1>5. ThreadInv'
  <2>1. "taskd" \in DOMAIN Bundle!Program(bundle) /\ s \in DOMAIN Bundle!Program(bundle)
    BY ProgramThreads DEF ServiceReplies, Grantors
  <2>2. QED
    BY <1>1, <1>2, <1>3, <2>1 DEF ThreadInv, Bundle!Threads, Bundle!HeldChild, ServiceReplies
<1>6. StageInv'
  <2>1. ~Free /\ Free' /\ pc[s] = 2
    BY <1>3 DEF ServiceReplies, Free, Busy
  <2>2. CASE bundle = "reservation"
    <3>1. control' = control /\ Taskd > 1
      BY <1>2, <2>1, <2>2 DEF ServiceReplies, Grantors, Valued, StageInv, ReservationInv
    <3>2. ReservationInv'
      BY <1>1, <1>2, <1>3, <2>1, <2>2, <3>1
         DEF StageInv, ReservationInv, Bundle!Threads, Busy
    <3>3. QED
      BY <1>1, <1>2, <1>3, <2>2, <3>1, <3>2 DEF StageInv, Grantors, Asks, Bundle!Threads
  <2>3. CASE bundle \in Grantors
    <3>1. s = "objectd" /\ control' /\ Taskd = 2
      BY <1>2, <2>1, <2>3 DEF ServiceReplies, Grantors, StageInv, GrantInv
    <3>2. GrantInv'
      BY <1>1, <1>2, <1>3, <2>1, <2>3, <3>1
         DEF StageInv, GrantInv, Bundle!Threads, Busy
    <3>3. QED
      BY <1>1, <1>2, <1>3, <2>3, <3>1, <3>2 DEF StageInv, Grantors, Asks, Bundle!Threads
  <2>4. QED
    BY <2>2, <2>3 DEF ServiceReplies
<1>7. QED
  BY <1>1, <1>4, <1>5, <1>6, RunningKept DEF Running


(* A signal: taskd's start of the child, or its success.                   *)
LEMMA SignalledStep ==
  ASSUME BundleInv, NEW t \in Bundle!Threads, Bundle!SignalStep(t) PROVE BundleInv'
<1> USE DEF BundleInv
<1>1. /\ UNCHANGED <<bundle, probing, root, spawned, status, caller, asked, control>>
      /\ Running /\ status["taskd"] = "ready"
      /\ \/ bundle = "lifecycle" /\ Taskd \in {2, 6} /\ pending' = pending \cup {"start"}
         \/ Taskd = LastCall /\ pending' = pending \cup {"success"}
  BY SignalOutcome DEF Bundle!bootVars
<1>2. Valued /\ ThreadInv /\ StageInv
  BY DEF Bundle!TypeOK, Valued, ThreadStates
<1>3. /\ pc' \in [Bundle!Threads -> Nat]
      /\ Taskd' = Taskd + 1
      /\ \A x \in Bundle!Threads \ {"taskd"} : pc'[x] = pc[x]
  BY <1>2, SignalOutcome DEF ThreadInv, Bundle!Threads, Taskd
<1>4. Valued'
  BY <1>1, <1>2 DEF Valued
<1>5. ThreadInv'
  <2>1. "taskd" \in DOMAIN Bundle!Program(bundle)
    BY BundleCases, ProgramThreads DEF Grantors
  <2>2. QED
    BY <1>1, <1>2, <1>3, <2>1 DEF ThreadInv, Bundle!Threads, Bundle!HeldChild
<1>6. StageInv'
  <2>1. Free /\ Free' /\ Taskd > 1 /\ Taskd \in Nat
    BY <1>1 DEF Free, LastCall
  <2>2. CASE bundle = "lifecycle"
    <3>1. LifecycleInv'
      BY <1>1, <1>2, <1>3, <2>1, <2>2 DEF StageInv, LifecycleInv, LastCall, Bundle!Threads
    <3>2. QED
      BY <1>1, <1>2, <1>3, <2>1, <2>2, <3>1 DEF StageInv, Grantors, Asks, Bundle!Threads
  <2>3. CASE bundle = "reservation"
    <3>1. Taskd = 4 /\ pending' = pending \cup {"success"}
      BY <1>1, <2>3 DEF LastCall
    <3>2. ReservationInv'
      BY <1>1, <1>2, <1>3, <2>1, <2>3, <3>1
         DEF StageInv, ReservationInv, Busy, Bundle!Threads
    <3>3. QED
      BY <1>1, <1>2, <1>3, <2>1, <2>3, <3>2 DEF StageInv, Grantors, Asks, Bundle!Threads
  <2>4. CASE bundle \in Grantors
    <3>1. /\ Taskd = IF bundle = "tcb_resume" THEN 5 ELSE 3
          /\ pending' = pending \cup {"success"}
      BY <1>1, <2>4 DEF LastCall, Grantors
    <3>2. GrantInv'
      <4>1. GrantInv
        BY <1>2, <2>4 DEF StageInv
      <4>2. pc'["objectd"] = pc["objectd"] /\ pc'["child"] = pc["child"]
        BY <1>3 DEF Bundle!Threads
      <4>3. CASE bundle = "tcb_resume"
        BY <1>1, <1>3, <2>1, <3>1, <4>1, <4>2, <4>3 DEF GrantInv, Busy
      <4>4. CASE bundle # "tcb_resume"
        BY <1>1, <1>3, <2>1, <3>1, <4>1, <4>2, <4>4 DEF GrantInv, Busy
      <4>5. QED
        BY <4>3, <4>4
    <3>3. QED
      BY <1>1, <1>2, <1>3, <2>1, <2>4, <3>2 DEF StageInv, Grantors, Asks, Bundle!Threads
  <2>5. QED
    BY <2>2, <2>3, <2>4, BundleCases
<1>7. QED
  BY <1>1, <1>4, <1>5, <1>6, RunningKept DEF Running

(* A wait that ends: the child's for its start, the probe's for success.   *)
LEMMA WaitedStep ==
  ASSUME BundleInv, NEW t \in Bundle!Threads, Bundle!WaitStep(t) PROVE BundleInv'
<1> USE DEF BundleInv
<1>1. UNCHANGED <<bundle, probing, root, spawned, status, caller, asked, control>> /\ Running
  BY WaitOutcome DEF Bundle!bootVars
<1>2. Valued /\ ThreadInv /\ StageInv
  BY DEF Bundle!TypeOK, Valued, ThreadStates
<1>3. CASE /\ bundle = "lifecycle" /\ pc["child"] \in {1, 3}
           /\ "start" \in pending /\ pending' = pending \ {"start"}
           /\ pc' = [pc EXCEPT !["child"] = pc["child"] + 1]
  <2>1. /\ pc' \in [Bundle!Threads -> Nat] /\ Taskd' = Taskd
        /\ pc'["child"] = pc["child"] + 1
        /\ \A x \in Bundle!Threads \ {"child"} : pc'[x] = pc[x]
    BY <1>2, <1>3 DEF ThreadInv, Bundle!Threads, Taskd
  <2>2. Valued'
    BY <1>1, <1>2, <1>3 DEF Valued
  <2>3. ThreadInv'
    BY <1>1, <1>2, <1>3, <2>1, ProgramThreads DEF ThreadInv, Bundle!Threads, Bundle!HeldChild
  <2>4. LifecycleInv'
    BY <1>1, <1>2, <1>3, <2>1 DEF StageInv, LifecycleInv, Bundle!Threads, Free
  <2>5. StageInv'
    BY <1>1, <1>2, <1>3, <2>1, <2>4 DEF StageInv, Grantors, Asks, Bundle!Threads
  <2>6. QED
    BY <1>1, <2>2, <2>3, <2>5, RunningKept DEF Running
<1>4. ASSUME NEW q \in 1..3, "success" \in pending, pending' = pending \ {"success"},
             pc' = [pc EXCEPT !["probe"] = q]
      PROVE  BundleInv'
  <2>1. /\ pc' \in [Bundle!Threads -> Nat] /\ Taskd' = Taskd /\ pc'["probe"] = q
        /\ \A x \in Bundle!Threads \ {"probe"} : pc'[x] = pc[x]
    BY <1>2, <1>4 DEF ThreadInv, Bundle!Threads, Taskd
  <2>2. Valued'
    BY <1>1, <1>2, <1>4 DEF Valued
  <2>3. ThreadInv'
    <3>1. "probe" \in DOMAIN Bundle!Program(bundle)
      BY BundleCases, ProgramThreads DEF Grantors
    <3>2. QED
      BY <1>1, <1>2, <2>1, <3>1 DEF ThreadInv, Bundle!Threads, Bundle!HeldChild
  <2>4. StageInv'
    <3>1. bundle = "lifecycle" => LifecycleInv'
      BY <1>1, <1>2, <1>4, <2>1 DEF StageInv, LifecycleInv, Bundle!Threads, Free
    <3>2. bundle = "reservation" => ReservationInv'
      BY <1>1, <1>2, <1>4, <2>1 DEF StageInv, ReservationInv, Busy, Bundle!Threads, Free
    <3>3. bundle \in Grantors => GrantInv'
      BY <1>1, <1>2, <1>4, <2>1 DEF StageInv, GrantInv, Busy, Bundle!Threads, Free
    <3>4. QED
      BY <1>1, <1>2, <2>1, <3>1, <3>2, <3>3 DEF StageInv, Grantors, Asks
  <2>5. QED
    BY <1>1, <2>2, <2>3, <2>4, RunningKept DEF Running
<1>5. QED
  BY <1>3, <1>4, WaitOutcome

(* taskd suspends or resumes the child, or is refused and stops.           *)
LEMMA ControlledStep ==
  ASSUME BundleInv, Bundle!SuspendTcb \/ Bundle!ResumeTcb \/ Bundle!ControlFails
  PROVE  BundleInv'
<1> USE DEF BundleInv
<1>1. /\ UNCHANGED <<bundle, probing, root, spawned, caller, asked, control, pending>>
      /\ Running /\ status["taskd"] = "ready"
  BY ControlOutcome DEF Bundle!bootVars
<1>2. Valued /\ ThreadInv /\ StageInv
  BY DEF Bundle!TypeOK, Valued, ThreadStates
<1>3. "taskd" \in DOMAIN Bundle!Program(bundle)
  BY BundleCases, ProgramThreads DEF Grantors
<1>4. ASSUME NEW s \in {"suspended", "ready"},
             status' = [status EXCEPT !["child"] = s],
             pc' = [pc EXCEPT !["taskd"] = Taskd + 1],
             \/ bundle = "lifecycle" /\ Taskd \in {4, 5}
             \/ bundle = "tcb_resume" /\ Taskd = 3 /\ control /\ s = "ready"
      PROVE  BundleInv'
  <2>1. /\ pc' \in [Bundle!Threads -> Nat] /\ Taskd' = Taskd + 1
        /\ \A x \in Bundle!Threads \ {"taskd"} : pc'[x] = pc[x]
        /\ status' \in [Bundle!Threads -> ThreadStates] /\ status'["child"] = s
        /\ \A x \in Bundle!Threads \ {"child"} : status'[x] = status[x]
    BY <1>2, <1>4 DEF ThreadInv, Valued, Bundle!Threads, Taskd, ThreadStates
  <2>2. Valued'
    BY <1>1, <1>2, <2>1 DEF Valued
  <2>3. ThreadInv'
    <3>1. "child" \in DOMAIN Bundle!Program(bundle)
      BY <1>4, ProgramThreads
    <3>2. QED
      BY <1>1, <1>2, <1>3, <2>1, <3>1 DEF ThreadInv, Bundle!Threads, Bundle!HeldChild
  <2>4. StageInv'
    <3>1. Free /\ Free' /\ Taskd > 1 /\ Taskd \in Nat
      BY <1>1, <1>4, <2>1 DEF Free, Bundle!Threads
    <3>2. CASE bundle = "lifecycle"
      <4>1. LifecycleInv'
        BY <1>1, <1>2, <1>4, <2>1, <3>1, <3>2 DEF StageInv, LifecycleInv, Bundle!Threads
      <4>2. QED
        BY <1>1, <1>2, <2>1, <3>1, <3>2, <4>1 DEF StageInv, Grantors, Asks, Bundle!Threads
    <3>3. CASE bundle = "tcb_resume"
      <4>1. GrantInv'
        BY <1>1, <1>2, <1>4, <2>1, <3>1, <3>3 DEF StageInv, GrantInv, Bundle!Threads, Busy,
           Grantors
      <4>2. QED
        BY <1>1, <1>2, <2>1, <3>1, <3>3, <4>1 DEF StageInv, Grantors, Asks, Bundle!Threads
    <3>4. QED
      BY <1>4, <3>2, <3>3
  <2>5. QED
    BY <1>1, <2>2, <2>3, <2>4, RunningKept DEF Running
<1>5. CASE status' = [status EXCEPT !["taskd"] = "rejected"] /\ pc' = pc
  <2>1. /\ status' \in [Bundle!Threads -> ThreadStates] /\ status'["taskd"] = "rejected"
        /\ \A x \in Bundle!Threads \ {"taskd"} : status'[x] = status[x]
    BY <1>2, <1>5 DEF Valued, Bundle!Threads, ThreadStates
  <2>2. Valued'
    BY <1>1, <1>2, <2>1 DEF Valued
  <2>3. ThreadInv'
    BY <1>1, <1>2, <1>3, <1>5, <2>1 DEF ThreadInv, Bundle!Threads, Bundle!HeldChild
  <2>4. StageInv'
    <3>1. Free /\ Free' /\ Taskd' = Taskd
      BY <1>1, <1>5, <2>1 DEF Free, Taskd
    <3>2. bundle = "lifecycle" => LifecycleInv'
      BY <1>1, <1>2, <1>5, <3>1 DEF StageInv, LifecycleInv
    <3>3. bundle = "reservation" => ReservationInv'
      BY <1>1, <1>2, <1>5, <3>1 DEF StageInv, ReservationInv, Busy
    <3>4. bundle \in Grantors => GrantInv'
      BY <1>1, <1>2, <1>5, <2>1, <3>1 DEF StageInv, GrantInv, Busy, Bundle!Threads
    <3>5. QED
      BY <1>1, <1>2, <1>5, <3>1, <3>2, <3>3, <3>4 DEF StageInv, Grantors, Asks
  <2>5. QED
    BY <1>1, <2>2, <2>3, <2>4, RunningKept DEF Running
<1>6. QED
  BY <1>4, <1>5, ControlOutcome

(* Root's steps move no thread.                                            *)
LEMMA BootStep == ASSUME BundleInv, Bundle!Boot PROVE BundleInv'
<1> USE DEF BundleInv
<1>1. /\ UNCHANGED <<bundle, probing, pc, caller, asked, control, pending>>
      /\ root \in {"preparing", "spawning"} /\ ~Running
      /\ root' \in {"preparing", "spawning", "gone_on", "suspended"}
      /\ spawned' \in 0..Len(Bundle!SpawnOrder(bundle))
  BY DEF Bundle!Boot, Bundle!PrepareBundle, Bundle!PrepareFails, Bundle!SpawnNext,
     Bundle!SpawnFails, Bundle!TypeOK, Running
<1>2. Valued /\ ThreadInv /\ StageInv
  BY DEF Bundle!TypeOK, Valued, ThreadStates
<1>3. bundle \in {"lifecycle", "reservation"} \cup Grantors
  BY BundleCases
<1>4. /\ \A t \in Bundle!Threads : status[t] \in {"none", "configured", "ready", "suspended"}
      /\ \A t \in Bundle!Threads : pc[t] = 1
  BY <1>1 DEF QuietInv
<1>5. /\ status' \in [Bundle!Threads -> {"none", "configured", "ready", "suspended"}]
      /\ \A t \in Bundle!Threads : status'[t] = "ready" => t \in DOMAIN Bundle!Program(bundle)
      /\ Bundle!HeldChild(bundle) =>
           /\ status'["child"] # "ready"
           /\ status'["child"] = "none" => \A t \in Bundle!Threads : status'[t] = "none"
           /\ root' = "spawning" => status'["child"] # "none"
  <2>1. CASE Bundle!PrepareBundle
    <3>1. /\ status' = [t \in Bundle!Threads |->
                         IF \/ t \in DOMAIN Bundle!Program(bundle)
                            \/ t = "child" /\ Bundle!HeldChild(bundle)
                         THEN "configured" ELSE "none"]
      BY <1>2, <2>1 DEF Bundle!PrepareBundle, Valued
    <3>2. QED
      BY <3>1 DEF Bundle!Threads
  <2>2. CASE Bundle!PrepareFails \/ Bundle!SpawnFails
    <3>1. UNCHANGED status /\ root' = "suspended"
      BY <2>2 DEF Bundle!PrepareFails, Bundle!SpawnFails
    <3>2. \A t \in Bundle!Threads : status[t] = "ready" => t \in DOMAIN Bundle!Program(bundle)
      BY <1>2 DEF ThreadInv
    <3>3. Bundle!HeldChild(bundle) => status["child"] # "ready"
      BY <1>2, <1>4 DEF Bundle!HeldChild, StageInv, GrantInv, Grantors, Taskd, Bundle!Threads
    <3>4. QED
      BY <1>2, <1>4, <3>1, <3>2, <3>3 DEF Valued, ThreadInv, Bundle!Threads
  <2>3. CASE Bundle!SpawnNext
    <3> DEFINE n == Bundle!NextSpawned
    <3>1. /\ root = "spawning" /\ spawned \in Nat
          /\ spawned < Len(Bundle!SpawnOrder(bundle))
          /\ status' = [status EXCEPT ![n] = IF n = "child" /\ Bundle!HeldChild(bundle)
                                             THEN "suspended" ELSE "ready"]
      BY <2>3 DEF Bundle!SpawnNext, Bundle!TypeOK
    <3>2. n \in DOMAIN Bundle!Program(bundle) /\ n \in Bundle!Threads
      <4>1. CASE bundle = "reservation"
        BY <3>1, <4>1, ProgramThreads DEF Bundle!NextSpawned, Bundle!SpawnOrder, Bundle!Threads
      <4>2. CASE bundle = "tcb_resume"
        BY <3>1, <4>2, ProgramThreads DEF Bundle!NextSpawned, Bundle!SpawnOrder, Bundle!Threads
      <4>3. CASE bundle = "lifecycle"
        BY <3>1, <4>3, ProgramThreads DEF Bundle!NextSpawned, Bundle!SpawnOrder, Bundle!Threads
      <4>4. CASE bundle \in {"opaque", "tcb_lease"}
        BY <3>1, <4>4, ProgramThreads DEF Bundle!NextSpawned, Bundle!SpawnOrder, Bundle!Threads
      <4>5. QED
        BY <1>3, <4>1, <4>2, <4>3, <4>4 DEF Grantors
    <3>3. \A t \in Bundle!Threads : status[t] = "ready" => t \in DOMAIN Bundle!Program(bundle)
      BY <1>2 DEF ThreadInv
    <3>4. Bundle!HeldChild(bundle) => status["child"] \notin {"ready", "none"}
      BY <1>2, <1>4, <3>1
         DEF Bundle!HeldChild, QuietInv, StageInv, GrantInv, Grantors, Taskd, Bundle!Threads
    <3> HIDE DEF n
    <3>5. /\ status'[n] \in {"suspended", "ready"}
          /\ \A t \in Bundle!Threads \ {n} : status'[t] = status[t]
          /\ n = "child" /\ Bundle!HeldChild(bundle) => status'[n] = "suspended"
          /\ DOMAIN status' = Bundle!Threads
      BY <1>2, <3>1, <3>2 DEF Valued
    <3>6. status' \in [Bundle!Threads -> {"none", "configured", "ready", "suspended"}]
      BY <1>2, <1>4, <3>1, <3>2 DEF Valued
    <3>7. QED
      BY <3>2, <3>3, <3>4, <3>5, <3>6 DEF Bundle!Threads
  <2>4. QED
    BY <2>1, <2>2, <2>3 DEF Bundle!Boot
<1>6. Valued'
  BY <1>1, <1>2, <1>5 DEF Valued, ThreadStates
<1>7. ThreadInv'
  BY <1>1, <1>2, <1>4, <1>5 DEF ThreadInv
<1>8. StageInv'
  <2>1. Free' /\ Taskd' = Taskd /\ Taskd = 1
    BY <1>1, <1>4, <1>5 DEF Free, Taskd, Bundle!Threads
  <2>2. bundle = "lifecycle" => LifecycleInv'
    BY <1>1, <1>2, <2>1 DEF StageInv, LifecycleInv
  <2>3. bundle = "reservation" => ReservationInv'
    BY <1>1, <1>2, <1>4, <2>1 DEF StageInv, ReservationInv, Bundle!Threads
  <2>4. bundle \in Grantors => GrantInv'
    <3>1. bundle \in Grantors => GrantInv /\ pc["objectd"] = 1 /\ pc["child"] = 1
      BY <1>2, <1>4 DEF StageInv, Bundle!Threads
    <3>2. bundle \in {"tcb_lease", "tcb_resume"} =>
            status'["child"] \in {"none", "configured", "suspended"}
      BY <1>5 DEF Bundle!HeldChild, Bundle!Threads
    <3>3. bundle = "opaque" => status'["child"] # "ready"
      BY <1>5, ProgramThreads DEF Bundle!Threads
    <3>4. QED
      BY <1>1, <2>1, <3>1, <3>2, <3>3 DEF GrantInv, Grantors
  <2>5. QED
    BY <1>1, <1>2, <2>1, <2>2, <2>3, <2>4 DEF StageInv, Grantors, Asks
<1>9. Bundle!TypeOK'
  BY <1>6, <1>7, <1>8, StagesBound, PTL
<1>10. QuietInv'
  BY <1>1, <1>4, <1>5 DEF QuietInv, Bundle!Threads
<1>11. QED
  BY <1>7, <1>8, <1>9, <1>10

(* Nobody has moved at the start.                                          *)
LEMMA InitBundleInv == Bundle!Init => BundleInv
<1> SUFFICES ASSUME Bundle!Init PROVE BundleInv
  OBVIOUS
<1> USE DEF Bundle!Init
<1>1. bundle \in {"lifecycle", "reservation"} \cup Grantors
  BY BundleAssumption DEF Bundle!BundlesAssumption, Bundle!BundleNames, Grantors
<1>2. Len(Bundle!SpawnOrder(bundle)) \in Nat
  BY <1>1 DEF Bundle!SpawnOrder, Grantors
<1>3. Valued
  BY <1>2 DEF Valued, ThreadStates
<1>4. ThreadInv
  BY DEF ThreadInv
<1>5. StageInv
  <2>1. /\ \A t \in Bundle!Threads : pc[t] = 1 /\ status[t] = "none"
        /\ Taskd = 1 /\ Free /\ pending = {}
    BY DEF Taskd, Free, Bundle!Threads
  <2>2. control <=> bundle = "lifecycle"
    OBVIOUS
  <2>3. bundle = "lifecycle" => LifecycleInv
    BY <2>1, <2>2 DEF LifecycleInv, Bundle!Threads
  <2>4. bundle = "reservation" => ReservationInv
    BY <2>1, <2>2 DEF ReservationInv, Bundle!Threads
  <2>5. bundle \in Grantors => GrantInv
    BY <2>1, <2>2 DEF GrantInv, Grantors, Bundle!Threads
  <2>6. QED
    BY <2>1, <2>3, <2>4, <2>5 DEF StageInv, Bundle!Threads
<1>6. QuietInv
  BY DEF QuietInv
<1>7. QED
  BY <1>3, <1>4, <1>5, <1>6, StagesBound DEF BundleInv

(* The invariant is inductive.                                             *)
LEMMA BundleStep == BundleInv /\ [Bundle!Next]_(Bundle!vars) => BundleInv'
<1> SUFFICES ASSUME BundleInv, [Bundle!Next]_(Bundle!vars) PROVE BundleInv'
  OBVIOUS
<1>1. CASE Bundle!Boot
  BY <1>1, BootStep
<1>2. ASSUME NEW t \in Bundle!Threads, Bundle!Step(t) PROVE BundleInv'
  <2>1. ASSUME NEW r \in Bundle!Threads, Bundle!Transfer(t, r) PROVE BundleInv'
    BY <2>1, TransferOutcome, RequestStep, CompletionStep, AskedStep
  <2>2. CASE Bundle!Reply(t)
    BY <2>2, ReplyOutcome, RepliedStep
  <2>3. CASE Bundle!SignalStep(t)
    BY <2>3, SignalledStep
  <2>4. CASE Bundle!WaitStep(t)
    BY <2>4, WaitedStep
  <2>5. CASE Bundle!SuspendTcb \/ Bundle!ResumeTcb \/ Bundle!ControlFails
    BY <2>5, ControlledStep
  <2>6. QED
    BY <1>2, <2>1, <2>2, <2>3, <2>4, <2>5 DEF Bundle!Step
<1>3. CASE UNCHANGED Bundle!vars
  <2>1. UNCHANGED <<bundle, probing, root, spawned, status, pc, caller, asked, control, pending>>
    BY <1>3 DEF Bundle!vars, Bundle!bootVars
  <2>2. QED
    BY <2>1 DEF BundleInv, Bundle!TypeOK, QuietInv, Running, ThreadInv, StageInv, LifecycleInv,
       ReservationInv, GrantInv, Taskd, Free, Busy, Asks
<1>4. QED
  BY <1>1, <1>2, <1>3 DEF Bundle!Next

(* Every reachable state of every bundle satisfies the invariant.          *)
THEOREM BundleInvariance == FixturesSpec => []BundleInv
<1>1. FixturesInit => BundleInv
  BY InitBundleInv DEF FixturesInit
<1>2. [FixturesNext]_<<part, vars, bundleVars>> => [Bundle!Next]_(Bundle!vars)
  BY DEF FixturesNext, bundleVars, Bundle!vars, Bundle!bootVars
<1>3. BundleInv /\ [FixturesNext]_<<part, vars, bundleVars>> => BundleInv'
  BY <1>2, BundleStep
<1>4. QED
  BY <1>1, <1>3, PTL DEF FixturesSpec

(* Whatever the order of the threads, whatever the probe sends, and        *)
(* whatever fails, success is signalled only after all it stands for has   *)
(* happened, a refused request touches nothing, and no start of the child  *)
(* is merged with the one before it.                                       *)
THEOREM BundlesAreSafe == FixturesSpec => []BundlesSafe
<1>1. BundleInv => BundlesSafe
  <2> SUFFICES ASSUME BundleInv PROVE BundlesSafe
    OBVIOUS
  <2>1. /\ Bundle!TypeOK /\ StageInv /\ ThreadInv
        /\ bundle \in {"lifecycle", "reservation"} \cup Grantors
    BY BundleCases DEF BundleInv
  <2>2. Bundle!SuccessIsEarned
    <3> SUFFICES ASSUME "success" \in pending PROVE Bundle!SuccessIsEarned
      BY DEF Bundle!SuccessIsEarned
    <3>1. \A t \in DOMAIN Bundle!Program(bundle) :
             Bundle!Finished(t) <=> pc[t] > Length(t)
      BY <2>1, Lengths DEF Bundle!Finished
    <3>2. CASE bundle = "lifecycle"
      BY <2>1, <3>1, <3>2, ProgramThreads
         DEF StageInv, LifecycleInv, Bundle!SuccessIsEarned, Length, Asks
    <3>3. CASE bundle = "reservation"
      BY <2>1, <3>1, <3>3, ProgramThreads
         DEF StageInv, ReservationInv, Bundle!SuccessIsEarned, Length, Asks
    <3>4. CASE bundle \in Grantors
      BY <2>1, <3>1, <3>4, ProgramThreads
         DEF StageInv, GrantInv, Grantors, Bundle!SuccessIsEarned, Length, Asks
    <3>5. QED
      BY <2>1, <3>2, <3>3, <3>4
  <2>3. Bundle!RefusalTouchesNothing
    <3> SUFFICES ASSUME asked \notin {"none", Asks}
                 PROVE  /\ pending = {}
                        /\ \A t \in {"objectd", "memd", "child"} : pc[t] = 1
                        /\ control <=> bundle = "lifecycle"
      BY <2>1 DEF Bundle!RefusalTouchesNothing, Asks, Bundle!TypeOK
    <3>1. Taskd <= 1
      BY <2>1 DEF StageInv, ThreadInv, Taskd, Bundle!Threads
    <3>2. CASE bundle = "lifecycle"
      BY <2>1, <3>1, <3>2, ProgramThreads DEF StageInv, LifecycleInv, ThreadInv, Bundle!Threads
    <3>3. CASE bundle = "reservation"
      BY <2>1, <3>1, <3>3, ProgramThreads DEF StageInv, ReservationInv, ThreadInv, Bundle!Threads
    <3>4. CASE bundle \in Grantors
      BY <2>1, <3>1, <3>4, ProgramThreads
         DEF StageInv, GrantInv, Grantors, ThreadInv, Bundle!Threads
    <3>5. QED
      BY <2>1, <3>2, <3>3, <3>4
  <2>4. Bundle!StartNeverMerged
    <3> SUFFICES ASSUME NEW o \in Bundle!Offers("taskd"), o.op = "signal", o.on = "start"
                 PROVE  "start" \notin pending
      BY DEF Bundle!StartNeverMerged
    <3>1. bundle = "lifecycle" /\ Taskd \in {2, 6}
      BY TaskdCalls DEF Bundle!Send, Bundle!Recv, Bundle!Call, Bundle!Answer, Bundle!Signal,
         Bundle!Wait, Bundle!Invoke
    <3>2. QED
      BY <2>1, <3>1 DEF StageInv, LifecycleInv
  <2>5. QED
    BY <2>1, <2>2, <2>3, <2>4 DEF BundlesSafe
<1>2. QED
  BY BundleInvariance, <1>1, PTL


(* A child that is held runs by the lease of its cap alone.                *)
LEMMA ControlOfChild ==
  BundleInv /\ [Bundle!Next]_(Bundle!vars) => [Bundle!Leased!Next]_(Bundle!Leased!vars)
<1> SUFFICES ASSUME BundleInv, [Bundle!Next]_(Bundle!vars)
             PROVE  [Bundle!Leased!Next]_(Bundle!Leased!vars)
  OBVIOUS
<1> USE DEF Bundle!Leased!Next, Bundle!Leased!vars
<1>1. /\ StageInv /\ ThreadInv
      /\ status \in [Bundle!Threads -> ThreadStates]
      /\ control \in BOOLEAN
  BY DEF BundleInv, Bundle!TypeOK, ThreadStates
<1>2. bundle' = bundle
  BY DEF Bundle!Next, Bundle!Boot, Bundle!PrepareBundle, Bundle!PrepareFails, Bundle!SpawnNext,
     Bundle!SpawnFails, Bundle!Step, Bundle!Transfer, Bundle!Reply, Bundle!SignalStep,
     Bundle!WaitStep, Bundle!SuspendTcb, Bundle!ResumeTcb, Bundle!ControlFails, Bundle!vars,
     Bundle!bootVars
<1>3. CASE ~Bundle!HeldChild(bundle)
  BY <1>2, <1>3 DEF Bundle!HeldChild
<1>4. ASSUME status'["child"] = status["child"], pc'["child"] = pc["child"],
             control' = control
      PROVE  [Bundle!Leased!Next]_(Bundle!Leased!vars)
  BY <1>2, <1>4 DEF Bundle!HeldChild
<1>5. ASSUME Bundle!HeldChild(bundle), Bundle!Boot
      PROVE  [Bundle!Leased!Next]_(Bundle!Leased!vars)
  <2>1. BundleInv' /\ ~Running
    BY <1>5, BootStep DEF Bundle!Boot, Bundle!PrepareBundle, Bundle!PrepareFails,
       Bundle!SpawnNext, Bundle!SpawnFails, Running
  <2>2. pc' = pc /\ control' = control /\ ~control
    <3>1. ~control
      BY <1>1, <1>5, <2>1 DEF StageInv, GrantInv, Grantors, Bundle!HeldChild, BundleInv,
         QuietInv, Taskd, Bundle!Threads
    <3>2. QED
      BY <1>5, <3>1 DEF Bundle!Boot, Bundle!PrepareBundle, Bundle!PrepareFails,
         Bundle!SpawnNext, Bundle!SpawnFails
  <2>3. pc["child"] = 1 /\ status["child"] # "ready" /\ status'["child"] # "ready"
    <3>1. Taskd = 1 /\ Taskd' = 1 /\ pc["child"] = 1
      BY <2>1, <2>2 DEF BundleInv, QuietInv, Bundle!Threads, Taskd
    <3>2. GrantInv /\ GrantInv'
      BY <1>1, <1>2, <1>5, <2>1 DEF BundleInv, StageInv, Grantors, Bundle!HeldChild
    <3>3. QED
      BY <1>2, <1>5, <3>1, <3>2 DEF GrantInv, Bundle!HeldChild
  <2>4. status'["child"] = "none" => status["child"] = "none"
    <3>1. CASE Bundle!PrepareBundle
      BY <1>1, <1>5, <3>1 DEF Bundle!PrepareBundle, Bundle!Threads
    <3>2. CASE Bundle!PrepareFails \/ Bundle!SpawnFails
      BY <3>2 DEF Bundle!PrepareFails, Bundle!SpawnFails
    <3>3. CASE Bundle!SpawnNext
      BY <1>1, <3>3 DEF Bundle!SpawnNext, Bundle!Threads
    <3>4. QED
      BY <1>5, <3>1, <3>2, <3>3 DEF Bundle!Boot
  <2>5. QED
    BY <1>2, <1>5, <2>2, <2>3, <2>4 DEF Bundle!HeldChild, Bundle!Leased!Construct
<1>6. ASSUME Bundle!HeldChild(bundle), NEW t \in Bundle!Threads, Bundle!Step(t)
      PROVE  [Bundle!Leased!Next]_(Bundle!Leased!vars)
  <2>1. \A x \in Bundle!Threads : status[x] = "ready" => status["child"] # "none"
    BY <1>1, <1>6 DEF ThreadInv
  <2>2. bundle \in {"tcb_lease", "tcb_resume"} /\ GrantInv
    BY <1>1, <1>6 DEF Bundle!HeldChild, StageInv, Grantors
  <2>3. ASSUME NEW r \in Bundle!Threads, Bundle!Transfer(t, r)
        PROVE  [Bundle!Leased!Next]_(Bundle!Leased!vars)
    <3>1. UNCHANGED control
      BY <2>3, TransferOutcome DEF KeepsRest
    <3>2. CASE RequestArrives
      BY <1>1, <1>4, <3>1, <3>2 DEF RequestArrives, ThreadInv, Bundle!Threads
    <3>3. CASE CompletionArrives
      <4>1. bundle = "tcb_resume" /\ status' = status /\ status["child"] = "ready"
        BY <2>2, <3>3 DEF CompletionArrives
      <4>2. pc["child"] = 1 /\ pc'["child"] = 2
        BY <1>1, <2>2, <3>3 DEF CompletionArrives, ThreadInv, Bundle!Threads
      <4>3. QED
        BY <1>2, <1>6, <3>1, <4>1, <4>2 DEF Bundle!HeldChild, Bundle!Leased!Finish
    <3>4. ASSUME NEW s \in {"objectd", "memd"}, ServiceAsked(s)
          PROVE  [Bundle!Leased!Next]_(Bundle!Leased!vars)
      BY <1>1, <1>4, <3>1, <3>4 DEF ServiceAsked, ThreadInv, Bundle!Threads
    <3>5. QED
      BY <2>3, <3>2, <3>3, <3>4, TransferOutcome
  <2>4. CASE Bundle!Reply(t)
    <3>1. PICK s \in {"objectd", "memd"} : ServiceReplies(s)
      BY <2>4, ReplyOutcome
    <3>2. /\ status'["child"] = status["child"] /\ pc'["child"] = pc["child"] /\ control'
          /\ status["child"] # "none"
      BY <1>1, <2>1, <2>2, <3>1 DEF ServiceReplies, ThreadInv, Bundle!Threads, Grantors
    <3>3. CASE control
      BY <1>4, <3>2, <3>3
    <3>4. CASE ~control
      BY <1>2, <1>6, <3>2, <3>4 DEF Bundle!HeldChild, Bundle!Leased!Lease
    <3>5. QED
      BY <3>3, <3>4
  <2>5. CASE Bundle!SignalStep(t)
    BY <1>1, <1>4, <2>5, SignalOutcome DEF ThreadInv, Bundle!Threads
  <2>6. CASE Bundle!WaitStep(t)
    BY <1>1, <1>4, <2>2, <2>6, WaitOutcome DEF ThreadInv, Bundle!Threads
  <2>7. CASE Bundle!SuspendTcb \/ Bundle!ResumeTcb \/ Bundle!ControlFails
    <3>1. CASE /\ bundle = "tcb_resume" /\ Taskd = 3 /\ control /\ status["taskd"] = "ready"
               /\ status' = [status EXCEPT !["child"] = "ready"]
               /\ pc' = [pc EXCEPT !["taskd"] = Taskd + 1] /\ control' = control
      <4>1. /\ pc["child"] = 1 /\ pc'["child"] = 1 /\ status'["child"] = "ready"
            /\ status["child"] \notin {"none", "ready"}
        BY <1>1, <2>1, <2>2, <3>1 DEF GrantInv, ThreadInv, Bundle!Threads
      <4>2. QED
        BY <1>2, <3>1, <4>1 DEF Bundle!HeldChild, Bundle!Leased!Start
    <3>2. CASE /\ status' = [status EXCEPT !["taskd"] = "rejected"]
               /\ pc' = pc /\ control' = control
      BY <1>1, <1>4, <3>2 DEF Bundle!Threads
    <3>3. QED
      BY <2>2, <2>7, <3>1, <3>2, ControlOutcome
  <2>8. QED
    BY <1>6, <2>3, <2>4, <2>5, <2>6, <2>7 DEF Bundle!Step
<1>7. CASE UNCHANGED Bundle!vars
  BY <1>4, <1>7 DEF Bundle!vars, Bundle!bootVars
<1>8. QED
  BY <1>3, <1>5, <1>6, <1>7 DEF Bundle!Next

(* The lease of a child's cap through objectd implements ChildControl: the  *)
(* child is made once and runs only when the cap has reached taskd          *)
(* (taskd_tcb_lease_m1.c, taskd_tcb_resume_m2.c).                          *)
THEOREM LeaseRefined == FixturesSpec => ChildIsLeased
<1>1. FixturesInit => Bundle!Leased!Init
  BY DEF FixturesInit, Bundle!Init, Bundle!Leased!Init, Bundle!Threads, Bundle!HeldChild
<1>2. [FixturesNext]_<<part, vars, bundleVars>> => [Bundle!Next]_(Bundle!vars)
  BY DEF FixturesNext, bundleVars, Bundle!vars, Bundle!bootVars
<1>3. BundleInv /\ [FixturesNext]_<<part, vars, bundleVars>>
        => [Bundle!Leased!Next]_(Bundle!Leased!vars)
  BY <1>2, ControlOfChild
<1>4. QED
  BY <1>1, <1>3, BundleInvariance, PTL
     DEF FixturesSpec, ChildIsLeased, Bundle!ImplementsChildControl, Bundle!Leased!Spec

=============================================================================
