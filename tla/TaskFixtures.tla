---------------------------- MODULE TaskFixtures ----------------------------
(***************************************************************************)
(* The one-shot task fixtures of SeLinOS: taskd, the services it calls     *)
(* (objectd, memd), the child it controls and the probe that asks for it.  *)
(* Five bundles of them are built, each of programs without branches except *)
(* "on anything unexpected, yield for ever":                               *)
(*                                                                         *)
(*   lifecycle    start, suspend, resume and start again a child           *)
(*   reservation  a status-only reservation at objectd, then at memd       *)
(*   opaque       one notification cap moves from objectd to taskd         *)
(*   tcb_lease    the same with the TCB cap of a child that is not spawned *)
(*   tcb_resume   taskd resumes the child through the cap it was leased    *)
(*                                                                         *)
(* A program is the sequence of its kernel calls.  Root spawns a bundle at *)
(* the top priority, so nothing runs until root has gone on or given up.   *)
(***************************************************************************)
EXTENDS Naturals, Sequences

CONSTANTS
  Bundles,   \* the bundles considered, of BundleNames
  Probes,    \* the kinds of probe: TRUE runs its program, FALSE sends anything
  Failing    \* the fallible steps that may fail

BundleNames == {"lifecycle", "reservation", "opaque", "tcb_lease", "tcb_resume"}
Threads == {"taskd", "objectd", "memd", "child", "probe"}
FallibleSteps == {"prepare", "spawn", "suspend", "resume"}

BundlesAssumption == Bundles \subseteq BundleNames
ProbesAssumption == Probes \subseteq BOOLEAN
FailingAssumption == Failing \subseteq FallibleSteps

-----------------------------------------------------------------------------
(* Programs.  A message stands for its label, length and words; whoever    *)
(* receives one compares it with the one message it knows.                 *)

Send(ep, m)       == [op |-> "send", on |-> ep, msg |-> m, wants |-> "none", caps |-> 0]
Recv(ep, m)       == [op |-> "recv", on |-> ep, msg |-> m, wants |-> "none", caps |-> 0]
Call(ep, m, r, n) == [op |-> "call", on |-> ep, msg |-> m, wants |-> r, caps |-> n]
Answer(m, n)      == [op |-> "answer", on |-> "none", msg |-> m, wants |-> "none", caps |-> n]
Signal(n)         == [op |-> "signal", on |-> n, msg |-> "none", wants |-> "none", caps |-> 0]
Wait(n)           == [op |-> "wait", on |-> n, msg |-> "none", wants |-> "none", caps |-> 0]
Invoke(what)     == [op |-> what, on |-> "none", msg |-> "none", wants |-> "none", caps |-> 0]

\* Deviation: the second start does not wait for the first completion.
LifecycleStartsTwice == <<Recv("client", "START"), Signal("start"),
                          Signal("start"), Recv("completion", "DONE1"),
                          Invoke("suspend"), Invoke("resume"),
                          Recv("completion", "DONE2"), Signal("success")>>

\* servers/taskd_m1.c
LifecycleTaskd == <<Recv("client", "START"), Signal("start"),
                    Recv("completion", "DONE1"),
                    Invoke("suspend"), Invoke("resume"),
                    Signal("start"), Recv("completion", "DONE2"),
                    Signal("success")>>

\* drivers/task_lifecycle_child.c
LifecycleChild == <<Wait("start"), Send("completion", "DONE1"),
                    Wait("start"), Send("completion", "DONE2")>>

\* drivers/task_lifecycle_probe.c
LifecycleProbe == <<Send("client", "START"), Wait("success")>>

\* servers/taskd_reservation_m1.c
ReservationTaskd == <<Recv("client", "REQUEST"),
                      Call("object", "RESERVE", "RESERVED", 0),
                      Call("mem", "RESERVE_PLAN", "PLAN_RESERVED", 0),
                      Signal("success")>>

\* servers/objectd_reservation_m2.c
ReservationObjectd == <<Recv("object", "RESERVE"), Answer("RESERVED", 0)>>

\* servers/memd_reservation_m2.c
ReservationMemd == <<Recv("mem", "RESERVE_PLAN"), Answer("PLAN_RESERVED", 0)>>

\* drivers/taskd_reservation_m1_probe.c, and the other bundles' probes
RequestProbe == <<Send("client", "REQUEST"), Wait("success")>>

\* servers/taskd_opaque_lease_m1.c: the receive path is an empty slot
OpaqueTaskd == <<Recv("client", "REQUEST"),
                 Call("object", "REQUEST", "GRANTED", 1), Signal("success")>>

\* servers/objectd_opaque_lease_m1.c
OpaqueObjectd == <<Recv("object", "REQUEST"), Answer("GRANTED", 1)>>

\* servers/taskd_tcb_lease_m1.c: the child's cap is received and not used
LeaseTaskd == <<Recv("client", "REQUEST"),
                Call("object", "REQUEST", "GRANTED", 1), Signal("success")>>

\* servers/objectd_tcb_lease_m1.c
LeaseObjectd == <<Recv("object", "REQUEST"), Answer("GRANTED", 1)>>

\* servers/taskd_tcb_resume_m2.c
ResumeTaskd == <<Recv("client", "REQUEST"),
                 Call("object", "REQUEST", "GRANTED", 1),
                 Invoke("resume"), Recv("completion", "RAN"),
                 Signal("success")>>

\* servers/objectd_tcb_resume_m2.c
ResumeObjectd == <<Recv("object", "REQUEST"), Answer("GRANTED", 1)>>

\* drivers/tcb_resume_m2_child.c
ResumeChild == <<Send("completion", "RAN")>>

Program(b) ==
  CASE b = "lifecycle"   -> [taskd |-> LifecycleTaskd, child |-> LifecycleChild,
                             probe |-> LifecycleProbe]
    [] b = "reservation" -> [taskd |-> ReservationTaskd,
                             objectd |-> ReservationObjectd,
                             memd |-> ReservationMemd, probe |-> RequestProbe]
    [] b = "opaque"      -> [taskd |-> OpaqueTaskd, objectd |-> OpaqueObjectd,
                             probe |-> RequestProbe]
    [] b = "tcb_lease"   -> [taskd |-> LeaseTaskd, objectd |-> LeaseObjectd,
                             probe |-> RequestProbe]
    [] b = "tcb_resume"  -> [taskd |-> ResumeTaskd, objectd |-> ResumeObjectd,
                             child |-> ResumeChild, probe |-> RequestProbe]

\* Deviation: the probe is spawned before the service taskd calls second.
ProbeBeforeMemd(b) ==
  IF b = "reservation" THEN <<"objectd", "taskd", "probe", "memd">>
  ELSE IF b = "tcb_resume" THEN <<"child", "objectd", "taskd", "probe">>
  ELSE IF b = "lifecycle" THEN <<"child", "taskd", "probe">>
  ELSE <<"objectd", "taskd", "probe">>

\* The order in which the start_..._bundle functions of domain_manager.c spawn.
SpawnOrder(b) ==
  IF b = "reservation" THEN <<"objectd", "memd", "taskd", "probe">>
  ELSE IF b = "tcb_resume" THEN <<"child", "objectd", "taskd", "probe">>
  ELSE IF b = "lifecycle" THEN <<"child", "taskd", "probe">>
  ELSE <<"objectd", "taskd", "probe">>

\* Children that do not run when they are spawned, or are never spawned.
HeldChild(b) == b \in {"tcb_lease", "tcb_resume"}

VARIABLES
  bundle,    \* the bundle root starts
  scripted,  \* the probe runs its program
  root,      \* "preparing", "spawning", "gone_on" or "suspended"
  spawned,   \* how many of SpawnOrder(bundle) root has spawned
  status,    \* [Threads -> ...] "none", "configured", "ready", "awaiting" a
             \* reply, "suspended" or "rejected" (yields for ever)
  pc,        \* [Threads -> the next entry of the thread's program]
  caller,    \* [Threads -> whom the thread owes a reply]
  asked,     \* the request taskd took, "none" before (history)
  control,   \* taskd holds the cap on the child, or the opaque token
  pending    \* the notifications that are signalled and not waited for

bootVars == <<bundle, scripted, root, spawned>>
vars == <<bootVars, status, pc, caller, asked, control, pending>>

Init ==
  /\ bundle \in Bundles
  /\ scripted \in Probes
  /\ root = "preparing"
  /\ spawned = 0
  /\ status = [t \in Threads |-> "none"]
  /\ pc = [t \in Threads |-> 1]
  /\ caller = [t \in Threads |-> "nobody"]
  /\ asked = "none"
  /\ control = (bundle = "lifecycle")
  /\ pending = {}

-----------------------------------------------------------------------------
(* Root's start_..._bundle: configure the processes, allocate the endpoints *)
(* and copy the caps (prepare), then spawn.  A failure ends the boot with   *)
(* whatever was spawned before it still runnable.                           *)

PrepareBundle ==
  /\ root = "preparing"
  /\ root' = "spawning"
  /\ status' = [t \in DOMAIN status |->
                  IF t \in DOMAIN Program(bundle) \/ (t = "child" /\ HeldChild(bundle))
                  THEN "configured" ELSE "none"]
  /\ UNCHANGED <<bundle, scripted, spawned, pc, caller, asked, control, pending>>

PrepareFails ==
  /\ root = "preparing"
  /\ "prepare" \in Failing
  /\ root' = "suspended"
  /\ UNCHANGED <<bundle, scripted, spawned, status, pc, caller, asked, control, pending>>

NextSpawned == SpawnOrder(bundle)[spawned + 1]

\* Deviation: a held child is spawned running, before its cap is leased.
SpawnNextRunning ==
  /\ root = "spawning"
  /\ spawned < Len(SpawnOrder(bundle))
  /\ spawned' = spawned + 1
  /\ status' = [status EXCEPT ![NextSpawned] = "ready"]
  /\ root' = IF spawned' = Len(SpawnOrder(bundle)) THEN "gone_on" ELSE root
  /\ UNCHANGED <<bundle, scripted, pc, caller, asked, control, pending>>

SpawnNext ==
  /\ root = "spawning"
  /\ spawned < Len(SpawnOrder(bundle))
  /\ spawned' = spawned + 1
  /\ status' = [status EXCEPT ![NextSpawned] =
                  IF NextSpawned = "child" /\ HeldChild(bundle)
                  THEN "suspended" ELSE "ready"]
  /\ root' = IF spawned' = Len(SpawnOrder(bundle)) THEN "gone_on" ELSE root
  /\ UNCHANGED <<bundle, scripted, pc, caller, asked, control, pending>>

SpawnFails ==
  /\ root = "spawning"
  /\ "spawn" \in Failing
  /\ root' = "suspended"
  /\ UNCHANGED <<bundle, scripted, spawned, status, pc, caller, asked, control, pending>>

-----------------------------------------------------------------------------
(* The kernel calls of a program.                                          *)

\* What a probe that does not run its program may do: any request, sent or
\* called, and the wait for success.
AnyRequest == {Send("client", m) : m \in {"START", "REQUEST", "other"}}
                \cup {Call("client", "REQUEST", "none", 0), Wait("success")}

Offers(t) ==
  IF root \notin {"gone_on", "suspended"} \/ status[t] # "ready" THEN {}
  ELSE IF t = "probe" /\ ~scripted THEN AnyRequest
  ELSE IF pc[t] > Len(Program(bundle)[t]) THEN {}
  ELSE {Program(bundle)[t][pc[t]]}

\* A probe that does not run its program stays where it is.
After(t) == IF t = "probe" /\ ~scripted THEN pc[t] ELSE pc[t] + 1

\* seL4_Send or seL4_Call of s meets seL4_Recv of r.  A message r does not
\* expect stops r, and nobody will reply to the caller.
Transfer(s, r) ==
  \E o \in Offers(s), i \in Offers(r) :
    /\ o.op \in {"send", "call"} /\ i.op = "recv" /\ o.on = i.on
    /\ pc' = [pc EXCEPT ![s] = IF o.op = "send" THEN After(s) ELSE pc[s],
                        ![r] = IF o.msg = i.msg THEN pc[r] + 1 ELSE pc[r]]
    /\ status' = [status EXCEPT ![s] = IF o.op = "call" THEN "awaiting" ELSE @,
                                ![r] = IF o.msg = i.msg THEN @ ELSE "rejected"]
    /\ caller' = IF o.op = "call" THEN [caller EXCEPT ![r] = s] ELSE caller
    /\ asked' = IF s = "probe" THEN o.msg ELSE asked
    /\ UNCHANGED <<bootVars, control, pending>>

\* seL4_Reply: the cap of the reply lands in the caller's receive slot, and
\* the caller checks label, length, caps and status.
Reply(t) ==
  \E o \in Offers(t) :
    LET c == caller[t]
        call == Program(bundle)[c][pc[c]]
        good == o.msg = call.wants /\ o.caps = call.caps
    IN /\ o.op = "answer"
       /\ pc' = [pc EXCEPT ![t] = pc[t] + 1, ![c] = IF good THEN @ + 1 ELSE @]
       /\ status' = [status EXCEPT ![c] = IF good THEN "ready" ELSE "rejected"]
       /\ caller' = [caller EXCEPT ![t] = "nobody"]
       /\ control' = (control \/ o.caps = 1)
       /\ UNCHANGED <<bootVars, asked, pending>>

SignalStep(t) ==
  \E o \in Offers(t) :
    /\ o.op = "signal"
    /\ pending' = pending \cup {o.on}
    /\ pc' = [pc EXCEPT ![t] = pc[t] + 1]
    /\ UNCHANGED <<bootVars, status, caller, asked, control>>

WaitStep(t) ==
  \E o \in Offers(t) :
    /\ o.op = "wait"
    /\ o.on \in pending
    /\ pending' = pending \ {o.on}
    /\ pc' = [pc EXCEPT ![t] = After(t)]
    /\ UNCHANGED <<bootVars, status, caller, asked, control>>

\* seL4_TCB_Suspend reaches the child wherever it is: a wait or a send it is
\* blocked in is cancelled, to be made again when it is resumed.
SuspendTcb ==
  \E o \in Offers("taskd") :
    /\ o.op = "suspend"
    /\ status' = [status EXCEPT !["child"] = "suspended"]
    /\ pc' = [pc EXCEPT !["taskd"] = @ + 1]
    /\ UNCHANGED <<bootVars, caller, asked, control, pending>>

\* seL4_TCB_Resume through the cap taskd holds.
ResumeTcb ==
  \E o \in Offers("taskd") :
    /\ o.op = "resume"
    /\ control
    /\ status' = [status EXCEPT !["child"] = "ready"]
    /\ pc' = [pc EXCEPT !["taskd"] = @ + 1]
    /\ UNCHANGED <<bootVars, caller, asked, control, pending>>

Refusable == Failing \cup IF control THEN {} ELSE {"resume"}

\* The kernel refuses one of the two: taskd stops.
ControlFails ==
  \E o \in Offers("taskd") :
    /\ o.op \in {"suspend", "resume"} \cap Refusable
    /\ status' = [status EXCEPT !["taskd"] = "rejected"]
    /\ UNCHANGED <<bootVars, pc, caller, asked, control, pending>>

-----------------------------------------------------------------------------
Boot == PrepareBundle \/ PrepareFails \/ SpawnNext \/ SpawnFails

\* The steps thread t makes, by itself or with the one it meets.
Step(t) == \/ \E r \in Threads : Transfer(t, r)
           \/ Reply(t) \/ SignalStep(t) \/ WaitStep(t)
           \/ t = "taskd" /\ (SuspendTcb \/ ResumeTcb \/ ControlFails)

Next == Boot \/ \E t \in Threads : Step(t)

\* Root runs to the end of the bundle, and the kernel schedules every runnable
\* thread.  A probe that sends anything is not obliged to send.
Fairness == /\ WF_vars(Boot)
            /\ \A t \in Threads \ {"probe"} : WF_vars(Step(t))
            /\ WF_vars(scripted /\ Step("probe"))

Spec == Init /\ [][Next]_vars /\ Fairness

-----------------------------------------------------------------------------
(* Properties.                                                             *)

TypeOK ==
  /\ bundle \in Bundles
  /\ scripted \in Probes
  /\ root \in {"preparing", "spawning", "gone_on", "suspended"}
  /\ spawned \in 0..Len(SpawnOrder(bundle))
  /\ status \in [Threads -> {"none", "configured", "ready", "awaiting",
                             "suspended", "rejected"}]
  /\ DOMAIN pc = Threads
  /\ \A t \in DOMAIN Program(bundle) : pc[t] \in 1..(Len(Program(bundle)[t]) + 1)
  /\ caller \in [Threads -> {"nobody", "taskd", "probe"}]
  /\ asked \in {"none", "START", "REQUEST", "other"}
  /\ control \in BOOLEAN
  /\ pending \subseteq {"start", "success"}

Finished(t) == /\ t \in DOMAIN Program(bundle)
               /\ pc[t] > Len(Program(bundle)[t])

\* The probe is told of success only after everything it stands for has
\* happened: both reservations (taskd_reservation_m1.c:49-61), the cap in
\* taskd's slot (the lease programs), the child's completion after its resume
\* (taskd_tcb_resume_m2.c:55-64), both runs of the child (taskd_m1.c:45-72).
SuccessIsEarned ==
  "success" \in pending =>
     /\ asked = IF bundle = "lifecycle" THEN "START" ELSE "REQUEST"
     /\ bundle \in {"lifecycle", "tcb_resume"} => Finished("child")
     /\ bundle = "reservation" => Finished("objectd") /\ Finished("memd")
     /\ bundle \in {"opaque", "tcb_lease", "tcb_resume"} => control

\* A request that is not the exact one moves no cap, starts no child, reserves
\* nothing and is never followed by a success (the first check of every taskd).
RefusalTouchesNothing ==
  asked \notin {"none", IF bundle = "lifecycle" THEN "START" ELSE "REQUEST"} =>
     /\ pending = {}
     /\ \A t \in {"objectd", "memd", "child"} : pc[t] = 1
     /\ control = (bundle = "lifecycle")

\* A start of the child is never signalled while the one before it is still
\* pending: the notification would merge the two and the child would run once
\* (taskd_m1.c:45-63 against task_lifecycle_child.c:19-23).
StartNeverMerged ==
  \A o \in Offers("taskd") :
     o.op = "signal" /\ o.on = "start" => "start" \notin pending

\* What objectd has reserved is not stranded: memd reserves too and taskd
\* reports both, even when the boot stopped while it spawned the bundle,
\* because the probe that asks is spawned last (domain_manager.c:815-818).
ReservationNotStranded ==
  (bundle = "reservation" /\ Finished("objectd"))
     ~> (Finished("memd") /\ Finished("taskd"))

ControlRefused == /\ status["taskd"] = "rejected"
                  /\ \E what \in {"suspend", "resume"} :
                       Program(bundle)["taskd"][pc["taskd"]] = Invoke(what)

\* Once the bundle is spawned, its own probe gets its success, whatever the
\* order of the threads, unless the kernel refused to control the child.
ProbeSucceeds ==
  (scripted /\ root = "gone_on") ~> (Finished("probe") \/ ControlRefused)

\* The lease of a child's TCB cap through objectd keeps the promise root
\* construction keeps: the child does not run before the cap has reached
\* taskd, and the cap leaves once (taskd_tcb_lease_m1.c, taskd_tcb_resume_m2.c).
Leased == INSTANCE ChildControl WITH
  child <- IF ~HeldChild(bundle) \/ status["child"] = "none" THEN "none"
           ELSE IF status["child"] # "ready" THEN "suspended"
           ELSE IF pc["child"] > 1 THEN "finished" ELSE "running",
  lease <- IF HeldChild(bundle) /\ control THEN "held" ELSE "kept"

ImplementsChildControl == Leased!Spec
=============================================================================
