--------------------------- MODULE RootConstruct ---------------------------
(***************************************************************************)
(* Root construction M1 to M4: the root thread after boot                  *)
(* (root_construct_m1.c, m2.c, m4.c), the one taskd client that holds the  *)
(* send cap to its request endpoint, and the child it constructs.          *)
(*                                                                         *)
(*   M1  the exact request makes one suspended child                       *)
(*   M2  + one lease of the child's TCB cap                                *)
(*   M3  + the client resumes the child through that cap                   *)
(*   M4  + the child reports completion on an endpoint of its own          *)
(*                                                                         *)
(* The milestone is fixed when the image is built.  The client is either   *)
(* the program of taskd_root_construct_m<n>_client.c (scripted) or any     *)
(* holder of that endpoint.                                                *)
(***************************************************************************)
EXTENDS Naturals

CONSTANTS
  Milestones,   \* the build profiles considered, of 1..4
  ClientKinds,  \* TRUE is a client that runs its program, FALSE one that makes
                \* any legal calls
  Failing       \* the fallible steps that may fail

BundleSteps == {"client_configure", "endpoint", "endpoint_slot",
                "completion_endpoint", "completion_slot", "client_spawn"}
ConstructSteps == {"configure", "prepare", "spawn", "record"}

ASSUME MilestonesAssumption == Milestones \subseteq 1..4
ASSUME ClientsAssumption == ClientKinds \subseteq BOOLEAN
ASSUME FailingAssumption == Failing \subseteq BundleSteps \cup ConstructSteps

VARIABLES
  milestone,      \* the build profile
  scripted,       \* the client runs its program
  root,           \* "boot", "receiving", "constructing" or "suspended"
  state,          \* root_construct_m1_state
  step,           \* the construction step root is at
  child_tcb,      \* root_construct_m2_child_tcb is set
  lease_granted,  \* root_construct_m2_lease_granted
  prepared,       \* what root_construct_m4.c has: "endpoint", "taskd", "child"
  configured,     \* child processes root has configured since boot
  child,          \* the child's thread
  client,         \* the client's thread
  request,        \* the message the client is sending
  reply,          \* the answer the client has not read yet
  tcbCap,         \* the child's TCB cap is in the client's CSpace
  pc,             \* the client's next step, when it runs its program
  failed          \* some step has failed (history)

imageVars == <<milestone, scripted>>
rootVars == <<root, state, step, child_tcb, lease_granted, prepared>>
clientVars == <<client, request, reply, tcbCap, pc>>
vars == <<imageVars, rootVars, configured, child, clientVars, failed>>

None == [status |-> "none", caps |-> 0]

\* A request as root tells it apart: its opcode and whether the rest (badge,
\* label, length, caps, slot, generation) is exact.
Requests == [op : {"REQUEST", "LEASE_TCB", "other"}, exact : BOOLEAN]

Replies == [status : {"none", "CONSTRUCTED", "REJECTED",
                      "LEASE_GRANTED", "LEASE_REJECTED"},
            caps : 0..1]

Exact(op) == [op |-> op, exact |-> TRUE]

Init ==
  /\ milestone \in Milestones
  /\ scripted \in ClientKinds
  /\ root = "boot"
  /\ state = "STATE_REJECTED"
  /\ step = "none"
  /\ child_tcb = FALSE
  /\ lease_granted = FALSE
  /\ prepared = {}
  /\ configured = 0
  /\ child = "none"
  /\ client = "none"
  /\ request = Exact("REQUEST")
  /\ reply = None
  /\ tcbCap = FALSE
  /\ pc = 1
  /\ failed = FALSE

-----------------------------------------------------------------------------
(* selinos_root_construct_m1_start_bundle: root still has the top priority,*)
(* nothing it spawns runs before it receives.  A failure ends the boot.    *)

StepsOfBundle ==
  {"client_configure", "endpoint", "endpoint_slot", "client_spawn"}
    \cup IF milestone = 4 THEN {"completion_endpoint", "completion_slot"} ELSE {}

\* What selinos_root_construct_m4_prepare_taskd has done when the bundle
\* stops at step s ("none": it does not stop).
PreparedBefore(s) ==
  IF milestone # 4 \/ s \in {"client_configure", "endpoint", "endpoint_slot",
                             "completion_endpoint"} THEN {}
  ELSE IF s = "completion_slot" THEN {"endpoint"}
  ELSE {"endpoint", "taskd"}

StartBundle ==
  /\ root = "boot"
  /\ root' = "receiving"
  /\ state' = "FREE"
  /\ prepared' = PreparedBefore("none")
  /\ client' = "ready"
  /\ UNCHANGED <<imageVars, step, child_tcb, lease_granted, configured, child,
                 request, reply, tcbCap, pc, failed>>

StartBundleFails ==
  /\ root = "boot"
  /\ \E s \in StepsOfBundle \cap Failing : prepared' = PreparedBefore(s)
  /\ root' = "suspended"
  /\ failed' = TRUE
  /\ UNCHANGED <<imageVars, state, step, child_tcb, lease_granted, configured,
                 child, clientVars>>

-----------------------------------------------------------------------------
(* selinos_root_construct_m1_dispatch_loop.                                *)

\* Root takes the message: a sender goes on, a caller waits for its reply.
Receive ==
  /\ root = "receiving"
  /\ client \in {"sending", "calling"}

\* seL4_Reply reaches the thread root owes a reply to, if any; c is the
\* client's state once its message was taken.
Taken == IF client = "sending" THEN "ready" ELSE "waiting"
ReplyTo(c, r) == reply' = IF c = "waiting" THEN r ELSE reply

Lease == milestone >= 2 /\ request.op = "LEASE_TCB"

\* A cap in a reply lands when the receiver waits with a free receive slot.
\* The program's receive path always is one.
Lands(c) == IF c # "waiting" THEN {FALSE}
            ELSE IF scripted THEN {~tcbCap} ELSE {FALSE, ~tcbCap}

\* Deviation: a lease is granted again.
LeaseRepeated ==
  /\ Receive
  /\ Lease
  /\ request.exact
  /\ child_tcb
  /\ lease_granted' = TRUE
  /\ client' = Taken
  /\ \E lands \in Lands(Taken) :
       /\ tcbCap' = (tcbCap \/ lands)
       /\ ReplyTo(Taken, [status |-> "LEASE_GRANTED",
                          caps |-> IF lands THEN 1 ELSE 0])
  /\ UNCHANGED <<imageVars, root, state, step, child_tcb, prepared, configured,
                 child, request, pc, failed>>

\* selinos_root_construct_m2_try_dispatch, granting
LeaseGranted ==
  /\ Receive
  /\ Lease
  /\ request.exact
  /\ child_tcb
  /\ ~lease_granted
  /\ lease_granted' = TRUE
  /\ client' = Taken
  /\ \E lands \in Lands(Taken) :
       /\ tcbCap' = (tcbCap \/ lands)
       /\ ReplyTo(Taken, [status |-> "LEASE_GRANTED",
                          caps |-> IF lands THEN 1 ELSE 0])
  /\ UNCHANGED <<imageVars, root, state, step, child_tcb, prepared, configured,
                 child, request, pc, failed>>

\* selinos_root_construct_m2_try_dispatch, refusing
LeaseRejected ==
  /\ Receive
  /\ Lease
  /\ ~(request.exact /\ child_tcb /\ ~lease_granted)
  /\ client' = Taken
  /\ ReplyTo(Taken, [status |-> "LEASE_REJECTED", caps |-> 0])
  /\ UNCHANGED <<imageVars, rootVars, configured, child, request, tcbCap, pc,
                 failed>>

ExactRequest == request = Exact("REQUEST")

\* A malformed or repeated request: no child, ever, unless there is one.
RequestRejected ==
  /\ Receive
  /\ ~Lease
  /\ ~(ExactRequest /\ state = "FREE")
  /\ state' = IF state = "ROOT_CONSTRUCTED" THEN state ELSE "STATE_REJECTED"
  /\ client' = Taken
  /\ ReplyTo(Taken, [status |-> "REJECTED", caps |-> 0])
  /\ UNCHANGED <<imageVars, root, step, child_tcb, lease_granted, prepared,
                 configured, child, request, tcbCap, pc, failed>>

RequestAccepted ==
  /\ Receive
  /\ ~Lease
  /\ ExactRequest
  /\ state = "FREE"
  /\ state' = "ROOT_CONSTRUCTING"
  /\ root' = "constructing"
  /\ step' = "configure"
  /\ client' = Taken
  /\ UNCHANGED <<imageVars, child_tcb, lease_granted, prepared, configured,
                 child, request, reply, tcbCap, pc, failed>>

-----------------------------------------------------------------------------
(* construct_root_fixed_child_m1, one call at a time.                      *)

After(s) ==
  CASE s = "configure" -> IF milestone = 4 THEN "prepare" ELSE "spawn"
    [] s = "prepare"   -> "spawn"
    [] s = "spawn"     -> IF milestone >= 2 THEN "record" ELSE "reply"
    [] s = "record"    -> "reply"

\* The checks selinos_root_construct_m4_prepare_child and
\* selinos_root_construct_m2_record_child_tcb make before they act.
Admitted(s) ==
  CASE s = "prepare" -> {"endpoint", "taskd"} \subseteq prepared /\ "child" \notin prepared
    [] s = "record"  -> ~child_tcb /\ ~lease_granted
    [] OTHER         -> TRUE

\* Deviation: the result of the spawn is not looked at.
SpawnUnchecked ==
  /\ root = "constructing"
  /\ step \in ConstructSteps
  /\ Admitted(step)
  /\ configured' = IF step = "configure" THEN configured + 1 ELSE configured
  /\ prepared' = IF step = "prepare" THEN prepared \cup {"child"} ELSE prepared
  /\ child' \in CASE step = "configure" -> {"configured"}
                  [] step = "spawn" -> {"suspended"} \cup
                       IF "spawn" \in Failing THEN {child} ELSE {}
                  [] OTHER -> {child}
  /\ child_tcb' = (child_tcb \/ step = "record")
  /\ step' = After(step)
  /\ UNCHANGED <<imageVars, root, state, lease_granted, clientVars, failed>>

ConstructStep ==
  /\ root = "constructing"
  /\ step \in ConstructSteps
  /\ Admitted(step)
  /\ configured' = IF step = "configure" THEN configured + 1 ELSE configured
  /\ prepared' = IF step = "prepare" THEN prepared \cup {"child"} ELSE prepared
  /\ child' = CASE step = "configure" -> "configured"
                [] step = "spawn"     -> "suspended"
                [] OTHER              -> child
  /\ child_tcb' = (child_tcb \/ step = "record")
  /\ step' = After(step)
  /\ UNCHANGED <<imageVars, root, state, lease_granted, clientVars, failed>>

\* Deviation: a failed construction is logged and not answered.
FailsSilently ==
  /\ root = "constructing"
  /\ step \in ConstructSteps
  /\ step \in Failing \/ ~Admitted(step)
  /\ state' = "STATE_REJECTED"
  /\ root' = "receiving"
  /\ step' = "none"
  /\ failed' = TRUE
  /\ UNCHANGED <<imageVars, child_tcb, lease_granted, prepared, configured,
                 child, client, request, reply, tcbCap, pc>>

\* Nothing made so far is given back.
ConstructFails ==
  /\ root = "constructing"
  /\ step \in ConstructSteps
  /\ step \in Failing \/ ~Admitted(step)
  /\ state' = "STATE_REJECTED"
  /\ root' = "receiving"
  /\ step' = "none"
  /\ ReplyTo(client, [status |-> "REJECTED", caps |-> 0])
  /\ failed' = TRUE
  /\ UNCHANGED <<imageVars, child_tcb, lease_granted, prepared, configured,
                 child, client, request, tcbCap, pc>>

Constructed ==
  /\ root = "constructing"
  /\ step = "reply"
  /\ state' = "ROOT_CONSTRUCTED"
  /\ root' = "receiving"
  /\ step' = "none"
  /\ ReplyTo(client, [status |-> "CONSTRUCTED", caps |-> 0])
  /\ UNCHANGED <<imageVars, child_tcb, lease_granted, prepared, configured,
                 child, client, request, tcbCap, pc, failed>>

Root ==
  \/ StartBundle \/ StartBundleFails
  \/ LeaseGranted \/ LeaseRejected \/ RequestRejected \/ RequestAccepted
  \/ ConstructStep \/ ConstructFails \/ Constructed

-----------------------------------------------------------------------------
(* The client.                                                             *)

Do(op, status, caps) == [op |-> op, status |-> status, caps |-> caps]

\* main of the milestone's client is the first ScriptLength steps: what it does
\* and the answer it wants.  On any other answer it yields for ever.
Script == << Do("REQUEST",   "CONSTRUCTED",    0),
             Do("REQUEST",   "REJECTED",       0),
             Do("LEASE_TCB", "LEASE_GRANTED",  1),
             Do("LEASE_TCB", "LEASE_REJECTED", 0),
             Do("resume",    "none",           0),
             Do("receive",   "none",           0) >>

ScriptLength == CASE milestone = 1 -> 2 [] milestone = 2 -> 4
                  [] milestone = 3 -> 5 [] milestone = 4 -> 6

\* The program has come to a step of this kind; an unscripted client may take
\* any.
At(op) == scripted => /\ pc <= ScriptLength
                      /\ Script[pc].op = op

\* The program after a step that went as wanted, or not.
Advance(ok) ==
  IF ~scripted THEN client' = "ready" /\ UNCHANGED pc
  ELSE /\ pc' = IF ok THEN pc + 1 ELSE pc
       /\ client' = IF ~ok THEN "halted"
                    ELSE IF pc = ScriptLength THEN "finished" ELSE "ready"

\* seL4_Call on the request endpoint, or seL4_Send by another program
Ask ==
  /\ client = "ready"
  /\ \E m \in Requests :
       /\ At(m.op)
       /\ scripted => m.exact
       /\ request' = m
  /\ client' \in IF scripted THEN {"calling"} ELSE {"calling", "sending"}
  /\ UNCHANGED <<imageVars, rootVars, configured, child, reply, tcbCap, pc, failed>>

ReadReply ==
  /\ client = "waiting"
  /\ reply # None
  /\ Advance(/\ reply.status = Script[pc].status
             /\ reply.caps = Script[pc].caps)
  /\ reply' = None
  /\ UNCHANGED <<imageVars, rootVars, configured, child, request, tcbCap, failed>>

\* seL4_TCB_Resume; without the cap it fails and changes nothing
Resume ==
  /\ client = "ready"
  /\ At("resume")
  /\ child' = IF tcbCap /\ child = "suspended" THEN "running" ELSE child
  /\ Advance(tcbCap)
  /\ UNCHANGED <<imageVars, rootVars, configured, request, reply, tcbCap, failed>>

\* seL4_Recv on the completion endpoint, which only M4 gives the client
AwaitCompletion ==
  /\ client = "ready"
  /\ milestone = 4
  /\ At("receive")
  /\ client' = "receiving"
  /\ UNCHANGED <<imageVars, rootVars, configured, child, request, reply, tcbCap,
                 pc, failed>>

Client == Ask \/ ReadReply \/ Resume \/ AwaitCompletion

-----------------------------------------------------------------------------
(* The M4 child: it sends its completion, which blocks until the client    *)
(* receives it, and then yields for ever.  The M3 child only yields.       *)

ChildDone ==
  /\ milestone = 4
  /\ child = "running"
  /\ "child" \in prepared
  /\ client = "receiving"
  /\ child' = "done"
  /\ Advance(TRUE)
  /\ UNCHANGED <<imageVars, rootVars, configured, request, reply, tcbCap, failed>>

Next == Root \/ Client \/ ChildDone

\* Root lowers itself to the priority of the threads it spawned, so every
\* thread that can run gets its turn; only the program owes its next step.
Fairness == /\ WF_vars(Root)
            /\ WF_vars(ChildDone)
            /\ WF_vars(ReadReply)
            /\ WF_vars(scripted /\ Client)

Spec == Init /\ [][Next]_vars /\ Fairness

-----------------------------------------------------------------------------
(* Properties.                                                             *)

\* Every variable keeps its type, and root is at a construction step exactly in
\* ROOT_CONSTRUCTING.
TypeOK ==
  /\ milestone \in Milestones
  /\ scripted \in ClientKinds
  /\ root \in {"boot", "receiving", "constructing", "suspended"}
  /\ state \in {"FREE", "ROOT_CONSTRUCTING", "ROOT_CONSTRUCTED", "STATE_REJECTED"}
  /\ step \in ConstructSteps \cup {"none", "reply"}
  /\ child_tcb \in BOOLEAN
  /\ lease_granted \in BOOLEAN
  /\ prepared \subseteq {"endpoint", "taskd", "child"}
  /\ configured \in Nat
  /\ child \in {"none", "configured", "suspended", "running", "done"}
  /\ client \in {"none", "ready", "sending", "calling", "waiting", "receiving",
                 "halted", "finished"}
  /\ request \in Requests
  /\ reply \in Replies
  /\ tcbCap \in BOOLEAN
  /\ pc \in 1..7
  /\ failed \in BOOLEAN
  /\ (root = "constructing") <=> (state = "ROOT_CONSTRUCTING")
  /\ (root = "constructing") <=> (step # "none")

\* At most one child is ever configured, whatever is sent and whatever fails: a
\* refused or failed construction closes the adapter for good
\* (root_construct_m1.c:163-180).
OneConstruction == configured <= 1

\* The lease and the construction are kept by two translation units that share
\* no state but the recorded TCB: a lease is out only for a construction that
\* was reported as done, and never after one that failed (root_construct_m2.c:
\* 57-65 against root_construct_m1.c:171-183).
LeaseOnlyConstructed ==
  /\ lease_granted => state = "ROOT_CONSTRUCTED"
  /\ tcbCap => lease_granted
  /\ child \in {"running", "done"} => tcbCap

\* A reply that reports a child constructed, or a lease granted, is true when
\* the client reads it, however long it waits (root_construct_m1.c:183-184,
\* root_construct_m2.c:64-66).
ReplyIsTrue ==
  /\ reply.status = "CONSTRUCTED" => /\ state = "ROOT_CONSTRUCTED"
                                     /\ child \in {"suspended", "running", "done"}
  /\ reply.caps = 1 => tcbCap /\ lease_granted

\* Seen from outside, root construction is ChildControl: one child, one lease
\* of its control, and a run only by the holder of that lease.
C == INSTANCE ChildControl WITH
       child <- CASE child \in {"none", "configured"} -> "none"
                  [] child = "done" -> "finished"
                  [] OTHER -> child,
       lease <- IF ~lease_granted THEN "kept"
                ELSE IF tcbCap THEN "held" ELSE "lost"

ImplementsChildControl == C!Spec

\* Root answers every call it has taken, refused, failed or duplicate
\* (root_construct_m1.c:163-184, root_construct_m2.c:57-68), and so the program
\* of every milestone reaches its end, through the duplicates it sends on
\* purpose, unless some step of root's failed; then it stops at the first answer
\* it did not want (taskd_root_construct_m<n>_client.c, main).
CallsEnd ==
  /\ (client = "waiting") ~> (client # "waiting")
  /\ scripted => <>[](\/ client = "finished" /\ ~failed
                      \/ failed /\ (client = "halted" \/ root = "suspended"))
=============================================================================
