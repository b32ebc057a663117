----------------------------- MODULE RootProofs -----------------------------
(***************************************************************************)
(* Safety of what root promises its clients.                               *)
(*                                                                         *)
(* Root construction, for every set of build profiles, clients and failing *)
(* steps: the type invariant, the safety properties of RootConstruct, and  *)
(* that it implements ChildControl.  None of the properties is inductive.  *)
(* IInv adds where a scripted client is in its program (ScriptInv) and,    *)
(* for every point of the construction, what has been made of the child by *)
(* then and who may control it (ConstructionInv).                          *)
(*                                                                         *)
(* The system-call gateway, for every set of operations that may fail: the *)
(* Linux probe never loops and only an overlap or a failure ends a client  *)
(* of the volatile record.  GatewayInv keeps root and the probe at the     *)
(* same row of their two programs (DialogueInv), a call in progress at its *)
(* row (CallInv), and the record as a client that nobody has met left it   *)
(* (RecordInv).  That the rows of the programs agree is RowsFit and        *)
(* ProbeRowsFit.                                                           *)
(***************************************************************************)
EXTENDS MCRoot, Sequences, TLAPS

\* No client runs before the bundle is started; a scripted one that has not
\* stopped is at a step of its program.
ScriptInv ==
  /\ root = "boot" => client = "none"
  /\ scripted /\ client \notin {"halted", "finished"} => pc <= ScriptLength

\* A FREE adapter has made nothing; one that constructs has made what its next
\* step rests on; control is recorded, leased and used in that order.
ConstructionInv ==
  /\ configured <= 1
  /\ root = "boot" \/ state = "FREE" \/ step = "configure" =>
       configured = 0 /\ child = "none" /\ ~child_tcb
  /\ root = "suspended" => configured = 0 /\ child = "none" /\ ~child_tcb
  /\ step \in {"prepare", "spawn"} => child = "configured" /\ ~child_tcb
  /\ step \in {"record", "reply"} => child = "suspended"
  /\ step = "record" => ~child_tcb
  /\ state = "ROOT_CONSTRUCTED" => child \in {"suspended", "running", "done"}
  /\ child_tcb => state = "ROOT_CONSTRUCTED" \/ step = "reply"
  /\ lease_granted => child_tcb /\ state = "ROOT_CONSTRUCTED"
  /\ tcbCap => lease_granted
  /\ child \in {"running", "done"} => tcbCap

IInv == TypeOK /\ ScriptInv /\ ConstructionInv /\ ReplyIsTrue

(* Every program has between two and six steps.                             *)
LEMMA ScriptLengthType ==
  ASSUME milestone \in 1..4 PROVE ScriptLength \in 2..6
BY DEF ScriptLength

(* The profiles are those of MilestonesAssumption.                          *)
LEMMA MilestoneType == milestone \in Milestones => milestone \in 1..4
BY MilestonesAssumption

(* Before the bundle is started nothing has been made.                      *)
LEMMA InitIInv == Init => IInv
<1> SUFFICES ASSUME Init PROVE IInv
  OBVIOUS
<1>1. TypeOK
  <2>1. request \in Requests /\ reply \in Replies
    BY DEF Init, Requests, Exact, Replies, None
  <2>2. pc \in 1..7 /\ configured \in Nat
    BY DEF Init
  <2>3. /\ milestone \in Milestones /\ scripted \in ClientKinds
        /\ root = "boot" /\ state = "STATE_REJECTED" /\ step = "none"
        /\ child = "none" /\ client = "none" /\ prepared = {}
    BY DEF Init
  <2>4. /\ child_tcb \in BOOLEAN /\ lease_granted \in BOOLEAN
        /\ tcbCap \in BOOLEAN /\ failed \in BOOLEAN
    BY DEF Init
  <2>5. QED
    BY <2>1, <2>2, <2>3, <2>4 DEF TypeOK
<1>2. ScriptInv
  BY MilestoneType, ScriptLengthType DEF Init, ScriptInv
<1>3. ConstructionInv /\ ReplyIsTrue
  BY DEF Init, ConstructionInv, ReplyIsTrue, None
<1>4. QED
  BY <1>1, <1>2, <1>3 DEF IInv

(* Every variable stays in range: in particular root is at a step of the    *)
(* construction exactly in ROOT_CONSTRUCTING, and a program has six steps.  *)
LEMMA TypeStep == IInv /\ [Next]_vars => TypeOK'
<1> SUFFICES ASSUME IInv, [Next]_vars PROVE TypeOK'
  OBVIOUS
<1> USE DEF IInv, TypeOK, imageVars, rootVars, clientVars, Replies, None, Requests, ScriptInv
<1>1. CASE StartBundle
  BY <1>1 DEF StartBundle, PreparedBefore
<1>2. CASE StartBundleFails
  BY <1>2 DEF StartBundleFails, PreparedBefore, StepsOfBundle
<1>3. CASE LeaseGranted
  BY <1>3 DEF LeaseGranted, Receive, Taken, Lands, ReplyTo
<1>4. CASE LeaseRejected
  BY <1>4 DEF LeaseRejected, Receive, Taken, ReplyTo
<1>5. CASE RequestRejected
  BY <1>5 DEF RequestRejected, Receive, Taken, ReplyTo, Lease, ExactRequest
<1>6. CASE RequestAccepted
  BY <1>6 DEF RequestAccepted, Receive, Taken, ConstructSteps
<1>7. CASE ConstructStep
  BY <1>7 DEF ConstructStep, After, ConstructSteps, Admitted
<1>8. CASE ConstructFails
  BY <1>8 DEF ConstructFails, ReplyTo, ConstructSteps
<1>9. CASE Constructed
  BY <1>9 DEF Constructed, ReplyTo
<1>10. CASE Ask
  BY <1>10 DEF Ask
<1>11. CASE ReadReply
  BY <1>11, MilestoneType, ScriptLengthType DEF ReadReply, Advance
<1>12. CASE Resume
  BY <1>12, MilestoneType, ScriptLengthType DEF Resume, Advance, At
<1>13. CASE AwaitCompletion
  BY <1>13 DEF AwaitCompletion
<1>14. CASE ChildDone
  BY <1>14, MilestoneType, ScriptLengthType DEF ChildDone, Advance
<1>15. CASE UNCHANGED vars
  BY <1>15 DEF vars
<1>16. QED
  BY <1>1, <1>2, <1>3, <1>4, <1>5, <1>6, <1>7, <1>8, <1>9, <1>10, <1>11,
     <1>12, <1>13, <1>14, <1>15
  DEF Next, Root, Client

(* A scripted client only advances inside its program.                      *)
LEMMA ScriptStep == IInv /\ [Next]_vars => ScriptInv'
<1> SUFFICES ASSUME IInv, [Next]_vars PROVE ScriptInv'
  OBVIOUS
<1> USE DEF IInv, TypeOK, imageVars, rootVars, clientVars, ScriptInv, ScriptLength
<1>1. CASE StartBundle
  BY <1>1 DEF StartBundle, PreparedBefore
<1>2. CASE StartBundleFails
  BY <1>2 DEF StartBundleFails, PreparedBefore
<1>3. CASE LeaseGranted
  BY <1>3 DEF LeaseGranted, Receive, Taken, Lands, ReplyTo
<1>4. CASE LeaseRejected
  BY <1>4 DEF LeaseRejected, Receive, Taken, ReplyTo
<1>5. CASE RequestRejected
  BY <1>5 DEF RequestRejected, Receive, Taken, ReplyTo, Lease, ExactRequest
<1>6. CASE RequestAccepted
  BY <1>6 DEF RequestAccepted, Receive, Taken
<1>7. CASE ConstructStep
  BY <1>7 DEF ConstructStep, After, ConstructSteps, Admitted
<1>8. CASE ConstructFails
  BY <1>8 DEF ConstructFails, ReplyTo, ConstructSteps
<1>9. CASE Constructed
  BY <1>9 DEF Constructed, ReplyTo
<1>10. CASE Ask
  BY <1>10 DEF Ask
<1>11. CASE ReadReply
  BY <1>11, MilestoneType DEF ReadReply, Advance
<1>12. CASE Resume
  BY <1>12, MilestoneType DEF Resume, Advance, At
<1>13. CASE AwaitCompletion
  BY <1>13 DEF AwaitCompletion
<1>14. CASE ChildDone
  BY <1>14, MilestoneType DEF ChildDone, Advance
<1>15. CASE UNCHANGED vars
  BY <1>15 DEF vars
<1>16. QED
  BY <1>1, <1>2, <1>3, <1>4, <1>5, <1>6, <1>7, <1>8, <1>9, <1>10, <1>11,
     <1>12, <1>13, <1>14, <1>15
  DEF Next, Root, Client

(* What is made of the child and who controls it advance together.          *)
LEMMA ConstructionStep == IInv /\ [Next]_vars => ConstructionInv'
<1> SUFFICES ASSUME IInv, [Next]_vars PROVE ConstructionInv'
  OBVIOUS
<1> USE DEF IInv, TypeOK, imageVars, rootVars, clientVars, ConstructionInv
<1>1. CASE StartBundle
  BY <1>1 DEF StartBundle, PreparedBefore
<1>2. CASE StartBundleFails
  BY <1>2 DEF StartBundleFails, PreparedBefore
<1>3. CASE LeaseGranted
  BY <1>3 DEF LeaseGranted, Receive, Taken, Lands, ReplyTo
<1>4. CASE LeaseRejected
  BY <1>4 DEF LeaseRejected, Receive, Taken, ReplyTo
<1>5. CASE RequestRejected
  BY <1>5 DEF RequestRejected, Receive, Taken, ReplyTo, Lease, ExactRequest
<1>6. CASE RequestAccepted
  BY <1>6 DEF RequestAccepted, Receive, Taken
<1>7. CASE ConstructStep
  BY <1>7 DEF ConstructStep, After, ConstructSteps, Admitted
<1>8. CASE ConstructFails
  BY <1>8 DEF ConstructFails, ReplyTo, ConstructSteps
<1>9. CASE Constructed
  BY <1>9 DEF Constructed, ReplyTo
<1>10. CASE Ask
  BY <1>10 DEF Ask
<1>11. CASE ReadReply
  BY <1>11 DEF ReadReply, Advance
<1>12. CASE Resume
  BY <1>12 DEF Resume, Advance, At
<1>13. CASE AwaitCompletion
  BY <1>13 DEF AwaitCompletion
<1>14. CASE ChildDone
  BY <1>14 DEF ChildDone, Advance
<1>15. CASE UNCHANGED vars
  BY <1>15 DEF vars
<1>16. QED
  BY <1>1, <1>2, <1>3, <1>4, <1>5, <1>6, <1>7, <1>8, <1>9, <1>10, <1>11,
     <1>12, <1>13, <1>14, <1>15
  DEF Next, Root, Client

(* An answer that waits for its reader stays true.                          *)
LEMMA ReplyStep == IInv /\ [Next]_vars => ReplyIsTrue'
<1> SUFFICES ASSUME IInv, [Next]_vars PROVE ReplyIsTrue'
  OBVIOUS
<1> USE DEF IInv, TypeOK, imageVars, rootVars, clientVars, ConstructionInv, ReplyIsTrue, None
<1>1. CASE StartBundle
  BY <1>1 DEF StartBundle, PreparedBefore
<1>2. CASE StartBundleFails
  BY <1>2 DEF StartBundleFails, PreparedBefore
<1>3. CASE LeaseGranted
  <2>1. PICK lands \in Lands(Taken) :
          /\ tcbCap' = (tcbCap \/ lands)
          /\ ReplyTo(Taken, [status |-> "LEASE_GRANTED",
                             caps |-> IF lands THEN 1 ELSE 0])
    BY <1>3 DEF LeaseGranted
  <2>2. lease_granted' /\ UNCHANGED <<state, child>>
    BY <1>3 DEF LeaseGranted
  <2>3. CASE client = "sending"
    BY <2>1, <2>2, <2>3 DEF Taken, Lands, ReplyTo
  <2>4. CASE client # "sending" /\ lands
    BY <2>1, <2>2, <2>4 DEF Taken, ReplyTo
  <2>5. CASE client # "sending" /\ ~lands
    BY <2>1, <2>2, <2>5 DEF Taken, ReplyTo
  <2>6. QED
    BY <2>3, <2>4, <2>5
<1>4. CASE LeaseRejected
  BY <1>4 DEF LeaseRejected, Receive, Taken, ReplyTo
<1>5. CASE RequestRejected
  BY <1>5 DEF RequestRejected, Receive, Taken, ReplyTo, Lease, ExactRequest
<1>6. CASE RequestAccepted
  BY <1>6 DEF RequestAccepted, Receive, Taken
<1>7. CASE ConstructStep
  BY <1>7 DEF ConstructStep, After, ConstructSteps, Admitted
<1>8. CASE ConstructFails
  BY <1>8 DEF ConstructFails, ReplyTo, ConstructSteps
<1>9. CASE Constructed
  BY <1>9 DEF Constructed, ReplyTo
<1>10. CASE Ask
  BY <1>10 DEF Ask
<1>11. CASE ReadReply
  BY <1>11 DEF ReadReply, Advance
<1>12. CASE Resume
  BY <1>12 DEF Resume, Advance, At
<1>13. CASE AwaitCompletion
  BY <1>13 DEF AwaitCompletion
<1>14. CASE ChildDone
  BY <1>14 DEF ChildDone, Advance
<1>15. CASE UNCHANGED vars
  BY <1>15 DEF vars
<1>16. QED
  BY <1>1, <1>2, <1>3, <1>4, <1>5, <1>6, <1>7, <1>8, <1>9, <1>10, <1>11,
     <1>12, <1>13, <1>14, <1>15
  DEF Next, Root, Client

(* The conjunction of the four parts is inductive.                          *)
LEMMA IInvStep == IInv /\ [Next]_vars => IInv'
BY TypeStep, ScriptStep, ConstructionStep, ReplyStep DEF IInv

(* Every reachable state satisfies the invariant.                           *)
THEOREM Invariance == Spec => []IInv
BY InitIInv, IInvStep, PTL DEF Spec

(* Every variable keeps its type, whatever is sent and whatever fails.      *)
THEOREM TypeCorrect == Spec => []TypeOK
<1>1. IInv => TypeOK
  BY DEF IInv
<1>2. QED
  BY Invariance, <1>1, PTL

(* Root never configures a second child.                                    *)
THEOREM OneChild == Spec => []OneConstruction
<1>1. IInv => OneConstruction
  BY DEF IInv, ConstructionInv, OneConstruction
<1>2. QED
  BY Invariance, <1>1, PTL

(* Control is leased only of a child reported as constructed, held only if  *)
(* leased, and used only by its holder.                                     *)
THEOREM LeaseCorrect == Spec => []LeaseOnlyConstructed
<1>1. IInv => LeaseOnlyConstructed
  BY DEF IInv, ConstructionInv, LeaseOnlyConstructed
<1>2. QED
  BY Invariance, <1>1, PTL

(* A success the client reads is true when it reads it.                     *)
THEOREM ReplyCorrect == Spec => []ReplyIsTrue
<1>1. IInv => ReplyIsTrue
  BY DEF IInv
<1>2. QED
  BY Invariance, <1>1, PTL

(* Every step of root construction is a step of the abstract control or     *)
(* none: only the spawn makes the child, only the first lease hands it out. *)
LEMMA ControlStep == IInv /\ [Next]_vars => [C!Next]_C!vars
<1> SUFFICES ASSUME IInv, [Next]_vars PROVE [C!Next]_C!vars
  OBVIOUS
<1> USE DEF IInv, TypeOK, imageVars, rootVars, clientVars, ConstructionInv, C!Next, C!vars
<1>1. CASE StartBundle
  BY <1>1 DEF StartBundle, PreparedBefore
<1>2. CASE StartBundleFails
  BY <1>2 DEF StartBundleFails, PreparedBefore
<1>3. CASE LeaseGranted
  BY <1>3 DEF LeaseGranted, Receive, Taken, Lands, ReplyTo, C!Lease
<1>4. CASE LeaseRejected
  BY <1>4 DEF LeaseRejected, Receive, Taken, ReplyTo
<1>5. CASE RequestRejected
  BY <1>5 DEF RequestRejected, Receive, Taken, ReplyTo, Lease, ExactRequest
<1>6. CASE RequestAccepted
  BY <1>6 DEF RequestAccepted, Receive, Taken
<1>7. CASE ConstructStep
  BY <1>7 DEF ConstructStep, After, ConstructSteps, Admitted, C!Construct
<1>8. CASE ConstructFails
  BY <1>8 DEF ConstructFails, ReplyTo, ConstructSteps
<1>9. CASE Constructed
  BY <1>9 DEF Constructed, ReplyTo
<1>10. CASE Ask
  BY <1>10 DEF Ask
<1>11. CASE ReadReply
  BY <1>11 DEF ReadReply, Advance
<1>12. CASE Resume
  BY <1>12 DEF Resume, Advance, At, C!Start
<1>13. CASE AwaitCompletion
  BY <1>13 DEF AwaitCompletion
<1>14. CASE ChildDone
  BY <1>14 DEF ChildDone, Advance, C!Finish
<1>15. CASE UNCHANGED vars
  BY <1>15 DEF vars
<1>16. QED
  BY <1>1, <1>2, <1>3, <1>4, <1>5, <1>6, <1>7, <1>8, <1>9, <1>10, <1>11,
     <1>12, <1>13, <1>14, <1>15
  DEF Next, Root, Client

(* Root construction implements the abstract control of its child.          *)
THEOREM ControlRefined == Spec => ImplementsChildControl
<1>1. Init => C!Init
  BY DEF Init, C!Init
<1>2. QED
  BY <1>1, ControlStep, Invariance, PTL DEF Spec, ImplementsChildControl, C!Spec

-----------------------------------------------------------------------------
(* The system-call gateway of root, with romfsd and the two probes.        *)

\* The rows that set the Linux probe's memory up, and what is set up before row i.
SetUpAt(r) == CASE r = "mmap" -> 9 [] r = "tls" -> 11 [] r = "brk" -> 17
SpaceAt(i) == {r \in {"mmap", "tls", "brk"} : i > SetUpAt(r)}

\* What a client that meets nobody has made of the record before row i of its
\* calls, and the word it must find in it.
GatewayPhase(i) == IF i \in 30..34 THEN "fresh" ELSE IF i \in 35..36 THEN "written"
                   ELSE IF i = 37 THEN "closed" ELSE "out"
ProbePhase(i) == IF i \in 9..12 THEN "fresh" ELSE IF i \in 13..14 THEN "written"
                 ELSE IF i = 15 THEN "closed" ELSE "out"
WordOf(phase) == IF phase = "fresh" THEN "initial" ELSE "test"

\* Root and the Linux probe are at the same row, one having answered what the
\* other asked for, and root has set up what the rows before it set up.
Faults(i) == [nr |-> Abi!LinuxProgram[i].nr, arg |-> Abi!LinuxProgram[i].arg]

DialogueInv ==
  /\ at \in 1..39 /\ lpc \in 1..39
  /\ space = SpaceAt(at)
  /\ gateway \in {"boot", "waiting", "calling", "passed", "failed"}
  /\ linux \in {"none", "ready", "faulting", "checking"}
  /\ linux = "none" => at = 1 /\ lpc = 1 /\ gateway \in {"boot", "failed"}
  /\ gateway = "boot" => linux = "none"
  /\ linux = "ready" => lpc = at /\ gateway = "waiting"
  /\ linux = "faulting" => lpc = at /\ syscall = Faults(at)
  /\ linux = "checking" => /\ gateway = "waiting" /\ at = lpc + 1
                           /\ rax = Abi!LinuxProgram[lpc].ret
                           /\ Abi!LinuxProgram[lpc].sees \in {"none", page}
  /\ gateway = "calling" => linux = "faulting" /\ Abi!Gateway[at].ask # Abi!NoRequest

\* The row a client is at, whether it is in the call, the phases on both sides.
Row(c)     == IF c = "probe" THEN Abi!ProbeProgram[probe_pc] ELSE Abi!Gateway[at]
Calling(c) == IF c = "probe" THEN probe = "calling" ELSE gateway = "calling"
Live(c)    == IF c = "probe" THEN probe \in {"ready", "calling"}
              ELSE gateway \in {"boot", "waiting", "calling"}
PhaseBefore(c) == IF c = "probe" THEN ProbePhase(probe_pc) ELSE GatewayPhase(at)
PhaseAfter(c)  == IF c = "probe" THEN ProbePhase(probe_pc + 1) ELSE GatewayPhase(at + 1)
Phase(c)   == IF ans[c] = Abi!NoAnswer THEN PhaseBefore(c) ELSE PhaseAfter(c)

\* A client in a call has asked for its row and waits, or has romfsd's answer:
\* the one it wants, unless another client's call has met its lifecycle.
Asking(c)   == msg[c] = Row(c).ask /\ ans[c] = Abi!NoAnswer
Answered(c) == /\ msg[c] = Abi!NoRequest /\ ans[c] # Abi!NoAnswer
               /\ c \notin touched => ans[c] = Row(c).want

CallInv ==
  /\ DOMAIN msg = Abi!Clients /\ DOMAIN ans = Abi!Clients
  /\ probe_pc \in 1..15 /\ probe \in {"ready", "calling", "passed", "exited"}
  /\ \A c \in Abi!Clients : IF Calling(c) THEN Asking(c) \/ Answered(c)
                            ELSE msg[c] = Abi!NoRequest /\ ans[c] = Abi!NoAnswer

\* The record is as a client that nobody has met has left it.
RecordIn(phase) ==
  /\ phase \in {"fresh", "written"} => open /\ word = WordOf(phase)
  /\ phase = "closed" => ~open

RecordInv ==
  /\ open \in BOOLEAN
  /\ \A c \in Abi!Clients : Live(c) /\ c \notin touched =>
       (c \in inside <=> Phase(c) # "out") /\ RecordIn(Phase(c))

GatewayInv == DialogueInv /\ CallInv /\ RecordInv /\ Abi!Isolation

-----------------------------------------------------------------------------
(* The calls the clients make, row by row.                                 *)

\* The request takes the record from one phase to the next, and romfsd's answer
\* is the one the client wants.
Wants(ask, want, from, to) ==
  \/ ask = Abi!NoRequest /\ to = from
  \/ /\ ask.op = "OPEN" /\ ask.file = "state"
     /\ to = "fresh" /\ want = Abi!Ok
  \/ /\ ask.op = "WRITE" /\ ask.file = "state" /\ ask.exact /\ ask.word = "test"
     /\ from = "fresh" /\ to = "written" /\ want = Abi!Ok
  \/ /\ ask.op = "WRITE" /\ ask.file = "state" /\ ~ask.exact
     /\ from \in {"fresh", "written"} /\ to = from /\ want = Abi!BadFd
  \/ /\ ask.op = "WRITE" /\ ask.file = "state" /\ from = "closed" /\ to = "out"
     /\ want = Abi!BadFd
  \/ /\ ask.op = "CLOSE" /\ ask.file = "state"
     /\ from = "written" /\ to = "closed" /\ want = Abi!Ok
  \/ /\ ask.op = "READ" /\ ask.file = "state"
     /\ from \in {"fresh", "written"} /\ to = from /\ want = Abi!Answer("OK", WordOf(from))
  \/ /\ ask.op \in {"OPEN", "CLOSE"} /\ ask.file \in Abi!Files
     /\ to = from /\ want = Abi!Ok
  \/ /\ ask.op = "READ" /\ ask.file \in Abi!Files
     /\ to = from /\ want = Abi!Answer("OK", ask.file)
  \/ /\ ask.op = "READ" /\ ask.file \notin Abi!Files \cup {"state"}
     /\ to = from /\ want = Abi!BadFd

\* The gateway's row i and the Linux probe's agree: on the call, on the memory it
\* needs, on its value and on what the probe finds in its page.
Fits(e, s, i) ==
  /\ s.nr = e.nr /\ s.arg \in e.args /\ e.needs \subseteq SpaceAt(i)
  /\ e.nr = "exit" <=> i = 39
  /\ i = 39 => e.ask = Abi!NoRequest
  /\ e.nr # "exit" =>
       /\ s.ret = e.ret
       /\ SpaceAt(i + 1) = SpaceAt(i) \cup e.sets
       /\ s.uses \subseteq SpaceAt(i + 1)
       /\ s.sees # "none" => /\ e.puts # "none"
                             /\ s.sees = IF e.ask = Abi!NoRequest THEN e.puts
                                         ELSE e.want.payload
  /\ Wants(e.ask, e.want, GatewayPhase(i), GatewayPhase(i + 1))

\* The fields of an entry (but what it uses, on which nothing depends), and of a
\* system call.
IsEntry(e, nr, args, ret, needs, sets, puts, ask, want) ==
  /\ e.nr = nr /\ e.args = args /\ e.ret = ret /\ e.needs = needs /\ e.sets = sets
  /\ e.puts = puts /\ e.ask = ask /\ e.want = want
IsSyscall(s, nr, arg, ret, sees, uses) ==
  s.nr = nr /\ s.arg = arg /\ s.ret = ret /\ s.sees = sees /\ s.uses = uses

(* The fields of the entries of the gateway.                               *)
LEMMA EntryFields ==
  ASSUME NEW nr, NEW args, NEW ret, NEW ask, NEW want, NEW what, NEW x
  PROVE  /\ IsEntry(Abi!Entry(nr, args, ret), nr, args, ret, {}, {}, "none", Abi!NoRequest,
                    Abi!NoAnswer)
         /\ IsEntry(Abi!Copies(Abi!Entry(nr, args, ret)), nr, args, ret, {}, {}, "none",
                    Abi!NoRequest, Abi!NoAnswer)
         /\ IsEntry(Abi!Puts(Abi!Entry(nr, args, ret), what), nr, args, ret, {"mmap"}, {},
                    what, Abi!NoRequest, Abi!NoAnswer)
         /\ IsEntry(Abi!Romfs(Abi!Entry(nr, args, ret), ask, want), nr, args, ret, {}, {},
                    "none", ask, want)
         /\ IsEntry(Abi!Romfs(Abi!Copies(Abi!Entry(nr, args, ret)), ask, want), nr, args,
                    ret, {}, {}, "none", ask, want)
         /\ IsEntry(Abi!ReadsWord(nr, x, want), nr, {x}, "8", {"mmap"}, {}, "payload",
                    Abi!Ask("READ", x), Abi!Answer("OK", want))
<1>1. IsEntry(Abi!Entry(nr, args, ret), nr, args, ret, {}, {}, "none", Abi!NoRequest,
              Abi!NoAnswer)
  BY DEF IsEntry, Abi!Entry
<1>2. IsEntry(Abi!Copies(Abi!Entry(nr, args, ret)), nr, args, ret, {}, {}, "none",
              Abi!NoRequest, Abi!NoAnswer)
  BY DEF IsEntry, Abi!Entry, Abi!Copies
<1>3. IsEntry(Abi!Puts(Abi!Entry(nr, args, ret), what), nr, args, ret, {"mmap"}, {}, what,
              Abi!NoRequest, Abi!NoAnswer)
  BY DEF IsEntry, Abi!Entry, Abi!Puts
<1>4. IsEntry(Abi!Romfs(Abi!Entry(nr, args, ret), ask, want), nr, args, ret, {}, {}, "none",
              ask, want)
  BY DEF IsEntry, Abi!Entry, Abi!Romfs
<1>5. IsEntry(Abi!Romfs(Abi!Copies(Abi!Entry(nr, args, ret)), ask, want), nr, args, ret, {},
              {}, "none", ask, want)
  BY DEF IsEntry, Abi!Entry, Abi!Romfs, Abi!Copies
<1>6. IsEntry(Abi!ReadsWord(nr, x, want), nr, {x}, "8", {"mmap"}, {}, "payload",
              Abi!Ask("READ", x), Abi!Answer("OK", want))
  BY DEF IsEntry, Abi!Entry, Abi!Romfs, Abi!Puts, Abi!ReadsWord
<1>7. QED
  BY <1>1, <1>2, <1>3, <1>4, <1>5, <1>6

(* The entries with a change of their own,                                 *)
LEMMA OtherEntries ==
  /\ \A nr, args, ret, uses, sets :
       IsEntry([Abi!Entry(nr, args, ret) EXCEPT !.uses = uses, !.sets = sets],
               nr, args, ret, {}, sets, "none", Abi!NoRequest, Abi!NoAnswer)
  /\ \A nr, args, ret, uses, needs, sets :
       IsEntry([Abi!Entry(nr, args, ret) EXCEPT !.uses = uses, !.needs = needs,
                !.sets = sets],
               nr, args, ret, needs, sets, "none", Abi!NoRequest, Abi!NoAnswer)
  /\ \A nr, args, ret, needs :
       IsEntry([Abi!Entry(nr, args, ret) EXCEPT !.needs = needs],
               nr, args, ret, needs, {}, "none", Abi!NoRequest, Abi!NoAnswer)
BY DEF IsEntry, Abi!Entry

(* and the one that also writes to the probe's page.                       *)
LEMMA LastEntry ==
  \A nr, args, ret, needs, what :
       IsEntry(Abi!Puts([Abi!Entry(nr, args, ret) EXCEPT !.needs = needs], what),
               nr, args, ret, needs \cup {"mmap"}, {}, what, Abi!NoRequest, Abi!NoAnswer)
BY DEF IsEntry, Abi!Entry, Abi!Puts

(* The fields of the system calls of the Linux probe.                      *)
LEMMA Syscalls ==
  ASSUME NEW nr, NEW arg, NEW ret, NEW what, NEW uses
  PROVE  /\ IsSyscall(Abi!Syscall(nr, arg, ret), nr, arg, ret, "none", {})
         /\ IsSyscall(Abi!Sees(nr, arg, ret, what), nr, arg, ret, what, {"mmap"})
         /\ IsSyscall(Abi!Uses(nr, arg, ret, uses), nr, arg, ret, "none", uses)
         /\ IsSyscall([Abi!Sees(nr, arg, ret, what) EXCEPT !.uses = uses], nr, arg, ret,
                      what, uses)
BY DEF IsSyscall, Abi!Syscall, Abi!Sees, Abi!Uses

(* The rows of the gateway.                                                *)
LEMMA GatewayList ==
  /\ Abi!Gateway[1] = Abi!Entry("getpid", {"none"}, "pid")
  /\ Abi!Gateway[2] = Abi!Entry("getuid", {"none"}, "0")
  /\ Abi!Gateway[3] = Abi!Entry("getgid", {"none"}, "0")
  /\ Abi!Gateway[4] = Abi!Entry("geteuid", {"none"}, "0")
  /\ Abi!Gateway[5] = Abi!Entry("getegid", {"none"}, "0")
  /\ Abi!Gateway[6] = Abi!Entry("gettid", {"none"}, "tid")
  /\ Abi!Gateway[7] = Abi!Entry("set_tid_address", {"tid_word"}, "tid")
  /\ Abi!Gateway[8] = Abi!Copies(Abi!Entry("write", {"stdout", "stderr"}, "length"))
  /\ Abi!Gateway[9] = [Abi!Entry("mmap", {"one_page"}, "mmap") EXCEPT !.uses = {"provision"},
                       !.sets = {"mmap"}]
  /\ Abi!Gateway[10] = Abi!Puts(Abi!Entry("uname", {"mmap"}, "0"), "utsname")
  /\ Abi!Gateway[11] = [Abi!Entry("arch_prctl", {"set_mmap"}, "0") EXCEPT !.uses = {"tls"},
                        !.needs = {"mmap"}, !.sets = {"tls"}]
  /\ Abi!Gateway[12] = Abi!Puts([Abi!Entry("arch_prctl", {"get"}, "0")
                                    EXCEPT !.needs = {"tls"}], "tls_base")
  /\ Abi!Gateway[13] = Abi!Puts(Abi!Entry("clock_gettime", {"mmap"}, "0"), "time")
  /\ Abi!Gateway[14] = Abi!Puts(Abi!Entry("getrlimit", {"mmap"}, "0"), "limit")
  /\ Abi!Gateway[15] = Abi!Entry("futex", {"wait"}, "-EAGAIN")
  /\ Abi!Gateway[16] = Abi!Entry("futex", {"wake"}, "0")
  /\ Abi!Gateway[17] = [Abi!Entry("brk", {"query"}, "base") EXCEPT !.uses = {"provision"},
                        !.sets = {"brk"}]
  /\ Abi!Gateway[18] = Abi!Entry("brk", {"base_and_page"}, "base_and_page")
  /\ Abi!Gateway[19] = Abi!Romfs(Abi!Copies(Abi!Entry("openat", {"release"}, "3")),
                                 Abi!Ask("OPEN", "release"), Abi!Ok)
  /\ Abi!Gateway[20] = Abi!ReadsWord("read", "release", "release")
  /\ Abi!Gateway[21] = Abi!Romfs(Abi!Entry("close", {"release"}, "0"),
                                 Abi!Ask("CLOSE", "release"), Abi!Ok)
  /\ Abi!Gateway[22] = Abi!Romfs(Abi!Copies(Abi!Entry("openat", {"version"}, "6")),
                                 Abi!Ask("OPEN", "version"), Abi!Ok)
  /\ Abi!Gateway[23] = Abi!Entry("fcntl", {"version"}, "0")
  /\ Abi!Gateway[24] = Abi!Puts(Abi!Entry("fstat", {"version"}, "0"), "stat")
  /\ Abi!Gateway[25] = Abi!ReadsWord("read", "version", "version")
  /\ Abi!Gateway[26] = Abi!Entry("getdents64", {"version"}, "-ENOTDIR")
  /\ Abi!Gateway[27] = Abi!Romfs(Abi!Entry("close", {"version"}, "0"),
                                 Abi!Ask("CLOSE", "version"), Abi!Ok)
  /\ Abi!Gateway[28] = Abi!Entry("openat", {"release", "version", "misspelt"}, "-ENOENT")
  /\ Abi!Gateway[29] = Abi!Romfs(Abi!Copies(Abi!Entry("openat", {"state"}, "5")),
                                 Abi!Ask("OPEN", "state"), Abi!Ok)
  /\ Abi!Gateway[30] = [Abi!Entry("mprotect", {"mmap"}, "0") EXCEPT !.needs = {"mmap"}]
  /\ Abi!Gateway[31] = Abi!Entry("lseek", {"state"}, "0")
  /\ Abi!Gateway[32] = Abi!ReadsWord("pread64", "state", "initial")
  /\ Abi!Gateway[33] = Abi!ReadsWord("read", "state", "initial")
  /\ Abi!Gateway[34] = Abi!Romfs(Abi!Copies(Abi!Entry("write", {"state"}, "8")),
                                 Abi!AskWrite("test"), Abi!Ok)
  /\ Abi!Gateway[35] = Abi!ReadsWord("read", "state", "test")
  /\ Abi!Gateway[36] = Abi!Romfs(Abi!Entry("close", {"state"}, "0"),
                                 Abi!Ask("CLOSE", "state"), Abi!Ok)
  /\ Abi!Gateway[37] = Abi!Romfs(Abi!Copies(Abi!Entry("write", {"state"}, "-EBADF")),
                                 Abi!AskWrite("test"), Abi!BadFd)
  /\ Abi!Gateway[38] = Abi!Entry("read", {"nothing"}, "0")
  /\ Abi!Gateway[39] = Abi!Entry("exit", {"0"}, "none")
BY DEF Abi!Gateway, Abi!Identity, Abi!Memory, Abi!Time, Abi!Release, Abi!Version,
   Abi!VolatileOpen, Abi!VolatileWrite

(* The system calls of the Linux probe.                                    *)
LEMMA LinuxList ==
  /\ Abi!LinuxProgram[1] = Abi!Syscall("getpid", "none", "pid")
  /\ Abi!LinuxProgram[2] = Abi!Syscall("getuid", "none", "0")
  /\ Abi!LinuxProgram[3] = Abi!Syscall("getgid", "none", "0")
  /\ Abi!LinuxProgram[4] = Abi!Syscall("geteuid", "none", "0")
  /\ Abi!LinuxProgram[5] = Abi!Syscall("getegid", "none", "0")
  /\ Abi!LinuxProgram[6] = Abi!Syscall("gettid", "none", "tid")
  /\ Abi!LinuxProgram[7] = Abi!Syscall("set_tid_address", "tid_word", "tid")
  /\ Abi!LinuxProgram[8] = Abi!Syscall("write", "stdout", "length")
  /\ Abi!LinuxProgram[9] = Abi!Syscall("mmap", "one_page", "mmap")
  /\ Abi!LinuxProgram[10] = Abi!Sees("uname", "mmap", "0", "utsname")
  /\ Abi!LinuxProgram[11] = Abi!Syscall("arch_prctl", "set_mmap", "0")
  /\ Abi!LinuxProgram[12] = [Abi!Sees("arch_prctl", "get", "0", "tls_base")
                                EXCEPT !.uses = {"mmap", "tls"}]
  /\ Abi!LinuxProgram[13] = Abi!Sees("clock_gettime", "mmap", "0", "time")
  /\ Abi!LinuxProgram[14] = Abi!Sees("getrlimit", "mmap", "0", "limit")
  /\ Abi!LinuxProgram[15] = Abi!Syscall("futex", "wait", "-EAGAIN")
  /\ Abi!LinuxProgram[16] = Abi!Syscall("futex", "wake", "0")
  /\ Abi!LinuxProgram[17] = Abi!Syscall("brk", "query", "base")
  /\ Abi!LinuxProgram[18] = Abi!Uses("brk", "base_and_page", "base_and_page", {"brk"})
  /\ Abi!LinuxProgram[19] = Abi!Syscall("openat", "release", "3")
  /\ Abi!LinuxProgram[20] = Abi!Sees("read", "release", "8", "release")
  /\ Abi!LinuxProgram[21] = Abi!Syscall("close", "release", "0")
  /\ Abi!LinuxProgram[22] = Abi!Syscall("openat", "version", "6")
  /\ Abi!LinuxProgram[23] = Abi!Syscall("fcntl", "version", "0")
  /\ Abi!LinuxProgram[24] = Abi!Sees("fstat", "version", "0", "stat")
  /\ Abi!LinuxProgram[25] = Abi!Sees("read", "version", "8", "version")
  /\ Abi!LinuxProgram[26] = Abi!Syscall("getdents64", "version", "-ENOTDIR")
  /\ Abi!LinuxProgram[27] = Abi!Syscall("close", "version", "0")
  /\ Abi!LinuxProgram[28] = Abi!Syscall("openat", "misspelt", "-ENOENT")
  /\ Abi!LinuxProgram[29] = Abi!Syscall("openat", "state", "5")
  /\ Abi!LinuxProgram[30] = Abi!Syscall("mprotect", "mmap", "0")
  /\ Abi!LinuxProgram[31] = Abi!Syscall("lseek", "state", "0")
  /\ Abi!LinuxProgram[32] = Abi!Sees("pread64", "state", "8", "initial")
  /\ Abi!LinuxProgram[33] = Abi!Sees("read", "state", "8", "initial")
  /\ Abi!LinuxProgram[34] = Abi!Syscall("write", "state", "8")
  /\ Abi!LinuxProgram[35] = Abi!Sees("read", "state", "8", "test")
  /\ Abi!LinuxProgram[36] = Abi!Syscall("close", "state", "0")
  /\ Abi!LinuxProgram[37] = Abi!Syscall("write", "state", "-EBADF")
  /\ Abi!LinuxProgram[38] = Abi!Syscall("read", "nothing", "0")
  /\ Abi!LinuxProgram[39] = Abi!Syscall("exit", "0", "none")
BY DEF Abi!LinuxProgram, Abi!FirstCalls, Abi!FileCalls

\* Rows that set nothing up and leave the phase.
Still == 1..38 \ {9, 11, 17, 29, 34, 36, 37}

(* At such a row nothing changes.                                          *)
LEMMA StillRows ==
  \A i \in Still : SpaceAt(i + 1) = SpaceAt(i) /\ GatewayPhase(i + 1) = GatewayPhase(i)
BY DEF Still, SpaceAt, SetUpAt, GatewayPhase

(* A row that does not ask romfsd leaves the phase.                        *)
LEMMA NoCall == \A want, phase : Wants(Abi!NoRequest, want, phase, phase)
BY DEF Wants

(* Rows of one shape agree: those that return a value,                     *)
LEMMA PlainRow ==
  ASSUME NEW nr, NEW args, NEW ret, NEW arg \in args, nr # "exit", NEW i \in Still
  PROVE  /\ Fits(Abi!Entry(nr, args, ret), Abi!Syscall(nr, arg, ret), i)
         /\ Fits(Abi!Copies(Abi!Entry(nr, args, ret)), Abi!Syscall(nr, arg, ret), i)
<1>1. ASSUME NEW e, IsEntry(e, nr, args, ret, {}, {}, "none", Abi!NoRequest, Abi!NoAnswer)
      PROVE  Fits(e, Abi!Syscall(nr, arg, ret), i)
  <2>1. IsSyscall(Abi!Syscall(nr, arg, ret), nr, arg, ret, "none", {})
    BY Syscalls
  <2>2. i # 39
    BY DEF Still
  <2>3. QED
    BY <1>1, <2>1, <2>2, StillRows, NoCall DEF Fits, IsEntry, IsSyscall
<1>2. QED
  BY <1>1, EntryFields

(* those that write to the probe's page,                                   *)
LEMMA PuttingRow ==
  ASSUME NEW nr, NEW args, NEW ret, NEW arg \in args, NEW what, nr # "exit", what # "none",
         NEW i \in Still, i > 9
  PROVE  Fits(Abi!Puts(Abi!Entry(nr, args, ret), what), Abi!Sees(nr, arg, ret, what), i)
<1>1. IsEntry(Abi!Puts(Abi!Entry(nr, args, ret), what), nr, args, ret, {"mmap"}, {}, what,
              Abi!NoRequest, Abi!NoAnswer)
  BY EntryFields
<1>2. IsSyscall(Abi!Sees(nr, arg, ret, what), nr, arg, ret, what, {"mmap"})
  BY Syscalls
<1>3. i # 39 /\ "mmap" \in SpaceAt(i)
  BY DEF Still, SpaceAt, SetUpAt
<1>4. QED
  BY <1>1, <1>2, <1>3, StillRows, NoCall DEF Fits, IsEntry, IsSyscall

(* those that write what romfsd has answered,                              *)
LEMMA ReadingRow ==
  ASSUME NEW nr, NEW file, NEW word_, nr # "exit", NEW i \in Still, i > 9,
         Wants(Abi!Ask("READ", file), Abi!Answer("OK", word_), GatewayPhase(i),
               GatewayPhase(i))
  PROVE  Fits(Abi!ReadsWord(nr, file, word_), Abi!Sees(nr, file, "8", word_), i)
<1>1. IsEntry(Abi!ReadsWord(nr, file, word_), nr, {file}, "8", {"mmap"}, {}, "payload",
              Abi!Ask("READ", file), Abi!Answer("OK", word_))
  BY EntryFields
<1>2. IsSyscall(Abi!Sees(nr, file, "8", word_), nr, file, "8", word_, {"mmap"})
  BY Syscalls
<1>3. i # 39 /\ "mmap" \in SpaceAt(i)
  BY DEF Still, SpaceAt, SetUpAt
<1>4. Abi!Ask("READ", file) # Abi!NoRequest /\ Abi!Answer("OK", word_).payload = word_
  BY DEF Abi!Ask, Abi!NoRequest, Abi!Answer
<1>5. QED
  BY <1>1, <1>2, <1>3, <1>4, StillRows DEF Fits, IsEntry, IsSyscall

\* Row i asks romfsd and wants its answer.
AsksAt(ask, want, i) == Wants(ask, want, GatewayPhase(i), GatewayPhase(i + 1))

(* and those that ask romfsd for something else.                           *)
LEMMA AskingRow ==
  ASSUME NEW nr, NEW args, NEW file, NEW ret, NEW i, NEW ask, NEW want,
         AsksAt(ask, want, i), file \in args, nr # "exit", i \in 1..38 \ {9, 11, 17}
  PROVE  /\ Fits(Abi!Romfs(Abi!Entry(nr, args, ret), ask, want), Abi!Syscall(nr, file, ret),
                 i)
         /\ Fits(Abi!Romfs(Abi!Copies(Abi!Entry(nr, args, ret)), ask, want),
                 Abi!Syscall(nr, file, ret), i)
<1>1. ASSUME NEW e, IsEntry(e, nr, args, ret, {}, {}, "none", ask, want)
      PROVE  Fits(e, Abi!Syscall(nr, file, ret), i)
  <2>1. IsSyscall(Abi!Syscall(nr, file, ret), nr, file, ret, "none", {})
    BY Syscalls
  <2>2. i # 39 /\ SpaceAt(i + 1) = SpaceAt(i)
    BY DEF SpaceAt, SetUpAt
  <2>3. QED
    BY <1>1, <2>1, <2>2 DEF AsksAt, Fits, IsEntry, IsSyscall
<1>2. QED
  BY <1>1, EntryFields

(* The two lists agree, row by row.                                        *)
LEMMA RowsFit == \A i \in 1..39 : Fits(Abi!Gateway[i], Abi!LinuxProgram[i], i)
<1>1. Fits(Abi!Gateway[1], Abi!LinuxProgram[1], 1)
  BY GatewayList, LinuxList, PlainRow DEF Still
<1>2. Fits(Abi!Gateway[2], Abi!LinuxProgram[2], 2)
  BY GatewayList, LinuxList, PlainRow DEF Still
<1>3. Fits(Abi!Gateway[3], Abi!LinuxProgram[3], 3)
  BY GatewayList, LinuxList, PlainRow DEF Still
<1>4. Fits(Abi!Gateway[4], Abi!LinuxProgram[4], 4)
  BY GatewayList, LinuxList, PlainRow DEF Still
<1>5. Fits(Abi!Gateway[5], Abi!LinuxProgram[5], 5)
  BY GatewayList, LinuxList, PlainRow DEF Still
<1>6. Fits(Abi!Gateway[6], Abi!LinuxProgram[6], 6)
  BY GatewayList, LinuxList, PlainRow DEF Still
<1>7. Fits(Abi!Gateway[7], Abi!LinuxProgram[7], 7)
  BY GatewayList, LinuxList, PlainRow DEF Still
<1>8. Fits(Abi!Gateway[8], Abi!LinuxProgram[8], 8)
  BY GatewayList, LinuxList, PlainRow DEF Still
<1>9. Fits([Abi!Entry("mmap", {"one_page"}, "mmap") EXCEPT !.uses = {"provision"},
            !.sets = {"mmap"}],
           Abi!Syscall("mmap", "one_page", "mmap"), 9)
  <2>1. IsEntry([Abi!Entry("mmap", {"one_page"}, "mmap") EXCEPT !.uses = {"provision"},
                 !.sets = {"mmap"}],
                "mmap", {"one_page"}, "mmap", {}, {"mmap"}, "none",
                Abi!NoRequest, Abi!NoAnswer)
    BY EntryFields, OtherEntries, LastEntry
  <2>2. IsSyscall(Abi!Syscall("mmap", "one_page", "mmap"),
                  "mmap", "one_page", "mmap", "none", {})
    BY Syscalls
  <2>3. QED
    BY <2>1, <2>2, NoCall DEF Fits, IsEntry, IsSyscall, SpaceAt, SetUpAt, GatewayPhase
<1>10. Fits(Abi!Puts(Abi!Entry("uname", {"mmap"}, "0"), "utsname"),
            Abi!Sees("uname", "mmap", "0", "utsname"), 10)
  BY PuttingRow DEF Still
<1>11. Fits([Abi!Entry("arch_prctl", {"set_mmap"}, "0") EXCEPT !.uses = {"tls"},
             !.needs = {"mmap"}, !.sets = {"tls"}],
            Abi!Syscall("arch_prctl", "set_mmap", "0"), 11)
  <2>1. IsEntry([Abi!Entry("arch_prctl", {"set_mmap"}, "0") EXCEPT !.uses = {"tls"},
                 !.needs = {"mmap"}, !.sets = {"tls"}],
                "arch_prctl", {"set_mmap"}, "0", {"mmap"}, {"tls"}, "none",
                Abi!NoRequest, Abi!NoAnswer)
    BY EntryFields, OtherEntries, LastEntry
  <2>2. IsSyscall(Abi!Syscall("arch_prctl", "set_mmap", "0"),
                  "arch_prctl", "set_mmap", "0", "none", {})
    BY Syscalls
  <2>3. QED
    BY <2>1, <2>2, NoCall DEF Fits, IsEntry, IsSyscall, SpaceAt, SetUpAt, GatewayPhase
<1>12. Fits(Abi!Puts([Abi!Entry("arch_prctl", {"get"}, "0") EXCEPT !.needs = {"tls"}],
                     "tls_base"),
            [Abi!Sees("arch_prctl", "get", "0", "tls_base") EXCEPT !.uses = {"mmap", "tls"}],
            12)
  <2>1. IsEntry(Abi!Puts([Abi!Entry("arch_prctl", {"get"}, "0") EXCEPT !.needs = {"tls"}],
                         "tls_base"),
                "arch_prctl", {"get"}, "0", {"tls"} \cup {"mmap"}, {}, "tls_base",
                Abi!NoRequest, Abi!NoAnswer)
    BY EntryFields, OtherEntries, LastEntry
  <2>2. IsSyscall([Abi!Sees("arch_prctl", "get", "0", "tls_base")
                      EXCEPT !.uses = {"mmap", "tls"}],
                  "arch_prctl", "get", "0", "tls_base", {"mmap", "tls"})
    BY Syscalls
  <2>3. SpaceAt(13) = SpaceAt(12) /\ {"mmap", "tls"} \subseteq SpaceAt(12)
        /\ GatewayPhase(13) = GatewayPhase(12)
    BY DEF SpaceAt, SetUpAt, GatewayPhase
  <2>4. QED
    BY <2>1, <2>2, <2>3, NoCall DEF Fits, IsEntry, IsSyscall
<1>13. Fits(Abi!Puts(Abi!Entry("clock_gettime", {"mmap"}, "0"), "time"),
            Abi!Sees("clock_gettime", "mmap", "0", "time"), 13)
  BY PuttingRow DEF Still
<1>14. Fits(Abi!Puts(Abi!Entry("getrlimit", {"mmap"}, "0"), "limit"),
            Abi!Sees("getrlimit", "mmap", "0", "limit"), 14)
  BY PuttingRow DEF Still
<1>15. Fits(Abi!Gateway[15], Abi!LinuxProgram[15], 15)
  BY GatewayList, LinuxList, PlainRow DEF Still
<1>16. Fits(Abi!Gateway[16], Abi!LinuxProgram[16], 16)
  BY GatewayList, LinuxList, PlainRow DEF Still
<1>17. Fits([Abi!Entry("brk", {"query"}, "base") EXCEPT !.uses = {"provision"},
             !.sets = {"brk"}],
            Abi!Syscall("brk", "query", "base"), 17)
  <2>1. IsEntry([Abi!Entry("brk", {"query"}, "base") EXCEPT !.uses = {"provision"},
                 !.sets = {"brk"}],
                "brk", {"query"}, "base", {}, {"brk"}, "none",
                Abi!NoRequest, Abi!NoAnswer)
    BY EntryFields, OtherEntries, LastEntry
  <2>2. IsSyscall(Abi!Syscall("brk", "query", "base"),
                  "brk", "query", "base", "none", {})
    BY Syscalls
  <2>3. QED
    BY <2>1, <2>2, NoCall DEF Fits, IsEntry, IsSyscall, SpaceAt, SetUpAt, GatewayPhase
<1>18. Fits(Abi!Entry("brk", {"base_and_page"}, "base_and_page"),
            Abi!Uses("brk", "base_and_page", "base_and_page", {"brk"}), 18)
  <2>1. IsEntry(Abi!Entry("brk", {"base_and_page"}, "base_and_page"),
                "brk", {"base_and_page"}, "base_and_page", {}, {}, "none",
                Abi!NoRequest, Abi!NoAnswer)
    BY EntryFields, OtherEntries, LastEntry
  <2>2. IsSyscall(Abi!Uses("brk", "base_and_page", "base_and_page", {"brk"}),
                  "brk", "base_and_page", "base_and_page", "none", {"brk"})
    BY Syscalls
  <2>3. QED
    BY <2>1, <2>2, NoCall DEF Fits, IsEntry, IsSyscall, SpaceAt, SetUpAt, GatewayPhase
<1>19. Fits(Abi!Gateway[19], Abi!LinuxProgram[19], 19)
  <2>1. AsksAt(Abi!Ask("OPEN", "release"), Abi!Ok, 19)
    BY DEF AsksAt, Wants, Abi!Ask, Abi!AskWrite, Abi!NoRequest, GatewayPhase, Abi!Files
  <2>2. QED
    BY <2>1, GatewayList, LinuxList, AskingRow
<1>20. Fits(Abi!Gateway[20], Abi!LinuxProgram[20], 20)
  <2>1. Wants(Abi!Ask("READ", "release"), Abi!Answer("OK", "release"), GatewayPhase(20),
              GatewayPhase(20))
    BY DEF Wants, Abi!Ask, Abi!NoRequest, GatewayPhase, WordOf, Abi!Files
  <2>2. QED
    BY <2>1, GatewayList, LinuxList, ReadingRow DEF Still
<1>21. Fits(Abi!Gateway[21], Abi!LinuxProgram[21], 21)
  <2>1. AsksAt(Abi!Ask("CLOSE", "release"), Abi!Ok, 21)
    BY DEF AsksAt, Wants, Abi!Ask, Abi!AskWrite, Abi!NoRequest, GatewayPhase, Abi!Files
  <2>2. QED
    BY <2>1, GatewayList, LinuxList, AskingRow
<1>22. Fits(Abi!Gateway[22], Abi!LinuxProgram[22], 22)
  <2>1. AsksAt(Abi!Ask("OPEN", "version"), Abi!Ok, 22)
    BY DEF AsksAt, Wants, Abi!Ask, Abi!AskWrite, Abi!NoRequest, GatewayPhase, Abi!Files
  <2>2. QED
    BY <2>1, GatewayList, LinuxList, AskingRow
<1>23. Fits(Abi!Gateway[23], Abi!LinuxProgram[23], 23)
  BY GatewayList, LinuxList, PlainRow DEF Still
<1>24. Fits(Abi!Puts(Abi!Entry("fstat", {"version"}, "0"), "stat"),
            Abi!Sees("fstat", "version", "0", "stat"), 24)
  BY PuttingRow DEF Still
<1>25. Fits(Abi!Gateway[25], Abi!LinuxProgram[25], 25)
  <2>1. Wants(Abi!Ask("READ", "version"), Abi!Answer("OK", "version"), GatewayPhase(25),
              GatewayPhase(25))
    BY DEF Wants, Abi!Ask, Abi!NoRequest, GatewayPhase, WordOf, Abi!Files
  <2>2. QED
    BY <2>1, GatewayList, LinuxList, ReadingRow DEF Still
<1>26. Fits(Abi!Gateway[26], Abi!LinuxProgram[26], 26)
  BY GatewayList, LinuxList, PlainRow DEF Still
<1>27. Fits(Abi!Gateway[27], Abi!LinuxProgram[27], 27)
  <2>1. AsksAt(Abi!Ask("CLOSE", "version"), Abi!Ok, 27)
    BY DEF AsksAt, Wants, Abi!Ask, Abi!AskWrite, Abi!NoRequest, GatewayPhase, Abi!Files
  <2>2. QED
    BY <2>1, GatewayList, LinuxList, AskingRow
<1>28. Fits(Abi!Gateway[28], Abi!LinuxProgram[28], 28)
  BY GatewayList, LinuxList, PlainRow DEF Still
<1>29. Fits(Abi!Gateway[29], Abi!LinuxProgram[29], 29)
  <2>1. AsksAt(Abi!Ask("OPEN", "state"), Abi!Ok, 29)
    BY DEF AsksAt, Wants, Abi!Ask, Abi!AskWrite, Abi!NoRequest, GatewayPhase, Abi!Files
  <2>2. QED
    BY <2>1, GatewayList, LinuxList, AskingRow
<1>30. Fits([Abi!Entry("mprotect", {"mmap"}, "0") EXCEPT !.needs = {"mmap"}],
            Abi!Syscall("mprotect", "mmap", "0"), 30)
  <2>1. IsEntry([Abi!Entry("mprotect", {"mmap"}, "0") EXCEPT !.needs = {"mmap"}],
                "mprotect", {"mmap"}, "0", {"mmap"}, {}, "none",
                Abi!NoRequest, Abi!NoAnswer)
    BY EntryFields, OtherEntries, LastEntry
  <2>2. IsSyscall(Abi!Syscall("mprotect", "mmap", "0"),
                  "mprotect", "mmap", "0", "none", {})
    BY Syscalls
  <2>3. QED
    BY <2>1, <2>2, NoCall DEF Fits, IsEntry, IsSyscall, SpaceAt, SetUpAt, GatewayPhase
<1>31. Fits(Abi!Gateway[31], Abi!LinuxProgram[31], 31)
  BY GatewayList, LinuxList, PlainRow DEF Still
<1>32. Fits(Abi!Gateway[32], Abi!LinuxProgram[32], 32)
  <2>1. Wants(Abi!Ask("READ", "state"), Abi!Answer("OK", "initial"), GatewayPhase(32),
              GatewayPhase(32))
    BY DEF Wants, Abi!Ask, Abi!NoRequest, GatewayPhase, WordOf, Abi!Files
  <2>2. QED
    BY <2>1, GatewayList, LinuxList, ReadingRow DEF Still
<1>33. Fits(Abi!Gateway[33], Abi!LinuxProgram[33], 33)
  <2>1. Wants(Abi!Ask("READ", "state"), Abi!Answer("OK", "initial"), GatewayPhase(33),
              GatewayPhase(33))
    BY DEF Wants, Abi!Ask, Abi!NoRequest, GatewayPhase, WordOf, Abi!Files
  <2>2. QED
    BY <2>1, GatewayList, LinuxList, ReadingRow DEF Still
<1>34. Fits(Abi!Gateway[34], Abi!LinuxProgram[34], 34)
  <2>1. AsksAt(Abi!AskWrite("test"), Abi!Ok, 34)
    BY DEF AsksAt, Wants, Abi!Ask, Abi!AskWrite, Abi!NoRequest, GatewayPhase, Abi!Files
  <2>2. QED
    BY <2>1, GatewayList, LinuxList, AskingRow
<1>35. Fits(Abi!Gateway[35], Abi!LinuxProgram[35], 35)
  <2>1. Wants(Abi!Ask("READ", "state"), Abi!Answer("OK", "test"), GatewayPhase(35),
              GatewayPhase(35))
    BY DEF Wants, Abi!Ask, Abi!NoRequest, GatewayPhase, WordOf, Abi!Files
  <2>2. QED
    BY <2>1, GatewayList, LinuxList, ReadingRow DEF Still
<1>36. Fits(Abi!Gateway[36], Abi!LinuxProgram[36], 36)
  <2>1. AsksAt(Abi!Ask("CLOSE", "state"), Abi!Ok, 36)
    BY DEF AsksAt, Wants, Abi!Ask, Abi!AskWrite, Abi!NoRequest, GatewayPhase, Abi!Files
  <2>2. QED
    BY <2>1, GatewayList, LinuxList, AskingRow
<1>37. Fits(Abi!Gateway[37], Abi!LinuxProgram[37], 37)
  <2>1. AsksAt(Abi!AskWrite("test"), Abi!BadFd, 37)
    BY DEF AsksAt, Wants, Abi!Ask, Abi!AskWrite, Abi!NoRequest, GatewayPhase, Abi!Files
  <2>2. QED
    BY <2>1, GatewayList, LinuxList, AskingRow
<1>38. Fits(Abi!Gateway[38], Abi!LinuxProgram[38], 38)
  BY GatewayList, LinuxList, PlainRow DEF Still
<1>39. Fits(Abi!Entry("exit", {"0"}, "none"),
            Abi!Syscall("exit", "0", "none"), 39)
  <2>1. IsEntry(Abi!Entry("exit", {"0"}, "none"),
                "exit", {"0"}, "none", {}, {}, "none",
                Abi!NoRequest, Abi!NoAnswer)
    BY EntryFields, OtherEntries, LastEntry
  <2>2. IsSyscall(Abi!Syscall("exit", "0", "none"),
                  "exit", "0", "none", "none", {})
    BY Syscalls
  <2>3. QED
    BY <2>1, <2>2, NoCall DEF Fits, IsEntry, IsSyscall, SpaceAt, SetUpAt, GatewayPhase
<1>40. QED
  BY GatewayList, LinuxList, <1>1, <1>2, <1>3, <1>4, <1>5, <1>6, <1>7, <1>8, <1>9,
     <1>10, <1>11, <1>12, <1>13, <1>14, <1>15, <1>16, <1>17, <1>18, <1>19, <1>20, <1>21,
     <1>22, <1>23, <1>24, <1>25, <1>26, <1>27, <1>28, <1>29, <1>30, <1>31, <1>32, <1>33,
     <1>34, <1>35, <1>36, <1>37, <1>38, <1>39

(* The calls of romfs_probe.                                               *)
LEMMA ProbeList ==
  /\ Len(Abi!ProbeProgram) = 15
  /\ Abi!ProbeProgram[1] = Abi!Call(Abi!Ask("OPEN", "release"), Abi!Ok)
  /\ Abi!ProbeProgram[2] = Abi!Call(Abi!Ask("READ", "release"), Abi!Answer("OK", "release"))
  /\ Abi!ProbeProgram[3] = Abi!Call(Abi!Ask("READ", "fd_99"), Abi!BadFd)
  /\ Abi!ProbeProgram[4] = Abi!Call(Abi!Ask("CLOSE", "release"), Abi!Ok)
  /\ Abi!ProbeProgram[5] = Abi!Call(Abi!Ask("OPEN", "banner"), Abi!Ok)
  /\ Abi!ProbeProgram[6] = Abi!Call(Abi!Ask("READ", "banner"), Abi!Answer("OK", "banner"))
  /\ Abi!ProbeProgram[7] = Abi!Call(Abi!Ask("CLOSE", "banner"), Abi!Ok)
  /\ Abi!ProbeProgram[8] = Abi!Call(Abi!Ask("OPEN", "state"), Abi!Ok)
  /\ Abi!ProbeProgram[9] = Abi!Call(Abi!Ask("READ", "state"), Abi!Answer("OK", "initial"))
  /\ Abi!ProbeProgram[10] = Abi!Call([Abi!AskWrite("none") EXCEPT !.exact = FALSE],
                                     Abi!BadFd)
  /\ Abi!ProbeProgram[11] = Abi!Call(Abi!Ask("READ", "state"), Abi!Answer("OK", "initial"))
  /\ Abi!ProbeProgram[12] = Abi!Call(Abi!AskWrite("test"), Abi!Ok)
  /\ Abi!ProbeProgram[13] = Abi!Call(Abi!Ask("READ", "state"), Abi!Answer("OK", "test"))
  /\ Abi!ProbeProgram[14] = Abi!Call(Abi!Ask("CLOSE", "state"), Abi!Ok)
  /\ Abi!ProbeProgram[15] = Abi!Call(Abi!AskWrite("initial"), Abi!BadFd)
BY DEF Abi!ProbeProgram

\* Row i of romfs_probe asks romfsd and wants its answer.
ProbeFits(r, i) ==
  r.ask # Abi!NoRequest /\ Wants(r.ask, r.want, ProbePhase(i), ProbePhase(i + 1))

(* Every call of romfs_probe wants romfsd's answer to it.                  *)
LEMMA ProbeRowsFit == \A i \in 1..15 : ProbeFits(Abi!ProbeProgram[i], i)
<1> USE DEF ProbeFits, Abi!Call, Abi!Ask, Abi!AskWrite, Abi!NoRequest, Wants, ProbePhase,
    WordOf, Abi!Files
<1>1. ProbeFits(Abi!Call(Abi!Ask("OPEN", "release"), Abi!Ok), 1)
  OBVIOUS
<1>2. ProbeFits(Abi!Call(Abi!Ask("READ", "release"), Abi!Answer("OK", "release")), 2)
  OBVIOUS
<1>3. ProbeFits(Abi!Call(Abi!Ask("READ", "fd_99"), Abi!BadFd), 3)
  OBVIOUS
<1>4. ProbeFits(Abi!Call(Abi!Ask("CLOSE", "release"), Abi!Ok), 4)
  OBVIOUS
<1>5. ProbeFits(Abi!Call(Abi!Ask("OPEN", "banner"), Abi!Ok), 5)
  OBVIOUS
<1>6. ProbeFits(Abi!Call(Abi!Ask("READ", "banner"), Abi!Answer("OK", "banner")), 6)
  OBVIOUS
<1>7. ProbeFits(Abi!Call(Abi!Ask("CLOSE", "banner"), Abi!Ok), 7)
  OBVIOUS
<1>8. ProbeFits(Abi!Call(Abi!Ask("OPEN", "state"), Abi!Ok), 8)
  OBVIOUS
<1>9. ProbeFits(Abi!Call(Abi!Ask("READ", "state"), Abi!Answer("OK", "initial")), 9)
  OBVIOUS
<1>10. ProbeFits(Abi!Call([Abi!AskWrite("none") EXCEPT !.exact = FALSE], Abi!BadFd), 10)
  <2> DEFINE ask == [Abi!AskWrite("none") EXCEPT !.exact = FALSE]
  <2>1. ask.op = "WRITE" /\ ask.file = "state" /\ ~ask.exact
    OBVIOUS
  <2> HIDE DEF ask
  <2>2. ProbeFits(Abi!Call(ask, Abi!BadFd), 10)
    BY <2>1
  <2>3. QED
    BY <2>2 DEF ask
<1>11. ProbeFits(Abi!Call(Abi!Ask("READ", "state"), Abi!Answer("OK", "initial")), 11)
  OBVIOUS
<1>12. ProbeFits(Abi!Call(Abi!AskWrite("test"), Abi!Ok), 12)
  OBVIOUS
<1>13. ProbeFits(Abi!Call(Abi!Ask("READ", "state"), Abi!Answer("OK", "test")), 13)
  OBVIOUS
<1>14. ProbeFits(Abi!Call(Abi!Ask("CLOSE", "state"), Abi!Ok), 14)
  OBVIOUS
<1>15. ProbeFits(Abi!Call(Abi!AskWrite("initial"), Abi!BadFd), 15)
  OBVIOUS
<1> HIDE DEF ProbeFits, Abi!Call, Abi!Ask, Abi!AskWrite, Abi!NoRequest, Wants, ProbePhase,
    WordOf, Abi!Files
<1>16. QED
  BY ProbeList, <1>1, <1>2, <1>3, <1>4, <1>5, <1>6, <1>7, <1>8, <1>9, <1>10, <1>11,
     <1>12, <1>13, <1>14, <1>15

-----------------------------------------------------------------------------
(* The steps.                                                              *)

(* A call in progress wants romfsd's answer to it.                         *)
LEMMA InCall ==
  ASSUME GatewayInv, NEW c \in Abi!Clients, Calling(c)
  PROVE  /\ Row(c).ask # Abi!NoRequest /\ Live(c)
         /\ Wants(Row(c).ask, Row(c).want, PhaseBefore(c), PhaseAfter(c))
<1>1. CASE c = "probe"
  <2>1. ProbeFits(Abi!ProbeProgram[probe_pc], probe_pc) /\ probe = "calling"
    BY <1>1, ProbeRowsFit DEF GatewayInv, CallInv, Calling
  <2>2. QED
    BY <1>1, <2>1 DEF ProbeFits, Row, Live, PhaseBefore, PhaseAfter
<1>2. CASE c = "root"
  <2>1. Fits(Abi!Gateway[at], Abi!LinuxProgram[at], at) /\ gateway = "calling"
        /\ Abi!Gateway[at].ask # Abi!NoRequest
    BY <1>2, RowsFit DEF GatewayInv, DialogueInv, Calling
  <2>2. QED
    BY <1>2, <2>1 DEF Fits, Row, Live, PhaseBefore, PhaseAfter
<1>3. QED
  BY <1>1, <1>2 DEF Abi!Clients

(* romfsd serves a client that is in a call, and answers it.               *)
LEMMA Served ==
  ASSUME GatewayInv, NEW c \in Abi!Clients, Abi!Serve(c)
  PROVE  /\ Calling(c) /\ Asking(c) /\ ans'[c] # Abi!NoAnswer /\ msg'[c] = Abi!NoRequest
         /\ DOMAIN msg' = Abi!Clients /\ DOMAIN ans' = Abi!Clients
         /\ \A d \in Abi!Clients \ {c} : msg'[d] = msg[d] /\ ans'[d] = ans[d]
         /\ UNCHANGED <<server, Abi!probeVars, Abi!rootVars, Abi!linuxVars, refused>>
<1>1. \E a : Abi!ReplyTo(c, a) /\ a # Abi!NoAnswer
  BY DEF Abi!Serve, Abi!ServeOpen, Abi!ServeWrite, Abi!ServeWriteRejected, Abi!ServeClose,
     Abi!ServeLook, Abi!Looked, Abi!Ok, Abi!BadFd, Abi!NoAnswer, Abi!Answer
<1>2. msg[c] # Abi!NoRequest
  BY DEF Abi!Serve, Abi!ServeOpen, Abi!ServeWrite, Abi!ServeWriteRejected, Abi!ServeClose,
     Abi!ServeLook, Abi!Serves, Abi!NoRequest, Abi!Ask
<1>3. Calling(c) /\ Asking(c)
  BY <1>2 DEF GatewayInv, CallInv, Answered
<1>4. QED
  BY <1>1, <1>3 DEF GatewayInv, CallInv, Abi!ReplyTo

(* A client that knows the record gets the answer it wants, and leaves the *)
(* record in the next phase.                                               *)
LEMMA ServedAsWanted ==
  ASSUME GatewayInv, NEW c \in Abi!Clients, Abi!Serve(c), c \notin touched'
  PROVE  /\ ans'[c] = Row(c).want
         /\ c \in inside' <=> PhaseAfter(c) # "out"
         /\ RecordIn(PhaseAfter(c))' /\ open' \in BOOLEAN
         /\ PhaseAfter(c)' = PhaseAfter(c)
<1> DEFINE ask == Row(c).ask
           want == Row(c).want
           from == PhaseBefore(c)
           to == PhaseAfter(c)
<1>1. Wants(ask, want, from, to) /\ ask # Abi!NoRequest /\ msg[c] = ask
  BY Served, InCall DEF Asking
<1>2. c \notin touched
  BY DEF Abi!Serve, Abi!ServeOpen, Abi!ServeWrite, Abi!ServeWriteRejected, Abi!ServeClose,
     Abi!ServeLook, Abi!Touches
<1>3. (c \in inside <=> from # "out") /\ RecordIn(from) /\ open \in BOOLEAN
  BY <1>2, Served, InCall DEF GatewayInv, RecordInv, Phase, Asking
<1>4. PhaseAfter(c)' = to /\ c \in Abi!Clients /\ msg[c] = ask
  BY <1>1, Served DEF PhaseAfter, Abi!probeVars, Abi!rootVars
<1>5. from \in {"out", "fresh", "written", "closed"}
  BY DEF PhaseBefore, ProbePhase, GatewayPhase
<1> HIDE DEF ask, want, from, to
<1>6. ASSUME NEW a, Abi!ReplyTo(c, a) PROVE ans'[c] = a
  BY <1>6 DEF Abi!ReplyTo, GatewayInv, CallInv
<1>7. CASE Abi!ServeOpen(c)
  <2>1. ask.op = "OPEN" /\ ask.file = "state"
    BY <1>4, <1>7 DEF Abi!ServeOpen, Abi!Serves
  <2>2. want = Abi!Ok /\ to = "fresh"
    BY <1>1, <2>1 DEF Wants, Abi!NoRequest, Abi!Ask, Abi!Files
  <2>3. word' = "initial" /\ open' = TRUE /\ c \in inside' /\ ans'[c] = Abi!Ok
    BY <1>6, <1>7 DEF Abi!ServeOpen
  <2>4. QED
    BY <1>4, <2>2, <2>3 DEF want, to, RecordIn, WordOf
<1>8. CASE Abi!ServeWrite(c)
  <2>1. ask.op = "WRITE" /\ ask.exact /\ open
    BY <1>4, <1>8 DEF Abi!ServeWrite, Abi!Serves
  <2>2. want = Abi!Ok /\ from = "fresh" /\ to = "written" /\ ask.word = "test"
    BY <1>1, <1>3, <2>1 DEF Wants, Abi!NoRequest, Abi!Ask, RecordIn
  <2>3. word' = "test" /\ open' /\ inside' = inside /\ ans'[c] = Abi!Ok
    BY <1>4, <1>6, <1>8, <2>1, <2>2 DEF Abi!ServeWrite
  <2>4. QED
    BY <1>3, <1>4, <2>2, <2>3 DEF want, to, RecordIn, WordOf
<1>9. CASE Abi!ServeWriteRejected(c)
  <2>1. ask.op = "WRITE" /\ ~(ask.exact /\ open)
    BY <1>4, <1>9 DEF Abi!ServeWriteRejected, Abi!Serves
  <2>2. want = Abi!BadFd
        /\ ((from \in {"fresh", "written"} /\ to = from) \/ (from = "closed" /\ to = "out"))
    BY <1>1, <1>3, <2>1 DEF Wants, Abi!NoRequest, Abi!Ask, RecordIn
  <2>3. open' = open /\ word' = word /\ ans'[c] = Abi!BadFd
        /\ inside' = IF open THEN inside ELSE inside \ {c}
    BY <1>6, <1>9 DEF Abi!ServeWriteRejected
  <2>4. QED
    BY <1>3, <1>4, <2>2, <2>3 DEF want, to, RecordIn, WordOf
<1>10. CASE Abi!ServeClose(c)
  <2>1. ask.op = "CLOSE" /\ ask.file = "state"
    BY <1>4, <1>10 DEF Abi!ServeClose, Abi!Serves
  <2>2. want = Abi!Ok /\ from = "written" /\ to = "closed" /\ open
    BY <1>1, <1>3, <2>1 DEF Wants, Abi!NoRequest, Abi!Ask, Abi!Files, RecordIn
  <2>3. open' = FALSE /\ inside' = inside /\ ans'[c] = Abi!Ok
    BY <1>6, <1>10, <2>2 DEF Abi!ServeClose
  <2>4. QED
    BY <1>3, <1>4, <2>2, <2>3 DEF want, to, RecordIn, WordOf
<1>11. CASE Abi!ServeLook(c)
  <2>1. UNCHANGED <<word, open, inside>> /\ ans'[c] = Abi!Looked(ask)
    BY <1>4, <1>6, <1>11 DEF Abi!ServeLook
  <2>2. ask.op = "READ" \/ ask.file \in Abi!Files
    BY <1>4, <1>11 DEF Abi!ServeLook
  <2>3. to = from /\ Abi!Looked(ask) = want
    <3>1. CASE ask.op = "READ" /\ ask.file = "state"
      BY <1>1, <1>3, <3>1 DEF Wants, Abi!NoRequest, Abi!Ask, Abi!Files, RecordIn, Abi!Looked
    <3>2. CASE ask.op = "READ" /\ ask.file \in Abi!Files
      BY <1>1, <3>2 DEF Wants, Abi!NoRequest, Abi!Ask, Abi!Files, Abi!Looked
    <3>3. CASE ask.op = "READ" /\ ask.file \notin Abi!Files \cup {"state"}
      BY <1>1, <3>3 DEF Wants, Abi!NoRequest, Abi!Ask, Abi!Files, Abi!Looked
    <3>4. CASE ask.op # "READ" /\ ask.file \in Abi!Files
      BY <1>1, <3>4 DEF Wants, Abi!NoRequest, Abi!Ask, Abi!Files, Abi!Looked
    <3>5. QED
      BY <2>2, <3>1, <3>2, <3>3, <3>4
  <2>4. QED
    BY <1>3, <1>4, <2>1, <2>3 DEF want, to, RecordIn, WordOf
<1>12. QED
  BY <1>7, <1>8, <1>9, <1>10, <1>11 DEF Abi!Serve

(* A client romfsd does not serve finds its request as it was, and, unless *)
(* this service has met its lifecycle, the record too.                     *)
LEMMA ServedOther ==
  ASSUME GatewayInv, NEW c \in Abi!Clients, Abi!Serve(c), NEW d \in Abi!Clients \ {c}
  PROVE  /\ msg'[d] = msg[d] /\ ans'[d] = ans[d] /\ open' \in BOOLEAN
         /\ d \notin touched' => /\ d \notin touched
                                 /\ d \in inside' <=> d \in inside
                                 /\ d \in inside => open' = open /\ word' = word
<1>1. msg'[d] = msg[d] /\ ans'[d] = ans[d]
  BY Served
<1>2. open' \in BOOLEAN
  BY DEF Abi!Serve, Abi!ServeOpen, Abi!ServeWrite, Abi!ServeWriteRejected, Abi!ServeClose,
     Abi!ServeLook, GatewayInv, RecordInv
<1>3. CASE Abi!ServeOpen(c)
  BY <1>1, <1>2, <1>3 DEF Abi!ServeOpen, Abi!Touches
<1>4. CASE Abi!ServeWrite(c)
  BY <1>1, <1>2, <1>4 DEF Abi!ServeWrite, Abi!Touches
<1>5. CASE Abi!ServeWriteRejected(c)
  BY <1>1, <1>2, <1>5 DEF Abi!ServeWriteRejected
<1>6. CASE Abi!ServeClose(c)
  BY <1>1, <1>2, <1>6 DEF Abi!ServeClose, Abi!Touches
<1>7. CASE Abi!ServeLook(c)
  BY <1>1, <1>2, <1>7 DEF Abi!ServeLook
<1>8. QED
  BY <1>3, <1>4, <1>5, <1>6, <1>7 DEF Abi!Serve

(* romfsd's service keeps the invariant.                                   *)
LEMMA ServeStep == ASSUME GatewayInv, NEW c \in Abi!Clients, Abi!Serve(c) PROVE GatewayInv'
<1>1. UNCHANGED <<server, Abi!probeVars, Abi!rootVars, Abi!linuxVars, refused>>
  BY Served
<1>2. DialogueInv'
  BY <1>1 DEF GatewayInv, DialogueInv, Abi!rootVars, Abi!linuxVars
<1>3. ASSUME NEW d \in Abi!Clients
      PROVE  /\ Row(d)' = Row(d) /\ Calling(d)' = Calling(d) /\ Live(d)' = Live(d)
             /\ PhaseBefore(d)' = PhaseBefore(d) /\ PhaseAfter(d)' = PhaseAfter(d)
  BY <1>1 DEF Row, Calling, Live, PhaseBefore, PhaseAfter, Abi!probeVars, Abi!rootVars
<1>4. CallInv'
  <2>1. ASSUME NEW d \in Abi!Clients
        PROVE  IF Calling(d)' THEN Asking(d)' \/ Answered(d)'
               ELSE msg'[d] = Abi!NoRequest /\ ans'[d] = Abi!NoAnswer
    <3>1. CASE d = c
      BY <1>3, <3>1, Served, ServedAsWanted DEF Answered
    <3>2. CASE d # c
      BY <1>3, <3>2, ServedOther DEF GatewayInv, CallInv, Asking, Answered
    <3>3. QED
      BY <3>1, <3>2
  <2>2. QED
    BY <1>1, <2>1, Served DEF GatewayInv, CallInv, Abi!probeVars
<1>5. RecordInv'
  <2>1. ASSUME NEW d \in Abi!Clients, Live(d)', d \notin touched'
        PROVE  (d \in inside' <=> Phase(d)' # "out") /\ RecordIn(Phase(d))'
    <3>1. CASE d = c
      <4>1. Phase(d)' = PhaseAfter(d)
        BY <1>3, <3>1, Served DEF Phase
      <4>2. QED
        BY <2>1, <3>1, <4>1, ServedAsWanted DEF RecordIn
    <3>2. CASE d # c
      <4>1. Phase(d)' = Phase(d)
        BY <1>3, <3>2, ServedOther DEF Phase
      <4>2. /\ d \notin touched /\ (d \in inside' <=> d \in inside)
            /\ d \in inside => open' = open /\ word' = word
        BY <2>1, <3>2, ServedOther
      <4>3. (d \in inside <=> Phase(d) # "out") /\ RecordIn(Phase(d))
        BY <1>3, <2>1, <4>2 DEF GatewayInv, RecordInv
      <4>4. QED
        BY <4>1, <4>2, <4>3 DEF RecordIn
    <3>3. QED
      BY <3>1, <3>2
  <2>2. open' \in BOOLEAN
    BY DEF Abi!Serve, Abi!ServeOpen, Abi!ServeWrite, Abi!ServeWriteRejected, Abi!ServeClose,
       Abi!ServeLook, GatewayInv, RecordInv
  <2>3. QED
    BY <2>1, <2>2 DEF RecordInv
<1>6. Abi!Isolation'
  BY <1>1 DEF GatewayInv, Abi!Isolation, Abi!Serve, Abi!ServeOpen, Abi!ServeWrite,
     Abi!ServeWriteRejected, Abi!ServeClose, Abi!ServeLook, Abi!Touches, Abi!probeVars,
     Abi!rootVars
<1>7. QED
  BY <1>2, <1>4, <1>5, <1>6 DEF GatewayInv

(* The calls and returns of romfs_probe keep it.                           *)
LEMMA ProbeStep == ASSUME GatewayInv, Abi!Probe PROVE GatewayInv'
<1>1. DialogueInv'
  BY DEF GatewayInv, DialogueInv, Abi!Probe, Abi!ProbeCalls, Abi!ProbeReturns, Abi!rootVars,
     Abi!linuxVars
<1>2. /\ Row("root")' = Row("root") /\ Calling("root")' = Calling("root")
      /\ Live("root")' = Live("root") /\ PhaseBefore("root")' = PhaseBefore("root")
      /\ PhaseAfter("root")' = PhaseAfter("root") /\ msg'["root"] = msg["root"]
      /\ ans'["root"] = ans["root"]
      /\ UNCHANGED <<Abi!serverVars, inside, touched>>
      /\ DOMAIN msg' = Abi!Clients /\ DOMAIN ans' = Abi!Clients
  BY DEF Abi!Probe, Abi!ProbeCalls, Abi!ProbeReturns, Row, Calling, Live, PhaseBefore,
     PhaseAfter, Abi!rootVars, Abi!history, GatewayInv, CallInv, Abi!Clients
<1>3. CASE Abi!ProbeCalls
  <2>1. /\ msg'["probe"] = Abi!ProbeProgram[probe_pc].ask /\ ans'["probe"] = ans["probe"]
        /\ probe' = "calling" /\ probe_pc' = probe_pc /\ probe = "ready"
        /\ ans["probe"] = Abi!NoAnswer
    BY <1>3 DEF Abi!ProbeCalls, GatewayInv, CallInv, Calling, Abi!Clients
  <2>2. CallInv'
    BY <1>2, <2>1 DEF GatewayInv, CallInv, Abi!Clients, Calling, Asking, Answered, Row
  <2>3. RecordInv'
    BY <1>2, <2>1 DEF GatewayInv, RecordInv, RecordIn, Abi!Clients, Live, Phase,
       PhaseBefore, PhaseAfter, Abi!serverVars
  <2>4. Abi!Isolation'
    BY <1>2, <1>3, <2>1 DEF Abi!ProbeCalls, GatewayInv, Abi!Isolation, Abi!rootVars,
       Abi!history
  <2>5. QED
    BY <1>1, <2>2, <2>3, <2>4 DEF GatewayInv
<1>4. CASE Abi!ProbeReturns
  <2> DEFINE want == Abi!ProbeProgram[probe_pc].want
  <2>1. /\ ans'["probe"] = Abi!NoAnswer /\ msg' = msg /\ probe = "calling"
        /\ ans["probe"] # Abi!NoAnswer
        /\ msg["probe"] = Abi!NoRequest /\ ("probe" \notin touched => ans["probe"] = want)
    BY <1>4 DEF Abi!ProbeReturns, GatewayInv, CallInv, Calling, Asking, Answered, Row,
       Abi!Clients
  <2>2. \/ probe' = "exited" /\ probe_pc' = probe_pc /\ ans["probe"] # want
        \/ probe' = "passed" /\ probe_pc' = probe_pc
        \/ probe' = "ready" /\ probe_pc' = probe_pc + 1 /\ probe_pc # 15
    BY <1>4, ProbeList DEF Abi!ProbeReturns
  <2>3. CallInv'
    BY <1>2, <2>1, <2>2 DEF GatewayInv, CallInv, Abi!Clients, Calling, Asking, Answered
  <2>4. RecordInv'
    <3>1. \A c \in Abi!Clients : Live(c)' => Live(c) /\ Phase(c)' = Phase(c)
      BY <1>2, <2>1, <2>2 DEF Abi!Clients, Live, Phase, PhaseBefore, PhaseAfter
    <3>2. QED
      BY <1>2, <3>1 DEF GatewayInv, RecordInv, RecordIn, Abi!serverVars
  <2>5. Abi!Isolation'
    BY <1>1, <1>4, <2>1, <2>2 DEF Abi!ProbeReturns, GatewayInv, Abi!Isolation, Abi!rootVars,
       Abi!history
  <2>6. QED
    BY <1>1, <2>3, <2>4, <2>5 DEF GatewayInv
<1>5. QED
  BY <1>3, <1>4 DEF Abi!Probe

(* The Linux probe's step keeps it: what it compares is what root wrote.   *)
LEMMA LinuxStep == ASSUME GatewayInv, Abi!Linux PROVE GatewayInv'
<1>1. UNCHANGED <<Abi!serverVars, msg, ans, Abi!probeVars, Abi!rootVars, rax, page,
                  Abi!history>>
  BY DEF Abi!Linux, Abi!LinuxCalls, Abi!LinuxChecks
<1>2. DialogueInv'
  <2>1. CASE Abi!LinuxCalls
    BY <1>1, <2>1 DEF Abi!LinuxCalls, GatewayInv, DialogueInv, Faults, Abi!rootVars
  <2>2. CASE Abi!LinuxChecks
    <3>1. /\ linux = "checking" /\ at = lpc + 1 /\ lpc \in 1..39 /\ at \in 1..39
          /\ gateway = "waiting"
          /\ rax = Abi!LinuxProgram[lpc].ret
          /\ Abi!LinuxProgram[lpc].sees \in {"none", page}
          /\ space = SpaceAt(lpc + 1)
      BY <2>2 DEF Abi!LinuxChecks, GatewayInv, DialogueInv
    <3>2. Fits(Abi!Gateway[lpc], Abi!LinuxProgram[lpc], lpc) /\ lpc # 39
      BY <3>1, RowsFit
    <3>3. Abi!LinuxProgram[lpc].uses \subseteq space
      BY <3>1, <3>2 DEF Fits
    <3>4. linux' = "ready" /\ lpc' = lpc + 1
      BY <2>2, <3>1, <3>3 DEF Abi!LinuxChecks
    <3>5. QED
      BY <1>1, <3>1, <3>4 DEF GatewayInv, DialogueInv, Abi!rootVars
  <2>3. QED
    BY <2>1, <2>2 DEF Abi!Linux
<1>3. CallInv' /\ RecordInv' /\ Abi!Isolation'
  BY <1>1 DEF GatewayInv, CallInv, RecordInv, RecordIn, Abi!Isolation, Row, Calling, Live,
     PhaseBefore, PhaseAfter, Phase, Asking, Answered, Abi!serverVars, Abi!probeVars,
     Abi!rootVars, Abi!history
<1>4. QED
  BY <1>2, <1>3 DEF GatewayInv

(* What a fault of the Linux probe that root receives is: the system call  *)
(* the gateway expects, with accepted arguments and the memory it needs.   *)
LEMMA Expected ==
  ASSUME GatewayInv, Abi!Receives
  PROVE  /\ Abi!Accepts(Abi!Gateway[at]) /\ Fits(Abi!Gateway[at], Abi!LinuxProgram[at], at)
         /\ at \in 1..39 /\ lpc = at /\ linux = "faulting" /\ space = SpaceAt(at)
<1>1. at \in 1..39 /\ lpc = at /\ linux = "faulting" /\ space = SpaceAt(at)
      /\ syscall = Faults(at)
  BY DEF GatewayInv, DialogueInv, Abi!Receives
<1>2. QED
  BY <1>1, RowsFit DEF Fits, Faults, Abi!Accepts

(* An answered call of the Linux probe leaves both sides at the next row.  *)
LEMMA GatewayReplyStep ==
  ASSUME GatewayInv, NEW written, Abi!Replies(Abi!Gateway[at], written),
         UNCHANGED <<lpc, syscall>>,
         at \in 1..38, lpc = at, space = SpaceAt(at),
         Abi!Gateway[at].ask = Abi!NoRequest => written = Abi!Gateway[at].puts,
         Abi!Gateway[at].ask # Abi!NoRequest => written = Abi!Gateway[at].want.payload
  PROVE  DialogueInv'
<1> DEFINE e == Abi!Gateway[at]
           s == Abi!LinuxProgram[at]
<1>1. Fits(e, s, at) /\ e.nr # "exit" /\ at + 1 \in 1..39
  <2>1. at \in 1..39 /\ at # 39 /\ at + 1 \in 1..39
    OBVIOUS
  <2>2. Fits(e, s, at)
    BY <2>1, RowsFit
  <2>3. QED
    BY <2>1, <2>2 DEF Fits
<1>2. /\ gateway' = "waiting" /\ at' = at + 1 /\ linux' = "checking" /\ rax' = s.ret
      /\ space' = SpaceAt(at + 1) /\ lpc' = at
  BY <1>1 DEF Abi!Replies, Fits
<1>3. s.sees \in {"none", page'}
  BY <1>1 DEF Abi!Replies, Fits
<1>4. QED
  BY <1>1, <1>2, <1>3 DEF DialogueInv

(* A step of root that fails leaves the dialogue where it is.              *)
LEMMA GatewayFailStep ==
  ASSUME GatewayInv, NEW operation \in BOOLEAN, Abi!Fails(operation),
         UNCHANGED <<lpc, syscall>>, linux = "faulting"
  PROVE  DialogueInv'
BY DEF GatewayInv, DialogueInv, Abi!Fails, Faults

(* Root's call and the record, over a step of root: no other client's call *)
(* is touched.                                                             *)
LEMMA RootCallStep ==
  ASSUME GatewayInv, UNCHANGED Abi!unchangedByRoot, msg' = msg, DOMAIN ans' = Abi!Clients,
         ans'["probe"] = ans["probe"], ans'["root"] = Abi!NoAnswer,
         msg["root"] = Abi!NoRequest,
         gateway' # "calling",
         Live("root")' /\ "root" \notin touched => Live("root")
         /\ PhaseBefore("root")' = Phase("root")
  PROVE  CallInv' /\ RecordInv'
<1>1. CallInv'
  BY DEF GatewayInv, CallInv, Abi!Clients, Calling, Asking, Answered, Row,
     Abi!unchangedByRoot, Abi!probeVars
<1>2. \A c \in Abi!Clients : Live(c)' /\ c \notin touched => Live(c) /\ Phase(c)' = Phase(c)
  BY DEF Abi!Clients, Live, Phase, PhaseBefore, PhaseAfter, Abi!unchangedByRoot,
     Abi!probeVars
<1>3. QED
  BY <1>1, <1>2 DEF GatewayInv, RecordInv, RecordIn, Abi!unchangedByRoot, Abi!serverVars

(* Every step of root keeps the invariant.                                 *)
LEMMA RootStep == ASSUME GatewayInv, Abi!Root PROVE GatewayInv'
<1>1. UNCHANGED Abi!unchangedByRoot
  BY DEF Abi!Root, Abi!RootStarts, Abi!RootStartFails, Abi!GatewayRejects,
     Abi!GatewayReplies, Abi!GatewayCalls, Abi!GatewayReturns, Abi!GatewayEnds
<1>2. (probe = "exited" => "probe" \in touched)'
  BY <1>1 DEF GatewayInv, Abi!Isolation, Abi!unchangedByRoot, Abi!probeVars
<1>3. ASSUME gateway # "calling"
      PROVE  msg["root"] = Abi!NoRequest /\ ans["root"] = Abi!NoAnswer
  BY <1>3 DEF GatewayInv, CallInv, Calling, Abi!Clients
<1>4. CASE Abi!RootStarts
  <2>1. DialogueInv'
    BY <1>1, <1>4 DEF Abi!RootStarts, GatewayInv, DialogueInv, Abi!unchangedByRoot
  <2>2. CallInv' /\ RecordInv'
    <3>1. /\ msg' = msg /\ ans' = ans /\ gateway = "boot" /\ gateway' = "waiting"
          /\ at' = at
      BY <1>4 DEF Abi!RootStarts
    <3>2. Live("root") /\ PhaseBefore("root")' = Phase("root") /\ DOMAIN ans = Abi!Clients
      BY <1>3, <3>1 DEF Live, PhaseBefore, Phase, GatewayInv, CallInv
    <3>3. QED
      BY <1>1, <1>3, <3>1, <3>2, RootCallStep
  <2>3. Abi!Isolation'
    BY <1>2, <1>4 DEF Abi!RootStarts, Abi!Isolation
  <2>4. QED
    BY <2>1, <2>2, <2>3 DEF GatewayInv
<1>5. CASE Abi!RootStartFails
  <2>1. DialogueInv'
    BY <1>1, <1>5 DEF Abi!RootStartFails, GatewayInv, DialogueInv, Abi!unchangedByRoot
  <2>2. CallInv' /\ RecordInv'
    <3>1. /\ msg' = msg /\ ans' = ans /\ gateway = "boot" /\ gateway' = "failed"
          /\ DOMAIN ans = Abi!Clients
      BY <1>5 DEF Abi!RootStartFails, GatewayInv, CallInv
    <3>2. ~Live("root")'
      BY <3>1 DEF Live
    <3>3. QED
      BY <1>1, <1>3, <3>1, <3>2, RootCallStep
  <2>3. Abi!Isolation'
    BY <1>2, <1>5 DEF Abi!RootStartFails, Abi!Isolation
  <2>4. QED
    BY <2>1, <2>2, <2>3 DEF GatewayInv
<1>6. CASE Abi!GatewayRejects
  <2>1. Abi!Fails(TRUE) /\ gateway = "waiting" /\ UNCHANGED <<msg, ans, syscall>>
    BY <1>6, Expected DEF Abi!GatewayRejects, Abi!Receives
  <2>2. DialogueInv'
    BY <1>1, <1>6, <2>1, GatewayFailStep DEF Abi!GatewayRejects, Abi!Receives,
       Abi!unchangedByRoot
  <2>3. CallInv' /\ RecordInv'
    <3>1. gateway' = "failed" /\ ~Live("root")' /\ DOMAIN ans = Abi!Clients
      BY <2>1 DEF Abi!Fails, Live, GatewayInv, CallInv
    <3>2. QED
      BY <1>1, <1>3, <2>1, <3>1, RootCallStep
  <2>4. Abi!Isolation'
    BY <1>2, <2>1 DEF Abi!Fails, Abi!Isolation
  <2>5. QED
    BY <2>2, <2>3, <2>4 DEF GatewayInv
<1>7. CASE Abi!GatewayReplies
  <2> DEFINE e == Abi!Gateway[at]
  <2>1. /\ Abi!Receives /\ e.ask = Abi!NoRequest /\ e.nr # "exit" /\ Abi!Replies(e, e.puts)
        /\ UNCHANGED <<msg, ans, syscall, refused>>
    BY <1>7 DEF Abi!GatewayReplies
  <2>2. Fits(e, Abi!LinuxProgram[at], at) /\ at \in 1..38 /\ lpc = at /\ space = SpaceAt(at)
    BY <2>1, Expected DEF Fits
  <2>3. DialogueInv'
    BY <1>1, <2>1, <2>2, GatewayReplyStep DEF Abi!unchangedByRoot
  <2>4. GatewayPhase(at + 1) = GatewayPhase(at)
    BY <2>1, <2>2 DEF Fits, Wants, Abi!NoRequest, Abi!Ask, Abi!Files
  <2>5. CallInv' /\ RecordInv'
    <3>1. gateway = "waiting" /\ gateway' = "waiting" /\ at' = at + 1
          /\ DOMAIN ans = Abi!Clients
      BY <2>1 DEF Abi!Receives, Abi!Replies, GatewayInv, CallInv
    <3>2. Live("root") /\ PhaseBefore("root")' = Phase("root")
      BY <1>3, <2>4, <3>1 DEF Live, PhaseBefore, Phase
    <3>3. QED
      BY <1>1, <1>3, <2>1, <3>1, <3>2, RootCallStep
  <2>6. Abi!Isolation'
    BY <1>2, <2>1 DEF Abi!Replies, Abi!Isolation
  <2>7. QED
    BY <2>3, <2>5, <2>6 DEF GatewayInv
<1>8. CASE Abi!GatewayCalls
  <2>1. /\ Abi!Receives /\ Abi!Gateway[at].ask # Abi!NoRequest /\ gateway' = "calling"
        /\ gateway = "waiting"
        /\ msg' = [msg EXCEPT !["root"] = Abi!Gateway[at].ask]
        /\ UNCHANGED <<ans, at, space, linux, syscall, rax, page, refused>>
    BY <1>8 DEF Abi!GatewayCalls, Abi!Receives
  <2>2. DialogueInv'
    BY <1>1, <2>1, Expected DEF GatewayInv, DialogueInv, Abi!unchangedByRoot, Faults
  <2>3. CallInv'
    BY <1>1, <1>3, <2>1 DEF GatewayInv, CallInv, Abi!Clients, Calling, Asking, Answered,
       Row, Abi!unchangedByRoot, Abi!probeVars
  <2>4. \A c \in Abi!Clients : Live(c)' => Live(c) /\ Phase(c)' = Phase(c)
    BY <1>1, <2>1 DEF Abi!Clients, Live, Phase, PhaseBefore, PhaseAfter,
       Abi!unchangedByRoot, Abi!probeVars
  <2>5. RecordInv'
    BY <1>1, <2>4 DEF GatewayInv, RecordInv, RecordIn, Abi!unchangedByRoot, Abi!serverVars
  <2>6. Abi!Isolation'
    BY <1>2, <2>1 DEF Abi!Isolation
  <2>7. QED
    BY <2>2, <2>3, <2>5, <2>6 DEF GatewayInv
<1>9. CASE Abi!GatewayReturns
  <2> DEFINE e == Abi!Gateway[at]
             a == ans["root"]
  <2>1. /\ gateway = "calling" /\ a # Abi!NoAnswer
        /\ ans' = [ans EXCEPT !["root"] = Abi!NoAnswer]
        /\ UNCHANGED <<msg, syscall>>
        /\ \/ a = e.want /\ Abi!Replies(e, a.payload) /\ refused' = refused
           \/ a # e.want /\ Abi!Fails(FALSE)
           \/ Abi!Fails(TRUE)
    BY <1>9 DEF Abi!GatewayReturns
  <2>2. msg["root"] = Abi!NoRequest /\ ("root" \notin touched => a = e.want)
    BY <2>1 DEF GatewayInv, CallInv, Calling, Asking, Answered, Row, Abi!Clients
  <2>3. /\ DOMAIN ans' = Abi!Clients /\ ans'["probe"] = ans["probe"]
        /\ ans'["root"] = Abi!NoAnswer
    BY <2>1 DEF GatewayInv, CallInv, Abi!Clients
  <2>4. /\ e.ask # Abi!NoRequest /\ linux = "faulting" /\ lpc = at /\ space = SpaceAt(at)
        /\ at \in 1..39
    BY <2>1 DEF GatewayInv, DialogueInv
  <2>5. CASE a = e.want /\ Abi!Replies(e, a.payload) /\ refused' = refused
    <3>1. at \in 1..38
      <4>1. Fits(e, Abi!LinuxProgram[at], at)
        BY <2>4, RowsFit
      <4>2. QED
        BY <2>4, <4>1 DEF Fits
    <3>2. DialogueInv'
      BY <1>1, <2>1, <2>4, <2>5, <3>1, GatewayReplyStep DEF Abi!unchangedByRoot
    <3>3. gateway' = "waiting" /\ Live("root") /\ PhaseBefore("root")' = Phase("root")
      BY <2>1, <2>5 DEF Abi!Replies, Live, PhaseBefore, PhaseAfter, Phase
    <3>4. CallInv' /\ RecordInv'
      BY <1>1, <2>1, <2>2, <2>3, <3>3, RootCallStep
    <3>5. Abi!Isolation'
      BY <1>2, <3>3 DEF Abi!Isolation
    <3>6. QED
      BY <3>2, <3>4, <3>5 DEF GatewayInv
  <2>6. ASSUME NEW operation \in BOOLEAN, Abi!Fails(operation),
               operation \/ a # e.want
        PROVE  GatewayInv'
    <3>1. DialogueInv'
      BY <1>1, <2>1, <2>4, <2>6, GatewayFailStep DEF Abi!unchangedByRoot
    <3>2. gateway' = "failed" /\ ~Live("root")'
      BY <2>6 DEF Abi!Fails, Live
    <3>3. CallInv' /\ RecordInv'
      BY <1>1, <2>1, <2>2, <2>3, <3>2, RootCallStep
    <3>4. Abi!Isolation'
      BY <1>1, <1>2, <2>2, <2>6 DEF Abi!Fails, Abi!Isolation, Abi!unchangedByRoot
    <3>5. QED
      BY <3>1, <3>3, <3>4 DEF GatewayInv
  <2>7. QED
    BY <2>1, <2>5, <2>6
<1>10. CASE Abi!GatewayEnds
  <2>1. /\ gateway = "waiting" /\ gateway' = "passed" /\ linux = "faulting"
        /\ UNCHANGED <<msg, ans, at, space, linux, syscall, rax, page, refused>>
    BY <1>10 DEF Abi!GatewayEnds, Abi!Receives
  <2>2. DialogueInv'
    BY <1>1, <2>1 DEF GatewayInv, DialogueInv, Abi!unchangedByRoot, Faults
  <2>3. CallInv' /\ RecordInv'
    <3>1. ~Live("root")' /\ DOMAIN ans = Abi!Clients
      BY <2>1 DEF Live, GatewayInv, CallInv
    <3>2. QED
      BY <1>1, <1>3, <2>1, <3>1, RootCallStep
  <2>4. Abi!Isolation'
    BY <1>2, <2>1 DEF Abi!Isolation
  <2>5. QED
    BY <2>2, <2>3, <2>4 DEF GatewayInv
<1>11. QED
  BY <1>4, <1>5, <1>6, <1>7, <1>8, <1>9, <1>10 DEF Abi!Root

(* Before any of them runs the record is out of use.                       *)
LEMMA InitGatewayInv == Abi!Init => GatewayInv
<1> SUFFICES ASSUME Abi!Init PROVE GatewayInv
  OBVIOUS
<1>1. DialogueInv
  BY DEF Abi!Init, DialogueInv, SpaceAt, SetUpAt
<1>2. CallInv
  BY DEF Abi!Init, CallInv, Calling, Abi!Clients
<1>3. RecordInv
  <2>1. \A c \in Abi!Clients : Phase(c) = "out"
    BY DEF Abi!Init, Phase, PhaseBefore, ProbePhase, GatewayPhase, Abi!Clients
  <2>2. QED
    BY <2>1 DEF Abi!Init, RecordInv, RecordIn
<1>4. QED
  BY <1>1, <1>2, <1>3 DEF Abi!Init, GatewayInv, Abi!Isolation

(* The invariant is inductive.                                             *)
LEMMA GatewayInvStep == GatewayInv /\ [Abi!Next]_(Abi!vars) => GatewayInv'
<1> SUFFICES ASSUME GatewayInv, [Abi!Next]_(Abi!vars) PROVE GatewayInv'
  OBVIOUS
<1>1. ASSUME UNCHANGED <<word, open, msg, ans, Abi!probeVars, Abi!rootVars,
                         Abi!linuxVars, inside, touched>>,
             refused => refused'
      PROVE  GatewayInv'
  <2>1. DialogueInv' /\ Abi!Isolation'
    BY <1>1 DEF GatewayInv, DialogueInv, Abi!Isolation, Abi!probeVars, Abi!rootVars,
       Abi!linuxVars
  <2>2. CallInv' /\ RecordInv'
    BY <1>1 DEF GatewayInv, CallInv, RecordInv, RecordIn, Row, Calling, Live, PhaseBefore,
       PhaseAfter, Phase, Asking, Answered, Abi!probeVars, Abi!rootVars
  <2>3. QED
    BY <2>1, <2>2 DEF GatewayInv
<1>2. CASE Abi!ServerStarts
  BY <1>1, <1>2 DEF Abi!ServerStarts, Abi!history
<1>3. CASE Abi!ServerExits
  BY <1>1, <1>3 DEF Abi!ServerExits
<1>4. CASE \E c \in Abi!Clients : Abi!Serve(c)
  BY <1>4, ServeStep
<1>5. CASE Abi!Probe
  BY <1>5, ProbeStep
<1>6. CASE Abi!Root
  BY <1>6, RootStep
<1>7. CASE Abi!Linux
  BY <1>7, LinuxStep
<1>8. CASE UNCHANGED Abi!vars
  BY <1>1, <1>8 DEF Abi!vars, Abi!serverVars, Abi!history
<1>9. QED
  BY <1>2, <1>3, <1>4, <1>5, <1>6, <1>7, <1>8 DEF Abi!Next, Abi!Server

(* Every reachable state of the gateway, the two probes and romfsd         *)
(* satisfies the invariant.                                                *)
THEOREM GatewayInvariance == RootSpec => []GatewayInv
<1>1. RootInit => GatewayInv
  BY InitGatewayInv DEF RootInit
<1>2. [RootNext]_<<part, vars, gatewayVars>> => [Abi!Next]_(Abi!vars)
  BY DEF RootNext, gatewayVars, Abi!vars, Abi!serverVars, Abi!probeVars, Abi!rootVars,
     Abi!linuxVars, Abi!history
<1>3. GatewayInv /\ [RootNext]_<<part, vars, gatewayVars>> => GatewayInv'
  BY <1>2, GatewayInvStep
<1>4. QED
  BY <1>1, <1>3, PTL DEF RootSpec

(* Whatever romfs_probe does to the record, and whatever fails, root       *)
(* answers the Linux probe with the value and the page it compares or does *)
(* not answer it: it never enters its endless loop                         *)
(* (linux_syscall_probe.c:370).                                            *)
THEOREM LoopsCorrect == RootSpec => []ProbeNeverLoops
<1>1. GatewayInv => ProbeNeverLoops
  BY DEF GatewayInv, DialogueInv, ProbeNeverLoops, Abi!NeverLoops
<1>2. QED
  BY GatewayInvariance, <1>1, PTL

(* A client fails only when another's call has met its lifecycle of the    *)
(* record, or an operation has failed: an OPEN resets the word, a READ     *)
(* returns the word last written, a CLOSE is final (romfsd.c:286-362).     *)
THEOREM IsolationCorrect == RootSpec => []RecordIsolates
<1>1. GatewayInv => RecordIsolates
  BY DEF GatewayInv, RecordIsolates
<1>2. QED
  BY GatewayInvariance, <1>1, PTL
=============================================================================
