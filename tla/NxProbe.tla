------------------------------ MODULE NxProbe ------------------------------
(***************************************************************************)
(* selinos_run_x86_nx_mapping_probe: root maps one page holding a `ret`    *)
(* into a child, first execute-disabled, then executable.  The child calls *)
(* it once: it has to fault in the first case and to return in the second. *)
(* Every failure goes to `out`, where root releases what its flags say it  *)
(* has; the flags and what is really held are kept apart here.             *)
(***************************************************************************)
EXTENDS Naturals, Sequences

CONSTANTS
  Honoured,   \* whether the kernel obeys the execute-disable attribute
  Failing,    \* the steps of root that may fail
  Strays      \* whether the child may fault where the probe does not expect it

SetUp == <<"configure", "endpoint", "copy_endpoint", "spawn", "fault_endpoint",
           "frame", "slot", "copy_frame", "map_nx", "write", "resume">>

HonouredAssumption == Honoured \subseteq BOOLEAN
FailingAssumption ==
  Failing \subseteq {SetUp[k] : k \in 1..Len(SetUp)} \cup {"unmap", "map_exec"}
StraysAssumption == Strays \subseteq BOOLEAN

VARIABLES
  world,       \* constant: the kernel honours the attribute, the child may stray
  at,          \* root: a step of SetUp, "fault", "unmap", "map_exec", "success",
               \* "out" or "returned"
  held,        \* what root has allocated and not freed
  flags,       \* child_frame_copied and child_mapping_present
  childMap,    \* the child's mapping of the page
  alias,       \* root's own writable mapping of it
  child,       \* "none", "suspended", "calls", "faulted", "sends", "strayed", "done"
  witnessed,   \* what the child has gone through
  victim,      \* whom the clean-up has suspended
  success

owned == <<held, flags>>
ended == <<victim, success>>
vars == <<world, at, owned, childMap, alias, child, witnessed, ended>>

Init ==
  /\ world \in [honours : Honoured, strays : Strays]
  /\ at = SetUp[1] /\ held = {} /\ flags = {}
  /\ childMap = "none" /\ alias = FALSE
  /\ child = "none" /\ witnessed = {} /\ victim = "none" /\ success = FALSE

-----------------------------------------------------------------------------
InSetUp == \E k \in 1..Len(SetUp) : SetUp[k] = at

\* goto out; a mapping that fails may have allocated page tables already.
Fail ==
  /\ at \in Failing
  /\ at' = "out"
  /\ held' \in {held} \cup (IF at \in {"map_nx", "write"} THEN {held \cup {"tables"}}
                            ELSE {})
  /\ UNCHANGED <<world, flags, childMap, alias, child, witnessed, ended>>

Allocates == [endpoint |-> {"endpoint"}, frame |-> {"frame"}, slot |-> {"slot"},
              copy_frame |-> {"copy"}]

\* Each step up to the resume; a mapping needs page tables nothing frees.
Prepare ==
  /\ InSetUp
  /\ LET k == CHOOSE j \in 1..Len(SetUp) : SetUp[j] = at
     IN at' = IF k = Len(SetUp) THEN "fault" ELSE SetUp[k + 1]
  /\ held' = held \cup (IF at \in DOMAIN Allocates THEN Allocates[at] ELSE {})
                  \cup (IF at = "map_nx" THEN {"tables"} ELSE {})
  /\ flags' = flags \cup (IF at = "copy_frame" THEN {"copied"} ELSE {})
                    \cup (IF at = "resume" THEN {"mapped"} ELSE {})
  /\ childMap' = IF at = "map_nx" THEN "nx" ELSE childMap
  /\ alias' = (alias \/ at = "write")
  /\ child' = CASE at = "configure" -> "suspended"
                [] at = "resume" -> "calls"
                [] OTHER -> child
  /\ UNCHANGED <<world, witnessed, ended>>

\* The child is lower than root: it runs only while root waits.
Waiting == at \in {"fault", "success"}

\* drivers/x86_nx_mapping_probe_child.c: target()
ChildCalls ==
  /\ Waiting /\ child = "calls"
  /\ IF childMap = "nx" /\ world.honours
       THEN child' = "faulted" /\ witnessed' = witnessed \cup {"fault"}
       ELSE child' = "sends" /\ witnessed' = witnessed \cup {childMap}
  /\ UNCHANGED <<world, at, owned, childMap, alias, ended>>

\* Any other fault of the child, before or after the call
ChildStrays ==
  /\ world.strays /\ Waiting /\ child \in {"calls", "sends"}
  /\ child' = "strayed"
  /\ UNCHANGED <<world, at, owned, childMap, alias, witnessed, ended>>

\* seL4_Recv on the fault endpoint, and the five comparisons
ReceiveFault ==
  /\ at = "fault" /\ child \in {"faulted", "strayed"}
  /\ at' = IF child = "faulted" THEN "unmap" ELSE "out"
  /\ UNCHANGED <<world, owned, childMap, alias, child, witnessed, ended>>

\* Deviation: root keeps its writable alias over the executable page.
UnmapKeepingAlias ==
  /\ at = "unmap"
  /\ childMap' = "none" /\ at' = "map_exec"
  /\ UNCHANGED <<world, owned, alias, child, witnessed, ended>>

\* Root's alias goes first, then the execute-disabled mapping.
Unmap ==
  /\ at = "unmap"
  /\ alias' = FALSE /\ childMap' = "none" /\ at' = "map_exec"
  /\ UNCHANGED <<world, owned, child, witnessed, ended>>

UnmapFails ==
  /\ at = "unmap" /\ "unmap" \in Failing
  /\ alias' = FALSE /\ at' = "out"
  /\ UNCHANGED <<world, owned, childMap, child, witnessed, ended>>

\* The executable mapping, and only then the reply: the child calls again.
Remap ==
  /\ at = "map_exec"
  /\ childMap' = "exec" /\ child' = "calls" /\ at' = "success"
  /\ UNCHANGED <<world, owned, alias, witnessed, ended>>

\* seL4_Recv on the success endpoint
ReceiveSuccess ==
  /\ at = "success" /\ child = "sends"
  /\ child' = "done" /\ success' = TRUE /\ at' = "out"
  /\ UNCHANGED <<world, owned, childMap, alias, witnessed, victim>>

\* out: the child structure is read even if it was never filled in, so the
\* suspended thread is then whichever the stack happens to name.  Deleting the
\* copied cap unmaps the page as well.
CleanUp ==
  /\ at = "out"
  /\ victim' \in IF child # "none" THEN {"child"} ELSE {"none", "other"}
  /\ childMap' = IF flags = {} THEN childMap ELSE "none"
  /\ held' = held \ ({"frame", "endpoint"} \cup
                     (IF "copied" \in flags THEN {"copy", "slot"} ELSE {}))
  /\ alias' = FALSE
  /\ at' = "returned"
  /\ UNCHANGED <<world, flags, child, witnessed, success>>

RootStep == Fail \/ Prepare \/ ReceiveFault \/ Unmap \/ UnmapFails \/ Remap
              \/ ReceiveSuccess \/ CleanUp
ChildStep == ChildCalls \/ ChildStrays
Next == RootStep \/ ChildStep

\* One processor, root above the child, and a child that is not suspended
Fairness == WF_vars(RootStep) /\ WF_vars(ChildStep)
Spec == Init /\ [][Next]_vars /\ Fairness

-----------------------------------------------------------------------------
TypeOK ==
  /\ world \in [honours : Honoured, strays : Strays] /\ alias \in BOOLEAN /\ success \in BOOLEAN
  /\ InSetUp \/ at \in {"fault", "unmap", "map_exec", "success", "out", "returned"}
  /\ held \subseteq {"endpoint", "frame", "slot", "copy", "tables"}
  /\ flags \subseteq {"copied", "mapped"} /\ childMap \in {"none", "nx", "exec"}
  /\ child \in {"none", "suspended", "calls", "faulted", "sends", "strayed", "done"}
  /\ witnessed \subseteq {"fault", "nx", "exec"} /\ victim \in {"none", "child", "other"}

\* Whatever failed, no mapping of the page survives the call: "both paths must
\* use temporary mappings and teardown them".
MappingsTornDown == at = "returned" => childMap = "none" /\ ~alias

\* What survives is known: the page tables, and the cap slot when the frame cap
\* could not be copied into it (the flag stands for the copy, not for the slot).
ResidueIsKnown ==
  at = "returned" => held \subseteq
    {"tables"} \cup (IF "copied" \in flags THEN {} ELSE {"slot"})

\* The proof is of both paths, in this order: the child has faulted on the
\* execute-disabled page and executed the executable one, and no other.
SuccessIsPaired == success => witnessed = {"fault", "exec"}

\* Root writes to the page only while nobody can execute it.
NeverWritableAndExecutable == childMap = "exec" => ~alias

\* A child that only does what its program says, on a kernel that honours the
\* attribute, gets root out of both its receives.
ProbeReturns == world.honours /\ ~world.strays => <>(at = "returned")
=============================================================================
