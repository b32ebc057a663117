----------------------------- MODULE Inventory ------------------------------
(***************************************************************************)
(* The one-slot inventories: objectd M1 and memd M1, whose slot is reserved *)
(* once and for all, and taskd's dynamic allocation M0, whose slot can be  *)
(* released and reserved again under a new generation.                     *)
(*                                                                         *)
(* A client is a thread that holds the send cap: the probe, which runs its *)
(* program, or any other.  It is blocked in seL4_Call until it is answered.*)
(***************************************************************************)
EXTENDS Naturals, Sequences, FiniteSets

CONSTANTS
  Services,   \* the services considered, of "objectd", "memd", "dynamic"
  Clients,    \* the threads that may hold the send cap
  Probes,     \* the kinds of client: TRUE runs the probe's program
  MaxCalls    \* bound: how many calls one client makes

ASSUME ServicesAssumption == Services \subseteq {"objectd", "memd", "dynamic"}
ASSUME ClientsAssumption == IsFiniteSet(Clients)
ASSUME ProbesAssumption == Probes \subseteq BOOLEAN
ASSUME MaxCallsAssumption == MaxCalls \in Nat

VARIABLES
  service,     \* the service that runs
  users,       \* the clients whose CSpace the send cap was copied to
  scripted,    \* the clients run the probe's program
  serving,     \* FALSE once the service yields for ever
  reserved,    \* the service's reservation
  generation,  \* how often it has been granted; "dynamic" replies it
  request,     \* [Clients -> the request the client is blocked in]
  answer,      \* [Clients -> the reply it has not read yet]
  calls,       \* [Clients -> how many calls it has made]
  believes,    \* [Clients -> the generation it takes itself to hold, 0 for none]
  verdict      \* [Clients -> "running", "passed" or "failed"]: the program's end

wiring == <<service, users, scripted>>
server == <<serving, reserved, generation>>
vars == <<wiring, server, request, answer, calls, believes, verdict>>

\* A request as the service tells it apart: its opcode, and whether label,
\* length and slot are exact.
Requests == [op : {"RESERVE", "RELEASE", "other"}, exact : BOOLEAN]
Idle == [op |-> "none", exact |-> TRUE]
Unread == [status |-> "none", generation |-> 0]

Reserve == [op |-> "RESERVE", exact |-> TRUE]
Release == [op |-> "RELEASE", exact |-> TRUE]

\* The probe's calls with the status and generation each must get.
Expect(r, s, g) == [request |-> r, status |-> s, generation |-> g]

OneShotScript == <<Expect(Reserve, "RESERVED", 0), Expect(Reserve, "EBUSY", 0)>>

DynamicScript == <<Expect(Reserve, "RESERVED", 1), Expect(Reserve, "EBUSY", 1),
                   Expect(Release, "RELEASED", 1), Expect(Reserve, "RESERVED", 2)>>

Script == IF service = "dynamic" THEN DynamicScript ELSE OneShotScript

Init ==
  /\ service \in Services
  /\ users \in SUBSET Clients \ {{}}
  /\ scripted \in Probes
  /\ scripted => Cardinality(users) = 1
  /\ serving = TRUE
  /\ reserved = FALSE
  /\ generation = 0
  /\ request = [c \in Clients |-> Idle]
  /\ answer = [c \in Clients |-> Unread]
  /\ calls = [c \in Clients |-> 0]
  /\ believes = [c \in Clients |-> 0]
  /\ verdict = [c \in Clients |-> "running"]

-----------------------------------------------------------------------------
(* A client's call.                                                        *)

MayAsk(c) == IF ~scripted THEN Requests
             ELSE IF calls[c] < Len(Script) THEN {Script[calls[c] + 1].request}
             ELSE {}

Ask(c) ==
  /\ c \in users
  /\ verdict[c] = "running"
  /\ request[c] = Idle
  /\ scripted \/ calls[c] < MaxCalls
  /\ request' \in {[request EXCEPT ![c] = r] : r \in MayAsk(c)}
  /\ calls' = [calls EXCEPT ![c] = @ + 1]
  /\ UNCHANGED <<wiring, server, answer, believes, verdict>>

Answered(c, s, g) == answer' = [answer EXCEPT ![c] = [status |-> s, generation |-> g]]

\* What a client makes of a reply: RESERVED and RELEASED change its belief.
Learns(c) ==
  IF answer[c].status = "RESERVED"
    THEN IF service = "dynamic" THEN answer[c].generation ELSE 1
    ELSE IF answer[c].status = "RELEASED" THEN 0 ELSE believes[c]

\* call_reserve_expect and call: the probe compares the reply and goes on, or
\* stops.
Return(c) ==
  /\ answer[c] # Unread
  /\ LET wanted == Script[calls[c]]
         right == /\ answer[c].status = wanted.status
                  /\ answer[c].generation = wanted.generation
     IN verdict' = [verdict EXCEPT ![c] =
                      IF ~scripted THEN @
                      ELSE IF ~right THEN "failed"
                      ELSE IF calls[c] = Len(Script) THEN "passed" ELSE @]
  /\ believes' = [believes EXCEPT ![c] = Learns(c)]
  /\ request' = [request EXCEPT ![c] = Idle]
  /\ answer' = [answer EXCEPT ![c] = Unread]
  /\ UNCHANGED <<wiring, server, calls>>

-----------------------------------------------------------------------------
(* The service's loop: the message of client c is received and answered    *)
(* before the next one is.                                                 *)

Takes(c) == serving /\ request[c] # Idle /\ answer[c] = Unread

OneShot == service \in {"objectd", "memd"}

Exact(c) == request[c] = Reserve

\* An inexact request is answered EINVAL and changes nothing.
OneShotInvalid(c) ==
  /\ Takes(c)
  /\ OneShot
  /\ ~Exact(c)
  /\ Answered(c, "EINVAL", 0)
  /\ UNCHANGED <<wiring, server, request, calls, believes, verdict>>

OneShotReserve(c) ==
  /\ Takes(c)
  /\ OneShot
  /\ Exact(c)
  /\ ~reserved
  /\ reserved' = TRUE
  /\ generation' = generation + 1
  /\ Answered(c, "RESERVED", 0)
  /\ UNCHANGED <<wiring, serving, request, calls, believes, verdict>>

\* Deviation: the duplicate refuses and frees the slot.
OneShotDuplicateFrees(c) ==
  /\ Takes(c)
  /\ OneShot
  /\ Exact(c)
  /\ reserved
  /\ reserved' = FALSE
  /\ Answered(c, "EBUSY", 0)
  /\ UNCHANGED <<wiring, serving, generation, request, calls, believes, verdict>>

\* The duplicate is answered EBUSY; the proof is complete and the service
\* receives no more.
OneShotDuplicate(c) ==
  /\ Takes(c)
  /\ OneShot
  /\ Exact(c)
  /\ reserved
  /\ serving' = FALSE
  /\ Answered(c, "EBUSY", 0)
  /\ UNCHANGED <<wiring, reserved, generation, request, calls, believes, verdict>>

DynamicReserve(c) ==
  /\ Takes(c)
  /\ service = "dynamic"
  /\ request[c] = Reserve
  /\ ~reserved
  /\ reserved' = TRUE
  /\ generation' = generation + 1
  /\ Answered(c, "RESERVED", generation')
  /\ UNCHANGED <<wiring, serving, request, calls, believes, verdict>>

\* Deviation: the release is answered and forgotten.
DynamicReleaseForgets(c) ==
  /\ Takes(c)
  /\ service = "dynamic"
  /\ request[c] = Release
  /\ reserved
  /\ Answered(c, "RELEASED", generation)
  /\ UNCHANGED <<wiring, server, request, calls, believes, verdict>>

\* The release names neither holder nor generation: the slot is all it frees.
DynamicRelease(c) ==
  /\ Takes(c)
  /\ service = "dynamic"
  /\ request[c] = Release
  /\ reserved
  /\ reserved' = FALSE
  /\ Answered(c, "RELEASED", generation)
  /\ UNCHANGED <<wiring, serving, generation, request, calls, believes, verdict>>

\* A malformed request, a duplicate, and a release of nothing.
DynamicBusy(c) ==
  /\ Takes(c)
  /\ service = "dynamic"
  /\ ~(request[c] = Reserve /\ ~reserved) /\ ~(request[c] = Release /\ reserved)
  /\ Answered(c, "EBUSY", generation)
  /\ UNCHANGED <<wiring, server, request, calls, believes, verdict>>

-----------------------------------------------------------------------------
Serve(c) == \/ OneShotInvalid(c) \/ OneShotReserve(c) \/ OneShotDuplicate(c)
            \/ DynamicReserve(c) \/ DynamicRelease(c) \/ DynamicBusy(c)

Next == \E c \in Clients : Ask(c) \/ Return(c) \/ Serve(c)

\* The kernel queues callers in order, so each is served while the service
\* receives; a program runs to its end, nobody else has to call.
Fairness == \A c \in Clients : /\ WF_vars(Serve(c))
                               /\ WF_vars(Return(c))
                               /\ WF_vars(scripted /\ Ask(c))

Spec == Init /\ [][Next]_vars /\ Fairness

-----------------------------------------------------------------------------
(* Properties.                                                             *)

Statuses == {"none", "RESERVED", "EBUSY", "EINVAL", "RELEASED"}

TypeOK ==
  /\ service \in Services
  /\ users \in SUBSET Clients
  /\ scripted \in Probes
  /\ serving \in BOOLEAN
  /\ reserved \in BOOLEAN
  /\ generation \in Nat
  /\ request \in [Clients -> Requests \cup {Idle}]
  /\ answer \in [Clients -> [status : Statuses, generation : Nat]]
  /\ calls \in [Clients -> Nat]
  /\ believes \in [Clients -> Nat]
  /\ verdict \in [Clients -> {"running", "passed", "failed"}]

\* What client c has been told it holds, whether or not it has read it.
Told(c) == IF answer[c] = Unread THEN believes[c] ELSE Learns(c)

\* No two clients are ever granted the same generation, and the latest grant is
\* the service's own count (objectd_m1.c:33-37, memd_m1.c, the generation of
\* taskd_dynamic_alloc_m0.c:27), however their calls interleave.
GrantsDistinct ==
  \A c, d \in Clients :
     /\ Told(c) <= generation
     /\ c # d /\ Told(c) # 0 => Told(c) # Told(d)

\* The holder of a slot and the service agree on it as long as one client
\* holds the cap, as the bundles wire it: the slot is reserved exactly when
\* the client was told so, under the generation it was told.
HolderAgrees ==
  Cardinality(users) = 1 =>
     \A c \in users : Told(c) = IF reserved THEN generation ELSE 0

\* Each service implements the abstract slot.
Slot == INSTANCE OneSlot WITH reusable <- service = "dynamic", held <- reserved
ImplementsOneSlot == Slot!Spec

\* The dynamic service answers every call, and no service stops before it has
\* refused a duplicate.
EveryCallAnswered ==
  \A c \in Clients :
     (request[c] # Idle /\ (service = "dynamic" \/ ~reserved))
        ~> (request[c] = Idle \/ ~serving)

\* The probe of each service passes (objectd_m1_probe.c, memd_m1_probe.c,
\* taskd_dynamic_alloc_m0_probe.c), and root, which waits for its notification
\* in the dynamic profile, goes on with the boot (domain_manager.c:1720).
ProbePasses == scripted ~> (\A c \in users : verdict[c] = "passed")

\* docs/phase29_memd_fixed_mapping_inventory_m1_gate.md:17 gives every request
\* of any other shape the reply EINVAL.
MalformedAnswered ==
  \A c \in Clients : (request[c] # Idle /\ ~request[c].exact) ~> request[c] = Idle
=============================================================================
