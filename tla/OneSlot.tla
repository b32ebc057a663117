------------------------------ MODULE OneSlot -------------------------------
(***************************************************************************)
(* What a one-slot inventory promises, with no messages, servers or        *)
(* threads: the slot is granted when nobody holds it, every grant carries a *)
(* generation of its own, and only a reusable slot is ever given back.     *)
(***************************************************************************)
EXTENDS Naturals

VARIABLES reusable,   \* the slot can be given back; never changes
          held,       \* the slot is reserved
          generation  \* how often it has been granted

Init == reusable \in BOOLEAN /\ held = FALSE /\ generation = 0

Grant == /\ ~held
         /\ held' = TRUE
         /\ generation' = generation + 1
         /\ UNCHANGED reusable

GiveBack == reusable /\ held /\ held' = FALSE /\ UNCHANGED <<reusable, generation>>

Next == Grant \/ GiveBack

vars == <<reusable, held, generation>>

Spec == Init /\ [][Next]_vars
=============================================================================
