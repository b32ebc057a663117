------------------------------ MODULE IrqLine -------------------------------
(***************************************************************************)
(* What the mediated interrupt path promises of one level-triggered line,  *)
(* with nothing about services, messages or threads: an interrupt of an    *)
(* owned line is serviced at the device before the line is opened again;   *)
(* only an interrupt nobody owns is discarded.                             *)
(***************************************************************************)
VARIABLES line,   \* "open", "pending" (fired, masked), "serviced" (device acked)
          owner   \* a driver owns the line

Init == line = "open" /\ owner = FALSE

Acquire == ~owner /\ owner' = TRUE /\ UNCHANGED line
Release == owner /\ owner' = FALSE /\ UNCHANGED line

Fire    == line = "open" /\ line' = "pending" /\ UNCHANGED owner
Service == line = "pending" /\ owner /\ line' = "serviced" /\ UNCHANGED owner
Reopen  == line = "serviced" /\ owner /\ line' = "open" /\ UNCHANGED owner
Discard == line = "pending" /\ ~owner /\ line' = "open" /\ UNCHANGED owner

Next == Acquire \/ Release \/ Fire \/ Service \/ Reopen \/ Discard

vars == <<line, owner>>

Spec == Init /\ [][Next]_vars
=============================================================================
