---------------------------- MODULE ChildControl ----------------------------
(***************************************************************************)
(* What root construction promises of its one child, with no messages,     *)
(* endpoints or threads: the child is made once and suspended; the right   *)
(* to control it leaves root once, and only for a child that is made; the  *)
(* child runs only by the hand that right reached.                         *)
(***************************************************************************)
VARIABLES child,  \* "none", "suspended", "running", "finished"
          lease   \* "kept" by root, "held" by taskd, "lost" on the way

Init == child = "none" /\ lease = "kept"

Construct == child = "none" /\ child' = "suspended" /\ UNCHANGED lease

Lease == /\ child # "none"
         /\ lease = "kept"
         /\ lease' \in {"held", "lost"}
         /\ UNCHANGED child

Start == /\ child = "suspended"
         /\ lease = "held"
         /\ child' = "running"
         /\ UNCHANGED lease

Finish == child = "running" /\ child' = "finished" /\ UNCHANGED lease

Next == Construct \/ Lease \/ Start \/ Finish

vars == <<child, lease>>

Spec == Init /\ [][Next]_vars
=============================================================================
