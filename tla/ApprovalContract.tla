--------------------------- MODULE ApprovalContract ---------------------------
(***************************************************************************)
(* What a teammate's approval gate promises, in the terms of the person who *)
(* answers: a consequential call is asked about, the question is settled    *)
(* once, and the call is carried out only if the answer was yes.  A process *)
(* that dies drops every call it held, whatever had been answered.          *)
(***************************************************************************)
CONSTANT Requests

VARIABLE phase

Phase == {"none", "asked", "granted", "refused", "acted", "dropped"}

Init == phase = [r \in Requests |-> "none"]

Becomes(r, before, after) ==
  /\ phase[r] = before
  /\ phase' = [phase EXCEPT ![r] = after]

Ask(r)    == Becomes(r, "none", "asked")
Settle(r) == Becomes(r, "asked", "granted") \/ Becomes(r, "asked", "refused")
Act(r)    == Becomes(r, "granted", "acted")

(* A refused call may be over already, so it need not be dropped.           *)
Drop(held) ==
  /\ held # {}
  /\ \A r \in held : phase[r] \in {"asked", "granted", "refused"}
  /\ \A r \in Requests \ held : phase[r] \notin {"asked", "granted"}
  /\ phase' = [r \in Requests |-> IF r \in held THEN "dropped" ELSE phase[r]]

Next ==
  \/ \E r \in Requests : Ask(r) \/ Settle(r) \/ Act(r)
  \/ \E held \in SUBSET Requests : Drop(held)

Spec == Init /\ [][Next]_phase
=============================================================================
