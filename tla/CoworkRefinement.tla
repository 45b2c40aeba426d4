--------------------------- MODULE CoworkRefinement ---------------------------
(***************************************************************************)
(* Cowork implements WorkContract: what the status columns and the drains   *)
(* say together of one message or one handoff is its state in the contract. *)
(***************************************************************************)
EXTENDS Cowork

CONSTANTS MessageIds, TaskIds   \* the rows the mapping speaks of

Holds(stages, i) ==
  \E a \in Agents : \E k \in DOMAIN drains[a] :
    drains[a][k].stage \in stages /\ drains[a][k].cur = i

MessageState(i) ==
  IF i \notin DOMAIN mail                               THEN "absent"
  ELSE IF Holds({"messageTurn", "messageSettle"}, i)    THEN "held"
  ELSE IF mail[i].status = "pending"                    THEN "waiting"
  ELSE "closed"

TaskState(h) ==
  IF h \notin DOMAIN handoffs                           THEN "absent"
  ELSE IF Holds({"handoffTurn", "handoffSettle"}, h)    THEN "held"
  ELSE IF handoffs[h].status = "initiated"              THEN "waiting"
  ELSE IF handoffs[h].status = "accepted"               THEN "stranded"
  ELSE "closed"

WorkState ==
  [w \in ({"message"} \X MessageIds) \cup ({"task"} \X TaskIds) |->
     IF w[1] = "message" THEN MessageState(w[2]) ELSE TaskState(w[2])]

Contract == INSTANCE WorkContract
  WITH Messages <- {"message"} \X MessageIds,
       Tasks    <- {"task"} \X TaskIds,
       state    <- WorkState

(* Messages are done at least once, handoffs at most once, nothing is ever  *)
(* held twice and nothing closed comes back, through every crash, removal,  *)
(* wake and round (worker-loop.ts #drainMessages and #claimAndRunHandoffs). *)
(* A teammate that is re-created under an old name is out of the contract:  *)
(* see CancelledNeverRuns.                                                  *)
KeepsContract == Contract!Spec
=============================================================================
