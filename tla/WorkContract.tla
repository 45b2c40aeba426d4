----------------------------- MODULE WorkContract -----------------------------
(***************************************************************************)
(* What Agent Cowork promises of every piece of work, message or handoff,   *)
(* without a word about drains, rounds, wakes, statuses or replies.         *)
(*                                                                         *)
(* A piece of work waits, is held by one worker at a time, and is closed    *)
(* once and for all.  When the process dies, work that is held goes back to *)
(* waiting if it can be done again, so it is done at least once; a handoff  *)
(* is done at most once, so it is left stranded.                            *)
(***************************************************************************)
CONSTANTS
  Messages,  \* work that is done at least once
  Tasks      \* work that is done at most once

Work == Messages \cup Tasks

VARIABLE state

State == {"absent", "waiting", "held", "closed", "stranded"}

Init == state = [w \in Work |-> "absent"]

(* The moves of a piece of work.  It arrives, and may be taken in the same  *)
(* breath; it is taken; and the worker that holds it records its outcome.   *)
Submitted == {<<"absent", "waiting">>, <<"absent", "held">>}
Taken     == {<<"waiting", "held">>}
Closed    == {<<"held", "closed">>}

(* A message nobody holds may be closed without being done: cancelled,      *)
(* refused or, if it is an answer, read.  A task is closed by its worker.   *)
Withdrawn == {<<"waiting", "closed">>}

Moves(w) == Submitted \cup Taken \cup Closed
              \cup (IF w \in Messages THEN Withdrawn ELSE {})

Stays(w) == state'[w] = state[w]

(* Several workers may move in one step, each with its own work.            *)
Proceed == \A w \in Work : Stays(w) \/ <<state[w], state'[w]>> \in Moves(w)

(* The process dies, with all that is held and nothing else.  A message     *)
(* whose cancellation came while it was held stays closed.                  *)
Die ==
  \A w \in Work :
    IF state[w] = "held"
      THEN state'[w] \in IF w \in Tasks THEN {"stranded"} ELSE {"waiting", "closed"}
      ELSE Stays(w)

Next == state' \in [Work -> State] /\ (Proceed \/ Die)

Spec == Init /\ [][Next]_state
=============================================================================
