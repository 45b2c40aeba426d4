----------------------------- MODULE RunContract ------------------------------
(***************************************************************************)
(* What unattended runs promise of each run and its report, without a word  *)
(* about loops, turns, safety points, clocks, boots or snapshots.           *)
(*                                                                         *)
(* A conversation has one run in flight.  A run ends with a report or       *)
(* without one, and a report that exists is owed until it went out or was   *)
(* refused often enough; then it is settled for good.  A run is tried again *)
(* a bounded number of times, and one that must happen once is not.  The    *)
(* death of the process is no move: what is promised survives it.           *)
(***************************************************************************)
EXTENDS Naturals

CONSTANTS
  Run,         \* the runs there can be
  Sessions,    \* the conversations they belong to
  Once,        \* those whose runs are not tried again
  Tries,       \* times a run may be tried again
  Patience     \* refusals after which a report is not sent again

VARIABLE runs  \* the runs begun so far

Stage == {"working", "dropped", "owed", "settled"}

Fresh(s) == [session |-> s, stage |-> "working", sent |-> FALSE, refusals |-> 0, tries |-> 0]

Init == DOMAIN runs = {}

Moves(r, stage) == runs' = [runs EXCEPT ![r].stage = stage]

InFlight(s) == {r \in DOMAIN runs : runs[r].session = s /\ runs[r].stage = "working"}

(* A run of a conversation begins, and what was in flight of it is dropped. *)
Begin(r, s) ==
  /\ r \notin DOMAIN runs
  /\ runs' = [q \in DOMAIN runs \cup {r} |->
                IF q = r THEN Fresh(s)
                ELSE IF q \in InFlight(s) THEN [runs[q] EXCEPT !.stage = "dropped"]
                ELSE runs[q]]

Drop(r) == runs[r].stage = "working" /\ Moves(r, "dropped")

(* A run that was taken for dead may still come back with its report.       *)
Report(r) == runs[r].stage \in {"working", "dropped"} /\ Moves(r, "owed")

(* At least once: the same report may go out again.                         *)
Send(r) ==
  /\ runs[r].stage \in {"owed", "settled"}
  /\ runs' = [runs EXCEPT ![r].sent = TRUE]

(* A report is offered once in any case.                                    *)
Refuse(r) ==
  /\ runs[r].stage \in {"owed", "settled"}
  /\ runs[r].refusals = 0 \/ runs[r].refusals < Patience
  /\ runs' = [runs EXCEPT ![r].refusals = @ + 1]

Settle(r) ==
  /\ runs[r].stage = "owed"
  /\ runs[r].sent \/ runs[r].refusals >= Patience
  /\ Moves(r, "settled")

Retry(r) ==
  /\ runs[r].session \notin Once
  /\ runs[r].tries < Tries
  /\ runs' = [runs EXCEPT ![r].tries = @ + 1]

Next ==
  \/ \E r \in Run, s \in Sessions : Begin(r, s)
  \/ \E r \in DOMAIN runs :
       Drop(r) \/ Report(r) \/ Send(r) \/ Refuse(r) \/ Settle(r) \/ Retry(r)

Spec == Init /\ [][Next]_runs
=============================================================================
