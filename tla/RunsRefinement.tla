---------------------------- MODULE RunsRefinement ----------------------------
(***************************************************************************)
(* Runs implements RunContract: a run's state in the contract is what its   *)
(* row says, and whether its report was ever sent.                          *)
(***************************************************************************)
EXTENDS Runs

StageOf(row) ==
  IF row.status = "running" THEN "working"
  ELSE IF row.delivered     THEN "settled"
  ELSE IF row.report        THEN "owed"
  ELSE "dropped"

RunOf(row, sent) ==
  [session |-> row.session, stage |-> StageOf(row), sent |-> sent,
   refusals |-> row.attempts, tries |-> row.resumes]

RunsBegun == [r \in DOMAIN rows |-> RunOf(rows[r], r \in told)]

RunSpec == INSTANCE RunContract
  WITH Run      <- Runs,
       Once     <- Jobs,
       Tries    <- MaxResumes,
       Patience <- MaxRefusals,
       runs     <- RunsBegun

(* One run in flight per conversation, a report that is never lost and is   *)
(* owed until it went out or was refused often enough, jobs never and       *)
(* messages boundedly tried again -- through reclaims, two loops on one     *)
(* run, failed sends, the net under give_up and any number of deaths, none  *)
(* of which shows in the contract (run-store.ts, run-delivery.ts,           *)
(* run-resume.ts).                                                          *)
KeepsRunContract == RunSpec!Spec
=============================================================================
