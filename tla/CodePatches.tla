----------------------------- MODULE CodePatches -----------------------------
(***************************************************************************)
(* Patches of the agent to its own code, from the person's answer to the    *)
(* watchdog that takes them back (rsi_code_patch_resolve in                 *)
(* CinderpawAgent/src/dispatch.ts, rsi/l3-code/pending-patches.ts, and in   *)
(* crates/cinderpaw-core/src the supervisor of cinderpaw_agent.rs with      *)
(* rsi/watchdog.rs).  Two processes: the agent (the sidecar) patches the    *)
(* source and tells its host, and the host restarts it with a rebuilt       *)
(* binary, counts its crashes and reverts.  The source repository is set.   *)
(***************************************************************************)
EXTENDS Naturals, FiniteSets

CONSTANTS
  Patches,
  NoPatch,
  CrashThreshold,   \* crashes in a marker's window that revert, crash_threshold
  MaxQuick,         \* quick failures before giving up, MAX_QUICK_FAILURES
  MaxDeaths         \* bound: deaths of the agent that nobody planned

ASSUME PatchAssumption == /\ NoPatch \notin Patches /\ CrashThreshold \in Nat \ {0}
                          /\ MaxQuick \in Nat /\ MaxDeaths \in Nat

VARIABLES
  status,     \* pending-patches.json
  job,        \* how far the agent is with applying each patch
  tree,       \* patches in the source tree
  binary,     \* patches in the agent's binary
  agentUp,
  lines,      \* `applied' lines the host has not read
  planned,    \* the next exit is for a rebuild
  marker,     \* last_applied_patch.json and the crashes in its window
  duty,       \* what the supervisor is doing
  suspect,    \* the marker it read when it began to revert
  quick, deaths,
  innocent    \* history: patches reverted for crashes of a binary without them

patchVars == <<status, job, tree, binary, agentUp, lines, planned, marker, duty, suspect, quick, deaths,
              innocent>>

NoMarker == [of |-> NoPatch, open |-> FALSE, hits |-> 0, ran |-> TRUE]

(* `ran' is history: the patch was in the binary at every crash counted.    *)
PatchTypeOK ==
  /\ status \in [Patches -> {"pending", "approved", "rejected", "applied", "apply_failed", "reverted"}]
  /\ job \in [Patches -> {"none", "git", "mark"}]
  /\ tree \subseteq Patches /\ binary \subseteq Patches /\ lines \subseteq Patches
  /\ agentUp \in BOOLEAN /\ planned \in BOOLEAN
  /\ {marker, suspect} \subseteq [of : Patches \cup {NoPatch}, open : BOOLEAN,
                                  hits : 0 .. CrashThreshold, ran : BOOLEAN]
  /\ marker.hits < CrashThreshold
  /\ duty \in {"watches", "rebuilds", "reverts", "restores", "gaveUp"}
  /\ quick \in 0 .. MaxQuick + 1 /\ deaths \in 0 .. MaxDeaths /\ innocent \subseteq Patches

PatchInit ==
  /\ status = [p \in Patches |-> "pending"] /\ job = [p \in Patches |-> "none"]
  /\ tree = {} /\ binary = {} /\ agentUp = TRUE /\ lines = {} /\ planned = FALSE
  /\ marker = NoMarker /\ duty = "watches" /\ suspect = NoMarker /\ quick = 0 /\ deaths = 0 /\ innocent = {}

hostSide == <<planned, marker, duty, suspect, quick, innocent>>

-----------------------------------------------------------------------------
(* The agent: rsi_code_patch_resolve and applyPatchLive.                    *)

RejectPatch(p) ==
  /\ agentUp /\ status[p] = "pending" /\ status' = [status EXCEPT ![p] = "rejected"]
  /\ UNCHANGED <<job, tree, binary, agentUp, lines, deaths>> /\ UNCHANGED hostSide

(* The verdict is on file before git runs; what the walls refuse by now     *)
(* fails at once.                                                           *)
ApprovedAsApplied(p) == [status EXCEPT ![p] = "applied"]   \* mutant: the outcome is filed before git
Approved(p) == [status EXCEPT ![p] = "approved"]

ApprovePatch(p) ==
  /\ agentUp /\ status[p] = "pending"
  /\ \/ status' = Approved(p) /\ job' = [job EXCEPT ![p] = "git"]
     \/ status' = [status EXCEPT ![p] = "apply_failed"] /\ UNCHANGED job
  /\ UNCHANGED <<tree, binary, agentUp, lines, deaths>> /\ UNCHANGED hostSide

GitEnds(p) ==
  /\ job[p] = "git"
  /\ \/ tree' = tree \cup {p} /\ job' = [job EXCEPT ![p] = "mark"] /\ UNCHANGED status
     \/ status' = [status EXCEPT ![p] = "apply_failed"]
        /\ job' = [job EXCEPT ![p] = "none"] /\ UNCHANGED tree
  /\ UNCHANGED <<binary, agentUp, lines, deaths>> /\ UNCHANGED hostSide

Mark(p) ==
  /\ job[p] = "mark"
  /\ job' = [job EXCEPT ![p] = "none"] /\ status' = [status EXCEPT ![p] = "applied"]
  /\ lines' = lines \cup {p}
  /\ UNCHANGED <<tree, binary, agentUp, deaths>> /\ UNCHANGED hostSide

(* The agent dies; a git it had started may still finish.                   *)
Killed ==
  /\ agentUp' = FALSE /\ job' = [p \in Patches |-> "none"]
  /\ \E done \in SUBSET {p \in Patches : job[p] = "git"} : tree' = tree \cup done

AgentDies ==
  /\ agentUp /\ deaths < MaxDeaths /\ deaths' = deaths + 1
  /\ Killed
  /\ UNCHANGED <<status, binary, lines>> /\ UNCHANGED hostSide

-----------------------------------------------------------------------------
(* The host: handle_code_patch_resolved, on the reader of the agent's       *)
(* output, which outlives the agent.                                        *)
ReadLine(p) ==
  /\ p \in lines /\ lines' = lines \ {p}
  /\ marker' = [NoMarker EXCEPT !.of = p, !.open = TRUE]
  /\ planned' = TRUE
  /\ IF agentUp THEN Killed ELSE UNCHANGED <<agentUp, job, tree>>
  /\ UNCHANGED <<status, binary, duty, suspect, quick, deaths, innocent>>

WindowCloses ==
  /\ marker.open /\ marker' = [marker EXCEPT !.open = FALSE]
  /\ UNCHANGED <<status, job, tree, binary, agentUp, lines, planned, duty, suspect, quick, deaths,
                 innocent>>

-----------------------------------------------------------------------------
(* The host: the supervisor's loop.                                         *)

ExitWasPlanned ==
  /\ duty = "watches" /\ ~agentUp /\ planned
  /\ planned' = FALSE /\ duty' = "rebuilds"
  /\ UNCHANGED <<status, job, tree, binary, agentUp, lines, marker, suspect, quick, deaths, innocent>>

(* What a crash adds to the marker in whose window it falls.                *)
Counted == [marker EXCEPT !.hits = @ + 1, !.ran = @ /\ marker.of \in binary]

ShouldRevertLate == Counted.hits > CrashThreshold   \* mutant of ShouldRevert
ShouldRevert == Counted.hits >= CrashThreshold

(* A streak of quick failures starts anew after an agent that ran a minute. *)
ExitWasCrash ==
  /\ duty = "watches" /\ ~agentUp /\ ~planned
  /\ \E stable \in BOOLEAN :
       LET streak == IF stable THEN 1 ELSE quick + 1
           reverts == marker.open /\ ShouldRevert
       IN \/ /\ reverts /\ duty' = "reverts" /\ quick' = streak
             /\ suspect' = Counted /\ UNCHANGED <<marker, agentUp>>
          \/ /\ ~reverts /\ quick' = streak /\ UNCHANGED suspect
             /\ marker' = IF marker.open THEN Counted ELSE NoMarker
             /\ IF streak > MaxQuick THEN duty' = "gaveUp" /\ UNCHANGED agentUp
                ELSE agentUp' = TRUE /\ UNCHANGED duty
  /\ UNCHANGED <<status, job, tree, binary, lines, planned, deaths, innocent>>

Respawns == agentUp' = TRUE /\ duty' = "watches"

(* The rebuild script succeeds, or the previous binary is started again.    *)
Rebuild ==
  /\ duty = "rebuilds" /\ Respawns
  /\ binary' \in {tree, binary}
  /\ UNCHANGED <<status, job, tree, lines, planned, marker, suspect, quick, deaths, innocent>>

(* The loop goes on with the marker cleared, whichever patch it names now.  *)
WatchAgain == Respawns /\ marker' = NoMarker /\ suspect' = NoMarker /\ quick' = 0

(* revert_bad_patch: the patch is reversed and marked, if the store knows   *)
(* it as applied and git agrees.                                            *)
Reverses ==
  LET p == suspect.of IN
  /\ duty = "reverts"
  /\ \/ /\ status[p] = "applied"
        /\ tree' = tree \ {p} /\ status' = [status EXCEPT ![p] = "reverted"]
        /\ innocent' = IF suspect.ran THEN innocent ELSE innocent \cup {p}
        /\ duty' = "restores" /\ UNCHANGED <<agentUp, marker, suspect, quick>>
     \/ WatchAgain /\ UNCHANGED <<tree, status, innocent>>
  /\ UNCHANGED <<job, binary, lines, planned, deaths>>

Restores ==
  /\ duty = "restores" /\ WatchAgain
  /\ binary' \in {tree, binary}
  /\ UNCHANGED <<status, job, tree, lines, planned, deaths, innocent>>

PatchNext ==
  \/ \E p \in Patches : RejectPatch(p) \/ ApprovePatch(p) \/ GitEnds(p) \/ Mark(p) \/ ReadLine(p)
  \/ AgentDies \/ WindowCloses \/ ExitWasPlanned \/ ExitWasCrash \/ Rebuild \/ Reverses \/ Restores

PatchSpec == PatchInit /\ [][PatchNext]_patchVars

-----------------------------------------------------------------------------
(* Properties.                                                              *)

(* The store, which is what the watchdog reverts by, never calls applied    *)
(* what is not in the source, and never calls undecided, rejected or        *)
(* reverted what is, wherever the agent was killed between git and the file *)
(* (pending-patches.ts:96-100).                                             *)
StoreIsHonest ==
  \A p \in Patches : /\ status[p] = "applied" => p \in tree
                     /\ status[p] \in {"pending", "rejected", "reverted"} => p \notin tree

(* A rebuild that failed leaves the previous binary running, and "the       *)
(* watchdog marker will expire harmlessly" (cinderpaw_agent.rs:779-780): no *)
(* patch is reverted for crashes of a binary that did not hold it.          *)
OnlyTheGuiltyAreReverted == innocent = {}
=============================================================================
