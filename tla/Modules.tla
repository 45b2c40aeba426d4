------------------------------- MODULE Modules -------------------------------
(***************************************************************************)
(* The life of a module that may serve a seam of the agent, and the seam's  *)
(* registry and watchdog (CinderpawAgent/src/rsi/l4-modules/                *)
(* module-lifecycle.ts, module-registry.ts, the strikes of seam-adapter.ts; *)
(* module_evaluate and module_resolve of dispatch.ts).  One seam: seams     *)
(* share nothing but the flag that lets one evaluation run at a time.       *)
(* Every operation writes its files one after the other, and the process    *)
(* may die after any of them.                                               *)
(***************************************************************************)
EXTENDS Naturals, FiniteSets, Sequences

CONSTANTS
  Mods,         \* module directories of this seam
  Builtin,      \* what serves the seam when no module does
  Seekers,      \* requests to the seam that can be under way at a time
  Strikes,      \* failures in the window that make the watchdog act, maxStrikes
  MaxModCrashes,
  MaxBumps      \* bound: releases that change the seam's interface

ASSUME ModAssumption == /\ Builtin \notin Mods /\ Strikes \in Nat \ {0}
                        /\ MaxModCrashes \in Nat /\ MaxBumps \in Nat

VARIABLES
  disk,      \* the envelopes and registry.json
  fits,      \* modules whose manifest names the current interface
  trial,     \* the evaluation under way: its module and what is awaited
  asked,     \* the module each request was sent to
  strikes,   \* failures in the watchdog's window
  alive, frozen, modCrashes, bumps

modVars == <<disk, fits, trial, asked, strikes, alive, frozen, modCrashes, bumps>>
person  == <<fits, frozen, bumps>>

ModuleState == {"none", "proposed", "sandboxed", "built", "evaluated", "awaiting_approval",
                "promoted", "failed", "rejected", "retired", "quarantined", "incompatible"}
Evaluatable == {"built", "evaluated", "quarantined", "incompatible"}

Disk == [state : [Mods -> ModuleState], accepted : SUBSET Mods, approved : SUBSET Mods,
         active : Mods \cup {Builtin}, candidates : SUBSET Mods]

NoTrial == [of |-> Builtin, awaits |-> "nothing"]

ModTypeOK ==
  /\ disk \in Disk /\ fits \subseteq Mods
  /\ trial \in [of : Mods \cup {Builtin}, awaits : {"nothing", "host", "suite", "contract"}]
  /\ asked \in [Seekers -> Mods \cup {Builtin}]
  /\ strikes \in 0 .. Strikes - 1
  /\ alive \in BOOLEAN /\ frozen \in BOOLEAN
  /\ modCrashes \in 0 .. MaxModCrashes /\ bumps \in 0 .. MaxBumps

ModInit ==
  /\ disk = [state |-> [m \in Mods |-> "none"], accepted |-> {}, approved |-> {},
             active |-> Builtin, candidates |-> {}]
  /\ fits = Mods /\ trial = NoTrial /\ asked = [s \in Seekers |-> Builtin]
  /\ strikes = 0 /\ alive = TRUE /\ frozen = FALSE /\ modCrashes = 0 /\ bumps = 0

-----------------------------------------------------------------------------
(* Files.                                                                   *)

SetState(d, m, s) == [d EXCEPT !.state[m] = s]

Dies ==
  /\ modCrashes < MaxModCrashes /\ modCrashes' = modCrashes + 1
  /\ alive' = FALSE /\ trial' = NoTrial
  /\ asked' = [s \in Seekers |-> Builtin] /\ strikes' = 0

(* An operation leaves the files as each element of `writes' in turn; the   *)
(* process may die before the last.                                         *)
Writes(writes, then) ==
  \/ disk' = writes[Len(writes)] /\ then /\ UNCHANGED <<alive, modCrashes>>
  \/ \E i \in 1 .. Len(writes) - 1 : disk' = writes[i] /\ Dies

-----------------------------------------------------------------------------
(* module_evaluate: from wherever the module is, up to the next await.      *)

(* evaluate() proper: one candidate per seam, and the paired suite begins.  *)
Compare(m, d) ==
  IF m \in fits /\ d.candidates \subseteq {m}
  THEN trial' = [of |-> m, awaits |-> "suite"] ELSE trial' = NoTrial

(* propose() and sandbox() return at once; build() waits for a host.        *)
Evaluate(m) ==
  /\ alive /\ trial = NoTrial /\ ~frozen
  /\ \/ /\ disk.state[m] = "none" /\ m \in fits
        /\ LET minted == SetState(disk, m, "proposed")
           IN \/ Writes(<<minted, SetState(minted, m, "sandboxed")>>,
                        trial' = [of |-> m, awaits |-> "host"] /\ UNCHANGED <<asked, strikes>>)
              \/ Writes(<<minted, SetState(minted, m, "failed")>>, UNCHANGED <<trial, asked, strikes>>)
     \/ /\ disk.state[m] = "proposed" /\ m \in fits
        /\ disk' = SetState(disk, m, "sandboxed")
        /\ trial' = [of |-> m, awaits |-> "host"]
        /\ UNCHANGED <<asked, strikes, alive, modCrashes>>
     \/ /\ disk.state[m] = "proposed"
        /\ disk' = SetState(disk, m, "failed")
        /\ UNCHANGED <<trial, asked, strikes, alive, modCrashes>>
     \/ /\ disk.state[m] = "sandboxed"
        /\ trial' = [of |-> m, awaits |-> "host"]
        /\ UNCHANGED <<disk, asked, strikes, alive, modCrashes>>
     \/ /\ disk.state[m] \in Evaluatable /\ Compare(m, disk) /\ trial' # NoTrial
        /\ UNCHANGED <<disk, asked, strikes, alive, modCrashes>>
  /\ UNCHANGED person

(* The host said hello, or did not; a manifest that no longer fits fails.   *)
HostSaid ==
  LET m == trial.of IN
  /\ alive /\ trial.awaits = "host"
  /\ \/ /\ m \in fits /\ disk' = SetState(disk, m, "built")
        /\ IF frozen THEN trial' = NoTrial ELSE Compare(m, disk)
     \/ disk' = SetState(disk, m, "failed") /\ trial' = NoTrial
  /\ UNCHANGED <<asked, strikes, alive, modCrashes>> /\ UNCHANGED person

Fails(m) == disk' = SetState(disk, m, "failed") /\ trial' = NoTrial
            /\ UNCHANGED <<asked, strikes, alive, modCrashes>>

(* The suite ended: the report is filed, then the state.                    *)
SuiteEnded ==
  LET m        == trial.of
      reported == [disk EXCEPT !.accepted = @ \cup {m}]
  IN /\ alive /\ trial.awaits = "suite"
     /\ \/ Fails(m)
        \/ Writes(<<reported, SetState(reported, m, "evaluated")>>,
                  trial' = [trial EXCEPT !.awaits = "contract"] /\ UNCHANGED <<asked, strikes>>)
     /\ UNCHANGED person

(* The contract decided: a candidate is listed, then awaits its person.     *)
ContractDecided ==
  LET m      == trial.of
      listed == [disk EXCEPT !.candidates = @ \cup {m}]
  IN /\ alive /\ trial.awaits = "contract"
     /\ \/ Fails(m)
        \/ Writes(<<listed, SetState(listed, m, "awaiting_approval")>>,
                  trial' = NoTrial /\ UNCHANGED <<asked, strikes>>)
     /\ UNCHANGED person

-----------------------------------------------------------------------------
(* module_resolve: the person's decisions.                                  *)

Repointed(d, to) == [d EXCEPT !.active = to]
Unlisted(d, m)   == [d EXCEPT !.candidates = @ \ {m}]

(* The envelope is stamped, the seam repointed, the candidate taken off the *)
(* list.                                                                    *)
ApprovalWritesSeamFirst(m) ==   \* mutant of ApprovalWrites: the seam is repointed first
  LET moved   == Repointed(disk, m)
      stamped == [SetState(moved, m, "promoted") EXCEPT !.approved = @ \cup {m}]
  IN <<moved, stamped, Unlisted(stamped, m)>>
ApprovalWrites(m) ==
  LET stamped == [SetState(disk, m, "promoted") EXCEPT !.approved = @ \cup {m}]
      moved   == Repointed(stamped, m)
  IN <<stamped, moved, Unlisted(moved, m)>>

Approve(m) ==
  /\ alive /\ disk.state[m] = "awaiting_approval" /\ ~frozen /\ m \in fits
  /\ Writes(ApprovalWrites(m), UNCHANGED <<trial, asked, strikes>>)
  /\ UNCHANGED person

(* A module whose manifest does not load is rejected and stays listed.      *)
Reject(m) ==
  LET unlisted == IF m \in fits THEN Unlisted(disk, m) ELSE disk
  IN /\ alive /\ disk.state[m] = "awaiting_approval" /\ ~frozen
     /\ Writes(<<unlisted, SetState(unlisted, m, "rejected")>>, UNCHANGED <<trial, asked, strikes>>)
     /\ UNCHANGED person

Demote ==
  LET back == Repointed(disk, Builtin)
  IN /\ alive /\ disk.active # Builtin
     /\ Writes(<<back, SetState(back, disk.active, "retired")>>, UNCHANGED <<trial, asked, strikes>>)
     /\ UNCHANGED person

(* Governance freezes and thaws the layer.                                  *)
Freeze == alive /\ frozen' = ~frozen
          /\ UNCHANGED <<disk, fits, trial, asked, strikes, alive, modCrashes, bumps>>

-----------------------------------------------------------------------------
(* Requests to the seam, and the watchdog.                                  *)

Ask(s) ==
  /\ alive /\ asked[s] = Builtin /\ disk.active # Builtin
  /\ asked' = [asked EXCEPT ![s] = disk.active]
  /\ UNCHANGED <<disk, trial, strikes, alive, modCrashes>> /\ UNCHANGED person

Answered(s) ==
  /\ asked[s] # Builtin /\ asked' = [asked EXCEPT ![s] = Builtin]
  /\ UNCHANGED <<disk, trial, strikes, alive, modCrashes>> /\ UNCHANGED person

(* The builtin answers in its stead, and the failure is a strike; the last  *)
(* one puts the builtin back, whichever module serves the seam by now.      *)
Struck(s) ==
  /\ asked[s] # Builtin /\ asked' = [asked EXCEPT ![s] = Builtin]
  /\ IF strikes + 1 >= Strikes
     THEN strikes' = 0 /\ disk' = Repointed(disk, Builtin)
     ELSE strikes' = strikes + 1 /\ UNCHANGED disk
  /\ UNCHANGED <<trial, alive, modCrashes>> /\ UNCHANGED person

StrikeAges ==
  /\ strikes > 0 /\ strikes' = strikes - 1
  /\ UNCHANGED <<disk, trial, asked, alive, modCrashes>> /\ UNCHANGED person

-----------------------------------------------------------------------------
ModCrash == alive /\ Dies /\ UNCHANGED disk /\ UNCHANGED person

(* reconcileWithCatalog: a release that changed the seam's interface puts   *)
(* the builtin back.                                                        *)
Reboot ==
  /\ ~alive /\ alive' = TRUE
  /\ \/ UNCHANGED <<disk, fits, bumps>>
     \/ /\ bumps < MaxBumps /\ bumps' = bumps + 1
        /\ fits' = {m \in fits : disk.state[m] = "none"}
        /\ disk' = Repointed(disk, Builtin)
  /\ UNCHANGED <<trial, asked, strikes, modCrashes, frozen>>

ModNext ==
  \/ \E m \in Mods : Evaluate(m) \/ Approve(m) \/ Reject(m)
  \/ HostSaid \/ SuiteEnded \/ ContractDecided \/ Demote \/ Freeze
  \/ \E s \in Seekers : Ask(s) \/ Answered(s) \/ Struck(s)
  \/ StrikeAges \/ ModCrash \/ Reboot

ModSpec == ModInit /\ [][ModNext]_modVars

-----------------------------------------------------------------------------
(* Properties.                                                              *)

(* A module serves the seam only with its evidence and its person's consent *)
(* on file and in the state that says so, wherever the process died between *)
(* two files ("no approval record, no promotion", ModuleLifecycle.approve). *)
ActiveHasEvidence ==
  disk.active # Builtin =>
    /\ disk.state[disk.active] = "promoted"
    /\ disk.active \in disk.accepted \cap disk.approved
=============================================================================
