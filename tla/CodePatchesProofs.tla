-------------------------- MODULE CodePatchesProofs --------------------------
(***************************************************************************)
(* Proofs about the agent's patches to its own code, for any number of      *)
(* patches and deaths of the agent and any limits: the store never lies     *)
(* about what is in the source tree.                                        *)
(***************************************************************************)
EXTENDS CodePatches, TLAPS

(***************************************************************************)
(* The inductive invariant.  Between the person's yes and the outcome a     *)
(* patch is on file as approved, which says nothing of the tree             *)
(* (JobsAreApproved); that is what lets the agent die on either side of     *)
(* git.  The rest is about the host: the marker of an open window and the   *)
(* suspect of a revert name a patch, and a streak of failures beyond the    *)
(* limit ends the watch.                                                    *)
(***************************************************************************)
JobsAreApproved ==
  \A p \in Patches : /\ job[p] # "none" => status[p] = "approved"
                     /\ job[p] = "mark" => p \in tree

SuspectIsNamed == /\ marker.open => marker.of \in Patches
                  /\ duty = "reverts" => suspect.of \in Patches

StreakIsShort == duty \in {"watches", "rebuilds"} => quick <= MaxQuick

PatchInv == /\ PatchTypeOK
            /\ StoreIsHonest
            /\ JobsAreApproved
            /\ SuspectIsNamed
            /\ StreakIsShort

(* The agent's half of the invariant speaks of the first line's variables,  *)
(* the host's of the second's.                                              *)
AgentSide == /\ status \in [Patches -> {"pending", "approved", "rejected", "applied",
                                        "apply_failed", "reverted"}]
             /\ job \in [Patches -> {"none", "git", "mark"}]
             /\ tree \subseteq Patches
             /\ StoreIsHonest /\ JobsAreApproved

Marker == [of : Patches \cup {NoPatch}, open : BOOLEAN, hits : 0 .. CrashThreshold, ran : BOOLEAN]

HostSide == /\ planned \in BOOLEAN
            /\ marker \in Marker /\ suspect \in Marker
            /\ marker.hits < CrashThreshold
            /\ duty \in {"watches", "rebuilds", "reverts", "restores", "gaveUp"}
            /\ quick \in 0 .. MaxQuick + 1 /\ innocent \subseteq Patches
            /\ SuspectIsNamed /\ StreakIsShort

Between == /\ binary \subseteq Patches /\ lines \subseteq Patches
           /\ agentUp \in BOOLEAN /\ deaths \in 0 .. MaxDeaths

LEMMA Sides == PatchInv <=> AgentSide /\ HostSide /\ Between
BY DEF PatchInv, PatchTypeOK, AgentSide, HostSide, Between, Marker

LEMMA SidesNext == PatchInv' <=> AgentSide' /\ HostSide' /\ Between'
BY DEF PatchInv, PatchTypeOK, AgentSide, HostSide, Between, Marker

LEMMA HostStays == HostSide /\ UNCHANGED hostSide => HostSide'
BY DEF HostSide, hostSide, SuspectIsNamed, StreakIsShort

LEMMA AgentStays == AgentSide /\ UNCHANGED <<status, job, tree>> => AgentSide'
BY DEF AgentSide, StoreIsHonest, JobsAreApproved

LEMMA NoMarkerIsGood ==
  NoMarker \in Marker /\ NoMarker.hits < CrashThreshold /\ ~NoMarker.open
BY PatchAssumption DEF NoMarker, Marker

LEMMA PatchInvInit == PatchInit => PatchInv
<1> SUFFICES ASSUME PatchInit PROVE PatchInv
  OBVIOUS
<1>1. AgentSide
  BY DEF PatchInit, AgentSide, StoreIsHonest, JobsAreApproved
<1>2. HostSide
  <2>1. 0 \in 0 .. MaxQuick + 1 /\ 0 <= MaxQuick
    BY PatchAssumption
  <2> QED
    BY <2>1, NoMarkerIsGood DEF PatchInit, HostSide, SuspectIsNamed, StreakIsShort
<1>3. Between
  BY PatchAssumption DEF PatchInit, Between
<1> QED
  BY <1>1, <1>2, <1>3, Sides

-----------------------------------------------------------------------------
(* The agent's steps.                                                       *)

LEMMA AgentWorks ==
  ASSUME PatchInv, NEW p \in Patches, RejectPatch(p) \/ ApprovePatch(p) \/ GitEnds(p) \/ Mark(p)
  PROVE  PatchInv'
<1>1. AgentSide /\ HostSide /\ Between
  BY Sides
<1>2. HostSide'
  BY <1>1, HostStays DEF RejectPatch, ApprovePatch, GitEnds, Mark
<1>3. Between'
  BY <1>1 DEF Between, RejectPatch, ApprovePatch, GitEnds, Mark
<1>4. AgentSide'
  <2>1. CASE RejectPatch(p)
    BY <1>1, <2>1 DEF RejectPatch, AgentSide, StoreIsHonest, JobsAreApproved
  <2>2. CASE ApprovePatch(p)
    BY <1>1, <2>2 DEF ApprovePatch, Approved, AgentSide, StoreIsHonest, JobsAreApproved
  <2>3. CASE GitEnds(p)
    BY <1>1, <2>3 DEF GitEnds, AgentSide, StoreIsHonest, JobsAreApproved
  <2>4. CASE Mark(p)
    BY <1>1, <2>4 DEF Mark, AgentSide, StoreIsHonest, JobsAreApproved
  <2> QED
    BY <2>1, <2>2, <2>3, <2>4
<1> QED
  BY <1>2, <1>3, <1>4, SidesNext

(* An agent that dies leaves a git behind; its patch is on file as approved. *)
LEMMA KilledLeavesTruth == AgentSide /\ Killed /\ UNCHANGED status => AgentSide' /\ agentUp' = FALSE
BY DEF AgentSide, Killed, StoreIsHonest, JobsAreApproved

LEMMA AgentDiesIsGood == PatchInv /\ AgentDies => PatchInv'
<1> SUFFICES ASSUME PatchInv, AgentDies PROVE PatchInv'
  OBVIOUS
<1>1. AgentSide /\ HostSide /\ Between
  BY Sides
<1>2. AgentSide' /\ agentUp' = FALSE
  BY <1>1, KilledLeavesTruth DEF AgentDies
<1>3. HostSide'
  BY <1>1, HostStays DEF AgentDies
<1>4. deaths' \in 0 .. MaxDeaths
  BY <1>1, PatchAssumption DEF AgentDies, Between
<1>5. Between'
  BY <1>1, <1>2, <1>4 DEF AgentDies, Between
<1> QED
  BY <1>2, <1>3, <1>5, SidesNext

-----------------------------------------------------------------------------
(* The host's steps.                                                        *)

LEMMA ReadLineIsGood ==
  ASSUME PatchInv, NEW p \in Patches, ReadLine(p)
  PROVE  PatchInv'
<1>1. AgentSide /\ HostSide /\ Between
  BY Sides
<1>2. AgentSide' /\ agentUp' \in BOOLEAN
  BY <1>1, KilledLeavesTruth, AgentStays DEF ReadLine, Between
<1>3. marker' \in Marker /\ marker'.of = p /\ marker'.hits = 0
  <2>1. marker' = [of |-> p, open |-> TRUE, hits |-> 0, ran |-> TRUE]
    BY DEF ReadLine, NoMarker
  <2> QED
    BY <2>1, PatchAssumption DEF Marker
<1>4. HostSide'
  BY <1>1, <1>3, PatchAssumption DEF ReadLine, HostSide, SuspectIsNamed, StreakIsShort
<1>5. Between'
  BY <1>1, <1>2 DEF ReadLine, Between
<1> QED
  BY <1>2, <1>4, <1>5, SidesNext

(* A crash in an open window is counted, and the count stays in its range.  *)
LEMMA CountedIsGood ==
  ASSUME HostSide
  PROVE  /\ Counted \in Marker
         /\ Counted.of = marker.of /\ Counted.open = marker.open
         /\ ~ShouldRevert => Counted.hits < CrashThreshold
<1>1. marker.hits + 1 \in 0 .. CrashThreshold
  BY PatchAssumption DEF HostSide, Marker
<1> DEFINE held == marker.ran /\ marker.of \in binary
<1>2. held \in BOOLEAN
  OBVIOUS
<1>3. Counted = [marker EXCEPT !.hits = marker.hits + 1, !.ran = held]
  BY Zenon DEF Counted
<1> HIDE DEF held
<1>4. Counted.of = marker.of /\ Counted.open = marker.open /\ Counted.hits = marker.hits + 1
  BY <1>3 DEF HostSide, Marker
<1>5. Counted \in Marker
  BY <1>1, <1>2, <1>3 DEF HostSide, Marker
<1>6. ~ShouldRevert => Counted.hits < CrashThreshold
  BY <1>1, <1>4, PatchAssumption DEF ShouldRevert
<1> QED
  BY <1>4, <1>5, <1>6

LEMMA ExitsAreGood == PatchInv /\ (ExitWasPlanned \/ ExitWasCrash) => PatchInv'
<1> SUFFICES ASSUME PatchInv, ExitWasPlanned \/ ExitWasCrash PROVE PatchInv'
  OBVIOUS
<1>1. AgentSide /\ HostSide /\ Between
  BY Sides
<1>2. AgentSide' /\ Between'
  BY <1>1, AgentStays DEF ExitWasPlanned, ExitWasCrash, Between
<1>3. HostSide'
  <2>1. CASE ExitWasPlanned
    BY <1>1, <2>1 DEF ExitWasPlanned, HostSide, SuspectIsNamed, StreakIsShort
  <2>2. CASE ExitWasCrash
    <3>1. PICK stable \in BOOLEAN :
            LET streak == IF stable THEN 1 ELSE quick + 1
                reverts == marker.open /\ ShouldRevert
            IN \/ /\ reverts /\ duty' = "reverts" /\ quick' = streak
                  /\ suspect' = Counted /\ UNCHANGED <<marker, agentUp>>
               \/ /\ ~reverts /\ quick' = streak /\ UNCHANGED suspect
                  /\ marker' = IF marker.open THEN Counted ELSE NoMarker
                  /\ IF streak > MaxQuick THEN duty' = "gaveUp" /\ UNCHANGED agentUp
                     ELSE agentUp' = TRUE /\ UNCHANGED duty
      BY <2>2 DEF ExitWasCrash
    <3>2. duty = "watches" /\ UNCHANGED <<planned, innocent>>
      BY <2>2 DEF ExitWasCrash
    <3>3. quick \in 0 .. MaxQuick
      BY <1>1, <3>2 DEF HostSide, StreakIsShort
    <3>4. quick' \in 0 .. MaxQuick + 1
      BY <3>1, <3>3, PatchAssumption
    <3>5. CASE /\ marker.open /\ ShouldRevert /\ duty' = "reverts" /\ suspect' = Counted
               /\ UNCHANGED marker
      BY <1>1, <3>2, <3>4, <3>5, CountedIsGood DEF HostSide, SuspectIsNamed, StreakIsShort
    <3>6. CASE /\ ~(marker.open /\ ShouldRevert) /\ UNCHANGED suspect
               /\ marker' = IF marker.open THEN Counted ELSE NoMarker
               /\ IF quick' > MaxQuick THEN duty' = "gaveUp" ELSE UNCHANGED duty
      <4>1. marker' \in Marker /\ marker'.hits < CrashThreshold
            /\ (marker'.open => marker'.of \in Patches)
        BY <1>1, <3>6, CountedIsGood, NoMarkerIsGood DEF HostSide, SuspectIsNamed
      <4>2. duty' \in {"watches", "gaveUp"} /\ (duty' = "watches" => quick' <= MaxQuick)
        BY <3>2, <3>4, <3>6, PatchAssumption
      <4> QED
        BY <1>1, <3>2, <3>4, <3>6, <4>1, <4>2 DEF HostSide, SuspectIsNamed, StreakIsShort
    <3> QED
      BY <3>1, <3>5, <3>6
  <2> QED
    BY <2>1, <2>2
<1> QED
  BY <1>2, <1>3, SidesNext

(* The watch begins anew with no marker and no streak.                      *)
LEMMA WatchAgainIsGood ==
  ASSUME HostSide, WatchAgain, UNCHANGED planned, innocent' \subseteq Patches
  PROVE  HostSide' /\ agentUp' = TRUE
<1>1. 0 \in 0 .. MaxQuick + 1 /\ 0 <= MaxQuick
  BY PatchAssumption
<1> QED
  BY <1>1, NoMarkerIsGood DEF WatchAgain, Respawns, HostSide, SuspectIsNamed, StreakIsShort

(* What is reversed is taken out of the tree and marked in one step, and it *)
(* was on file as applied, so no job of it is in hand.                      *)
LEMMA ReversesIsGood == PatchInv /\ Reverses => PatchInv'
<1> SUFFICES ASSUME PatchInv, Reverses PROVE PatchInv'
  OBVIOUS
<1>1. AgentSide /\ HostSide /\ Between
  BY Sides
<1> DEFINE p == suspect.of
<1>2. p \in Patches /\ UNCHANGED <<job, binary, lines, planned, deaths>>
  BY <1>1 DEF HostSide, SuspectIsNamed, Reverses
<1>3. CASE /\ status[p] = "applied"
           /\ tree' = tree \ {p} /\ status' = [status EXCEPT ![p] = "reverted"]
           /\ innocent' = IF suspect.ran THEN innocent ELSE innocent \cup {p}
           /\ duty' = "restores" /\ UNCHANGED <<agentUp, marker, suspect, quick>>
  <2> HIDE DEF p
  <2>1. AgentSide'
    BY <1>1, <1>2, <1>3 DEF AgentSide, StoreIsHonest, JobsAreApproved
  <2>2. HostSide'
    BY <1>1, <1>2, <1>3 DEF HostSide, SuspectIsNamed, StreakIsShort
  <2>3. Between'
    BY <1>1, <1>2, <1>3 DEF Between
  <2> QED
    BY <2>1, <2>2, <2>3, SidesNext
<1>4. CASE WatchAgain /\ UNCHANGED <<tree, status, innocent>>
  <2>1. AgentSide' /\ HostSide' /\ agentUp' = TRUE
    BY <1>1, <1>2, <1>4, AgentStays, WatchAgainIsGood DEF HostSide
  <2>2. Between'
    BY <1>1, <1>2, <2>1 DEF Between
  <2> QED
    BY <2>1, <2>2, SidesNext
<1> QED
  BY <1>3, <1>4 DEF Reverses

LEMMA RestOfHostIsGood == PatchInv /\ (WindowCloses \/ Rebuild \/ Restores) => PatchInv'
<1> SUFFICES ASSUME PatchInv, WindowCloses \/ Rebuild \/ Restores PROVE PatchInv'
  OBVIOUS
<1>1. AgentSide /\ HostSide /\ Between
  BY Sides
<1>2. AgentSide'
  BY <1>1, AgentStays DEF WindowCloses, Rebuild, Restores
<1>3. CASE WindowCloses
  <2>1. marker' \in Marker /\ marker'.hits = marker.hits /\ ~marker'.open
    BY <1>1, <1>3 DEF WindowCloses, HostSide, Marker
  <2>2. HostSide' /\ Between'
    BY <1>1, <1>3, <2>1 DEF WindowCloses, HostSide, Between, SuspectIsNamed, StreakIsShort
  <2> QED
    BY <1>2, <2>2, SidesNext
<1>4. CASE Rebuild
  <2>1. HostSide'
    BY <1>1, <1>4 DEF Rebuild, Respawns, HostSide, SuspectIsNamed, StreakIsShort
  <2>2. Between'
    BY <1>1, <1>4 DEF Rebuild, Respawns, Between, AgentSide
  <2> QED
    BY <1>2, <2>1, <2>2, SidesNext
<1>5. CASE Restores
  <2>1. HostSide' /\ agentUp' = TRUE
    BY <1>1, <1>5, WatchAgainIsGood DEF Restores, HostSide
  <2>2. Between'
    BY <1>1, <1>5, <2>1 DEF Restores, Between, AgentSide
  <2> QED
    BY <1>2, <2>1, <2>2, SidesNext
<1> QED
  BY <1>3, <1>4, <1>5

LEMMA PatchInvNext == PatchInv /\ [PatchNext]_patchVars => PatchInv'
<1> SUFFICES ASSUME PatchInv, [PatchNext]_patchVars PROVE PatchInv'
  OBVIOUS
<1>1. CASE UNCHANGED patchVars
  BY <1>1 DEF patchVars, PatchInv, PatchTypeOK, StoreIsHonest, JobsAreApproved, SuspectIsNamed,
              StreakIsShort
<1> QED
  BY <1>1, AgentWorks, AgentDiesIsGood, ReadLineIsGood, ExitsAreGood, ReversesIsGood,
     RestOfHostIsGood DEF PatchNext

-----------------------------------------------------------------------------
(* The store, the tree and the supervisor keep their types.                 *)
THEOREM PatchesType == PatchSpec => []PatchTypeOK
<1>1. PatchInv => PatchTypeOK
  BY DEF PatchInv
<1> QED
  BY <1>1, PatchInvInit, PatchInvNext, PTL DEF PatchSpec

(* The pending-patch store never calls applied what is not in the source,   *)
(* and never calls undecided, rejected or reverted what is, whenever the    *)
(* agent died between git and the file (pending-patches.ts:96-100).         *)
THEOREM StoreTellsTheTruth == PatchSpec => []StoreIsHonest
<1>1. PatchInv => StoreIsHonest
  BY DEF PatchInv
<1> QED
  BY <1>1, PatchInvInit, PatchInvNext, PTL DEF PatchSpec
=============================================================================
