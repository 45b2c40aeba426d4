------------------------------- MODULE MCParts -------------------------------
(***************************************************************************)
(* Small instances for TLC of the components that share no state with each  *)
(* other: a behaviour is one of any of them, and the rest stay as they      *)
(* began.                                                                   *)
(***************************************************************************)
EXTENDS CoworkApproval, MCTools, Modules, SeamAdapter, Inference, CodePatches,
        Dreams

CONSTANTS atlas, bolt   \* two teammates

VARIABLE part

partsVars == <<part, vars, toolVars, modVars, seamVars, infVars, patchVars, dreamVars>>

MCAgents  == {atlas, bolt}
MCThreads == {"chat", "other"}
MCCeiling  == [t \in Targets |-> IF t = 1 THEN 2 ELSE 1]

PartsInit ==
  /\ part \in {"approval", "tools", "modules", "seam", "inference", "patches", "dreams"}
  /\ Init /\ ToolInit /\ ModInit /\ SeamInit /\ InfInit /\ PatchInit /\ DreamInit

PartsNext ==
  \/ /\ part = "approval" /\ Next
     /\ UNCHANGED <<part, toolVars, modVars, seamVars, infVars, patchVars, dreamVars>>
  \/ /\ part = "tools" /\ ToolNext
     /\ UNCHANGED <<part, vars, modVars, seamVars, infVars, patchVars, dreamVars>>
  \/ /\ part = "modules" /\ ModNext
     /\ UNCHANGED <<part, vars, toolVars, seamVars, infVars, patchVars, dreamVars>>
  \/ /\ part = "seam" /\ SeamNext
     /\ UNCHANGED <<part, vars, toolVars, modVars, infVars, patchVars, dreamVars>>
  \/ /\ part = "inference" /\ InfNext
     /\ UNCHANGED <<part, vars, toolVars, modVars, seamVars, patchVars, dreamVars>>
  \/ /\ part = "patches" /\ PatchNext
     /\ UNCHANGED <<part, vars, toolVars, modVars, seamVars, infVars, dreamVars>>
  \/ /\ part = "dreams" /\ DreamNext
     /\ UNCHANGED <<part, vars, toolVars, modVars, seamVars, infVars, patchVars>>

(* Fairness is owed only to the part that runs.                             *)
PartsFairness ==
  \/ part = "approval" /\ Fairness
  \/ part = "tools" /\ ToolFairness
  \/ part = "dreams" /\ DreamFairness
  \/ part \in {"modules", "seam", "inference", "patches"}

PartsSpec == PartsInit /\ [][PartsNext]_partsVars /\ PartsFairness

PartsTypeOK ==
  TypeOK /\ ToolTypeOK /\ ModTypeOK /\ SeamTypeOK /\ InfTypeOK /\ PatchTypeOK /\ DreamTypeOK
=============================================================================
