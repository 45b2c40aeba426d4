----------------------------- MODULE PartsProofs ------------------------------
(***************************************************************************)
(* Proofs about Dreams (types, and that a dream that runs is known), and at *)
(* the end, with the proofs of the other parts, that each part keeps its    *)
(* types whichever of them a behaviour of MCParts is of.                    *)
(***************************************************************************)
EXTENDS MCParts, CoworkApprovalProofs, ModulesProofs, InferenceProofs, CodePatchesProofs

(* The property is inductive once the triggers of the pulses are typed: a   *)
(* launch in the way of a live run leaves an episode, though not its own.   *)
DreamInv == DreamTypeOK /\ DreamsAreKnown

LEMMA DreamInitInv == DreamInit => DreamInv
<1> SUFFICES ASSUME DreamInit PROVE DreamInv
  OBVIOUS
<1>1. dreams \in 0 .. MaxDreams
  BY DreamAssumption DEF DreamInit
<1>2. pulse \in [Pulses -> Triggers \cup {"none"}]
  BY DEF DreamInit
<1>3. /\ engine \in [by : Triggers \cup {"none", "ui"}, stage : {"none", "loads", "runs"}, stopped : BOOLEAN]
      /\ episode \in [trigger : Triggers \cup {"none"}, stopAsked : BOOLEAN, seen : BOOLEAN]
      /\ current \in Triggers \cup {"none"} /\ l1Frozen \in BOOLEAN
  BY DEF DreamInit, NoRun, NoEpisode
<1>4. scheduler \in [down : BOOLEAN, launching : BOOLEAN, asked : BOOLEAN, cooling : BOOLEAN]
  BY DEF DreamInit
<1>5. DreamsAreKnown
  BY DEF DreamInit, DreamsAreKnown, NoRun, Triggers
<1> QED BY <1>1, <1>2, <1>3, <1>4, <1>5 DEF DreamInv, DreamTypeOK

(* A start either is refused or begins a run of the one who asked.          *)
LEMMA StartsAreOneOf ==
  ASSUME NEW by, EngineStarts(by)
  PROVE  \/ engine' = engine /\ dreams' = dreams /\ (Running \/ l1Frozen)
         \/ /\ engine' = [by |-> by, stage |-> "loads", stopped |-> FALSE]
            /\ dreams < MaxDreams /\ dreams' = dreams + 1 /\ ~l1Frozen
BY DEF EngineStarts

LEMMA LaunchKeeps ==
  ASSUME DreamInv, NEW t \in Pulses, Launch(t)
  PROVE  DreamInv'
<1> DEFINE trigger == pulse[t]
<1>1. trigger \in Triggers
  BY DEF DreamInv, DreamTypeOK, Launch
<1>2. /\ EngineStarts(trigger)
      /\ pulse' = [pulse EXCEPT ![t] = "none"]
      /\ episode' = [trigger |-> trigger, stopAsked |-> FALSE, seen |-> FALSE]
      /\ scheduler' = [scheduler EXCEPT !.asked = Wish(t), !.launching = engine' # engine]
      /\ current' = (IF l1Frozen THEN current ELSE trigger)
      /\ UNCHANGED l1Frozen
  BY DEF Launch, Announced
<1> HIDE DEF trigger
<1>3. CASE engine' = engine /\ dreams' = dreams
  <2>1. DreamTypeOK'
    BY <1>1, <1>2, <1>3 DEF DreamInv, DreamTypeOK, Wish, Triggers
  <2>2. DreamsAreKnown'
    BY <1>1, <1>2, <1>3 DEF DreamInv, DreamsAreKnown, Triggers, NoEpisode
  <2> QED BY <2>1, <2>2 DEF DreamInv
<1>4. CASE /\ engine' = [by |-> trigger, stage |-> "loads", stopped |-> FALSE]
           /\ dreams < MaxDreams /\ dreams' = dreams + 1 /\ ~l1Frozen
  <2> dreams' \in 0 .. MaxDreams
    BY DreamAssumption, <1>4 DEF DreamInv, DreamTypeOK
  <2> engine' \in [by : Triggers \cup {"none", "ui"}, stage : {"none", "loads", "runs"}, stopped : BOOLEAN]
    BY <1>1, <1>4
  <2> /\ pulse' \in [Pulses -> Triggers \cup {"none"}]
      /\ episode' \in [trigger : Triggers \cup {"none"}, stopAsked : BOOLEAN, seen : BOOLEAN]
      /\ current' \in Triggers \cup {"none"} /\ l1Frozen' \in BOOLEAN
    BY <1>1, <1>2 DEF DreamInv, DreamTypeOK
  <2> scheduler' \in [down : BOOLEAN, launching : BOOLEAN, asked : BOOLEAN, cooling : BOOLEAN]
    BY <1>2 DEF DreamInv, DreamTypeOK, Wish
  <2>1. DreamTypeOK'
    BY DEF DreamTypeOK
  <2>2. DreamsAreKnown'
    BY <1>1, <1>2, <1>4 DEF DreamsAreKnown, Triggers, NoEpisode
  <2> QED BY <2>1, <2>2 DEF DreamInv
<1> QED BY <1>2, <1>3, <1>4, StartsAreOneOf

LEMMA PulseKeeps ==
  ASSUME DreamInv, NEW t \in Pulses, Pulse(t)
  PROVE  DreamInv'
<1>1. CASE Yield
  <2>1. DreamTypeOK'
    BY <1>1 DEF DreamInv, DreamTypeOK, Yield, Triggers
  <2>2. DreamsAreKnown'
    BY <1>1 DEF DreamInv, DreamTypeOK, DreamsAreKnown, Yield, Triggers, NoEpisode
  <2> QED BY <2>1, <2>2 DEF DreamInv
<1>2. CASE /\ \E trigger \in Trigger : pulse' = [pulse EXCEPT ![t] = trigger]
           /\ UNCHANGED <<scheduler, episode, current, engine, l1Frozen, dreams>>
  BY <1>2 DEF DreamInv, DreamTypeOK, DreamsAreKnown, Trigger, Triggers
<1> QED BY <1>1, <1>2 DEF Pulse

LEMMA UiStartsKeeps ==
  ASSUME DreamInv, UiStarts
  PROVE  DreamInv'
<1>1. /\ engine' = [by |-> "ui", stage |-> "loads", stopped |-> FALSE]
      /\ dreams < MaxDreams /\ dreams' = dreams + 1
      /\ UNCHANGED <<pulse, scheduler, episode, current, l1Frozen>>
  BY StartsAreOneOf DEF UiStarts
<1> QED BY <1>1, DreamAssumption DEF DreamInv, DreamTypeOK, DreamsAreKnown, Triggers

(* The steps that touch the engine, the episode or its announcement only to *)
(* end them, or do not touch them at all.                                   *)
LEMMA RestKeeps ==
  ASSUME DreamInv,
         \/ \E t \in Pulses : NotReady(t)
         \/ Loaded \/ RunEnds \/ UiStops \/ RequestUserDream \/ FreezeL1 \/ Active
         \/ CoolsDown \/ DreamShutdown
  PROVE  DreamInv'
<1> USE DEF DreamInv, DreamTypeOK, DreamsAreKnown, Triggers
<1>1. CASE \E t \in Pulses : NotReady(t)   BY <1>1 DEF NotReady, Wish
<1>2. CASE Loaded                          BY <1>2 DEF Loaded
<1>3. CASE RunEnds                         BY <1>3 DEF RunEnds, NoRun, NoEpisode
<1>4. CASE UiStops                         BY <1>4 DEF UiStops
<1>5. CASE RequestUserDream                BY <1>5 DEF RequestUserDream
<1>6. CASE FreezeL1                        BY <1>6 DEF FreezeL1
<1>7. CASE Active                          BY <1>7 DEF Active, NoEpisode
<1>8. CASE CoolsDown                       BY <1>8 DEF CoolsDown
<1>9. CASE DreamShutdown                   BY <1>9 DEF DreamShutdown
<1> QED BY <1>1, <1>2, <1>3, <1>4, <1>5, <1>6, <1>7, <1>8, <1>9

LEMMA DreamStep == DreamInv /\ [DreamNext]_dreamVars => DreamInv'
<1> SUFFICES ASSUME DreamInv, [DreamNext]_dreamVars PROVE DreamInv'
  OBVIOUS
<1>1. CASE UNCHANGED dreamVars
  BY <1>1 DEF dreamVars, DreamInv, DreamTypeOK, DreamsAreKnown
<1>2. CASE DreamNext
  BY <1>2, LaunchKeeps, PulseKeeps, UiStartsKeeps, RestKeeps DEF DreamNext
<1> QED BY <1>1, <1>2

(* Every reachable state of the scheduler and the engine has its types      *)
(* (DreamScheduler, RsiSidecar), for any number of pulses and runs.         *)
THEOREM DreamType == DreamSpec => []DreamTypeOK
<1>1. DreamInv => DreamTypeOK   BY DEF DreamInv
<1> QED BY <1>1, DreamInitInv, DreamStep, PTL DEF DreamSpec

(* However many pulses overlap while they wait for the host, and whatever   *)
(* the person starts, stops or freezes, a dream that runs is announced to   *)
(* onEpisodeEnd and is the scheduler's episode.                             *)
THEOREM DreamsKnown == DreamSpec => []DreamsAreKnown
<1>1. DreamInv => DreamsAreKnown   BY DEF DreamInv
<1> QED BY <1>1, DreamInitInv, DreamStep, PTL DEF DreamSpec

-----------------------------------------------------------------------------
(***************************************************************************)
(* The parts side by side.  They share nothing, so a step of one is a step  *)
(* or a stutter of each, and each keeps its own invariant.                  *)
(***************************************************************************)
PartsInv == GateInv /\ ToolInv /\ EvidenceInv /\ SeamTyped /\ InfInv /\ PatchInv /\ DreamInv

LEMMA PartsInitInv == PartsInit => PartsInv
BY GateInvInit, ToolInvInit, InitIsGood, SeamTypedInit, InfInvInit, PatchInvInit, DreamInitInv
   DEF PartsInit, PartsInv

LEMMA EachMoves ==
  ASSUME [PartsNext]_partsVars
  PROVE  /\ [Next]_vars /\ [ToolNext]_toolVars /\ [ModNext]_modVars /\ [SeamNext]_seamVars
         /\ [InfNext]_infVars /\ [PatchNext]_patchVars /\ [DreamNext]_dreamVars
BY DEF PartsNext, partsVars

LEMMA PartsStep == PartsInv /\ [PartsNext]_partsVars => PartsInv'
<1> SUFFICES ASSUME PartsInv, [PartsNext]_partsVars PROVE PartsInv'
  OBVIOUS
<1>1. GateInv' /\ ToolInv'
  BY EachMoves, GateInvNext, ToolInvNext DEF PartsInv
<1>2. EvidenceInv' /\ SeamTyped'
  BY EachMoves, NextIsGood, SeamTypedNext DEF PartsInv
<1>3. InfInv' /\ PatchInv' /\ DreamInv'
  BY EachMoves, InfInvNext, PatchInvNext, DreamStep DEF PartsInv
<1> QED
  BY <1>1, <1>2, <1>3 DEF PartsInv

(* Every part keeps its types, whichever a behaviour is of: approval gate,  *)
(* tool calls, modules, hosts of a seam, model calls, patches and dreams,   *)
(* for any number of requests, calls, modules, spawns, attempts, patches    *)
(* and runs.                                                                *)
THEOREM PartsAreTyped == PartsSpec => []PartsTypeOK
<1>1. PartsInv => PartsTypeOK
  <2>1. GateInv => TypeOK
    BY DEF GateInv
  <2>2. ToolInv => ToolTypeOK
    BY DEF ToolInv
  <2>3. EvidenceInv => ModTypeOK
    BY DEF EvidenceInv
  <2>4. InfInv => InfTypeOK
    BY DEF InfInv
  <2>5. PatchInv => PatchTypeOK
    BY DEF PatchInv
  <2>6. DreamInv => DreamTypeOK
    BY DEF DreamInv
  <2> QED BY <2>1, <2>2, <2>3, <2>4, <2>5, <2>6, SeamIsTyped DEF PartsInv, PartsTypeOK
<1> QED
  BY <1>1, PartsInitInv, PartsStep, PTL DEF PartsSpec
=============================================================================
