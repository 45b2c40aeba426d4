---------------------------- MODULE ModulesProofs ----------------------------
(***************************************************************************)
(* Proofs about the modules of a seam, for any number of modules, requests, *)
(* strikes, crashes and releases: what serves the seam has its evidence and *)
(* its person's consent on file, wherever the process died.  At the end, of *)
(* the hosts behind the seam: a request is served by the module it was for. *)
(***************************************************************************)
EXTENDS Modules, SeamAdapter, FiniteSetTheorems, SequenceTheorems, TLAPS

(***************************************************************************)
(* The inductive invariant.  The consent is given on the strength of a      *)
(* report, so a module that awaits its person must have one on file already *)
(* (AwaitsWithEvidence); and the evaluation of one module goes on for       *)
(* minutes while its person decides about others, so it must never write    *)
(* over the state of a module that is promoted (TrialIsCandidate).          *)
(***************************************************************************)
AwaitsWithEvidence ==
  \A m \in Mods : disk.state[m] = "awaiting_approval" => m \in disk.accepted

TrialIsCandidate ==
  /\ trial.awaits = "host" => trial.of \in Mods /\ disk.state[trial.of] = "sandboxed"
  /\ trial.awaits = "suite" => trial.of \in Mods /\ disk.state[trial.of] \in Evaluatable
  /\ trial.awaits = "contract" =>
       /\ trial.of \in Mods /\ disk.state[trial.of] = "evaluated"
       /\ trial.of \in disk.accepted

EvidenceInv == /\ ModTypeOK
               /\ ActiveHasEvidence
               /\ AwaitsWithEvidence
               /\ TrialIsCandidate

-----------------------------------------------------------------------------
(* What a write leaves of the invariant depends on the files and the trial  *)
(* alone: a step that ends in good files and either keeps a good trial or   *)
(* has none left is a good step.                                            *)
Good(d) == /\ d \in Disk
           /\ d.active # Builtin => /\ d.state[d.active] = "promoted"
                                    /\ d.active \in d.accepted \cap d.approved
           /\ \A m \in Mods : d.state[m] = "awaiting_approval" => m \in d.accepted

LEMMA GoodAndQuiet ==
  ASSUME EvidenceInv, Good(disk'), trial' = NoTrial,
         fits' \subseteq Mods, asked' \in [Seekers -> Mods \cup {Builtin}],
         strikes' \in 0 .. Strikes - 1, alive' \in BOOLEAN, frozen' \in BOOLEAN,
         modCrashes' \in 0 .. MaxModCrashes, bumps' \in 0 .. MaxBumps
  PROVE  EvidenceInv'
<1>1. ModTypeOK'
  BY DEF ModTypeOK, Good, NoTrial
<1>2. ActiveHasEvidence' /\ AwaitsWithEvidence'
  BY DEF Good, ActiveHasEvidence, AwaitsWithEvidence
<1>3. TrialIsCandidate'
  BY DEF TrialIsCandidate, NoTrial
<1> QED
  BY <1>1, <1>2, <1>3 DEF EvidenceInv

(* A crash takes the evaluation and the requests with it.                   *)
LEMMA DyingIsGood ==
  ASSUME EvidenceInv, Good(disk'), Dies, UNCHANGED person
  PROVE  EvidenceInv'
<1>1. /\ modCrashes' \in 0 .. MaxModCrashes
      /\ asked' \in [Seekers -> Mods \cup {Builtin}] /\ strikes' \in 0 .. Strikes - 1
  BY ModAssumption DEF Dies, EvidenceInv, ModTypeOK
<1>2. fits' \subseteq Mods /\ frozen' \in BOOLEAN /\ bumps' \in 0 .. MaxBumps
  BY DEF person, EvidenceInv, ModTypeOK
<1> QED
  BY <1>1, <1>2, GoodAndQuiet DEF Dies

LEMMA InvIsGood == EvidenceInv => Good(disk)
BY DEF EvidenceInv, ModTypeOK, ActiveHasEvidence, AwaitsWithEvidence, Good

(* An envelope that is not the active one may be put in any state but the   *)
(* two that mean something to the others.                                   *)
LEMMA SetStateIsGood ==
  ASSUME NEW d, Good(d), NEW m \in Mods, d.active # m,
         NEW s \in ModuleState \ {"awaiting_approval"}
  PROVE  /\ Good(SetState(d, m, s)) /\ SetState(d, m, s).active = d.active
         /\ SetState(d, m, s).accepted = d.accepted /\ SetState(d, m, s).state[m] = s
<1> DEFINE e == SetState(d, m, s)
<1>1. d \in Disk /\ d.state \in [Mods -> ModuleState]
  BY DEF Good, Disk
<1>2. /\ e.state = [d.state EXCEPT ![m] = s]
      /\ e.accepted = d.accepted /\ e.approved = d.approved /\ e.active = d.active
      /\ e.candidates = d.candidates
  BY <1>1 DEF SetState, Disk
<1>3. e \in Disk
  BY <1>1 DEF SetState, Disk
<1> HIDE DEF e
<1>4. \A k \in Mods : k # m => e.state[k] = d.state[k]
  BY <1>1, <1>2
<1>5. e.state[m] = s
  BY <1>1, <1>2
<1>6. d.active \in Mods \cup {Builtin}
  BY <1>1 DEF Disk
<1>7. Good(e)
  <2>1. d.active # Builtin => /\ e.state[d.active] = "promoted"
                              /\ d.active \in d.accepted \cap d.approved
    BY <1>4, <1>6 DEF Good
  <2>2. \A k \in Mods : e.state[k] = "awaiting_approval" => k \in d.accepted
    BY <1>4, <1>5 DEF Good
  <2> QED
    BY <1>2, <1>3, <2>1, <2>2 DEF Good
<1> QED
  BY <1>2, <1>5, <1>7 DEF e

LEMMA InitIsGood == ModInit => EvidenceInv
<1> SUFFICES ASSUME ModInit PROVE EvidenceInv
  OBVIOUS
<1>1. disk \in Disk
  BY DEF ModInit, Disk, ModuleState
<1>2. 0 \in 0 .. Strikes - 1 /\ 0 \in 0 .. MaxModCrashes /\ 0 \in 0 .. MaxBumps
  BY ModAssumption
<1>3. ModTypeOK
  BY <1>1, <1>2 DEF ModInit, ModTypeOK, NoTrial
<1> QED
  BY <1>3 DEF ModInit, EvidenceInv, ActiveHasEvidence, AwaitsWithEvidence, TrialIsCandidate, NoTrial

-----------------------------------------------------------------------------
(* A good step of the running process: the files are good, the trial is     *)
(* none or a candidate, and nothing else of the process moved.              *)
LEMMA GoodStep ==
  ASSUME EvidenceInv, Good(disk'), TrialIsCandidate',
         trial' \in [of : Mods \cup {Builtin}, awaits : {"nothing", "host", "suite", "contract"}],
         UNCHANGED <<asked, strikes, alive, modCrashes>>, UNCHANGED person
  PROVE  EvidenceInv'
<1>1. ModTypeOK'
  BY DEF EvidenceInv, ModTypeOK, Good, person
<1>2. ActiveHasEvidence' /\ AwaitsWithEvidence'
  BY DEF Good, ActiveHasEvidence, AwaitsWithEvidence
<1> QED
  BY <1>1, <1>2 DEF EvidenceInv

(* The state of a module under evaluation may be written by the evaluation. *)
LEMMA CandidateIsNotActive ==
  ASSUME EvidenceInv, NEW m \in Mods, disk.state[m] # "promoted"
  PROVE  disk.active # m
BY ModAssumption DEF EvidenceInv, ActiveHasEvidence

(* compare() begins a suite of a module that is fit for one, or nothing.    *)
LEMMA CompareIsGood ==
  ASSUME NEW m \in Mods, NEW d, Compare(m, d), disk'.state[m] \in Evaluatable
  PROVE  /\ TrialIsCandidate'
         /\ trial' \in [of : Mods \cup {Builtin}, awaits : {"nothing", "host", "suite", "contract"}]
BY DEF Compare, TrialIsCandidate, NoTrial

-----------------------------------------------------------------------------
LEMMA EvaluateIsGood ==
  ASSUME EvidenceInv, NEW m \in Mods, Evaluate(m)
  PROVE  EvidenceInv'
<1> DEFINE minted == SetState(disk, m, "proposed")
<1>0. Good(disk) /\ UNCHANGED person /\ trial = NoTrial
  BY InvIsGood DEF Evaluate
<1>1. \A s \in {"proposed", "sandboxed", "failed"} : s \in ModuleState \ {"awaiting_approval"}
  BY DEF ModuleState
<1>2. CASE disk.state[m] = "none"
  <2>1. disk.active # m
    BY <1>2, CandidateIsNotActive
  <2>2. Good(minted) /\ minted.active = disk.active
    BY <1>0, <1>1, <2>1, SetStateIsGood
  <2>3. /\ Good(SetState(minted, m, "sandboxed"))
        /\ SetState(minted, m, "sandboxed").state[m] = "sandboxed"
        /\ Good(SetState(minted, m, "failed"))
    BY <1>1, <2>1, <2>2, SetStateIsGood
  <2> HIDE DEF minted
  <2>4. \/ Writes(<<minted, SetState(minted, m, "sandboxed")>>,
                  trial' = [of |-> m, awaits |-> "host"] /\ UNCHANGED <<asked, strikes>>)
        \/ Writes(<<minted, SetState(minted, m, "failed")>>, UNCHANGED <<trial, asked, strikes>>)
    BY <1>2 DEF Evaluate, Evaluatable, minted
  <2>5. \/ /\ disk' = SetState(minted, m, "sandboxed")
           /\ trial' = [of |-> m, awaits |-> "host"]
           /\ UNCHANGED <<asked, strikes, alive, modCrashes>>
        \/ /\ disk' = SetState(minted, m, "failed") /\ trial' = trial
           /\ UNCHANGED <<asked, strikes, alive, modCrashes>>
        \/ disk' = minted /\ Dies
    BY <2>4 DEF Writes
  <2> QED
    BY <1>0, <2>2, <2>3, <2>5, GoodStep, DyingIsGood DEF TrialIsCandidate, NoTrial
<1>3. CASE disk.state[m] = "proposed"
  <2>1. disk.active # m
    BY <1>3, CandidateIsNotActive
  <2>2. /\ Good(SetState(disk, m, "sandboxed"))
        /\ SetState(disk, m, "sandboxed").state[m] = "sandboxed"
        /\ Good(SetState(disk, m, "failed"))
    BY <1>0, <1>1, <2>1, SetStateIsGood
  <2>3. /\ \/ disk' = SetState(disk, m, "sandboxed") /\ trial' = [of |-> m, awaits |-> "host"]
           \/ disk' = SetState(disk, m, "failed") /\ trial' = trial
        /\ UNCHANGED <<asked, strikes, alive, modCrashes>>
    BY <1>3 DEF Evaluate, Evaluatable
  <2> QED
    BY <1>0, <2>2, <2>3, GoodStep DEF TrialIsCandidate, NoTrial
<1>4. CASE disk.state[m] = "sandboxed"
  <2>1. disk' = disk /\ trial' = [of |-> m, awaits |-> "host"]
        /\ UNCHANGED <<asked, strikes, alive, modCrashes>>
    BY <1>4 DEF Evaluate, Evaluatable
  <2> QED
    BY <1>0, <1>4, <2>1, GoodStep DEF TrialIsCandidate
<1>5. CASE disk.state[m] \in Evaluatable
  <2>1. disk' = disk /\ Compare(m, disk) /\ UNCHANGED <<asked, strikes, alive, modCrashes>>
    BY <1>5 DEF Evaluate, Evaluatable
  <2> QED
    BY <1>0, <1>5, <2>1, CompareIsGood, GoodStep
<1> QED
  BY <1>2, <1>3, <1>4, <1>5 DEF Evaluate

(* The host's word comes minutes later: the module is still sandboxed.      *)
LEMMA HostSaidIsGood == EvidenceInv /\ HostSaid => EvidenceInv'
<1> SUFFICES ASSUME EvidenceInv, HostSaid PROVE EvidenceInv'
  OBVIOUS
<1> DEFINE m == trial.of
<1>1. m \in Mods /\ disk.state[m] = "sandboxed"
  BY DEF HostSaid, EvidenceInv, TrialIsCandidate
<1>2. disk.active # m
  BY <1>1, CandidateIsNotActive
<1>3. /\ Good(SetState(disk, m, "built")) /\ SetState(disk, m, "built").state[m] = "built"
      /\ Good(SetState(disk, m, "failed"))
  BY <1>1, <1>2, InvIsGood, SetStateIsGood DEF ModuleState
<1>4. UNCHANGED <<asked, strikes, alive, modCrashes>> /\ UNCHANGED person
  BY DEF HostSaid
<1>5. CASE disk' = SetState(disk, m, "built") /\ Compare(m, disk)
  BY <1>1, <1>3, <1>4, <1>5, CompareIsGood, GoodStep DEF Evaluatable
<1>6. CASE Good(disk') /\ trial' = NoTrial
  BY <1>4, <1>6, GoodStep DEF TrialIsCandidate, NoTrial
<1>7. \/ disk' = SetState(disk, m, "built") /\ (Compare(m, disk) \/ trial' = NoTrial)
      \/ disk' = SetState(disk, m, "failed") /\ trial' = NoTrial
  BY DEF HostSaid
<1> QED
  BY <1>3, <1>5, <1>6, <1>7

LEMMA FailsIsGood ==
  ASSUME EvidenceInv, NEW m \in Mods, disk.state[m] # "promoted", Fails(m), UNCHANGED person
  PROVE  EvidenceInv'
<1>1. Good(disk')
  BY InvIsGood, CandidateIsNotActive, SetStateIsGood DEF Fails, ModuleState
<1> QED
  BY <1>1, GoodStep DEF Fails, TrialIsCandidate, NoTrial

(* The report is filed before the state says so.                            *)
LEMMA SuiteEndedIsGood == EvidenceInv /\ SuiteEnded => EvidenceInv'
<1> SUFFICES ASSUME EvidenceInv, SuiteEnded PROVE EvidenceInv'
  OBVIOUS
<1> DEFINE m == trial.of
           reported == [disk EXCEPT !.accepted = @ \cup {m}]
<1>1. m \in Mods /\ disk.state[m] \in Evaluatable /\ UNCHANGED person
  BY DEF SuiteEnded, EvidenceInv, TrialIsCandidate
<1>2. disk.state[m] # "promoted" /\ disk.active # m
  BY <1>1, CandidateIsNotActive DEF Evaluatable
<1>3. Good(reported) /\ reported.active = disk.active /\ m \in reported.accepted
  BY <1>1, InvIsGood DEF Good, Disk
<1>4. \/ Fails(m)
      \/ Writes(<<reported, SetState(reported, m, "evaluated")>>,
                trial' = [trial EXCEPT !.awaits = "contract"] /\ UNCHANGED <<asked, strikes>>)
  BY DEF SuiteEnded
<1> HIDE DEF reported
<1>5. LET d == SetState(reported, m, "evaluated")
      IN Good(d) /\ d.state[m] = "evaluated" /\ d.accepted = reported.accepted
  <2>1. "evaluated" \in ModuleState \ {"awaiting_approval"} /\ reported.active # m
    BY <1>2, <1>3 DEF ModuleState
  <2> QED
    BY <1>1, <1>3, <2>1, SetStateIsGood
<1>6. CASE disk' = reported /\ Dies
  BY <1>1, <1>3, <1>6, DyingIsGood
<1>7. CASE /\ disk' = SetState(reported, m, "evaluated")
           /\ trial' = [trial EXCEPT !.awaits = "contract"]
           /\ UNCHANGED <<asked, strikes, alive, modCrashes>>
  <2>1. /\ trial' \in [of : Mods \cup {Builtin}, awaits : {"nothing", "host", "suite", "contract"}]
        /\ trial'.of = m /\ trial'.awaits = "contract"
    BY <1>7 DEF EvidenceInv, ModTypeOK
  <2> QED
    BY <1>1, <1>3, <1>5, <1>7, <2>1, GoodStep DEF TrialIsCandidate
<1>8. CASE Fails(m)
  BY <1>1, <1>2, <1>8, FailsIsGood
<1> QED
  BY <1>4, <1>6, <1>7, <1>8 DEF Writes

LEMMA ContractDecidedIsGood == EvidenceInv /\ ContractDecided => EvidenceInv'
<1> SUFFICES ASSUME EvidenceInv, ContractDecided PROVE EvidenceInv'
  OBVIOUS
<1> DEFINE m == trial.of
           listed == [disk EXCEPT !.candidates = @ \cup {m}]
           d == SetState(listed, m, "awaiting_approval")
<1>1. m \in Mods /\ disk.state[m] = "evaluated" /\ m \in disk.accepted /\ UNCHANGED person
  BY DEF ContractDecided, EvidenceInv, TrialIsCandidate
<1>2. disk.active # m
  BY <1>1, CandidateIsNotActive
<1>3. Good(listed) /\ listed.active = disk.active /\ listed.accepted = disk.accepted
  BY <1>1, InvIsGood DEF Good, Disk
<1>4. \/ Fails(m)
      \/ Writes(<<listed, d>>, trial' = NoTrial /\ UNCHANGED <<asked, strikes>>)
  BY DEF ContractDecided
<1> HIDE DEF listed
<1>5. Good(d)
  <2>1. listed \in Disk /\ listed.state \in [Mods -> ModuleState]
    BY <1>3 DEF Good, Disk
  <2>2. /\ d.state = [listed.state EXCEPT ![m] = "awaiting_approval"]
        /\ d.accepted = listed.accepted /\ d.approved = listed.approved
        /\ d.active = listed.active
    BY <2>1 DEF SetState, Disk
  <2>3. d \in Disk
    BY <1>1, <2>1 DEF SetState, Disk, ModuleState
  <2> HIDE DEF d
  <2>4. \A k \in Mods : k # m => d.state[k] = listed.state[k]
    BY <2>1, <2>2
  <2>5. listed.active \in Mods \cup {Builtin}
    BY <2>1 DEF Disk
  <2>6. \A k \in Mods : d.state[k] = "awaiting_approval" => k \in d.accepted
    BY <1>1, <1>3, <2>2, <2>4 DEF Good
  <2>7. d.active # Builtin => d.state[d.active] = "promoted" /\ d.active \in d.accepted \cap d.approved
    BY <1>2, <1>3, <2>2, <2>4, <2>5 DEF Good
  <2> QED
    BY <2>3, <2>6, <2>7 DEF Good
<1> HIDE DEF d
<1>6. CASE disk' = listed /\ Dies
  BY <1>1, <1>3, <1>6, DyingIsGood
<1>7. CASE disk' = d /\ trial' = NoTrial /\ UNCHANGED <<asked, strikes, alive, modCrashes>>
  BY <1>1, <1>5, <1>7, GoodStep DEF TrialIsCandidate, NoTrial
<1>8. CASE Fails(m)
  BY <1>1, <1>8, FailsIsGood
<1> QED
  BY <1>4, <1>6, <1>7, <1>8 DEF Writes

-----------------------------------------------------------------------------
(* A decision of the person leaves the evaluation alone: what it writes is  *)
(* the state of a module that awaits or serves, and such a module is not    *)
(* under evaluation.                                                        *)
LEMMA TrialIsLeftAlone ==
  ASSUME EvidenceInv, NEW m \in Mods, disk.state[m] \in {"awaiting_approval", "promoted"},
         \A k \in Mods : k # m => disk'.state[k] = disk.state[k],
         disk.accepted \subseteq disk'.accepted, UNCHANGED trial
  PROVE  /\ TrialIsCandidate'
         /\ trial' \in [of : Mods \cup {Builtin}, awaits : {"nothing", "host", "suite", "contract"}]
<1>1. trial.awaits \in {"host", "suite", "contract"} => trial.of # m
  BY DEF EvidenceInv, TrialIsCandidate, Evaluatable
<1> QED
  BY <1>1 DEF EvidenceInv, ModTypeOK, TrialIsCandidate

(* Repointing the seam and taking a candidate off its list.                 *)
LEMMA RepointedIsGood ==
  ASSUME NEW d, Good(d),
         NEW to \in Mods \cup {Builtin},
         to # Builtin => d.state[to] = "promoted" /\ to \in d.accepted \cap d.approved
  PROVE  /\ Good(Repointed(d, to)) /\ Repointed(d, to).active = to
         /\ Repointed(d, to).state = d.state /\ Repointed(d, to).accepted = d.accepted
BY DEF Good, Disk, Repointed

LEMMA UnlistedIsGood ==
  ASSUME NEW d, Good(d), NEW m
  PROVE  /\ Good(Unlisted(d, m)) /\ Unlisted(d, m).active = d.active
         /\ Unlisted(d, m).state = d.state /\ Unlisted(d, m).accepted = d.accepted
BY DEF Good, Disk, Unlisted

(* approve(): stamped, repointed, unlisted.                                 *)
LEMMA ApproveIsGood ==
  ASSUME EvidenceInv, NEW m \in Mods, Approve(m)
  PROVE  EvidenceInv'
<1> DEFINE stamped  == [SetState(disk, m, "promoted") EXCEPT !.approved = @ \cup {m}]
           moved    == Repointed(stamped, m)
           unlisted == Unlisted(moved, m)
<1>1. /\ disk.state[m] = "awaiting_approval" /\ UNCHANGED person
      /\ Writes(<<stamped, moved, unlisted>>, UNCHANGED <<trial, asked, strikes>>)
  BY DEF Approve, ApprovalWrites
<1>2. disk \in Disk /\ m \in disk.accepted /\ disk.active # m /\ Good(disk)
  BY <1>1, CandidateIsNotActive, InvIsGood DEF EvidenceInv, ModTypeOK, AwaitsWithEvidence
<1>3. /\ Good(SetState(disk, m, "promoted")) /\ SetState(disk, m, "promoted").state[m] = "promoted"
      /\ SetState(disk, m, "promoted").accepted = disk.accepted
      /\ \A k \in Mods : k # m => SetState(disk, m, "promoted").state[k] = disk.state[k]
  <2>1. "promoted" \in ModuleState \ {"awaiting_approval"}
    BY DEF ModuleState
  <2>2. \A k \in Mods : k # m => SetState(disk, m, "promoted").state[k] = disk.state[k]
    BY <1>2 DEF SetState, Disk
  <2> QED
    BY <1>2, <2>1, <2>2, SetStateIsGood
<1>4. /\ Good(stamped) /\ stamped.state = SetState(disk, m, "promoted").state
      /\ stamped.accepted = disk.accepted /\ m \in stamped.approved
  BY <1>3 DEF Good, Disk
<1> HIDE DEF stamped
<1>5. /\ Good(moved) /\ moved.state = stamped.state /\ moved.accepted = disk.accepted
  BY <1>2, <1>3, <1>4, RepointedIsGood
<1> HIDE DEF moved
<1>6. Good(unlisted) /\ unlisted.state = stamped.state /\ unlisted.accepted = disk.accepted
  BY <1>5, UnlistedIsGood
<1> HIDE DEF unlisted
<1>7. \/ (disk' = stamped \/ disk' = moved) /\ Dies
      \/ disk' = unlisted /\ UNCHANGED <<trial, asked, strikes, alive, modCrashes>>
  BY <1>1 DEF Writes
<1>8. CASE Dies /\ Good(disk')
  BY <1>1, <1>8, DyingIsGood
<1>9. CASE disk' = unlisted /\ UNCHANGED <<trial, asked, strikes, alive, modCrashes>>
  <2>1. /\ TrialIsCandidate'
        /\ trial' \in [of : Mods \cup {Builtin}, awaits : {"nothing", "host", "suite", "contract"}]
    BY <1>1, <1>3, <1>4, <1>6, <1>9, TrialIsLeftAlone
  <2> QED
    BY <1>1, <1>6, <1>9, <2>1, GoodStep
<1> QED
  BY <1>4, <1>5, <1>7, <1>8, <1>9

LEMMA RejectIsGood ==
  ASSUME EvidenceInv, NEW m \in Mods, Reject(m)
  PROVE  EvidenceInv'
<1> DEFINE unlisted == IF m \in fits THEN Unlisted(disk, m) ELSE disk
           rejected == SetState(unlisted, m, "rejected")
<1>1. /\ disk.state[m] = "awaiting_approval" /\ UNCHANGED person
      /\ Writes(<<unlisted, rejected>>, UNCHANGED <<trial, asked, strikes>>)
  BY DEF Reject
<1>2. disk.active # m /\ Good(disk)
  BY <1>1, CandidateIsNotActive, InvIsGood
<1>3. /\ Good(unlisted) /\ unlisted.active = disk.active
      /\ unlisted.state = disk.state /\ unlisted.accepted = disk.accepted
  BY <1>2, UnlistedIsGood
<1> HIDE DEF unlisted
<1>4. /\ Good(rejected) /\ rejected.accepted = disk.accepted
      /\ \A k \in Mods : k # m => rejected.state[k] = disk.state[k]
  <2>1. "rejected" \in ModuleState \ {"awaiting_approval"} /\ unlisted.active # m
    BY <1>2, <1>3 DEF ModuleState
  <2>2. \A k \in Mods : k # m => rejected.state[k] = unlisted.state[k]
    BY <1>3 DEF SetState, Disk, Good
  <2> QED
    BY <1>3, <2>1, <2>2, SetStateIsGood
<1> HIDE DEF rejected
<1>5. \/ disk' = unlisted /\ Dies
      \/ disk' = rejected /\ UNCHANGED <<trial, asked, strikes, alive, modCrashes>>
  BY <1>1 DEF Writes
<1>6. CASE disk' = unlisted /\ Dies
  BY <1>1, <1>3, <1>6, DyingIsGood
<1>7. CASE disk' = rejected /\ UNCHANGED <<trial, asked, strikes, alive, modCrashes>>
  <2>1. /\ TrialIsCandidate'
        /\ trial' \in [of : Mods \cup {Builtin}, awaits : {"nothing", "host", "suite", "contract"}]
    BY <1>1, <1>4, <1>7, TrialIsLeftAlone
  <2> QED
    BY <1>1, <1>4, <1>7, <2>1, GoodStep
<1> QED
  BY <1>5, <1>6, <1>7

LEMMA DemoteIsGood == EvidenceInv /\ Demote => EvidenceInv'
<1> SUFFICES ASSUME EvidenceInv, Demote PROVE EvidenceInv'
  OBVIOUS
<1> DEFINE m       == disk.active
           back    == Repointed(disk, Builtin)
           retired == SetState(back, m, "retired")
<1>1. /\ disk.active # Builtin /\ UNCHANGED person
      /\ Writes(<<back, retired>>, UNCHANGED <<trial, asked, strikes>>)
  BY DEF Demote
<1>2. m \in Mods /\ disk.state[m] = "promoted" /\ Good(disk)
  BY <1>1, InvIsGood DEF EvidenceInv, ActiveHasEvidence, ModTypeOK, Disk
<1>3. /\ Good(back) /\ back.active = Builtin /\ back.state = disk.state
      /\ back.accepted = disk.accepted
  BY <1>2, RepointedIsGood
<1> HIDE DEF back, m
<1>4. /\ Good(retired) /\ retired.accepted = disk.accepted
      /\ \A k \in Mods : k # m => retired.state[k] = disk.state[k]
  <2>1. "retired" \in ModuleState \ {"awaiting_approval"} /\ back.active # m
    BY <1>2, <1>3, ModAssumption DEF ModuleState
  <2>2. \A k \in Mods : k # m => retired.state[k] = back.state[k]
    BY <1>3 DEF SetState, Disk, Good
  <2> QED
    BY <1>2, <1>3, <2>1, <2>2, SetStateIsGood
<1> HIDE DEF retired
<1>5. \/ disk' = back /\ Dies
      \/ disk' = retired /\ UNCHANGED <<trial, asked, strikes, alive, modCrashes>>
  BY <1>1 DEF Writes
<1>6. CASE disk' = back /\ Dies
  BY <1>1, <1>3, <1>6, DyingIsGood
<1>7. CASE disk' = retired /\ UNCHANGED <<trial, asked, strikes, alive, modCrashes>>
  <2>1. /\ TrialIsCandidate'
        /\ trial' \in [of : Mods \cup {Builtin}, awaits : {"nothing", "host", "suite", "contract"}]
    BY <1>2, <1>4, <1>7, TrialIsLeftAlone
  <2> QED
    BY <1>1, <1>4, <1>7, <2>1, GoodStep
<1> QED
  BY <1>5, <1>6, <1>7

-----------------------------------------------------------------------------
(* Requests and the watchdog touch no envelope: at most they put the builtin *)
(* back.                                                                    *)
LEMMA EnvelopesStay ==
  ASSUME EvidenceInv, disk' = disk \/ disk' = Repointed(disk, Builtin), UNCHANGED trial
  PROVE  ActiveHasEvidence' /\ AwaitsWithEvidence' /\ TrialIsCandidate' /\ disk' \in Disk
<1>1. Good(disk)
  BY InvIsGood
<1>2. Good(disk') /\ disk'.state = disk.state /\ disk'.accepted = disk.accepted
  BY <1>1, RepointedIsGood
<1> QED
  BY <1>2 DEF EvidenceInv, Good, ActiveHasEvidence, AwaitsWithEvidence, TrialIsCandidate

LEMMA RequestsAreGood ==
  ASSUME EvidenceInv, NEW s \in Seekers, Ask(s) \/ Answered(s) \/ Struck(s)
  PROVE  EvidenceInv'
<1>1. /\ disk' = disk \/ disk' = Repointed(disk, Builtin)
      /\ UNCHANGED trial /\ UNCHANGED person /\ UNCHANGED <<alive, modCrashes>>
  BY DEF Ask, Answered, Struck
<1>2. asked' \in [Seekers -> Mods \cup {Builtin}]
  BY DEF Ask, Answered, Struck, EvidenceInv, ModTypeOK, Disk
<1>3. strikes' \in 0 .. Strikes - 1
  BY ModAssumption DEF Ask, Answered, Struck, EvidenceInv, ModTypeOK
<1>4. ActiveHasEvidence' /\ AwaitsWithEvidence' /\ TrialIsCandidate' /\ disk' \in Disk
  BY <1>1, EnvelopesStay
<1> QED
  BY <1>1, <1>2, <1>3, <1>4 DEF EvidenceInv, ModTypeOK, person

LEMMA RebootIsGood == EvidenceInv /\ Reboot => EvidenceInv'
<1> SUFFICES ASSUME EvidenceInv, Reboot PROVE EvidenceInv'
  OBVIOUS
<1>1. /\ disk' = disk \/ disk' = Repointed(disk, Builtin)
      /\ UNCHANGED trial /\ alive' = TRUE /\ UNCHANGED <<asked, strikes, modCrashes, frozen>>
  BY DEF Reboot
<1>2. fits' \subseteq Mods /\ bumps' \in 0 .. MaxBumps
  BY ModAssumption DEF Reboot, EvidenceInv, ModTypeOK
<1>3. ActiveHasEvidence' /\ AwaitsWithEvidence' /\ TrialIsCandidate' /\ disk' \in Disk
  BY <1>1, EnvelopesStay
<1> QED
  BY <1>1, <1>2, <1>3 DEF EvidenceInv, ModTypeOK

LEMMA NextIsGood == EvidenceInv /\ [ModNext]_modVars => EvidenceInv'
<1> SUFFICES ASSUME EvidenceInv, [ModNext]_modVars PROVE EvidenceInv'
  OBVIOUS
<1>1. ASSUME NEW m \in Mods, Evaluate(m) \/ Approve(m) \/ Reject(m) PROVE EvidenceInv'
  BY <1>1, EvaluateIsGood, ApproveIsGood, RejectIsGood
<1>2. CASE HostSaid \/ SuiteEnded \/ ContractDecided \/ Demote
  BY <1>2, HostSaidIsGood, SuiteEndedIsGood, ContractDecidedIsGood, DemoteIsGood
<1>3. ASSUME NEW s \in Seekers, Ask(s) \/ Answered(s) \/ Struck(s) PROVE EvidenceInv'
  BY <1>3, RequestsAreGood
<1>4. CASE Freeze
  BY <1>4 DEF Freeze, EvidenceInv, ModTypeOK, ActiveHasEvidence, AwaitsWithEvidence,
              TrialIsCandidate
<1>5. CASE StrikeAges
  <2>1. strikes' \in 0 .. Strikes - 1
    BY <1>5, ModAssumption DEF StrikeAges, EvidenceInv, ModTypeOK
  <2> QED
    BY <1>5, <2>1 DEF StrikeAges, person, EvidenceInv, ModTypeOK, ActiveHasEvidence,
                      AwaitsWithEvidence, TrialIsCandidate
<1>6. CASE ModCrash
  BY <1>6, InvIsGood, DyingIsGood DEF ModCrash
<1>7. CASE Reboot
  BY <1>7, RebootIsGood
<1>8. CASE UNCHANGED modVars
  BY <1>8 DEF modVars, EvidenceInv, ModTypeOK, ActiveHasEvidence, AwaitsWithEvidence,
              TrialIsCandidate
<1> QED
  BY <1>1, <1>2, <1>3, <1>4, <1>5, <1>6, <1>7, <1>8 DEF ModNext

-----------------------------------------------------------------------------
(* The files, the evaluation and the watchdog keep their types.             *)
THEOREM ModulesType == ModSpec => []ModTypeOK
<1>1. EvidenceInv => ModTypeOK
  BY DEF EvidenceInv
<1> QED
  BY <1>1, InitIsGood, NextIsGood, PTL DEF ModSpec

(* "No approval record, no promotion" (ModuleLifecycle.approve): whatever   *)
(* serves the seam was accepted by its evaluation and approved by its       *)
(* person, though the process may die between any two files.                *)
THEOREM ConsentBeforeService == ModSpec => []ActiveHasEvidence
<1>1. EvidenceInv => ActiveHasEvidence
  BY DEF EvidenceInv
<1> QED
  BY <1>1, InitIsGood, NextIsGood, PTL DEF ModSpec

-----------------------------------------------------------------------------
(***************************************************************************)
(* The hosts of a seam.  That a request is served by the module it resolved *)
(* rests on what its place in a queue says: a request waits behind the      *)
(* spawn it names and once only, so that the spawns started when that spawn *)
(* resolves are each of the module of the request that takes them; and the  *)
(* numbers of the spawns left cover all who wait (RoomForAll).              *)
(***************************************************************************)
SeamRow == [stage : {"idle", "behind", "joined", "sent"}, of : SeamMods \cup {NoModule},
            spawn : Numbers]

HostsAreSpawned ==
  /\ spawns \in Seq(SeamMods) /\ active \in SeamMods \cup {NoModule}
  /\ opening \subseteq 1 .. Len(spawns) /\ running \subseteq 1 .. Len(spawns)
  /\ spawning \in 0 .. Len(spawns)
  /\ ask \in [Askers -> SeamRow] /\ behind \in [1 .. MaxSpawns -> Seq(Askers)]

QueuesAreSound ==
  /\ \A n \in 1 .. MaxSpawns :
       /\ \A i \in 1 .. Len(behind[n]) : Behind(behind[n][i], n)
       /\ \A i, k \in 1 .. Len(behind[n]) : behind[n][i] = behind[n][k] => i = k
  /\ \A s \in Askers : ask[s].stage = "behind" =>
       /\ ask[s].spawn \in 1 .. MaxSpawns /\ ask[s].of \in SeamMods
       /\ \E i \in 1 .. Len(behind[ask[s].spawn]) : behind[ask[s].spawn][i] = s

Waiters == {s \in Askers : ask[s].stage = "behind"}

RoomForAll == IsFiniteSet(Waiters) /\ Len(spawns) + Cardinality(Waiters) <= MaxSpawns

SpawnsExist == \A s \in Askers : ask[s].stage \in {"joined", "sent"} => ask[s].spawn \in 1 .. Len(spawns)

SeamInv == HostsAreSpawned /\ QueuesAreSound /\ RoomForAll /\ SpawnsExist /\ ServedByItsModule

LEMMA SeamInvInit == SeamInit => SeamInv
<1> SUFFICES ASSUME SeamInit PROVE SeamInv
  OBVIOUS
<1>1. NoAsk \in SeamRow /\ NoAsk.stage = "idle"
  BY SeamAssumption DEF NoAsk, SeamRow, Numbers
<1>2. \A s \in Askers : ask[s].stage = "idle"
  BY <1>1 DEF SeamInit
<1>3. Waiters = {}
  BY <1>2 DEF Waiters
<1>4. spawns = <<>> /\ Len(spawns) = 0
  BY DEF SeamInit
<1>5. HostsAreSpawned
  BY <1>1, <1>4 DEF SeamInit, HostsAreSpawned
<1>6. QueuesAreSound
  BY <1>2 DEF SeamInit, QueuesAreSound
<1>7. RoomForAll
  BY <1>3, <1>4, FS_EmptySet, SeamAssumption DEF RoomForAll
<1> QED
  BY <1>2, <1>5, <1>6, <1>7 DEF SeamInv, SpawnsExist, ServedByItsModule

LEMMA RoomIs ==
  ASSUME SeamInv
  PROVE  /\ Len(spawns) \in Nat /\ Cardinality(Waiters) \in Nat /\ MaxSpawns \in Nat
         /\ Len(spawns) + Cardinality(Waiters) <= MaxSpawns /\ Len(spawns) <= MaxSpawns
<1>1. Len(spawns) \in Nat /\ Cardinality(Waiters) \in Nat
  BY FS_CardinalityType DEF SeamInv, HostsAreSpawned, RoomForAll
<1>2. Len(spawns) + Cardinality(Waiters) <= MaxSpawns
  BY DEF SeamInv, RoomForAll
<1> QED
  BY <1>1, <1>2, SeamAssumption

(* Where nobody joins or leaves a queue and no spawn begins, only what is   *)
(* asked may go wrong.                                                      *)
LEMMA NobodyQueues ==
  ASSUME SeamInv, UNCHANGED <<spawns, behind>>, active' \in SeamMods \cup {NoModule},
         opening' \subseteq 1 .. Len(spawns), running' \subseteq 1 .. Len(spawns),
         spawning' \in 0 .. Len(spawns), ask' \in [Askers -> SeamRow],
         \A s \in Askers :
           \/ ask'[s] = ask[s]
           \/ /\ ask[s].stage # "behind" /\ ask'[s].stage # "behind"
              /\ ask'[s].stage \in {"joined", "sent"} =>
                   /\ ask'[s].spawn \in 1 .. Len(spawns)
                   /\ spawns[ask'[s].spawn] = ask'[s].of
  PROVE  SeamInv'
<1>1. HostsAreSpawned'
  BY DEF SeamInv, HostsAreSpawned
<1>2. \A s \in Askers : ask[s].stage = "behind" \/ ask'[s].stage = "behind" => ask'[s] = ask[s]
  OBVIOUS
<1>3. QueuesAreSound'
  <2>1. \A n \in 1 .. MaxSpawns : \A i \in 1 .. Len(behind[n]) :
          /\ behind[n][i] \in Askers /\ Behind(behind[n][i], n)
    BY DEF SeamInv, HostsAreSpawned, QueuesAreSound
  <2>2. \A n \in 1 .. MaxSpawns : \A i \in 1 .. Len(behind[n]) : Behind(behind[n][i], n)'
    BY <1>2, <2>1 DEF Behind
  <2> QED BY <1>2, <2>2 DEF SeamInv, QueuesAreSound
<1>4. Waiters' = Waiters
  BY <1>2 DEF Waiters
<1>5. RoomForAll'
  BY <1>4 DEF SeamInv, RoomForAll
<1>6. SpawnsExist' /\ ServedByItsModule'
  BY DEF SeamInv, SpawnsExist, ServedByItsModule
<1> QED
  BY <1>1, <1>3, <1>5, <1>6 DEF SeamInv

LEMMA InvokeIsServed ==
  ASSUME SeamInv, NEW s \in Askers, Invoke(s)
  PROVE  SeamInv'
<1>1. /\ ask[s].stage = "idle" /\ active' = active /\ active \in SeamMods \cup {NoModule}
      /\ ask \in [Askers -> SeamRow] /\ spawns \in Seq(SeamMods)
      /\ opening \subseteq 1 .. Len(spawns) /\ running \subseteq 1 .. Len(spawns)
      /\ spawning \in 0 .. Len(spawns) /\ behind \in [1 .. MaxSpawns -> Seq(Askers)]
  BY DEF Invoke, SeamInv, HostsAreSpawned
<1>2. /\ Len(spawns) \in Nat /\ Cardinality(Waiters) \in Nat /\ MaxSpawns \in Nat
      /\ Len(spawns) + Cardinality(Waiters) < MaxSpawns /\ Len(spawns) + 1 <= MaxSpawns
  <2>1. Len(spawns) + Cardinality(Waiters) < MaxSpawns
    BY DEF Invoke, Room, Waiters
  <2> QED BY <2>1, RoomIs
<1>3. running' \subseteq 1 .. Len(spawns)
  BY <1>1 DEF Invoke, StopsHost
<1>4. CASE active = NoModule
  BY <1>1, <1>3, <1>4, NobodyQueues DEF Invoke
<1>5. ASSUME active # NoModule, NEW n \in 1 .. Len(spawns), NEW stage \in {"joined", "sent"},
             spawns[n] = active, UNCHANGED <<spawns, opening, spawning, behind>>,
             ask' = [ask EXCEPT ![s] = [stage |-> stage, of |-> active, spawn |-> n]]
      PROVE  SeamInv'
  <2>1. n \in Numbers
    BY <1>2 DEF Numbers
  <2>2. [stage |-> stage, of |-> active, spawn |-> n] \in SeamRow
    BY <1>1, <2>1 DEF SeamRow
  <2>3. ask' \in [Askers -> SeamRow]
    BY <1>1, <1>5, <2>2
  <2> QED BY <1>1, <1>3, <1>5, <2>3, NobodyQueues
<1>6. CASE /\ Serves(active) /\ active # NoModule
           /\ ask' = [ask EXCEPT ![s] = [stage |-> "sent", of |-> active, spawn |-> host]]
           /\ UNCHANGED <<spawns, opening, running, host, spawning, behind>>
  BY <1>1, <1>5, <1>6 DEF Serves
<1>7. CASE /\ Joins(active) /\ active # NoModule
           /\ ask' = [ask EXCEPT ![s] = [stage |-> "joined", of |-> active, spawn |-> spawning]]
           /\ UNCHANGED <<spawns, opening, spawning, behind>>
  <2>1. spawning \in 1 .. Len(spawns) /\ spawns[spawning] = active
    BY <1>1, <1>7 DEF Joins
  <2> QED BY <1>5, <1>7, <2>1
<1>8. CASE /\ spawning # 0 /\ active # NoModule
           /\ ask' = [ask EXCEPT ![s] = [stage |-> "behind", of |-> active, spawn |-> spawning]]
           /\ behind' = [behind EXCEPT ![spawning] = Append(@, s)]
           /\ UNCHANGED <<spawns, opening, spawning>>
  <2> DEFINE q == behind[spawning]
             new == [stage |-> "behind", of |-> active, spawn |-> spawning]
  <2>1. /\ spawning \in 1 .. MaxSpawns /\ spawning \in Numbers /\ active \in SeamMods
        /\ q \in Seq(Askers) /\ new \in SeamRow
    BY <1>1, <1>2, <1>8 DEF Numbers, SeamRow
  <2>2. /\ ask'[s] = new /\ ask' \in [Askers -> SeamRow]
        /\ \A t \in Askers \ {s} : ask'[t] = ask[t]
    BY <1>1, <1>8, <2>1
  <2>3. /\ behind' \in [1 .. MaxSpawns -> Seq(Askers)] /\ behind'[spawning] = Append(q, s)
        /\ \A n \in 1 .. MaxSpawns \ {spawning} : behind'[n] = behind[n]
    BY <1>1, <1>8, <2>1
  <2>4. /\ Len(Append(q, s)) = Len(q) + 1 /\ Append(q, s)[Len(q) + 1] = s /\ Len(q) \in Nat
        /\ \A i \in 1 .. Len(q) : Append(q, s)[i] = q[i]
    BY <2>1
  <2>5. \A n \in 1 .. MaxSpawns : \A i \in 1 .. Len(behind[n]) :
          behind[n][i] \in Askers /\ behind[n][i] # s /\ Behind(behind[n][i], n)
    BY <1>1 DEF SeamInv, HostsAreSpawned, QueuesAreSound, Behind
  <2>6. HostsAreSpawned'
    BY <1>1, <1>3, <1>8, <2>2, <2>3 DEF HostsAreSpawned
  <2>7. QueuesAreSound'
    <3>1. ASSUME NEW n \in 1 .. MaxSpawns, NEW i \in 1 .. Len(behind'[n])
          PROVE  \/ behind'[n][i] = s /\ n = spawning
                 \/ i \in 1 .. Len(behind[n]) /\ behind'[n][i] = behind[n][i]
      <4>1. CASE n # spawning
        BY <2>3, <4>1
      <4>2. CASE n = spawning /\ i \in 1 .. Len(q)
        BY <2>3, <2>4, <4>2
      <4>3. CASE n = spawning /\ i \notin 1 .. Len(q)
        <5>1. i = Len(q) + 1
          BY <2>3, <2>4, <4>3
        <5> QED BY <2>3, <2>4, <4>3, <5>1
      <4> QED BY <4>1, <4>2, <4>3
    <3>2. ASSUME NEW n \in 1 .. MaxSpawns, NEW i \in 1 .. Len(behind'[n])
          PROVE  ask'[behind'[n][i]].stage = "behind" /\ ask'[behind'[n][i]].spawn = n
      <4>1. CASE behind'[n][i] = s /\ n = spawning
        BY <2>2, <4>1
      <4>2. CASE i \in 1 .. Len(behind[n]) /\ behind'[n][i] = behind[n][i]
        BY <2>2, <2>5, <4>2 DEF Behind
      <4> QED BY <3>1, <4>1, <4>2
    <3>3. \A n \in 1 .. MaxSpawns : \A i, k \in 1 .. Len(behind'[n]) :
            behind'[n][i] = behind'[n][k] => i = k
      <4> SUFFICES ASSUME NEW n \in 1 .. MaxSpawns, NEW i \in 1 .. Len(behind'[n]),
                          NEW k \in 1 .. Len(behind'[n]), behind'[n][i] = behind'[n][k]
                   PROVE  i = k
        OBVIOUS
      <4>1. CASE n # spawning
        BY <2>3, <4>1 DEF SeamInv, QueuesAreSound
      <4>2. CASE n = spawning
        <5>1. /\ i \in 1 .. Len(q) \/ i = Len(q) + 1
              /\ k \in 1 .. Len(q) \/ k = Len(q) + 1
          BY <2>3, <2>4, <4>2
        <5>2. \A h \in 1 .. Len(q) : behind'[n][h] = q[h] /\ q[h] # s
          BY <2>1, <2>3, <2>4, <2>5, <4>2
        <5>3. behind'[n][Len(q) + 1] = s
          BY <2>3, <2>4, <4>2
        <5> QED BY <2>1, <5>1, <5>2, <5>3, SMTT(20) DEF SeamInv, QueuesAreSound
      <4> QED BY <4>1, <4>2
    <3>4. ASSUME NEW t \in Askers, ask'[t].stage = "behind"
          PROVE  /\ ask'[t].spawn \in 1 .. MaxSpawns /\ ask'[t].of \in SeamMods
                 /\ \E i \in 1 .. Len(behind'[ask'[t].spawn]) : behind'[ask'[t].spawn][i] = t
      <4>1. CASE t = s
        BY <2>1, <2>2, <2>3, <2>4, <4>1
      <4>2. CASE t # s
        <5>1. /\ ask'[t] = ask[t] /\ ask[t].spawn \in 1 .. MaxSpawns /\ ask[t].of \in SeamMods
          BY <2>2, <3>4, <4>2 DEF SeamInv, QueuesAreSound
        <5>2. PICK i \in 1 .. Len(behind[ask[t].spawn]) : behind[ask[t].spawn][i] = t
          BY <3>4, <5>1 DEF SeamInv, QueuesAreSound
        <5>3. i \in 1 .. Len(behind'[ask[t].spawn]) /\ behind'[ask[t].spawn][i] = t
          BY <2>3, <2>4, <5>1, <5>2, SMTT(20)
        <5> QED BY <5>1, <5>3
      <4> QED BY <4>1, <4>2
    <3> QED BY <3>2, <3>3, <3>4 DEF QueuesAreSound, Behind
  <2>8. RoomForAll'
    <3>1. Waiters' = Waiters \cup {s}
      BY <2>2 DEF Waiters
    <3>2. s \notin Waiters /\ IsFiniteSet(Waiters)
      BY <1>1 DEF Waiters, SeamInv, RoomForAll
    <3>3. IsFiniteSet(Waiters') /\ Cardinality(Waiters') = Cardinality(Waiters) + 1
      BY <3>1, <3>2, FS_AddElement
    <3> QED BY <1>2, <1>8, <3>3 DEF RoomForAll
  <2>9. SpawnsExist' /\ ServedByItsModule'
    BY <1>8, <2>2 DEF SeamInv, SpawnsExist, ServedByItsModule
  <2> QED BY <2>6, <2>7, <2>8, <2>9 DEF SeamInv
<1>9. CASE /\ spawning = 0 /\ active # NoModule
           /\ spawns' = Append(spawns, active)
           /\ opening' = opening \cup {Len(spawns')} /\ spawning' = Len(spawns')
           /\ ask' = [ask EXCEPT ![s] = [stage |-> "joined", of |-> active, spawn |-> Len(spawns')]]
           /\ behind' = behind
  <2>1. /\ Len(spawns') = Len(spawns) + 1 /\ spawns' \in Seq(SeamMods)
        /\ spawns'[Len(spawns')] = active /\ Len(spawns') \in Nat
        /\ \A i \in 1 .. Len(spawns) : spawns'[i] = spawns[i]
    BY <1>1, <1>9
  <2>2. [stage |-> "joined", of |-> active, spawn |-> Len(spawns')] \in SeamRow
    BY <1>1, <1>2, <2>1 DEF SeamRow, Numbers
  <2>3. /\ ask'[s] = [stage |-> "joined", of |-> active, spawn |-> Len(spawns')]
        /\ ask' \in [Askers -> SeamRow] /\ \A t \in Askers \ {s} : ask'[t] = ask[t]
    BY <1>1, <1>9, <2>2
  <2>4. HostsAreSpawned'
    <3>1. 1 .. Len(spawns) \subseteq 1 .. Len(spawns') /\ Len(spawns') \in 1 .. Len(spawns')
      BY <1>2, <2>1
    <3>2. opening' \subseteq 1 .. Len(spawns') /\ running' \subseteq 1 .. Len(spawns')
      BY <1>1, <1>3, <1>9, <3>1
    <3>3. spawning' \in 0 .. Len(spawns')
      BY <1>9, <2>1
    <3> QED BY <1>1, <1>9, <2>1, <2>3, <3>2, <3>3 DEF HostsAreSpawned
  <2>5. QueuesAreSound'
    <3>1. \A n \in 1 .. MaxSpawns : \A i \in 1 .. Len(behind[n]) :
            behind[n][i] \in Askers /\ behind[n][i] # s /\ Behind(behind[n][i], n)
      BY <1>1 DEF SeamInv, HostsAreSpawned, QueuesAreSound, Behind
    <3>2. \A n \in 1 .. MaxSpawns : \A i \in 1 .. Len(behind[n]) : Behind(behind[n][i], n)'
      BY <1>9, <2>3, <3>1 DEF Behind
    <3> QED BY <1>9, <2>3, <3>2 DEF SeamInv, QueuesAreSound
  <2>6. RoomForAll'
    <3>1. Waiters' = Waiters
      BY <1>1, <2>3 DEF Waiters
    <3> QED BY <1>2, <2>1, <3>1 DEF SeamInv, RoomForAll
  <2>7. SpawnsExist' /\ ServedByItsModule'
    BY <1>2, <2>1, <2>3 DEF SeamInv, SpawnsExist, ServedByItsModule
  <2> QED BY <2>4, <2>5, <2>6, <2>7 DEF SeamInv
<1> QED
  BY <1>4, <1>6, <1>7, <1>8, <1>9 DEF Invoke

LEMMA StrikesOnlyStop ==
  ASSUME NEW k, NEW h, NEW up, StrikeTimes(k, h, up)
  PROVE  running' \subseteq up /\ active' \in {active, NoModule}
BY DEF StrikeTimes

(* What starts when a spawn resolves: one spawn for each request that       *)
(* waited for it, in their order and of the module each asked for.          *)
LEMMA QueueStarts ==
  ASSUME SeamInv, NEW n \in 1 .. MaxSpawns, NEW outcome, SpawnResolves(n, outcome)
  PROVE  /\ spawns' \in Seq(SeamMods) /\ Len(spawns) \in Nat
         /\ Len(behind[n]) \in Nat /\ (behind[n] # <<>> => Len(behind[n]) >= 1)
         /\ Len(spawns') = Len(spawns) + Len(behind[n])
         /\ \A i \in 1 .. Len(spawns) : spawns'[i] = spawns[i]
         /\ \A i \in 1 .. Len(behind[n]) : spawns'[Len(spawns) + i] = ask[behind[n][i]].of
<1> DEFINE after == behind[n]
           new   == [i \in 1 .. Len(after) |-> ask[after[i]].of]
<1>1. spawns \in Seq(SeamMods) /\ after \in Seq(Askers)
  BY DEF SeamInv, HostsAreSpawned
<1>2. Len(after) \in Nat /\ (after # <<>> => Len(after) >= 1)
  <2>1. after # <<>> => Len(after) \in Nat \ {0}
    BY <1>1, EmptySeq
  <2> QED BY <1>1, <2>1
<1>3. \A i \in 1 .. Len(after) : ask[after[i]].of \in SeamMods
  <2> SUFFICES ASSUME NEW i \in 1 .. Len(after) PROVE ask[after[i]].of \in SeamMods
    OBVIOUS
  <2>1. Behind(after[i], n)
    BY DEF SeamInv, QueuesAreSound
  <2>2. after[i] \in Askers
    BY <1>1, <1>2
  <2> QED BY <2>1, <2>2 DEF SeamInv, QueuesAreSound, Behind
<1>4. spawns' = spawns \o new
  BY DEF SpawnResolves
<1>5. new \in Seq(SeamMods) /\ Len(new) = Len(after) /\ \A i \in 1 .. Len(after) : new[i] = ask[after[i]].of
  <2>1. new \in [1 .. Len(after) -> SeamMods]
    BY <1>3
  <2> QED BY <1>2, <2>1
<1> HIDE DEF new, after
<1>6. spawns' \in Seq(SeamMods) /\ Len(spawns') = Len(spawns) + Len(new)
  <2>1. spawns \o new \in Seq(SeamMods) /\ Len(spawns \o new) = Len(spawns) + Len(new)
    BY <1>1, <1>5, ConcatProperties
  <2> QED BY <1>4, <2>1
<1>7. \A i \in 1 .. Len(spawns) : spawns'[i] = spawns[i]
  BY <1>1, <1>4, <1>5
<1>8. \A i \in 1 .. Len(new) : spawns'[Len(spawns) + i] = new[i]
  BY <1>1, <1>4, <1>5
<1> QED BY <1>1, <1>2, <1>5, <1>6, <1>7, <1>8 DEF after

LEMMA ResolvedIsServed ==
  ASSUME SeamInv, NEW n \in 1 .. MaxSpawns, NEW outcome, SpawnResolves(n, outcome)
  PROVE  SeamInv'
<1> DEFINE after == behind[n]
           T     == {s \in Askers : Behind(s, n)}
           new   == [i \in 1 .. Len(after) |-> ask[after[i]].of]
           ix(s) == CHOOSE i \in 1 .. Len(after) : after[i] = s
<1>1. /\ n \in opening /\ spawns \in Seq(SeamMods) /\ active \in SeamMods \cup {NoModule}
      /\ opening \subseteq 1 .. Len(spawns) /\ running \subseteq 1 .. Len(spawns)
      /\ ask \in [Askers -> SeamRow] /\ behind \in [1 .. MaxSpawns -> Seq(Askers)]
      /\ after \in Seq(Askers) /\ Len(after) \in Nat
  <2>1. n \in opening
    BY DEF SpawnResolves
  <2> QED BY <2>1 DEF SeamInv, HostsAreSpawned
<1>2. /\ \A i \in 1 .. Len(after) : after[i] \in T /\ ask[after[i]].of \in SeamMods
      /\ \A i, k \in 1 .. Len(after) : after[i] = after[k] => i = k
      /\ \A s \in T : \E i \in 1 .. Len(after) : after[i] = s
      /\ T \subseteq Waiters
  BY <1>1 DEF SeamInv, QueuesAreSound, Behind, Waiters
<1>3. IsFiniteSet(T) /\ Cardinality(T) = Len(after)
  <2> DEFINE f == [i \in 1 .. Len(after) |-> after[i]]
  <2>1. ExistsBijection(1 .. Len(after), T)
    <3>1. f \in Bijection(1 .. Len(after), T)
      BY <1>2 DEF Bijection, Injection, Surjection, IsInjective
    <3> QED BY <3>1 DEF ExistsBijection
  <2>2. IsFiniteSet(1 .. Len(after)) /\ Cardinality(1 .. Len(after)) = Len(after)
    <3>1. 1 \in Int /\ Len(after) \in Int /\ (1 > Len(after) <=> Len(after) = 0)
      BY <1>1
    <3>2. /\ IsFiniteSet(1 .. Len(after))
          /\ Cardinality(1 .. Len(after)) = IF 1 > Len(after) THEN 0 ELSE Len(after) - 1 + 1
      BY <3>1, FS_Interval
    <3> QED BY <1>1, <3>1, <3>2
  <2> QED BY <2>1, <2>2, FS_Bijection
<1>4. /\ spawns' \in Seq(SeamMods) /\ Len(spawns) \in Nat /\ Len(spawns') = Len(spawns) + Len(after)
      /\ \A i \in 1 .. Len(spawns) : spawns'[i] = spawns[i]
      /\ \A i \in 1 .. Len(after) : spawns'[Len(spawns) + i] = ask[after[i]].of
  BY QueueStarts
<1>5. RoomForAll' /\ Len(spawns') <= MaxSpawns
  <2>1. Waiters' = Waiters \ T
    <3>1. ASSUME NEW s \in Askers
          PROVE  (ask'[s].stage = "behind") <=> (ask[s].stage = "behind" /\ ~Behind(s, n))
      BY <1>1 DEF SpawnResolves, SeamRow, NoAsk, Behind
    <3> QED BY <3>1 DEF Waiters
  <2>2. IsFiniteSet(Waiters)
    BY DEF SeamInv, RoomForAll
  <2>3. Waiters \cap T = T
    BY <1>2
  <2>4. /\ IsFiniteSet(Waiters \ T)
        /\ Cardinality(Waiters \ T) = Cardinality(Waiters) - Cardinality(T)
    BY <2>2, <2>3, FS_Difference
  <2>5. Cardinality(Waiters') \in Nat
    BY <2>1, <2>4, FS_CardinalityType
  <2> QED BY <1>1, <1>3, <1>4, <2>1, <2>4, <2>5, RoomIs DEF RoomForAll
<1>6. ASSUME NEW s \in T
      PROVE  /\ ix(s) \in 1 .. Len(after) /\ after[ix(s)] = s
             /\ ask'[s] = [ask[s] EXCEPT !.stage = "joined", !.spawn = Len(spawns) + ix(s)]
  BY <1>1, <1>2, <1>6 DEF SpawnResolves, Behind
<1>7. ASSUME NEW s \in Askers \ T
      PROVE  ask'[s] \in {ask[s], NoAsk} \/ (ask[s].stage = "joined" /\ ask'[s] = [ask[s] EXCEPT !.stage = "sent"])
  BY <1>1, <1>7 DEF SpawnResolves, Behind

<1>8. HostsAreSpawned'
  <2>1. 1 .. Len(spawns) \subseteq 1 .. Len(spawns') /\ Len(spawns') \in Nat
    BY <1>1, <1>4
  <2>2. opening' \subseteq 1 .. Len(spawns') /\ spawning' \in 0 .. Len(spawns')
    <3>1. opening' = (opening \ {n}) \cup Len(spawns) + 1 .. Len(spawns')
      BY DEF SpawnResolves
    <3>2. Len(spawns) + 1 .. Len(spawns') \subseteq 1 .. Len(spawns')
      BY <1>4
    <3>3. spawning' \in {0, Len(spawns')}
      BY DEF SpawnResolves
    <3>4. spawning' \in 0 .. Len(spawns')
      BY <2>1, <3>3
    <3>5. 1 .. Len(spawns) \subseteq 1 .. Len(spawns')
      BY <2>1
    <3>6. opening' \subseteq 1 .. Len(spawns')
      BY <1>1, <3>1, <3>2, <3>5
    <3> QED BY <3>4, <3>6
  <2>3. running' \subseteq running \cup {n} /\ active' \in {active, NoModule}
    BY StrikesOnlyStop DEF SpawnResolves
  <2>4. running' \subseteq 1 .. Len(spawns')
    BY <1>1, <2>1, <2>3
  <2>5. NoAsk \in SeamRow
    BY <1>1, SeamAssumption DEF NoAsk, SeamRow, Numbers
  <2>6. ASSUME NEW s \in T PROVE ask'[s] \in SeamRow
    <3>1. ix(s) \in 1 .. Len(after) /\ s \in Askers
      BY <1>6, <2>6
    <3> HIDE DEF ix, after
    <3>2. Len(spawns) + ix(s) \in Numbers
      BY <1>1, <1>4, <1>5, <3>1, SeamAssumption DEF Numbers
    <3> QED BY <1>1, <1>6, <2>6, <3>1, <3>2 DEF SeamRow
  <2>7. ASSUME NEW s \in Askers \ T PROVE ask'[s] \in SeamRow
    BY <1>1, <1>7, <2>5 DEF SeamRow
  <2>8. ask' \in [Askers -> SeamRow]
    <3> DEFINE J == {s \in Askers : ask[s].stage = "joined" /\ ask[s].spawn = n}
               row(s) == CASE s \in J /\ outcome = "ok" -> [ask[s] EXCEPT !.stage = "sent"]
                           [] s \in J /\ outcome # "ok" -> NoAsk
                           [] Behind(s, n) ->
                                [ask[s] EXCEPT !.stage = "joined", !.spawn = Len(spawns) + ix(s)]
                           [] OTHER        -> ask[s]
    <3>1. ask' = [s \in Askers |-> row(s)]
      BY DEF SpawnResolves
    <3> HIDE DEF row
    <3>2. \A s \in Askers : row(s) \in SeamRow
      BY <2>6, <2>7, <3>1
    <3> QED BY <3>1, <3>2
  <2>9. behind' \in [1 .. MaxSpawns -> Seq(Askers)]
    <3>1. behind' = [behind EXCEPT ![n] = <<>>]
      BY DEF SpawnResolves
    <3>2. <<>> \in Seq(Askers)
      OBVIOUS
    <3> QED BY <1>1, <3>1, <3>2
  <2> QED BY <1>1, <1>4, <2>2, <2>3, <2>4, <2>8, <2>9 DEF HostsAreSpawned
<1>9. QueuesAreSound'
  <2>1. /\ behind'[n] = <<>> /\ \A k \in (1 .. MaxSpawns) \ {n} : behind'[k] = behind[k]
    BY <1>1 DEF SpawnResolves
  <2>2. \A s \in Askers : s \notin T /\ ask[s].stage = "behind" => ask'[s] = ask[s]
    BY <1>1 DEF SpawnResolves, Behind
  <2>3. \A s \in Askers : ask'[s].stage = "behind" => s \notin T /\ ask[s].stage = "behind"
    BY <1>1 DEF SpawnResolves, SeamRow, NoAsk, Behind
  <2>4. ASSUME NEW k \in (1 .. MaxSpawns) \ {n}, NEW i \in 1 .. Len(behind[k])
        PROVE  ask'[behind[k][i]].stage = "behind" /\ ask'[behind[k][i]].spawn = k
    <3>1. behind[k][i] \in Askers /\ Behind(behind[k][i], k)
      BY <1>1, SMTT(20) DEF SeamInv, QueuesAreSound
    <3> QED BY <2>2, <3>1 DEF Behind
  <2>5. ASSUME NEW k \in 1 .. MaxSpawns
        PROVE  /\ \A i \in 1 .. Len(behind'[k]) : Behind(behind[k][i], k)'
               /\ \A i, j \in 1 .. Len(behind'[k]) : behind'[k][i] = behind'[k][j] => i = j
    BY <2>1, <2>4 DEF SeamInv, QueuesAreSound, Behind
  <2>6. ASSUME NEW s \in Askers, ask'[s].stage = "behind"
        PROVE  /\ ask'[s].spawn \in 1 .. MaxSpawns /\ ask'[s].of \in SeamMods
               /\ \E i \in 1 .. Len(behind'[ask'[s].spawn]) : behind'[ask'[s].spawn][i] = s
    <3>1. ask'[s] = ask[s] /\ ask[s].stage = "behind" /\ ask[s].spawn # n
      BY <2>2, <2>3, <2>6 DEF Behind
    <3> QED BY <2>1, <3>1 DEF SeamInv, QueuesAreSound
  <2> QED BY <2>5, <2>6 DEF QueuesAreSound
<1>10. ASSUME NEW s \in Askers, ask'[s].stage \in {"joined", "sent"}
       PROVE  ask'[s].spawn \in 1 .. Len(spawns') /\ spawns'[ask'[s].spawn] = ask'[s].of
  <2>1. CASE s \in T
    <3>0. /\ ix(s) \in 1 .. Len(after) /\ after[ix(s)] = s /\ ask[s] \in SeamRow
          /\ ask'[s] = [ask[s] EXCEPT !.stage = "joined", !.spawn = Len(spawns) + ix(s)]
      BY <1>1, <1>6, <2>1
    <3> HIDE DEF ix, after
    <3>1. /\ ask'[s].spawn = Len(spawns) + ix(s) /\ ask'[s].of = ask[s].of
          /\ ix(s) \in 1 .. Len(after) /\ after[ix(s)] = s
      BY <3>0 DEF SeamRow
    <3>2. spawns'[Len(spawns) + ix(s)] = ask[s].of
      BY <1>4, <3>1
    <3>3. Len(spawns) + ix(s) \in 1 .. Len(spawns')
      BY <1>1, <1>4, <3>1
    <3> QED BY <3>1, <3>2, <3>3
  <2>2. CASE s \notin T
    <3>1. ask'[s].spawn = ask[s].spawn /\ ask'[s].of = ask[s].of /\ ask[s].stage \in {"joined", "sent"}
      <4>1. ask[s] \in SeamRow /\ NoAsk.stage = "idle"
        BY <1>1 DEF NoAsk
      <4>2. ask'[s] \in {ask[s], NoAsk} \/ (ask[s].stage = "joined" /\ ask'[s] = [ask[s] EXCEPT !.stage = "sent"])
        BY <1>7, <2>2
      <4> QED BY <1>10, <4>1, <4>2 DEF SeamRow
    <3>2. ask[s].spawn \in 1 .. Len(spawns) /\ spawns[ask[s].spawn] = ask[s].of
      BY <3>1 DEF SeamInv, SpawnsExist, ServedByItsModule
    <3> QED BY <1>1, <1>4, <3>1, <3>2
  <2> QED BY <2>1, <2>2
<1>11. SpawnsExist' /\ ServedByItsModule'
  BY <1>10 DEF SpawnsExist, ServedByItsModule
<1> QED
  BY <1>5, <1>8, <1>9, <1>11 DEF SeamInv

LEMMA AnsweredIsServed ==
  ASSUME SeamInv, NEW s \in Askers, Replied(s) \/ Fail(s)
  PROVE  SeamInv'
<1>1. /\ ask[s].stage = "sent" /\ ask' = [ask EXCEPT ![s] = NoAsk]
      /\ UNCHANGED <<spawns, opening, spawning, behind>>
  BY DEF Replied, Fail
<1>2. running' \subseteq running /\ active' \in {active, NoModule}
  BY StrikesOnlyStop DEF Replied, Fail
<1>3. NoAsk \in SeamRow /\ NoAsk.stage = "idle"
  BY SeamAssumption DEF NoAsk, SeamRow, Numbers
<1>4. /\ ask \in [Askers -> SeamRow] /\ active \in SeamMods \cup {NoModule}
      /\ opening \subseteq 1 .. Len(spawns) /\ running \subseteq 1 .. Len(spawns)
      /\ spawning \in 0 .. Len(spawns)
  BY DEF SeamInv, HostsAreSpawned
<1>5. ask' \in [Askers -> SeamRow] /\ ask'[s] = NoAsk /\ \A t \in Askers \ {s} : ask'[t] = ask[t]
  BY <1>1, <1>3, <1>4
<1> QED
  BY <1>1, <1>2, <1>3, <1>4, <1>5, NobodyQueues

LEMMA SeamInvNext == SeamInv /\ [SeamNext]_seamVars => SeamInv'
<1> SUFFICES ASSUME SeamInv, [SeamNext]_seamVars PROVE SeamInv'
  OBVIOUS
<1>1. /\ active \in SeamMods \cup {NoModule} /\ ask \in [Askers -> SeamRow]
      /\ opening \subseteq 1 .. Len(spawns) /\ running \subseteq 1 .. Len(spawns)
      /\ spawning \in 0 .. Len(spawns)
  BY DEF SeamInv, HostsAreSpawned
<1>2. ASSUME UNCHANGED <<spawns, opening, spawning, behind, ask>>, running' \subseteq running,
             active' \in SeamMods \cup {NoModule}
      PROVE  SeamInv'
  BY <1>1, <1>2, NobodyQueues
<1>3. CASE \E s \in Askers : Invoke(s) \/ Replied(s) \/ Fail(s)
  BY <1>3, InvokeIsServed, AnsweredIsServed
<1>4. CASE \E n \in 1 .. MaxSpawns, o \in {"ok", "refused", "no cell"} : SpawnResolves(n, o)
  BY <1>4, ResolvedIsServed
<1>5. CASE \E n \in 1 .. MaxSpawns : HostDies(n)
  BY <1>1, <1>2, <1>5 DEF HostDies
<1>6. CASE \E m \in SeamMods \cup {NoModule} : Repoint(m)
  BY <1>2, <1>6 DEF Repoint
<1>7. CASE SeamTimePasses \/ UNCHANGED seamVars
  BY <1>1, <1>2, <1>7 DEF SeamTimePasses, seamVars
<1> QED
  BY <1>3, <1>4, <1>5, <1>6, <1>7 DEF SeamNext

(* A request that joined a spawn, or was sent to a host, is served by the   *)
(* module the registry named when it asked, whatever promotions, deaths and *)
(* quarantines happened while it waited (ensureHost in seam-adapter.ts: a   *)
(* spawn of another module is waited for and a spawn of its own started).   *)
THEOREM RequestServedByItsModule == SeamSpec => []ServedByItsModule
<1>1. SeamInv => ServedByItsModule
  BY DEF SeamInv
<1> QED
  BY <1>1, SeamInvInit, SeamInvNext, PTL DEF SeamSpec

-----------------------------------------------------------------------------
(***************************************************************************)
(* The rest of the seam's types: a host is never one of the spawns that are *)
(* still opening, the spawn the adapter knows of is, and strikes stay below *)
(* the limit.  Strikes are given to all who joined a refused spawn at once, *)
(* so that the sum needs them to be finitely many.                          *)
(***************************************************************************)
Asking == {s \in Askers : ask[s].stage # "idle"}

HostsAreApart ==
  /\ running \cap opening = {}
  /\ host \in 0 .. Len(spawns) /\ host \notin opening
  /\ spawning \in opening \cup {0}

StrikesAreCounted ==
  /\ failures \in 0 .. SeamStrikes - 1 /\ cellDown \in BOOLEAN /\ repoints \in 0 .. MaxRepoints
  /\ IsFiniteSet(Asking)

LEMMA StrikesCount ==
  ASSUME NEW k \in Nat, NEW h, NEW up, failures \in 0 .. SeamStrikes - 1, StrikeTimes(k, h, up)
  PROVE  failures' \in 0 .. SeamStrikes - 1
<1>1. SeamStrikes \in Nat /\ SeamStrikes > 0 /\ failures \in Nat
  BY SeamAssumption
<1>2. (failures + k) % SeamStrikes \in 0 .. SeamStrikes - 1
  BY <1>1
<1>3. failures' = (failures + k) % SeamStrikes \/ (failures + k < SeamStrikes /\ failures' = failures + k)
  BY <1>1 DEF StrikeTimes
<1> QED
  BY <1>1, <1>2, <1>3

LEMMA FewerAsk ==
  ASSUME IsFiniteSet(Asking), NEW s, Asking' \subseteq Asking \cup {s}
  PROVE  IsFiniteSet(Asking')
<1>1. IsFiniteSet(Asking \cup {s})
  BY FS_AddElement
<1> QED
  BY <1>1, FS_Subset

LEMMA StrikesNext ==
  SeamInv /\ StrikesAreCounted /\ [SeamNext]_seamVars => StrikesAreCounted'
<1> SUFFICES ASSUME SeamInv, StrikesAreCounted, [SeamNext]_seamVars PROVE StrikesAreCounted'
  OBVIOUS
<1>1. /\ failures \in 0 .. SeamStrikes - 1 /\ cellDown \in BOOLEAN /\ repoints \in 0 .. MaxRepoints
      /\ IsFiniteSet(Asking) /\ ask \in [Askers -> SeamRow]
      /\ SeamStrikes \in Nat /\ MaxRepoints \in Nat
  BY SeamAssumption DEF StrikesAreCounted, SeamInv, HostsAreSpawned
<1>2. NoAsk.stage = "idle"
  BY DEF NoAsk
<1>3. ASSUME NEW s \in Askers, Invoke(s) PROVE StrikesAreCounted'
  <2>1. \A t \in Askers \ {s} : ask'[t] = ask[t]
    BY <1>1, <1>3 DEF Invoke
  <2>2. IsFiniteSet(Asking')
    <3>1. Asking' \subseteq Asking \cup {s}
      BY <2>1 DEF Asking
    <3> QED BY <1>1, <3>1, FewerAsk
  <2>3. UNCHANGED <<failures, cellDown, repoints>>
    BY <1>3 DEF Invoke
  <2> QED BY <1>1, <2>2, <2>3 DEF StrikesAreCounted
<1>4. ASSUME NEW s \in Askers, Replied(s) \/ Fail(s) PROVE StrikesAreCounted'
  <2>1. ask' = [ask EXCEPT ![s] = NoAsk] /\ UNCHANGED <<cellDown, repoints>>
    BY <1>4 DEF Replied, Fail
  <2>2. IsFiniteSet(Asking')
    <3>1. Asking' \subseteq Asking \cup {s}
      BY <1>1, <2>1 DEF Asking
    <3> QED BY <1>1, <3>1, FewerAsk
  <2>3. failures' \in 0 .. SeamStrikes - 1
    BY <1>1, <1>4, StrikesCount DEF Replied, Fail
  <2> QED BY <1>1, <2>1, <2>2, <2>3 DEF StrikesAreCounted
<1>5. ASSUME NEW n \in 1 .. MaxSpawns, NEW o \in {"ok", "refused", "no cell"}, SpawnResolves(n, o)
      PROVE  StrikesAreCounted'
  <2> DEFINE joined == {s \in Askers : ask[s].stage = "joined" /\ ask[s].spawn = n}
  <2>1. Cardinality(joined) \in Nat
    <3>1. joined \subseteq Asking
      BY DEF Asking
    <3> QED BY <1>1, <3>1, FS_Subset, FS_CardinalityType
  <2>2. \E k \in Nat : \E h, up : StrikeTimes(k, h, up)
    BY <1>5, <2>1 DEF SpawnResolves
  <2>3. failures' \in 0 .. SeamStrikes - 1
    BY <1>1, <2>2, StrikesCount
  <2>4. ASSUME NEW s \in Askers, ask[s].stage = "idle" PROVE ask'[s].stage = "idle"
    BY <1>2, <1>5, <2>4 DEF SpawnResolves, Behind
  <2>5. IsFiniteSet(Asking')
    <3>1. Asking' \subseteq Asking
      BY <2>4 DEF Asking
    <3> QED BY <1>1, <3>1, FS_Subset
  <2>6. cellDown' \in BOOLEAN /\ repoints' = repoints
    BY <1>5 DEF SpawnResolves
  <2> QED BY <1>1, <2>3, <2>5, <2>6 DEF StrikesAreCounted
<1>6. ASSUME UNCHANGED ask, UNCHANGED <<cellDown, failures>>, repoints' \in 0 .. MaxRepoints
      PROVE  StrikesAreCounted'
  BY <1>1, <1>6 DEF StrikesAreCounted, Asking
<1>7. CASE \E n \in 1 .. MaxSpawns : HostDies(n)
  BY <1>1, <1>6, <1>7 DEF HostDies
<1>8. CASE \E m \in SeamMods \cup {NoModule} : Repoint(m)
  BY <1>1, <1>6, <1>8 DEF Repoint
<1>9. CASE SeamTimePasses
  <2>1. failures' \in 0 .. SeamStrikes - 1 /\ UNCHANGED <<ask, repoints>>
    BY <1>1, <1>9 DEF SeamTimePasses
  <2>2. cellDown' \in BOOLEAN
    BY <1>1, <1>9, Zenon DEF SeamTimePasses
  <2> QED BY <1>1, <2>1, <2>2 DEF StrikesAreCounted, Asking
<1>10. CASE UNCHANGED seamVars
  BY <1>1, <1>6, <1>10 DEF seamVars
<1> QED
  BY <1>3, <1>4, <1>5, <1>7, <1>8, <1>9, <1>10 DEF SeamNext

(* Spawns are numbered as they start, so those that start now are above all *)
(* that are, or were, alive.                                                *)
LEMMA OldOnesAreBelow ==
  ASSUME NEW len \in Nat, NEW k \in Nat, NEW j \in 0 .. len
  PROVE  j \notin len + 1 .. len + k /\ j \in 0 .. len + k
OBVIOUS

LEMMA FromZero ==
  ASSUME NEW len \in Nat
  PROVE  0 \in 0 .. len /\ 1 .. len \subseteq 0 .. len
OBVIOUS

LEMMA LastIsNew ==
  ASSUME NEW len \in Nat, NEW k \in Nat, k >= 1, NEW now, now = len + k
  PROVE  now \in len + 1 .. now
OBVIOUS

LEMMA ApartNext ==
  SeamInv /\ HostsAreApart /\ [SeamNext]_seamVars => HostsAreApart'
<1> SUFFICES ASSUME SeamInv, HostsAreApart, [SeamNext]_seamVars PROVE HostsAreApart'
  OBVIOUS
<1>1. /\ Len(spawns) \in Nat /\ spawns \in Seq(SeamMods) /\ active \in SeamMods \cup {NoModule}
      /\ opening \subseteq 1 .. Len(spawns) /\ running \subseteq 1 .. Len(spawns)
      /\ running \cap opening = {} /\ host \in 0 .. Len(spawns) /\ host \notin opening
      /\ spawning \in opening \cup {0} /\ 0 \notin opening
  BY DEF SeamInv, HostsAreSpawned, HostsAreApart
<1>2. ASSUME UNCHANGED <<spawns, opening, spawning>>, running' \subseteq running, host' \in {0, host}
      PROVE  HostsAreApart'
  BY <1>1, <1>2 DEF HostsAreApart
<1>3. ASSUME NEW s \in Askers, Invoke(s) PROVE HostsAreApart'
  <2>1. CASE UNCHANGED <<spawns, opening, spawning>>
    <3>1. running' \subseteq running /\ host' \in {0, host}
      BY <1>3 DEF Invoke, StopsHost
    <3> QED BY <1>2, <2>1, <3>1
  <2>2. CASE ~UNCHANGED <<spawns, opening, spawning>>
    <3>1. /\ spawns' = Append(spawns, active) /\ active \in SeamMods
          /\ opening' = opening \cup {Len(spawns')} /\ spawning' = Len(spawns')
          /\ host' = 0 /\ running' \subseteq running
      BY <1>1, <1>3, <2>2 DEF Invoke, StopsHost
    <3>2. Len(spawns') = Len(spawns) + 1
      BY <1>1, <3>1
    <3>3. Len(spawns') \notin running /\ Len(spawns') # 0
      BY <1>1, <3>2
    <3>4. running' \cap opening' = {}
      BY <1>1, <3>1, <3>3
    <3>5. host' \in 0 .. Len(spawns') /\ host' \notin opening'
      BY <1>1, <3>1, <3>2
    <3> QED BY <3>1, <3>4, <3>5 DEF HostsAreApart
  <2> QED BY <2>1, <2>2
<1>4. ASSUME NEW s \in Askers, Replied(s) \/ Fail(s) PROVE HostsAreApart'
  BY <1>2, <1>4 DEF Replied, Fail, StrikeTimes
<1>5. ASSUME NEW n \in 1 .. MaxSpawns, NEW o \in {"ok", "refused", "no cell"}, SpawnResolves(n, o)
      PROVE  HostsAreApart'
  <2>1. /\ n \in opening
        /\ opening' = (opening \ {n}) \cup Len(spawns) + 1 .. Len(spawns')
        /\ spawning' = (IF behind[n] = <<>> THEN 0 ELSE Len(spawns'))
    BY <1>5 DEF SpawnResolves
  <2>2. /\ Len(spawns') = Len(spawns) + Len(behind[n])
        /\ Len(behind[n]) \in Nat /\ (behind[n] # <<>> => Len(behind[n]) >= 1)
    BY <1>5, QueueStarts
  <2>3. running' \subseteq running \cup {n} /\ host' \in {0, n, host}
    BY <1>5 DEF SpawnResolves, StrikeTimes
  <2>4. /\ running' \cap opening' = {}
        /\ host' \in 0 .. Len(spawns) + Len(behind[n]) /\ host' \notin opening'
    <3>1. opening' = (opening \ {n}) \cup Len(spawns) + 1 .. Len(spawns) + Len(behind[n])
      BY <2>1, <2>2
    <3>2. /\ \A j \in 0 .. Len(spawns) :
               /\ j \notin Len(spawns) + 1 .. Len(spawns) + Len(behind[n])
               /\ j \in 0 .. Len(spawns) + Len(behind[n])
          /\ 0 \in 0 .. Len(spawns) /\ 1 .. Len(spawns) \subseteq 0 .. Len(spawns)
      BY <1>1, <2>2, OldOnesAreBelow, FromZero, Zenon
    <3> DEFINE Old  == 0 .. Len(spawns)
               News == Len(spawns) + 1 .. Len(spawns) + Len(behind[n])
               All  == 0 .. Len(spawns) + Len(behind[n])
    <3>3. /\ running \subseteq Old /\ n \in Old /\ host \in Old /\ 0 \in Old
          /\ \A j \in Old : j \notin News /\ j \in All
          /\ opening' = (opening \ {n}) \cup News
      BY <1>1, <2>1, <3>1, <3>2, Zenon
    <3> HIDE DEF Old, News, All
    <3>4. /\ running' \cap opening' = {}
          /\ host' \in All /\ host' \notin opening'
      BY <1>1, <2>3, <3>3
    <3> QED BY <3>4 DEF All
  <2>5. CASE behind[n] = <<>>
    BY <2>1, <2>2, <2>4, <2>5 DEF HostsAreApart
  <2>6. CASE behind[n] # <<>>
    <3>1. Len(behind[n]) >= 1
      BY <2>2, <2>6
    <3>2. Len(spawns') \in Len(spawns) + 1 .. Len(spawns')
      BY <1>1, <2>2, <3>1, LastIsNew, Zenon
    <3> QED BY <2>1, <2>2, <2>4, <2>6, <3>2 DEF HostsAreApart
  <2> QED BY <2>5, <2>6
<1>6. CASE \E n \in 1 .. MaxSpawns : HostDies(n)
  BY <1>2, <1>6 DEF HostDies
<1>7. CASE (\E m \in SeamMods \cup {NoModule} : Repoint(m)) \/ SeamTimePasses \/ UNCHANGED seamVars
  BY <1>2, <1>7 DEF Repoint, SeamTimePasses, seamVars
<1> QED
  BY <1>3, <1>4, <1>5, <1>6, <1>7 DEF SeamNext

SeamTyped == SeamInv /\ HostsAreApart /\ StrikesAreCounted

LEMMA SeamTypedInit == SeamInit => SeamTyped
<1> SUFFICES ASSUME SeamInit PROVE SeamTyped
  OBVIOUS
<1>1. SeamInv
  BY SeamInvInit
<1>2. spawns = <<>> /\ opening = {} /\ running = {} /\ host = 0 /\ spawning = 0
  BY DEF SeamInit
<1>3. HostsAreApart
  BY <1>2 DEF HostsAreApart
<1>4. Asking = {}
  BY DEF SeamInit, Asking, NoAsk
<1>5. StrikesAreCounted
  <2>1. failures \in 0 .. SeamStrikes - 1 /\ repoints \in 0 .. MaxRepoints
    BY SeamAssumption DEF SeamInit
  <2>2. cellDown \in BOOLEAN
    BY DEF SeamInit
  <2> QED BY <1>4, <2>1, <2>2, FS_EmptySet DEF StrikesAreCounted
<1> QED
  BY <1>1, <1>3, <1>5 DEF SeamTyped

LEMMA SeamTypedNext == SeamTyped /\ [SeamNext]_seamVars => SeamTyped'
BY SeamInvNext, ApartNext, StrikesNext DEF SeamTyped

(* The queues hold those who say they wait in them, and nobody else.        *)
LEMMA SeamIsTyped == SeamTyped => SeamTypeOK
<1> SUFFICES ASSUME SeamTyped PROVE SeamTypeOK
  OBVIOUS
<1>1. HostsAreSpawned /\ QueuesAreSound /\ HostsAreApart /\ StrikesAreCounted
  BY DEF SeamTyped, SeamInv
<1>2. Len(spawns) \in Numbers
  BY RoomIs DEF SeamTyped, Numbers
<1>3. \A n \in 1 .. MaxSpawns :
        {behind[n][i] : i \in 1 .. Len(behind[n])} = {s \in Askers : Behind(s, n)}
  <2> SUFFICES ASSUME NEW n \in 1 .. MaxSpawns
               PROVE  {behind[n][i] : i \in 1 .. Len(behind[n])} = {s \in Askers : Behind(s, n)}
    OBVIOUS
  <2>1. \A i \in 1 .. Len(behind[n]) : behind[n][i] \in Askers /\ Behind(behind[n][i], n)
    BY <1>1 DEF HostsAreSpawned, QueuesAreSound
  <2>2. \A s \in Askers : Behind(s, n) => \E i \in 1 .. Len(behind[n]) : behind[n][i] = s
    BY <1>1 DEF QueuesAreSound, Behind
  <2> QED BY <2>1, <2>2
<1> QED
  BY <1>1, <1>2, <1>3 DEF SeamTypeOK, HostsAreSpawned, HostsAreApart, StrikesAreCounted, SeamRow

(* The adapter's types, for any number of requests, strikes, spawns and     *)
(* decisions: a host it knows is not one still opening, the spawn it knows  *)
(* of is, and a request waits in one queue, the one it says (ensureHost and *)
(* strike in seam-adapter.ts).                                              *)
THEOREM SeamType == SeamSpec => []SeamTypeOK
BY SeamTypedInit, SeamTypedNext, SeamIsTyped, PTL DEF SeamSpec

-----------------------------------------------------------------------------
(***************************************************************************)
(* "Starts one module host per active/evaluating module" (module-host-      *)
(* client.ts:4) does not hold of three requests (SeamAdapter,               *)
(* OneHostPerModule).  It does of two: a spawn under way has a request that *)
(* joined it, so that at most one other waits behind it, and it is the only *)
(* one.                                                                     *)
(***************************************************************************)
TwoAsk == \A a, b, c \in Askers : a = b \/ b = c \/ a = c

OneAtATime ==
  /\ opening \subseteq {spawning}
  /\ running \subseteq {host}
  /\ spawning # 0 => /\ running = {}
                     /\ \E s \in Askers : ask[s].stage = "joined" /\ ask[s].spawn = spawning

LEMMA OneBehind ==
  ASSUME TwoAsk, SeamInv, OneAtATime, NEW n \in 1 .. MaxSpawns, NEW outcome, SpawnResolves(n, outcome)
  PROVE  Len(behind[n]) <= 1
<1>1. n = spawning /\ n # 0
  <2>1. n \in opening
    BY DEF SpawnResolves
  <2>2. n = spawning
    BY <2>1 DEF OneAtATime
  <2> QED BY <2>2, SeamAssumption
<1>2. PICK j \in Askers : ask[j].stage = "joined"
  BY <1>1 DEF OneAtATime
<1>3. \A i \in 1 .. Len(behind[n]) : behind[n][i] \in Askers /\ behind[n][i] # j
  <2> SUFFICES ASSUME NEW i \in 1 .. Len(behind[n])
               PROVE  behind[n][i] \in Askers /\ behind[n][i] # j
    OBVIOUS
  <2>1. behind[n] \in Seq(Askers)
    BY DEF SeamInv, HostsAreSpawned
  <2>2. behind[n][i] \in Askers
    BY <2>1
  <2>3. Behind(behind[n][i], n)
    BY DEF SeamInv, QueuesAreSound
  <2> QED BY <1>2, <2>2, <2>3 DEF Behind
<1>4. \A i, k \in 1 .. Len(behind[n]) : i = k
  <2>1. \A i, k \in 1 .. Len(behind[n]) : behind[n][i] = behind[n][k] => i = k
    BY DEF SeamInv, QueuesAreSound
  <2>2. \A i, k \in 1 .. Len(behind[n]) : behind[n][i] = behind[n][k]
    BY <1>3 DEF TwoAsk
  <2> QED BY <2>1, <2>2
<1>5. Len(behind[n]) \in Nat
  BY QueueStarts
<1>6. SUFFICES ASSUME Len(behind[n]) > 1 PROVE FALSE
  BY <1>5
<1>7. 1 \in 1 .. Len(behind[n]) /\ 2 \in 1 .. Len(behind[n])
  BY <1>5, <1>6
<1>8. 1 = 2
  BY <1>4, <1>7, Zenon
<1> QED
  BY <1>8

LEMMA NobodyStarts ==
  ASSUME NEW len \in Nat, NEW k, k = 0, NEW now, now = len + k
  PROVE  len + 1 .. now = {}
OBVIOUS

LEMMA OneStarts ==
  ASSUME NEW len \in Nat, NEW k \in Nat, k >= 1, k <= 1, NEW now, now = len + k
  PROVE  len + 1 .. now = {len + 1} /\ now = len + 1 /\ 1 .. k = {1}
<1>1. k = 1
  OBVIOUS
<1> QED BY <1>1

LEMMA OneAtATimeNext ==
  ASSUME TwoAsk, SeamInv, OneAtATime, [SeamNext]_seamVars
  PROVE  OneAtATime'
<1>1. /\ Len(spawns) \in Nat /\ ask \in [Askers -> SeamRow] /\ 0 \notin opening
      /\ opening \subseteq 1 .. Len(spawns) /\ running \subseteq 1 .. Len(spawns) /\ 0 \notin running
  BY DEF SeamInv, HostsAreSpawned
<1>2. /\ opening \subseteq {spawning} /\ running \subseteq {host}
      /\ spawning # 0 => running = {}
  BY DEF OneAtATime
<1>3. ASSUME UNCHANGED <<opening, spawning>>, running' \subseteq running,
             host' = host \/ running' = {},
             \A s \in Askers : ask[s].stage = "joined" => ask'[s] = ask[s]
      PROVE  OneAtATime'
  <2>1. running' \subseteq {host'}
    BY <1>2, <1>3
  <2>2. spawning' # 0 => \E s \in Askers : ask'[s].stage = "joined" /\ ask'[s].spawn = spawning'
    BY <1>3 DEF OneAtATime
  <2> QED BY <1>2, <1>3, <2>1, <2>2 DEF OneAtATime
<1>4. ASSUME NEW s \in Askers, Invoke(s) PROVE OneAtATime'
  <2>1. /\ running' \subseteq running /\ (host' = host \/ running' = {})
        /\ ask[s].stage = "idle" /\ \A t \in Askers \ {s} : ask'[t] = ask[t]
    BY <1>1, <1>2, <1>4 DEF Invoke, StopsHost
  <2>2. CASE UNCHANGED <<opening, spawning>>
    BY <1>3, <2>1, <2>2
  <2>3. CASE ~UNCHANGED <<opening, spawning>>
    <3>1. /\ spawning = 0 /\ spawning' = Len(spawns') /\ opening' = opening \cup {Len(spawns')}
          /\ ask' = [ask EXCEPT ![s] = [stage |-> "joined", of |-> active, spawn |-> Len(spawns')]]
          /\ StopsHost
      BY <1>4, <2>3 DEF Invoke
    <3>2. opening = {} /\ running' = {}
      BY <1>1, <1>2, <3>1 DEF StopsHost
    <3>3. ask'[s].stage = "joined" /\ ask'[s].spawn = spawning'
      BY <1>1, <3>1
    <3> QED BY <3>1, <3>2, <3>3 DEF OneAtATime
  <2> QED BY <2>2, <2>3
<1>5. ASSUME NEW s \in Askers, Replied(s) \/ Fail(s) PROVE OneAtATime'
  <2>1. /\ ask[s].stage = "sent" /\ ask' = [ask EXCEPT ![s] = NoAsk] /\ UNCHANGED <<opening, spawning>>
    BY <1>5 DEF Replied, Fail
  <2>2. running' \subseteq running /\ (host' = host \/ running' = {})
    BY <1>2, <1>5 DEF Replied, Fail, StrikeTimes
  <2>3. \A t \in Askers : ask[t].stage = "joined" => ask'[t] = ask[t]
    BY <1>1, <2>1
  <2> QED BY <1>3, <2>1, <2>2, <2>3
<1>6. ASSUME NEW n \in 1 .. MaxSpawns, NEW o \in {"ok", "refused", "no cell"}, SpawnResolves(n, o)
      PROVE  OneAtATime'
  <2>1. /\ n \in opening /\ n = spawning /\ n # 0 /\ opening \ {n} = {} /\ running = {}
        /\ opening' = (opening \ {n}) \cup Len(spawns) + 1 .. Len(spawns')
        /\ spawning' = (IF behind[n] = <<>> THEN 0 ELSE Len(spawns'))
    BY <1>1, <1>2, <1>6 DEF SpawnResolves
  <2>2. /\ Len(spawns') = Len(spawns) + Len(behind[n]) /\ Len(behind[n]) \in Nat
        /\ behind[n] # <<>> => Len(behind[n]) >= 1
    BY <1>6, QueueStarts
  <2>3. Len(behind[n]) <= 1
    BY <1>6, OneBehind
  <2>4. CASE behind[n] = <<>>
    <3>1. Len(behind[n]) = 0 /\ spawning' = 0
      BY <2>1, <2>4, EmptySeq
    <3>2. opening' = {}
      <4>1. Len(spawns) + 1 .. Len(spawns') = {}
        BY <1>1, <2>2, <3>1, NobodyStarts, Zenon
      <4> QED BY <2>1, <4>1
    <3>3. running' \subseteq {host'}
      BY <1>6, <2>1, <2>4 DEF SpawnResolves, StrikeTimes
    <3> QED BY <3>1, <3>2, <3>3 DEF OneAtATime
  <2>5. CASE behind[n] # <<>>
    <3>1. /\ Len(spawns) + 1 .. Len(spawns') = {Len(spawns) + 1}
          /\ Len(spawns') = Len(spawns) + 1 /\ 1 .. Len(behind[n]) = {1}
      BY <1>1, <2>2, <2>3, <2>5, OneStarts, Zenon
    <3>2. opening' = {Len(spawns) + 1} /\ spawning' = Len(spawns) + 1
      <4> HIDE DEF OneAtATime
      <4> QED BY <2>1, <2>5, <3>1, Zenon
    <3>3. running' = {}
      BY <1>6, <2>1, <2>5 DEF SpawnResolves, StrikeTimes
    <3>4. PICK s \in Askers : behind[n][1] = s /\ Behind(s, n)
      <4>1. 1 \in 1 .. Len(behind[n])
        BY <3>1, Zenon
      <4>2. behind[n] \in Seq(Askers)
        BY DEF SeamInv, HostsAreSpawned
      <4>3. behind[n][1] \in Askers
        BY <4>1, <4>2, ElementOfSeq, Zenon
      <4>4. Behind(behind[n][1], n)
        BY <4>1 DEF SeamInv, QueuesAreSound
      <4> QED BY <4>3, <4>4
    <3>5. ask'[s] = [ask[s] EXCEPT !.stage = "joined",
                                   !.spawn = Len(spawns) + (CHOOSE i \in 1 .. Len(behind[n]) : behind[n][i] = s)]
      BY <1>6, <3>4 DEF SpawnResolves, Behind
    <3>6. (CHOOSE i \in 1 .. Len(behind[n]) : behind[n][i] = s) = 1
      <4>1. \E i \in 1 .. Len(behind[n]) : behind[n][i] = s
        BY <3>1, <3>4, Zenon
      <4>2. \A i \in 1 .. Len(behind[n]) : i = 1
        BY <3>1, Zenon
      <4> QED BY <4>1, <4>2, Zenon
    <3>7. ask'[s].stage = "joined" /\ ask'[s].spawn = spawning'
      <4>1. ask'[s] = [ask[s] EXCEPT !.stage = "joined", !.spawn = Len(spawns) + 1]
        BY <3>5, <3>6, Zenon
      <4>2. ask[s] \in SeamRow
        BY <1>1
      <4>3. ask'[s].stage = "joined" /\ ask'[s].spawn = Len(spawns) + 1
        BY <4>1, <4>2 DEF SeamRow
      <4> QED BY <3>2, <4>3, Zenon
    <3> QED BY <3>2, <3>3, <3>7 DEF OneAtATime
  <2> QED BY <2>4, <2>5
<1>7. CASE \E n \in 1 .. MaxSpawns : HostDies(n)
  BY <1>3, <1>7 DEF HostDies
<1>8. CASE (\E m \in SeamMods \cup {NoModule} : Repoint(m)) \/ SeamTimePasses \/ UNCHANGED seamVars
  BY <1>3, <1>8 DEF Repoint, SeamTimePasses, seamVars
<1> QED
  BY <1>4, <1>5, <1>6, <1>7, <1>8 DEF SeamNext

(* With at most two requests at a time, the seam never has two hosts, of    *)
(* one module or of two, whatever is promoted, quarantined or dies while    *)
(* they wait: the counterexample to OneHostPerModule needs a third request  *)
(* (ensureHost in seam-adapter.ts, which stops the host it knows before it  *)
(* starts another).                                                         *)
THEOREM TwoRequestsOneHost ==
  TwoAsk => (SeamSpec => [](OneHostPerModule /\ Cardinality(running) <= 1))
<1> SUFFICES ASSUME TwoAsk PROVE SeamSpec => [](OneHostPerModule /\ Cardinality(running) <= 1)
  OBVIOUS
<1>1. SeamInit => OneAtATime
  BY DEF SeamInit, OneAtATime
<1>2. SeamInv /\ OneAtATime /\ [SeamNext]_seamVars => OneAtATime'
  BY OneAtATimeNext
<1>3. OneAtATime => OneHostPerModule /\ Cardinality(running) <= 1
  <2> SUFFICES ASSUME OneAtATime PROVE OneHostPerModule /\ Cardinality(running) <= 1
    OBVIOUS
  <2>1. running \subseteq {host}
    BY DEF OneAtATime
  <2>2. running = {} \/ running = {host}
    BY <2>1
  <2>3. Cardinality(running) <= 1
    <3>1. Cardinality(running) \in {0, 1}
      BY <2>2, FS_EmptySet, FS_Singleton
    <3> QED BY <3>1
  <2> QED BY <2>1, <2>3 DEF OneHostPerModule
<1> QED
  BY <1>1, <1>2, <1>3, SeamInvInit, SeamInvNext, PTL DEF SeamSpec
=============================================================================
