------------------------------ MODULE RunsProofs ------------------------------
(***************************************************************************)
(* Proofs about unattended runs, for any number of conversations, jobs,     *)
(* callers, runs and restarts and any budget and limit: the type, one run   *)
(* per session, that a report is kept until it went out or was refused      *)
(* often enough, that refusals come from distinct boots, that the pass      *)
(* forgets no interrupted run, and that a run's work is bounded.            *)
(***************************************************************************)
EXTENDS RunsRefinement, SequenceTheorems, TLAPS

(***************************************************************************)
(* The inductive invariant.                                                 *)
(***************************************************************************)

(* What a loop is, by what drives it.  Only the start-up pass can be        *)
(* refused, and what it has to send is on the row.                          *)
LoopsAreDriven ==
  /\ loops[Boot].by \in {"none", "resume", "giveup", "drain"}
  /\ loops[Boot].at = "turns" => loops[Boot].by = "resume"
  /\ \A l \in Loops :
       /\ loops[l].at \in {"judge", "owing", "sent", "refused"} => loops[l].run # 0
       /\ loops[l].at = "sent" => loops[l].run \in told
  /\ loops[Boot].at # "idle" => loops[Boot].run # 0
  /\ loops[Boot].by = "drain" \/ loops[Boot].at \in {"owing", "sent", "refused"} =>
       loops[Boot].run # 0 /\ rows[loops[Boot].run].report

CallersAreHeard ==
  \A c \in Callers :
    /\ loops[c].at # "refused"
    /\ loops[c].at = "begin" => loops[c].run = 0
    /\ loops[c].by \in {"none", "message", "job"}
    /\ loops[c].at # "idle" => loops[c].by \in {"message", "job"} /\ loops[c].session \in Sessions
    /\ loops[c].by = "job" =>
         /\ loops[c].session \in Jobs
         /\ loops[c].run # 0 => rows[loops[c].run].session \in Jobs

(* A running row owes nothing.                                              *)
RunningOwesNothing == \A r \in DOMAIN rows : Running(r) => ~rows[r].report

(* A run is refused once per boot: what was refused is neither in hand nor  *)
(* in the queue.                                                            *)
RefusedIsBehind ==
  /\ pass.at = "reload" => refused = {} /\ loops[Boot].at = "idle"
  /\ \A r \in refused : r \in DOMAIN rows /\ rows[r].report
  /\ refused \cap pass.left = {}
  /\ loops[Boot].at # "idle" => loops[Boot].run \notin refused \cup pass.left
  /\ pass.left \subseteq DOMAIN rows
  /\ pass.at = "drain" => \A r \in pass.left : rows[r].report

(* An interrupted run is over, was tried, or is still ahead of the pass.    *)
DeadAreAhead ==
  /\ dead \subseteq DOMAIN rows
  /\ loops[Boot].at = "judge" /\ loops[Boot].by = "giveup" => pass.at = "resume"
  /\ pass.at \in {"resume", "done"} =>
       \A r \in dead : \/ ~Running(r) \/ r \in tried
                       \/ pass.at = "resume" /\ r \in pass.left
                       \/ loops[Boot].at = "judge" /\ loops[Boot].by = "giveup" /\ loops[Boot].run = r

(* The turns a loop has left on a run, and those a run may take in all.     *)
TurnsLeft(l, r) == IF l.at = "turns" /\ l.run = r THEN Budget + 1 - l.attempt ELSE 0

Allowed(n) == (n + 1) * (Budget + 1)

WorkIsSpent ==
  /\ \A c, d \in Callers : c # d /\ loops[c].run = loops[d].run => loops[c].run = 0
  /\ \A r \in Runs \ DOMAIN rows : launches[r] = 0
  /\ \A r \in DOMAIN rows :
       /\ rows[r].resumes = launches[r]
       /\ launches[r] <= MaxResumes
       /\ Len(rows[r].turns) + TurnsLeft(loops[Boot], r) <= Allowed(launches[r])
       /\ \A c \in Callers :
            Len(rows[r].turns) + TurnsLeft(loops[c], r) + TurnsLeft(loops[Boot], r)
              <= Allowed(launches[r])

RunsInv == /\ TypeOK
           /\ LoopsAreDriven
           /\ CallersAreHeard
           /\ OneRunPerSession
           /\ RunningOwesNothing
           /\ DebtIsDischarged
           /\ RefusedIsBehind
           /\ DeadAreAhead
           /\ WorkIsSpent

-----------------------------------------------------------------------------
(* What every step does to the table: rows are never removed, a run that is *)
(* over stays over, and a report stays on its row.                          *)
RowsKept ==
  /\ rows' \in Seq(Row) /\ Len(rows') <= MaxRuns /\ Len(rows) <= Len(rows')
  /\ \A r \in DOMAIN rows :
       /\ r \in DOMAIN rows' /\ rows'[r].session = rows[r].session
       /\ rows'[r].status = "running" => rows[r].status = "running"
       /\ rows[r].report => rows'[r].report
  /\ \A r \in DOMAIN rows' : rows'[r].status = "running" => ~rows'[r].report

(* Most steps leave alone what a run has done, or what it owes.             *)
SameWork == \A r \in DOMAIN rows :
              rows'[r].turns = rows[r].turns /\ rows'[r].resumes = rows[r].resumes
SameDebt == \A r \in DOMAIN rows :
              rows'[r].delivered = rows[r].delivered /\ rows'[r].attempts = rows[r].attempts

LEMMA TableType ==
  ASSUME TypeOK
  PROVE  /\ Len(rows) \in Nat /\ DOMAIN rows = 1 .. Len(rows) /\ DOMAIN rows \subseteq Runs
         /\ \A r \in DOMAIN rows : rows[r] \in Row
<1>1. Len(rows) \in Nat /\ DOMAIN rows = 1 .. Len(rows) /\ Len(rows) <= MaxRuns
  BY LenProperties DEF TypeOK
<1>2. \A r \in DOMAIN rows : rows[r] \in Row
  BY <1>1, ElementOfSeq DEF TypeOK
<1> QED
  BY <1>1, <1>2, BoundAssumption DEF Runs

LEMMA UpdateRow ==
  ASSUME TypeOK, RunningOwesNothing, NEW r \in DOMAIN rows, NEW new \in Row,
         rows' = [rows EXCEPT ![r] = new],
         new.session = rows[r].session,
         new.status = "running" => rows[r].status = "running" /\ ~new.report,
         rows[r].report => new.report
  PROVE  /\ RowsKept /\ DOMAIN rows' = DOMAIN rows /\ Len(rows') = Len(rows)
         /\ rows'[r] = new
         /\ \A q \in DOMAIN rows : q # r => rows'[q] = rows[q]
<1>1. r \in 1 .. Len(rows) /\ DOMAIN rows = 1 .. Len(rows) /\ Len(rows) \in Nat
  BY TableType
<1>2. rows' \in Seq(Row) /\ Len(rows') = Len(rows)
  BY <1>1, ExceptSeq DEF TypeOK
<1>3. DOMAIN rows' = DOMAIN rows /\ rows'[r] = new
      /\ \A q \in DOMAIN rows : q # r => rows'[q] = rows[q]
  BY <1>1
<1>4. RowsKept
  BY <1>1, <1>2, <1>3 DEF RowsKept, TypeOK, RunningOwesNothing, Running
<1> QED
  BY <1>2, <1>3, <1>4

LEMMA SameRows ==
  ASSUME TypeOK, RunningOwesNothing, rows' = rows
  PROVE  RowsKept /\ SameWork /\ SameDebt /\ DOMAIN rows' = DOMAIN rows
BY TableType DEF RowsKept, SameWork, SameDebt, TypeOK, RunningOwesNothing, Running

(* finish(), wherever it is called: with a report, or on a row that has none. *)
LEMMA FinishRow ==
  ASSUME TypeOK, RunningOwesNothing, NEW r \in DOMAIN rows, NEW report \in BOOLEAN,
         rows' = [rows EXCEPT ![r] = Finished(@, report)],
         report \/ ~rows[r].report
  PROVE  /\ RowsKept /\ SameWork /\ SameDebt /\ DOMAIN rows' = DOMAIN rows
         /\ rows'[r].status = "over" /\ rows'[r].report = report
<1> DEFINE new == Finished(rows[r], report)
<1>1. rows[r] \in Row
  BY TableType
<1>2. /\ new \in Row /\ new.session = rows[r].session /\ new.status = "over"
      /\ new.report = report /\ new.turns = rows[r].turns /\ new.resumes = rows[r].resumes
      /\ new.delivered = rows[r].delivered /\ new.attempts = rows[r].attempts
  BY <1>1 DEF Finished, Row
<1>3. rows' = [rows EXCEPT ![r] = new]
  OBVIOUS
<1> HIDE DEF new
<1> QED
  BY <1>2, <1>3, UpdateRow DEF SameWork, SameDebt

LEMMA ReclaimRows ==
  ASSUME TypeOK, RunningOwesNothing, NEW session, NEW freed, freed = Reclaim(session)
  PROVE  /\ freed \in Seq(Row) /\ Len(freed) = Len(rows) /\ DOMAIN freed = DOMAIN rows
         /\ \A r \in DOMAIN rows :
              /\ freed[r] \in Row /\ freed[r].session = rows[r].session
              /\ freed[r].status = "running" => freed[r] = rows[r]
              /\ freed[r].report = rows[r].report
              /\ freed[r].turns = rows[r].turns /\ freed[r].resumes = rows[r].resumes
              /\ freed[r].delivered = rows[r].delivered /\ freed[r].attempts = rows[r].attempts
<1>1. Len(rows) \in Nat /\ DOMAIN rows = 1 .. Len(rows) /\ \A r \in DOMAIN rows : rows[r] \in Row
  BY TableType
<1>2. ASSUME NEW r \in DOMAIN rows
      PROVE  LET new == Finished(rows[r], FALSE)
             IN /\ new \in Row /\ new.session = rows[r].session /\ new.status = "over"
                /\ new.report = FALSE
                /\ new.turns = rows[r].turns /\ new.resumes = rows[r].resumes
                /\ new.delivered = rows[r].delivered /\ new.attempts = rows[r].attempts
  BY <1>1 DEF Finished, Row
<1>3. DOMAIN freed = DOMAIN rows
      /\ \A r \in DOMAIN rows :
           freed[r] = rows[r] \/ (rows[r].status = "running" /\ freed[r] = Finished(rows[r], FALSE))
  BY DEF Reclaim, Active
<1>4. \A r \in DOMAIN rows : rows[r].status = "running" => rows[r].report = FALSE
  BY <1>1 DEF RunningOwesNothing, Running, Row
<1>5. \A r \in DOMAIN rows :
              /\ freed[r] \in Row /\ freed[r].session = rows[r].session
              /\ freed[r].status = "running" => freed[r] = rows[r]
              /\ freed[r].report = rows[r].report
              /\ freed[r].turns = rows[r].turns /\ freed[r].resumes = rows[r].resumes
              /\ freed[r].delivered = rows[r].delivered /\ freed[r].attempts = rows[r].attempts
  BY <1>1, <1>2, <1>3, <1>4
<1>6. freed \in [1 .. Len(rows) -> Row]
  <2>1. freed = [r \in 1 .. Len(rows) |-> freed[r]]
    BY <1>1 DEF Reclaim
  <2> QED
    BY <2>1, <1>1, <1>5
<1>7. freed \in Seq(Row) /\ Len(freed) = Len(rows)
  BY <1>1, <1>6, SeqDef, LenProperties
<1> QED
  BY <1>3, <1>5, <1>7

-----------------------------------------------------------------------------
(* What a step leaves intact, part by part of the invariant.                *)
LEMMA RowInvsKeep ==
  ASSUME RunsInv, RowsKept, DOMAIN rows' = DOMAIN rows
  PROVE  OneRunPerSession' /\ RunningOwesNothing'
BY DEF RunsInv, RowsKept, OneRunPerSession, RunningOwesNothing, Running

LEMMA DebtKeeps ==
  ASSUME RunsInv, SameDebt, DOMAIN rows' = DOMAIN rows, told \subseteq told'
  PROVE  DebtIsDischarged'
BY DEF RunsInv, SameDebt, DebtIsDischarged

LEMMA AllowedGrows ==
  ASSUME NEW n \in Nat
  PROVE  Allowed(n) \in Nat /\ Allowed(n + 1) = Allowed(n) + Budget + 1
<1> DEFINE b == Budget + 1
<1>1. b \in Nat /\ n + 1 \in Nat
  BY SettingAssumption
<1>2. \A x, y \in Nat : x * y \in Nat
  OBVIOUS
<1>3. \A x, y \in Nat : (x + 1) * y = x * y + y
  OBVIOUS
<1> HIDE DEF b
<1>4. (n + 1) * b \in Nat /\ (n + 1 + 1) * b = (n + 1) * b + b
  BY <1>1, <1>2, <1>3
<1> QED
  BY <1>4, SettingAssumption DEF Allowed, b

LEMMA WorkKeeps ==
  ASSUME RunsInv, SameWork, DOMAIN rows' = DOMAIN rows, launches' = launches,
         NEW c \in Loops, NEW new, loops' = [loops EXCEPT ![c] = new],
         new.at = "turns" => new.run = 0, new.run \in {0, loops[c].run}
  PROVE  WorkIsSpent'
<1> USE DEF RunsInv
<1>1. Boot \in Loops /\ Callers \subseteq Loops /\ Boot \notin Callers
  BY ActorAssumption DEF Loops
<1>2. loops'[c] = new /\ \A l \in Loops : l # c => loops'[l] = loops[l]
  BY DEF TypeOK
<1>3. \A l \in Loops, r \in DOMAIN rows :
        TurnsLeft(loops'[l], r) \in Nat /\ TurnsLeft(loops[l], r) \in Nat
        /\ TurnsLeft(loops'[l], r) <= TurnsLeft(loops[l], r)
  <2>1. \A l \in Loops : loops[l].attempt \in 0 .. Budget
    BY DEF TypeOK, Loop
  <2>2. \A r \in DOMAIN rows : r # 0
    BY TableType DEF Runs
  <2> QED
    BY <1>2, <2>1, <2>2, SettingAssumption DEF TurnsLeft
<1>4. \A a, b \in Callers : a # b /\ loops'[a].run = loops'[b].run => loops'[a].run = 0
  BY <1>1, <1>2 DEF WorkIsSpent
<1>5. ASSUME NEW r \in DOMAIN rows
      PROVE  /\ Len(rows[r].turns) + TurnsLeft(loops'[Boot], r) <= Allowed(launches[r])
             /\ \A a \in Callers :
                  Len(rows[r].turns) + TurnsLeft(loops'[a], r) + TurnsLeft(loops'[Boot], r)
                    <= Allowed(launches[r])
  <2>1. Len(rows[r].turns) \in Nat
    BY TableType, LenProperties DEF Row
  <2>2. launches[r] \in Nat /\ Allowed(launches[r]) \in Nat
    BY TableType, AllowedGrows DEF TypeOK
  <2> QED
    BY <1>1, <1>3, <2>1, <2>2, SMTT(30) DEF WorkIsSpent
<1> QED
  BY <1>4, <1>5 DEF WorkIsSpent, SameWork

-----------------------------------------------------------------------------
LEMMA RunsInvInit == Init => RunsInv
<1> SUFFICES ASSUME Init PROVE RunsInv
  OBVIOUS
<1>1. rows \in Seq(Row) /\ Len(rows) = 0 /\ DOMAIN rows = {}
  BY EmptySeq DEF Init
<1>2. Idle \in Loop /\ Idle.at = "idle" /\ Idle.by = "none" /\ Idle.run = 0
  BY SettingAssumption DEF Idle, NewLoop, Loop
<1>3. \A l \in Loops : loops[l] = Idle
  BY DEF Init
<1>4. Boot \in Loops /\ Callers \subseteq Loops
  BY DEF Loops
<1>5. TypeOK
  BY <1>1, <1>2, BoundAssumption DEF Init, TypeOK, Starting, Pass
<1>6. LoopsAreDriven /\ CallersAreHeard
  BY <1>2, <1>3, <1>4 DEF LoopsAreDriven, CallersAreHeard
<1>7. OneRunPerSession /\ RunningOwesNothing /\ DebtIsDischarged
  BY <1>1 DEF OneRunPerSession, RunningOwesNothing, DebtIsDischarged
<1>8. RefusedIsBehind /\ DeadAreAhead
  BY <1>2, <1>3, <1>4 DEF Init, Starting, RefusedIsBehind, DeadAreAhead
<1>9. WorkIsSpent
  BY <1>1, <1>2, <1>3, <1>4 DEF Init, WorkIsSpent
<1> QED
  BY <1>5, <1>6, <1>7, <1>8, <1>9 DEF RunsInv

-----------------------------------------------------------------------------
(* A message or a firing arrives.                                           *)
LEMMA ArriveKeeps ==
  ASSUME RunsInv, NEW c \in Callers, NEW s \in Sessions, Arrive(c, s)
  PROVE  RunsInv'
<1> USE DEF RunsInv
<1> DEFINE new == NewLoop("begin", IF s \in Jobs THEN "job" ELSE "message", s, 0)
<1>1. /\ new \in Loop /\ new.at = "begin" /\ new.run = 0 /\ new.session = s
      /\ new.by = IF s \in Jobs THEN "job" ELSE "message"
  BY SettingAssumption DEF NewLoop, Loop
<1>2. /\ loops' = [loops EXCEPT ![c] = new] /\ rows' = rows /\ told' = told /\ pass' = pass
      /\ UNCHANGED <<history, restarts>>
  BY DEF Arrive, durable
<1> HIDE DEF new
<1>3. c \in Loops /\ c # Boot /\ Boot \in Loops /\ Callers \subseteq Loops
  BY ActorAssumption DEF Loops
<1>4. loops'[c] = new /\ loops'[Boot] = loops[Boot] /\ \A l \in Loops : l # c => loops'[l] = loops[l]
  BY <1>2, <1>3 DEF TypeOK
<1>5. TypeOK'
  BY <1>1, <1>2, <1>3, <1>4, TableType DEF TypeOK, history
<1>6. LoopsAreDriven' /\ CallersAreHeard'
  BY <1>1, <1>2, <1>3, <1>4 DEF LoopsAreDriven, CallersAreHeard
<1>7. OneRunPerSession' /\ RunningOwesNothing' /\ DebtIsDischarged'
  BY <1>2 DEF OneRunPerSession, RunningOwesNothing, DebtIsDischarged, Running
<1>8. RefusedIsBehind' /\ DeadAreAhead'
  BY <1>2, <1>4 DEF RefusedIsBehind, DeadAreAhead, history, Running
<1>9. WorkIsSpent'
  <2>1. \A r \in DOMAIN rows : TurnsLeft(new, r) = 0
    BY <1>1 DEF TurnsLeft
  <2> QED
    BY <1>1, <1>2, <1>3, <1>4, <2>1 DEF WorkIsSpent, history
<1> QED
  BY <1>5, <1>6, <1>7, <1>8, <1>9

-----------------------------------------------------------------------------
(* A loop goes on with its run after its last turn, or stops.               *)
LEMMA LoopGoesOn ==
  ASSUME RunsInv, NEW c \in Loops, NEW new \in Loop,
         RowsKept, SameWork, SameDebt, DOMAIN rows' = DOMAIN rows,
         loops' = [loops EXCEPT ![c] = new],
         UNCHANGED <<pass, history, restarts>>, told \subseteq told', told' \subseteq Runs,
         \/ new.at = "idle" /\ new.by = "none" /\ new.run = 0
         \/ /\ new.at \in {"owing", "sent", "refused"}
            /\ loops[c].at # "idle" /\ loops[c].run # 0
            /\ new.by = loops[c].by /\ new.run = loops[c].run /\ new.session = loops[c].session,
         new.at = "sent" => new.run \in told',
         new.at = "refused" => c = Boot,
         c = Boot /\ new.at # "idle" => rows'[new.run].report,
         c = Boot /\ loops[c].at = "judge" /\ loops[c].by = "giveup"
           => rows'[loops[c].run].status = "over"
  PROVE  RunsInv'
<1> USE DEF RunsInv
<1>1. Boot \in Loops /\ Callers \subseteq Loops /\ Boot \notin Callers
  BY ActorAssumption DEF Loops
<1>2. loops'[c] = new /\ \A l \in Loops : l # c => loops'[l] = loops[l]
  BY DEF TypeOK
<1>3. \A l \in Loops : loops[l].run # 0 => loops[l].run \in DOMAIN rows
  BY TableType DEF TypeOK, Loop, Runs
<1>4. TypeOK'
  <2>1. loops' \in [Loops -> Loop]
    BY DEF TypeOK
  <2>2. \A l \in Loops : loops'[l].run <= Len(rows')
    <3>1. Len(rows) \in Nat /\ Len(rows') \in Nat /\ Len(rows) <= Len(rows')
      BY TableType, LenProperties DEF RowsKept
    <3>2. \A l \in Loops : loops'[l].run \in {0, loops[l].run}
      BY <1>2
    <3>3. \A l \in Loops : loops[l].run \in Nat /\ loops[l].run <= Len(rows)
      BY BoundAssumption DEF TypeOK, Loop, Runs
    <3> QED
      BY <3>1, <3>2, <3>3
  <2> QED
    BY <2>1, <2>2 DEF TypeOK, RowsKept, history
<1>5. LoopsAreDriven'
  BY <1>1, <1>2, <1>3 DEF LoopsAreDriven, RowsKept
<1>6. CallersAreHeard'
  BY <1>1, <1>2, <1>3 DEF CallersAreHeard, RowsKept
<1>7. OneRunPerSession' /\ RunningOwesNothing' /\ DebtIsDischarged'
  BY RowInvsKeep, DebtKeeps
<1>8. RefusedIsBehind'
  BY <1>1, <1>2 DEF RefusedIsBehind, RowsKept, history
<1>9. DeadAreAhead'
  BY <1>1, <1>2, <1>3 DEF DeadAreAhead, RowsKept, history, Running
<1>10. WorkIsSpent'
  BY WorkKeeps DEF history
<1> QED
  BY <1>4, <1>5, <1>6, <1>7, <1>8, <1>9, <1>10

LEMMA IdleIsLoop == Idle \in Loop /\ Idle.at = "idle" /\ Idle.by = "none" /\ Idle.run = 0
BY SettingAssumption DEF Idle, NewLoop, Loop

LEMMA AnswerUnrecordedKeeps ==
  ASSUME RunsInv, NEW c \in Loops, AnswerUnrecorded(c)
  PROVE  RunsInv'
<1>1. rows' = rows /\ told' = told /\ UNCHANGED <<pass, history, restarts>>
      /\ loops' = [loops EXCEPT ![c] = Idle] /\ loops[c].at = "turns"
  BY DEF AnswerUnrecorded, durable
<1>2. RowsKept /\ SameWork /\ SameDebt /\ DOMAIN rows' = DOMAIN rows
  BY <1>1, SameRows DEF RunsInv
<1>3. told \subseteq Runs
  BY DEF RunsInv, TypeOK
<1> QED
  BY <1>1, <1>2, <1>3, IdleIsLoop, LoopGoesOn

(* What a loop that has something to conclude or to send is about.          *)
LEMMA LoopHasRow ==
  ASSUME RunsInv, NEW c \in Loops, loops[c].at \in {"judge", "owing", "sent", "refused"}
  PROVE  loops[c] \in Loop /\ loops[c].run # 0 /\ loops[c].run \in DOMAIN rows
BY TableType DEF RunsInv, TypeOK, Loop, Runs, LoopsAreDriven

LEMMA ConcludeKeeps ==
  ASSUME RunsInv, NEW c \in Loops, Conclude(c)
  PROVE  RunsInv'
<1> DEFINE r == loops[c].run
           new == [loops[c] EXCEPT !.at = "owing"]
<1>1. loops[c].at = "judge" /\ told' = told /\ UNCHANGED <<pass, history, restarts>>
      /\ rows' = [rows EXCEPT ![r] = Finished(@, TRUE)]
      /\ loops' = [loops EXCEPT ![c] = new]
  BY DEF Conclude
<1>2. loops[c] \in Loop /\ r # 0 /\ r \in DOMAIN rows
  BY <1>1, LoopHasRow
<1>3. new \in Loop /\ new.at = "owing" /\ new.by = loops[c].by /\ new.run = r
      /\ new.session = loops[c].session
  BY <1>2 DEF Loop
<1> HIDE DEF r, new
<1>4. RowsKept /\ SameWork /\ SameDebt /\ DOMAIN rows' = DOMAIN rows
      /\ rows'[r].status = "over" /\ rows'[r].report = TRUE
  BY <1>1, <1>2, FinishRow DEF RunsInv
<1>5. told \subseteq Runs
  BY DEF RunsInv, TypeOK
<1> QED
  BY <1>1, <1>2, <1>3, <1>4, <1>5, LoopGoesOn DEF r

LEMMA SendKeeps ==
  ASSUME RunsInv, NEW c \in Loops, NEW outcome \in {"sent", "refused"}, Send(c, outcome)
  PROVE  RunsInv'
<1> DEFINE r == loops[c].run
           new == [loops[c] EXCEPT !.at = outcome]
<1>1. loops[c].at = "owing" /\ rows' = rows /\ UNCHANGED <<pass, history, restarts>>
      /\ told' = (IF outcome = "sent" THEN told \cup {r} ELSE told)
      /\ loops' = [loops EXCEPT ![c] = new] /\ outcome \in Outcomes(loops[c])
  BY DEF Send
<1>2. loops[c] \in Loop /\ r # 0 /\ r \in DOMAIN rows
  BY <1>1, LoopHasRow
<1>3. new \in Loop /\ new.at = outcome /\ new.by = loops[c].by /\ new.run = r
      /\ new.session = loops[c].session
  BY <1>2 DEF Loop
<1>4. RowsKept /\ SameWork /\ SameDebt /\ DOMAIN rows' = DOMAIN rows
  BY <1>1, SameRows DEF RunsInv
<1>5. told \subseteq told' /\ told' \subseteq Runs /\ (outcome = "sent" => r \in told')
  BY <1>1, <1>2, TableType DEF RunsInv, TypeOK
<1>6. outcome = "refused" => c = Boot
  <2>1. c \in Callers \/ c = Boot
    BY DEF Loops
  <2>2. c \in Callers => loops[c].by = "message" \/ rows[r].session \in Jobs
    BY <1>1, <1>2 DEF RunsInv, CallersAreHeard
  <2> QED
    BY <1>1, <2>1, <2>2 DEF Outcomes
<1>7. c = Boot => rows[r].report
  BY <1>1 DEF RunsInv, LoopsAreDriven
<1> HIDE DEF r, new
<1> QED
  BY <1>1, <1>2, <1>3, <1>4, <1>5, <1>6, <1>7, LoopGoesOn DEF r

LEMMA GoesUnsentKeeps ==
  ASSUME RunsInv, NEW c \in Loops, GoesUnsent(c)
  PROVE  RunsInv'
<1> DEFINE r == loops[c].run
<1>1. loops[c].at \in {"judge", "owing"} /\ told' = told /\ UNCHANGED <<pass, history, restarts>>
      /\ rows' = (IF loops[c].by = "giveup" THEN AfterGiveUp(r) ELSE rows)
      /\ loops' = [loops EXCEPT ![c] = Idle]
  BY DEF GoesUnsent
<1>2. loops[c] \in Loop /\ r # 0 /\ r \in DOMAIN rows
  BY <1>1, LoopHasRow
<1> HIDE DEF r
<1>3. /\ RowsKept /\ SameWork /\ SameDebt /\ DOMAIN rows' = DOMAIN rows
      /\ loops[c].by = "giveup" => rows'[r].status = "over"
  <2>1. CASE loops[c].by = "giveup" /\ Running(r)
    <3>1. rows' = [rows EXCEPT ![r] = Finished(@, FALSE)] /\ ~rows[r].report
      BY <1>1, <1>2, <2>1 DEF AfterGiveUp, RunsInv, RunningOwesNothing
    <3> QED
      BY <1>2, <3>1, FinishRow DEF RunsInv
  <2>2. CASE ~(loops[c].by = "giveup" /\ Running(r))
    <3>1. rows' = rows
      BY <1>1, <2>2 DEF AfterGiveUp
    <3>2. rows[r] \in Row
      BY <1>2, TableType DEF RunsInv
    <3> QED
      BY <1>2, <2>2, <3>1, <3>2, SameRows DEF RunsInv, Running, Row
  <2> QED
    BY <2>1, <2>2
<1>4. told \subseteq Runs
  BY DEF RunsInv, TypeOK
<1> QED
  BY <1>1, <1>2, <1>3, <1>4, IdleIsLoop, LoopGoesOn DEF r

(* markDelivered and recordDeliveryRefusal.                                 *)
LEMMA MarkedRow ==
  ASSUME NEW row \in Row, NEW outcome
  PROVE  LET new == Marked(row, outcome)
         IN /\ new \in Row /\ new.session = row.session /\ new.status = row.status
            /\ new.report = row.report /\ new.turns = row.turns /\ new.resumes = row.resumes
            /\ new.delivered <=> row.delivered \/ outcome = "sent"
            /\ new.attempts = IF outcome = "refused" THEN row.attempts + 1 ELSE row.attempts
<1> DEFINE d == row.delivered \/ outcome = "sent"
           n == IF outcome = "refused" THEN row.attempts + 1 ELSE row.attempts
           new == [row EXCEPT !.delivered = d, !.attempts = n]
<1>1. d \in BOOLEAN
  BY Zenon
<1>2. n \in Nat
  BY DEF Row
<1>3. Marked(row, outcome) = new
  BY Zenon DEF Marked
<1> HIDE DEF d, n
<1>4. /\ new \in Row /\ new.session = row.session /\ new.status = row.status
      /\ new.report = row.report /\ new.turns = row.turns /\ new.resumes = row.resumes
      /\ new.delivered = d /\ new.attempts = n
  BY <1>1, <1>2 DEF Row
<1> HIDE DEF new
<1>5. new.delivered <=> row.delivered \/ outcome = "sent"
  BY <1>4, Zenon DEF d
<1> QED
  BY <1>3, <1>4, <1>5 DEF n

LEMMA MarkKeeps ==
  ASSUME RunsInv, NEW c \in Loops, Mark(c)
  PROVE  RunsInv'
<1> USE DEF RunsInv
<1> DEFINE r == loops[c].run
           new == Marked(rows[r], loops[c].at)
<1>1. /\ loops[c].at \in {"sent", "refused"}
      /\ rows' = [rows EXCEPT ![r] = new]
      /\ refused' = (IF loops[c].at = "refused" THEN refused \cup {r} ELSE refused)
      /\ loops' = [loops EXCEPT ![c] = Idle]
      /\ UNCHANGED <<told, pass, launches, achieved, dead, tried, restarts>>
  BY DEF Mark
<1>2. r # 0 /\ r \in DOMAIN rows /\ rows[r] \in Row
  BY <1>1, LoopHasRow, TableType
<1>3. /\ new \in Row /\ new.session = rows[r].session /\ new.status = rows[r].status
      /\ new.report = rows[r].report /\ new.turns = rows[r].turns
      /\ new.resumes = rows[r].resumes
      /\ new.delivered <=> rows[r].delivered \/ loops[c].at = "sent"
      /\ new.attempts = IF loops[c].at = "refused" THEN rows[r].attempts + 1 ELSE rows[r].attempts
  BY <1>2, MarkedRow
<1>4. Boot \in Loops /\ Callers \subseteq Loops /\ Boot \notin Callers
  BY ActorAssumption DEF Loops
<1>5. loops'[c] = Idle /\ \A l \in Loops : l # c => loops'[l] = loops[l]
  BY <1>1 DEF TypeOK
<1> HIDE DEF new
<1>6. rows[r].status = "running" => ~rows[r].report
  BY <1>2 DEF RunningOwesNothing, Running
<1>7. /\ RowsKept /\ SameWork /\ DOMAIN rows' = DOMAIN rows /\ Len(rows') = Len(rows)
      /\ rows'[r] = new /\ \A q \in DOMAIN rows : q # r => rows'[q] = rows[q]
  <2> HIDE DEF r
  <2> QED
    BY <1>1, <1>2, <1>3, <1>6, UpdateRow DEF SameWork
<1>8. TypeOK'
  <2>1. loops' \in [Loops -> Loop] /\ \A l \in Loops : loops'[l].run <= Len(rows')
    BY <1>1, <1>5, <1>7, IdleIsLoop, TableType DEF TypeOK
  <2>2. refused' \subseteq Runs
    BY <1>1, <1>2, TableType DEF TypeOK
  <2> QED
    BY <1>1, <1>7, <2>1, <2>2 DEF TypeOK, RowsKept
<1>9. \A l \in Loops : loops[l].run # 0 => loops[l].run \in DOMAIN rows
  BY TableType DEF TypeOK, Loop, Runs
<1>10. LoopsAreDriven'
  BY <1>1, <1>4, <1>5, <1>7, <1>9, IdleIsLoop DEF LoopsAreDriven, RowsKept
<1>11. CallersAreHeard'
  BY <1>1, <1>4, <1>5, <1>7, <1>9, IdleIsLoop DEF CallersAreHeard, RowsKept
<1>12. OneRunPerSession' /\ RunningOwesNothing'
  BY <1>7, RowInvsKeep
<1>13. DebtIsDischarged'
  <2>1. loops[c].at = "sent" => r \in told
    BY DEF LoopsAreDriven
  <2>2. rows[r].attempts \in Nat
    BY <1>2 DEF Row
  <2>3. new.delivered => r \in told \/ new.attempts >= MaxRefusals
    <3>1. rows[r].delivered => r \in told \/ rows[r].attempts >= MaxRefusals
      BY <1>2 DEF DebtIsDischarged
    <3> QED
      BY <1>3, <2>1, <2>2, <3>1, SettingAssumption
  <2> QED
    BY <1>1, <1>7, <2>3 DEF DebtIsDischarged
<1>14. RefusedIsBehind'
  <2>1. loops[c].at = "refused" => c = Boot /\ rows[r].report
    BY <1>1, <1>4 DEF CallersAreHeard, LoopsAreDriven, Loops
  <2> QED
    BY <1>1, <1>2, <1>4, <1>5, <1>7, <2>1, IdleIsLoop DEF RefusedIsBehind, RowsKept
<1>15. DeadAreAhead'
  BY <1>1, <1>4, <1>5, <1>7, IdleIsLoop DEF DeadAreAhead, RowsKept, Running
<1>16. WorkIsSpent'
  BY <1>1, <1>7, IdleIsLoop, WorkKeeps
<1> QED
  BY <1>8, <1>10, <1>11, <1>12, <1>13, <1>14, <1>15, <1>16

-----------------------------------------------------------------------------
(* The clock touches no field the invariant speaks of.                      *)
LEMMA ClockKeeps ==
  ASSUME RunsInv, NEW r \in Runs, Expire(r) \/ GrowStale(r)
  PROVE  RunsInv'
<1> USE DEF RunsInv
<1>1. PICK new \in {[rows[r] EXCEPT !.expired = TRUE], [rows[r] EXCEPT !.stale = TRUE]} :
        /\ r \in DOMAIN rows /\ rows' = [rows EXCEPT ![r] = new]
        /\ UNCHANGED <<loops, pass, told, history, restarts>>
  BY DEF Expire, GrowStale, Running
<1>2. rows[r] \in Row
  BY <1>1, TableType
<1>3. /\ new \in Row /\ new.session = rows[r].session /\ new.status = rows[r].status
      /\ new.report = rows[r].report /\ new.turns = rows[r].turns
      /\ new.resumes = rows[r].resumes /\ new.delivered = rows[r].delivered
      /\ new.attempts = rows[r].attempts
  BY <1>1, <1>2 DEF Row
<1>4. rows[r].status = "running" => ~rows[r].report
  BY <1>1 DEF RunningOwesNothing, Running
<1>5. RowsKept /\ SameWork /\ SameDebt /\ DOMAIN rows' = DOMAIN rows /\ Len(rows') = Len(rows)
  BY <1>1, <1>3, <1>4, UpdateRow DEF SameWork, SameDebt
<1>6. \A l \in Loops : loops[l].run # 0 => loops[l].run \in DOMAIN rows
  BY TableType DEF TypeOK, Loop, Runs
<1>7. Boot \in Loops /\ Callers \subseteq Loops
  BY DEF Loops
<1>8. TypeOK'
  BY <1>1, <1>5 DEF TypeOK, RowsKept, history
<1>9. LoopsAreDriven' /\ CallersAreHeard'
  BY <1>1, <1>5, <1>6, <1>7 DEF LoopsAreDriven, CallersAreHeard, RowsKept
<1>10. OneRunPerSession' /\ RunningOwesNothing' /\ DebtIsDischarged'
  BY <1>1, <1>5, RowInvsKeep, DebtKeeps
<1>11. RefusedIsBehind' /\ DeadAreAhead'
  BY <1>1, <1>5, <1>7 DEF RefusedIsBehind, DeadAreAhead, RowsKept, history, Running
<1>12. WorkIsSpent'
  BY <1>1, <1>5 DEF WorkIsSpent, SameWork, history
<1> QED
  BY <1>8, <1>9, <1>10, <1>11, <1>12

LEMMA RestartKeeps ==
  ASSUME RunsInv, Restart
  PROVE  RunsInv'
<1> USE DEF RunsInv
<1>1. /\ restarts' = restarts + 1 /\ loops' = [l \in Loops |-> Idle] /\ pass' = Starting
      /\ dead' = RunningRuns /\ tried' = {} /\ refused' = {}
      /\ UNCHANGED <<rows, told, launches, achieved>>
  BY DEF Restart, durable
<1>2. Boot \in Loops /\ Callers \subseteq Loops
  BY DEF Loops
<1>3. \A l \in Loops : loops'[l] = Idle
  BY <1>1
<1>4. Starting.at = "reload" /\ Starting.left = {} /\ Starting \in Pass
  BY DEF Starting, Pass
<1>5. RunningRuns \subseteq DOMAIN rows
  BY DEF RunningRuns
<1>6. TypeOK'
  BY <1>1, <1>3, <1>4, <1>5, IdleIsLoop, TableType DEF TypeOK
<1>7. LoopsAreDriven' /\ CallersAreHeard'
  BY <1>2, <1>3, IdleIsLoop DEF LoopsAreDriven, CallersAreHeard
<1>8. OneRunPerSession' /\ RunningOwesNothing' /\ DebtIsDischarged'
  BY <1>1 DEF OneRunPerSession, RunningOwesNothing, DebtIsDischarged, Running
<1>9. RefusedIsBehind' /\ DeadAreAhead'
  BY <1>1, <1>2, <1>3, <1>4, <1>5, IdleIsLoop DEF RefusedIsBehind, DeadAreAhead
<1>10. WorkIsSpent'
  <2>1. ASSUME NEW r \in DOMAIN rows
        PROVE  /\ \A l \in Loops : TurnsLeft(loops'[l], r) = 0
               /\ Len(rows[r].turns) \in Nat /\ launches[r] \in Nat
               /\ Allowed(launches[r]) \in Nat
               /\ TurnsLeft(loops[Boot], r) \in Nat
    <3>1. Len(rows[r].turns) \in Nat
      BY TableType, LenProperties DEF Row
    <3>2. launches[r] \in Nat /\ Allowed(launches[r]) \in Nat
      BY TableType, AllowedGrows DEF TypeOK
    <3>3. loops[Boot].attempt \in 0 .. Budget
      BY <1>2 DEF TypeOK, Loop
    <3> QED
      BY <1>3, <3>1, <3>2, <3>3, IdleIsLoop, SettingAssumption DEF TurnsLeft
  <2> QED
    BY <1>1, <1>2, <1>3, <2>1, IdleIsLoop DEF WorkIsSpent
<1> QED
  BY <1>6, <1>7, <1>8, <1>9, <1>10

-----------------------------------------------------------------------------
(* startRun.                                                                *)
LEMMA StartKeeps ==
  ASSUME RunsInv, NEW c \in Callers, Start(c)
  PROVE  RunsInv'
<1> USE DEF RunsInv
<1> DEFINE session == loops[c].session
           freed == Reclaim(session)
           n == Len(rows) + 1
           new == [loops[c] EXCEPT !.at = "turns", !.run = n]
           row == NewRow(session)
<1>1. /\ loops[c].at = "begin" /\ Active(freed, session) = {} /\ Len(rows) < MaxRuns
      /\ rows' = Append(freed, row)
      /\ loops' = [loops EXCEPT ![c] = [@ EXCEPT !.at = "turns", !.run = n]]
      /\ UNCHANGED <<told, pass, history, restarts>>
  BY DEF Start
<1>2. c \in Loops /\ c # Boot /\ Boot \in Loops /\ Callers \subseteq Loops
  BY ActorAssumption DEF Loops
<1>3. loops[c] \in Loop /\ session \in Sessions /\ loops[c].by \in {"message", "job"}
      /\ (loops[c].by = "job" => session \in Jobs)
  BY <1>1, <1>2 DEF TypeOK, CallersAreHeard
<1>4. Len(rows) \in Nat /\ DOMAIN rows = 1 .. Len(rows) /\ n \in Runs /\ n \notin DOMAIN rows
      /\ n # 0 /\ DOMAIN rows \subseteq Runs
  BY <1>1, TableType, BoundAssumption DEF Runs
<1>5. /\ row \in Row /\ row.session = session /\ row.status = "running" /\ row.report = FALSE
      /\ row.delivered = FALSE /\ row.turns = <<>> /\ row.resumes = 0
  <2>1. <<>> \in Seq(BOOLEAN)
    BY EmptySeq
  <2> QED
    BY <1>3, <2>1 DEF NewRow, Row
<1>6. /\ new \in Loop /\ new.at = "turns" /\ new.run = n /\ new.by = loops[c].by
      /\ new.session = session /\ new.attempt = loops[c].attempt
  BY <1>3, <1>4 DEF Loop
<1>7. loops' = [loops EXCEPT ![c] = new]
  BY <1>1
<1> HIDE DEF session, freed, row, new
<1>8. /\ freed \in Seq(Row) /\ Len(freed) = Len(rows) /\ DOMAIN freed = DOMAIN rows
      /\ \A r \in DOMAIN rows :
              /\ freed[r] \in Row /\ freed[r].session = rows[r].session
              /\ freed[r].status = "running" => freed[r] = rows[r]
              /\ freed[r].report = rows[r].report
              /\ freed[r].turns = rows[r].turns /\ freed[r].resumes = rows[r].resumes
              /\ freed[r].delivered = rows[r].delivered /\ freed[r].attempts = rows[r].attempts
  <2>1. freed = Reclaim(session)
    BY DEF freed
  <2> QED
    BY <2>1, ReclaimRows
<1>9. /\ rows' \in Seq(Row) /\ Len(rows') = n /\ DOMAIN rows' = DOMAIN rows \cup {n}
      /\ rows'[n] = row /\ \A r \in DOMAIN rows : rows'[r] = freed[r]
  <2>1. /\ Append(freed, row) \in Seq(Row) /\ Len(Append(freed, row)) = Len(freed) + 1
        /\ \A i \in 1 .. Len(freed) : Append(freed, row)[i] = freed[i]
        /\ Append(freed, row)[Len(freed) + 1] = row
    BY <1>5, <1>8, AppendProperties
  <2>2. DOMAIN rows' = 1 .. Len(rows')
    BY <1>1, <2>1, LenProperties
  <2> QED
    BY <1>1, <1>4, <1>8, <2>1, <2>2
<1>10. loops'[c] = new /\ \A l \in Loops : l # c => loops'[l] = loops[l]
  BY <1>2, <1>7 DEF TypeOK
<1>11. \A l \in Loops : loops[l].run # 0 => loops[l].run \in DOMAIN rows
  BY TableType DEF TypeOK, Loop, Runs
<1>12. TypeOK'
  <2>1. \A l \in Loops : loops'[l].run <= Len(rows')
    <3>1. \A l \in Loops : loops[l].run \in Nat /\ loops[l].run <= Len(rows)
      BY BoundAssumption DEF TypeOK, Loop, Runs
    <3> QED
      BY <3>1, <1>4, <1>6, <1>9, <1>10
  <2>2. Len(rows') <= MaxRuns
    BY <1>1, <1>4, <1>9, BoundAssumption
  <2> QED
    BY <1>1, <1>6, <1>7, <1>9, <2>1, <2>2 DEF TypeOK, history
<1>13. LoopsAreDriven'
  BY <1>1, <1>2, <1>6, <1>8, <1>9, <1>10, <1>11 DEF LoopsAreDriven
<1>14. CallersAreHeard'
  BY <1>1, <1>2, <1>3, <1>5, <1>6, <1>8, <1>9, <1>10, <1>11 DEF CallersAreHeard
<1>15. OneRunPerSession'
  <2>1. \A r \in DOMAIN rows : rows'[r].status = "running" =>
          rows[r].status = "running" /\ rows'[r].session = rows[r].session
          /\ rows[r].session # session
    BY <1>1, <1>8, <1>9 DEF Active
  <2>2. \A r \in DOMAIN rows' : r = n \/ r \in DOMAIN rows
    BY <1>9
  <2> QED
    BY <1>5, <1>9, <2>1, <2>2 DEF OneRunPerSession, Running
<1>16. RunningOwesNothing' /\ DebtIsDischarged'
  BY <1>1, <1>5, <1>8, <1>9 DEF RunningOwesNothing, DebtIsDischarged, Running
<1>17. RefusedIsBehind' /\ DeadAreAhead'
  BY <1>1, <1>2, <1>4, <1>8, <1>9, <1>10 DEF RefusedIsBehind, DeadAreAhead, Running, history
<1>18. WorkIsSpent'
  <2>1. \A l \in Loops : loops[l].run # n
    BY <1>4, <1>11
  <2>2. \A a, b \in Callers : a # b /\ loops'[a].run = loops'[b].run => loops'[a].run = 0
    BY <1>2, <1>6, <1>10, <2>1 DEF WorkIsSpent
  <2>3. \A r \in Runs \ DOMAIN rows' : launches'[r] = 0
    BY <1>1, <1>9 DEF WorkIsSpent, history
  <2>4. launches'[n] = 0 /\ launches' = launches
    BY <1>1, <1>4 DEF WorkIsSpent, history
  <2>5. loops[c].attempt \in 0 .. Budget /\ loops[c].run \in Nat
    BY <1>3, BoundAssumption DEF Loop, Runs
  <2>6. /\ rows'[n].resumes = launches'[n] /\ launches'[n] <= MaxResumes
        /\ Len(rows'[n].turns) = 0
        /\ \A l \in Loops : TurnsLeft(loops'[l], n) \in 0 .. Budget + 1
        /\ \A l \in Loops : l # c => TurnsLeft(loops'[l], n) = 0
        /\ Allowed(launches'[n]) = Budget + 1
    <3>1. Len(<<>>) = 0
      BY EmptySeq
    <3> QED
      BY <1>5, <1>6, <1>9, <1>10, <2>1, <2>4, <2>5, <3>1, SettingAssumption
      DEF TurnsLeft, Allowed
  <2>7. \A r \in DOMAIN rows : TurnsLeft(loops'[c], r) = 0 /\ TurnsLeft(loops[c], r) = 0
    BY <1>1, <1>4, <1>6, <1>10 DEF TurnsLeft
  <2>8. \A r \in DOMAIN rows :
          /\ rows'[r].resumes = launches'[r] /\ launches'[r] <= MaxResumes
          /\ Len(rows'[r].turns) + TurnsLeft(loops'[Boot], r) <= Allowed(launches'[r])
          /\ \A a \in Callers :
               Len(rows'[r].turns) + TurnsLeft(loops'[a], r) + TurnsLeft(loops'[Boot], r)
                 <= Allowed(launches'[r])
    BY <1>2, <1>8, <1>9, <1>10, <2>4, <2>7 DEF WorkIsSpent
  <2>9. /\ Len(rows'[n].turns) + TurnsLeft(loops'[Boot], n) <= Allowed(launches'[n])
        /\ \A a \in Callers :
             Len(rows'[n].turns) + TurnsLeft(loops'[a], n) + TurnsLeft(loops'[Boot], n)
               <= Allowed(launches'[n])
    BY <1>2, <2>6, SettingAssumption
  <2> QED
    BY <1>9, <2>2, <2>3, <2>6, <2>8, <2>9 DEF WorkIsSpent
<1> QED
  BY <1>12, <1>13, <1>14, <1>15, <1>16, <1>17, <1>18

LEMMA StartRefusedKeeps ==
  ASSUME RunsInv, NEW c \in Callers, StartRefused(c)
  PROVE  RunsInv'
<1> USE DEF RunsInv
<1> DEFINE freed == Reclaim(loops[c].session)
           new == IF loops[c].by = "job" THEN Idle ELSE [loops[c] EXCEPT !.at = "turns"]
<1>1. /\ loops[c].at = "begin" /\ rows' = freed
      /\ loops' = [loops EXCEPT ![c] = new]
      /\ UNCHANGED <<told, pass, history, restarts>>
  BY DEF StartRefused
<1>2. c \in Loops /\ c # Boot /\ Boot \in Loops /\ Callers \subseteq Loops
  BY ActorAssumption DEF Loops
<1>3. loops[c] \in Loop /\ loops[c].run = 0
  BY <1>1, <1>2 DEF TypeOK, CallersAreHeard
<1>4. /\ new \in Loop /\ new.run = 0 /\ new.at \in {"idle", "turns"}
      /\ new = Idle \/ (new.at = "turns" /\ new.by = loops[c].by /\ loops[c].by # "job"
                          /\ new.session = loops[c].session)
  BY <1>3, IdleIsLoop DEF Loop
<1>5. RowsKept /\ SameWork /\ SameDebt /\ DOMAIN rows' = DOMAIN rows /\ Len(rows') = Len(rows)
  <2> HIDE DEF freed
  <2>1. freed = Reclaim(loops[c].session)
    BY DEF freed
  <2>2. /\ freed \in Seq(Row) /\ Len(freed) = Len(rows) /\ DOMAIN freed = DOMAIN rows
        /\ \A r \in DOMAIN rows :
              /\ freed[r].session = rows[r].session
              /\ freed[r].status = "running" => freed[r] = rows[r]
              /\ freed[r].report = rows[r].report
              /\ freed[r].turns = rows[r].turns /\ freed[r].resumes = rows[r].resumes
              /\ freed[r].delivered = rows[r].delivered /\ freed[r].attempts = rows[r].attempts
    BY <2>1, ReclaimRows
  <2>3. SameWork /\ SameDebt
    BY <1>1, <2>2 DEF SameWork, SameDebt
  <2> QED
    BY <1>1, <2>2, <2>3, TableType DEF RowsKept, RunningOwesNothing, Running, TypeOK
<1> HIDE DEF freed, new
<1>6. loops'[c] = new /\ \A l \in Loops : l # c => loops'[l] = loops[l]
  BY <1>1, <1>2 DEF TypeOK
<1>7. \A l \in Loops : loops[l].run # 0 => loops[l].run \in DOMAIN rows
  BY TableType DEF TypeOK, Loop, Runs
<1>8. TypeOK'
  <2>1. \A l \in Loops : loops'[l].run <= Len(rows')
    BY <1>4, <1>5, <1>6, TableType DEF TypeOK
  <2> QED
    BY <1>1, <1>4, <1>5, <2>1 DEF TypeOK, RowsKept, history
<1>9. LoopsAreDriven'
  BY <1>1, <1>2, <1>4, <1>5, <1>6, <1>7, IdleIsLoop DEF LoopsAreDriven, RowsKept
<1>10. CallersAreHeard'
  BY <1>1, <1>2, <1>4, <1>5, <1>6, <1>7, IdleIsLoop DEF CallersAreHeard, RowsKept
<1>11. OneRunPerSession' /\ RunningOwesNothing' /\ DebtIsDischarged'
  BY <1>1, <1>5, RowInvsKeep, DebtKeeps
<1>12. RefusedIsBehind'
  BY <1>1, <1>2, <1>5, <1>6 DEF RefusedIsBehind, RowsKept, history
<1>13. DeadAreAhead'
  BY <1>1, <1>2, <1>5, <1>6 DEF DeadAreAhead, RowsKept, history, Running
<1>14. WorkIsSpent'
  BY <1>1, <1>2, <1>4, <1>5, WorkKeeps DEF history
<1> QED
  BY <1>8, <1>9, <1>10, <1>11, <1>12, <1>13, <1>14

-----------------------------------------------------------------------------
(* The pass takes the next run of its snapshot.                             *)
LEMMA VisitTakes ==
  ASSUME RunsInv, NEW r \in pass.left, NEW half \in {"drain", "resume"},
         NEW at \in {"idle", "owing", "judge", "turns"},
         NEW by \in {"none", "drain", "giveup", "resume"}, Visit(half, r, at, by)
  PROVE  /\ pass.at = half /\ r \in pass.left /\ r \in DOMAIN rows /\ r \notin refused
         /\ pass'.at = half /\ pass'.left = pass.left \ {r} /\ pass' \in Pass
         /\ loops[Boot].at = "idle" /\ loops' \in [Loops -> Loop]
         /\ \A c \in Callers : loops'[c] = loops[c]
         /\ by = "none" => loops' = loops
         /\ by # "none" => /\ loops'[Boot].at = at /\ loops'[Boot].by = by
                           /\ loops'[Boot].run = r /\ loops'[Boot].attempt = 0
                           /\ loops' = [loops EXCEPT ![Boot] = NewLoop(at, by, rows[r].session, r)]
<1> USE DEF RunsInv
<1>1. Boot \in Loops /\ Callers \subseteq Loops /\ Boot \notin Callers
  BY ActorAssumption DEF Loops
<1>2. /\ pass.at = half /\ loops[Boot].at = "idle" /\ pass.left # {} /\ r = Oldest(pass.left)
      /\ pass' = [pass EXCEPT !.left = @ \ {r}]
      /\ loops' = IF by = "none" THEN loops
                  ELSE [loops EXCEPT ![Boot] = NewLoop(at, by, rows[r].session, r)]
  BY DEF Visit, PassAt
<1>3. pass \in Pass /\ r \in DOMAIN rows /\ r \in Runs /\ r \notin refused /\ rows[r] \in Row
  BY TableType DEF TypeOK, RefusedIsBehind
<1>4. pass'.at = half /\ pass'.left = pass.left \ {r} /\ pass' \in Pass
  BY <1>2, <1>3 DEF Pass
<1> DEFINE new == NewLoop(at, by, rows[r].session, r)
<1>5. /\ new \in Loop /\ new.at = at /\ new.by = by /\ new.run = r /\ new.attempt = 0
      /\ loops' = IF by = "none" THEN loops ELSE [loops EXCEPT ![Boot] = new]
  BY <1>2, <1>3, SettingAssumption DEF NewLoop, Loop, Row
<1> HIDE DEF new
<1>6. loops' \in [Loops -> Loop] /\ \A c \in Callers : loops'[c] = loops[c]
  BY <1>1, <1>5 DEF TypeOK
<1>7. by # "none" => loops'[Boot] = new
  BY <1>1, <1>5 DEF TypeOK
<1>8. by = "none" => loops' = loops
  BY <1>2
<1>9. by # "none" => loops' = [loops EXCEPT ![Boot] = NewLoop(at, by, rows[r].session, r)]
  BY <1>2
<1> QED
  BY <1>2, <1>3, <1>4, <1>5, <1>6, <1>7, <1>8, <1>9

(* What the pass leaves alone whatever it does with the run it takes.       *)
LEMMA PassLeavesAlone ==
  ASSUME RunsInv, RowsKept, DOMAIN rows' = DOMAIN rows, Len(rows') = Len(rows),
         loops' \in [Loops -> Loop], \A c \in Callers : loops'[c] = loops[c],
         loops'[Boot].run \in {0, loops[Boot].run} \cup DOMAIN rows,
         pass' \in Pass, told' = told, dead' = dead, refused' = refused,
         restarts' = restarts,
         launches' \in [Runs -> Nat], achieved' \in [Runs -> BOOLEAN], tried' \subseteq Runs
  PROVE  TypeOK' /\ CallersAreHeard' /\ OneRunPerSession' /\ RunningOwesNothing'
<1> USE DEF RunsInv
<1>1. Boot \in Loops /\ Loops = Callers \cup {Boot} /\ Boot \notin Callers
  BY ActorAssumption DEF Loops
<1>2. \A l \in Loops : loops[l].run # 0 => loops[l].run \in DOMAIN rows
  BY TableType DEF TypeOK, Loop, Runs
<1>3. TypeOK'
  <2>1. \A l \in Loops : loops'[l].run <= Len(rows')
    BY <1>1, <1>2, TableType DEF TypeOK
  <2>2. rows' \in Seq(Row) /\ Len(rows') <= MaxRuns
    BY DEF RowsKept
  <2>3. told' \subseteq Runs /\ dead' \subseteq Runs /\ refused' \subseteq Runs /\ restarts' \in Nat
    BY DEF TypeOK
  <2> QED
    BY <2>1, <2>2, <2>3 DEF TypeOK
<1>4. CallersAreHeard'
  BY <1>1, <1>2 DEF CallersAreHeard, RowsKept
<1> QED
  BY <1>3, <1>4, RowInvsKeep, SMTT(30)

(* The turns a loop has left are at most one budget's.                      *)
LEMMA TurnsLeftType ==
  ASSUME NEW l \in Loop, NEW r
  PROVE  TurnsLeft(l, r) \in 0 .. Budget + 1
BY SettingAssumption DEF TurnsLeft, Loop

(* A pass step that starts no turns takes none away.                        *)
LEMMA PassWorkKeeps ==
  ASSUME RunsInv, SameWork, DOMAIN rows' = DOMAIN rows, launches' = launches,
         loops' \in [Loops -> Loop], \A c \in Callers : loops'[c] = loops[c],
         loops'[Boot] = loops[Boot] \/ loops'[Boot].at # "turns"
  PROVE  WorkIsSpent'
<1> USE DEF RunsInv
<1>1. Boot \in Loops /\ Callers \subseteq Loops
  BY DEF Loops
<1>2. ASSUME NEW r \in DOMAIN rows
      PROVE  /\ Len(rows[r].turns) + TurnsLeft(loops'[Boot], r) <= Allowed(launches[r])
             /\ \A a \in Callers :
                  Len(rows[r].turns) + TurnsLeft(loops'[a], r) + TurnsLeft(loops'[Boot], r)
                    <= Allowed(launches[r])
  <2>1. Len(rows[r].turns) \in Nat
    BY TableType, LenProperties DEF Row
  <2>2. launches[r] \in Nat /\ Allowed(launches[r]) \in Nat
    BY TableType, AllowedGrows DEF TypeOK
  <2>3. \A l \in Loops : TurnsLeft(loops[l], r) \in Nat /\ TurnsLeft(loops'[l], r) \in Nat
    BY TurnsLeftType, SettingAssumption DEF TypeOK
  <2>4. TurnsLeft(loops'[Boot], r) <= TurnsLeft(loops[Boot], r)
    BY <1>1, <2>3 DEF TurnsLeft
  <2> QED
    BY <1>1, <2>1, <2>2, <2>3, <2>4 DEF WorkIsSpent
<1> QED
  BY <1>2 DEF WorkIsSpent, SameWork

(* connectors.reload() has returned, or a half of the pass is through.      *)
LEMMA HalvesKeep ==
  ASSUME RunsInv, StartDrain \/ StartResume \/ EndPass
  PROVE  RunsInv'
<1> USE DEF RunsInv
<1>1. /\ rows' = rows /\ told' = told /\ loops' = loops /\ UNCHANGED <<history, restarts>>
      /\ loops[Boot].at = "idle"
  BY DEF StartDrain, StartResume, EndPass, PassAt, durable
<1>2. /\ pass' \in Pass /\ pass'.left \subseteq DOMAIN rows /\ pass'.at # "reload"
      /\ pass'.at = "drain" => \A r \in pass'.left : rows[r].report
      /\ pass'.at = "drain" => refused = {}
      /\ pass'.at = "resume" => pass'.left = RunningRuns
      /\ pass'.at = "done" => pass.at = "resume" /\ pass'.left = {} /\ pass.left = {}
      /\ pass'.at \in {"drain", "resume", "done"}
  <2>1. pass \in Pass /\ DOMAIN rows \subseteq Runs
    BY TableType DEF TypeOK
  <2>2. CASE StartDrain
    BY <2>1, <2>2 DEF StartDrain, PassAt, Pass, Undelivered, RefusedIsBehind
  <2>3. CASE StartResume
    BY <2>1, <2>3 DEF StartResume, PassAt, Pass, RunningRuns
  <2>4. CASE EndPass
    BY <2>1, <2>4 DEF EndPass, PassAt, Pass
  <2> QED
    BY <2>2, <2>3, <2>4
<1>3. RowsKept /\ SameWork /\ SameDebt /\ DOMAIN rows' = DOMAIN rows
  BY <1>1, SameRows
<1>4. Boot \in Loops /\ Callers \subseteq Loops
  BY DEF Loops
<1>5. TypeOK' /\ CallersAreHeard' /\ OneRunPerSession' /\ RunningOwesNothing'
  BY <1>1, <1>2, <1>3, <1>4, PassLeavesAlone DEF TypeOK, history
<1>6. LoopsAreDriven'
  BY <1>1 DEF LoopsAreDriven
<1>7. DebtIsDischarged'
  BY <1>1, <1>3, DebtKeeps
<1>8. RefusedIsBehind'
  <2>1. \A r \in refused : r \notin RunningRuns
    BY DEF RefusedIsBehind, RunningRuns, RunningOwesNothing, Running
  <2> QED
    BY <1>1, <1>2, <2>1 DEF RefusedIsBehind, history
<1>9. DeadAreAhead'
  BY <1>1, <1>2 DEF DeadAreAhead, RunningRuns, Running, history
<1>10. WorkIsSpent'
  BY <1>1, <1>3, <1>4, PassWorkKeeps DEF TypeOK, history
<1> QED
  BY <1>5, <1>6, <1>7, <1>8, <1>9, <1>10

(* A report still owed is taken up: its row is untouched.                   *)
LEMMA RedeliverKeeps ==
  ASSUME RunsInv, NEW r \in pass.left, Redeliver(r)
  PROVE  RunsInv'
<1> USE DEF RunsInv
<1>1. rows' = rows /\ told' = told /\ UNCHANGED <<history, restarts>>
      /\ Visit("drain", r, "owing", "drain")
  BY DEF Redeliver, durable
<1>2. /\ pass.at = "drain" /\ r \in DOMAIN rows /\ r \notin refused
      /\ pass'.at = "drain" /\ pass'.left = pass.left \ {r} /\ pass' \in Pass
      /\ loops[Boot].at = "idle" /\ loops' \in [Loops -> Loop]
      /\ \A c \in Callers : loops'[c] = loops[c]
      /\ loops'[Boot].at = "owing" /\ loops'[Boot].by = "drain" /\ loops'[Boot].run = r
  BY <1>1, VisitTakes
<1>3. RowsKept /\ SameWork /\ SameDebt /\ DOMAIN rows' = DOMAIN rows
  BY <1>1, SameRows
<1>4. Boot \in Loops /\ Loops = Callers \cup {Boot}
  BY DEF Loops
<1>5. TypeOK' /\ CallersAreHeard' /\ OneRunPerSession' /\ RunningOwesNothing'
  BY <1>1, <1>2, <1>3, PassLeavesAlone DEF TypeOK, history
<1>6. rows[r].report /\ r # 0
  BY <1>2, TableType DEF RefusedIsBehind, Runs
<1>7. LoopsAreDriven'
  BY <1>1, <1>2, <1>4, <1>6 DEF LoopsAreDriven
<1>8. DebtIsDischarged'
  BY <1>1, <1>3, DebtKeeps
<1>9. RefusedIsBehind'
  BY <1>1, <1>2, <1>6 DEF RefusedIsBehind, history
<1>10. DeadAreAhead'
  BY <1>1, <1>2 DEF DeadAreAhead, history
<1>11. WorkIsSpent'
  BY <1>1, <1>2, <1>3, PassWorkKeeps DEF history
<1> QED
  BY <1>5, <1>7, <1>8, <1>9, <1>10, <1>11

(* The report of a target that refused often enough stays in the log.       *)
LEMMA LeaveInTheLogKeeps ==
  ASSUME RunsInv, NEW r \in pass.left, LeaveInTheLog(r)
  PROVE  RunsInv'
<1> USE DEF RunsInv
<1> DEFINE new == Marked(rows[r], "sent")
<1>1. /\ rows' = [rows EXCEPT ![r] = new] /\ told' = told /\ UNCHANGED <<history, restarts>>
      /\ Visit("drain", r, "idle", "none") /\ rows[r].attempts >= MaxRefusals
  BY DEF LeaveInTheLog
<1>2. /\ pass.at = "drain" /\ r \in DOMAIN rows
      /\ pass'.at = "drain" /\ pass'.left = pass.left \ {r} /\ pass' \in Pass
      /\ loops[Boot].at = "idle" /\ loops' = loops
  BY <1>1, VisitTakes
<1>3. /\ new \in Row /\ new.session = rows[r].session /\ new.status = rows[r].status
      /\ new.report = rows[r].report /\ new.turns = rows[r].turns
      /\ new.resumes = rows[r].resumes /\ new.attempts = rows[r].attempts
  BY <1>2, TableType, MarkedRow
<1>4. rows[r].status = "running" => ~rows[r].report
  BY <1>2 DEF RunningOwesNothing, Running
<1> HIDE DEF new
<1>5. /\ RowsKept /\ SameWork /\ DOMAIN rows' = DOMAIN rows /\ Len(rows') = Len(rows)
      /\ rows'[r] = new /\ \A q \in DOMAIN rows : q # r => rows'[q] = rows[q]
  BY <1>1, <1>2, <1>3, <1>4, UpdateRow DEF SameWork
<1>6. loops' \in [Loops -> Loop] /\ loops[Boot].run \in {0} \cup DOMAIN rows
  <2>1. Boot \in Loops
    BY DEF Loops
  <2> QED
    BY <1>2, <2>1, TableType DEF TypeOK, Loop, Runs
<1>7. TypeOK' /\ CallersAreHeard' /\ OneRunPerSession' /\ RunningOwesNothing'
  BY <1>1, <1>2, <1>5, <1>6, PassLeavesAlone DEF TypeOK, history
<1>8. LoopsAreDriven'
  BY <1>1, <1>2, <1>5, <1>6 DEF LoopsAreDriven, RowsKept
<1>9. DebtIsDischarged'
  BY <1>1, <1>3, <1>5 DEF DebtIsDischarged
<1>10. RefusedIsBehind'
  BY <1>1, <1>2, <1>5 DEF RefusedIsBehind, RowsKept, history
<1>11. DeadAreAhead'
  BY <1>1, <1>2, <1>5 DEF DeadAreAhead, history
<1>12. WorkIsSpent'
  BY <1>1, <1>2, <1>5, <1>6, PassWorkKeeps DEF history
<1> QED
  BY <1>7, <1>8, <1>9, <1>10, <1>11, <1>12

(* The pass takes up a run to end it: it is in the pass's hand until then.  *)
LEMMA GiveUpKeeps ==
  ASSUME RunsInv, NEW r \in pass.left, GiveUp(r)
  PROVE  RunsInv'
<1> USE DEF RunsInv
<1>1. rows' = rows /\ told' = told /\ UNCHANGED <<history, restarts>>
      /\ Visit("resume", r, "judge", "giveup")
  BY DEF GiveUp, durable
<1>2. /\ pass.at = "resume" /\ r \in DOMAIN rows /\ r \notin refused
      /\ pass'.at = "resume" /\ pass'.left = pass.left \ {r} /\ pass' \in Pass
      /\ loops[Boot].at = "idle" /\ loops' \in [Loops -> Loop]
      /\ \A c \in Callers : loops'[c] = loops[c]
      /\ loops'[Boot].at = "judge" /\ loops'[Boot].by = "giveup" /\ loops'[Boot].run = r
  BY <1>1, VisitTakes
<1>3. RowsKept /\ SameWork /\ SameDebt /\ DOMAIN rows' = DOMAIN rows
  BY <1>1, SameRows
<1>4. Boot \in Loops /\ Loops = Callers \cup {Boot} /\ r # 0
  BY <1>2, TableType DEF Loops, Runs
<1>5. TypeOK' /\ CallersAreHeard' /\ OneRunPerSession' /\ RunningOwesNothing'
  BY <1>1, <1>2, <1>3, PassLeavesAlone DEF TypeOK, history
<1>6. LoopsAreDriven'
  BY <1>1, <1>2, <1>4 DEF LoopsAreDriven
<1>7. DebtIsDischarged'
  BY <1>1, <1>3, DebtKeeps
<1>8. RefusedIsBehind'
  BY <1>1, <1>2 DEF RefusedIsBehind, history
<1>9. DeadAreAhead'
  BY <1>1, <1>2 DEF DeadAreAhead, Running, history
<1>10. WorkIsSpent'
  BY <1>1, <1>2, <1>3, PassWorkKeeps DEF history
<1> QED
  BY <1>5, <1>6, <1>7, <1>8, <1>9, <1>10

(* The attempt is on the row before it is made, so a resume adds exactly    *)
(* the turns it may take to what the run may take in all.                   *)
LEMMA ResumeKeeps ==
  ASSUME RunsInv, NEW r \in pass.left, Resume(r)
  PROVE  RunsInv'
<1> USE DEF RunsInv
<1> DEFINE new == [rows[r] EXCEPT !.resumes = rows[r].resumes + 1,
                                  !.from = Len(rows[r].turns) + 1, !.stale = FALSE]
<1>1. /\ Visit("resume", r, "turns", "resume") /\ ~GivesUp(r)
      /\ rows' = [rows EXCEPT ![r] = new]
      /\ launches' = [launches EXCEPT ![r] = @ + 1]
      /\ achieved' = [achieved EXCEPT ![r] = FALSE]
      /\ tried' = tried \cup {r}
      /\ UNCHANGED <<told, dead, refused, restarts>>
  BY DEF Resume
<1>2. /\ pass.at = "resume" /\ r \in DOMAIN rows /\ r \notin refused
      /\ pass'.at = "resume" /\ pass'.left = pass.left \ {r} /\ pass' \in Pass
      /\ loops[Boot].at = "idle" /\ loops' \in [Loops -> Loop]
      /\ \A c \in Callers : loops'[c] = loops[c]
      /\ loops'[Boot].at = "turns" /\ loops'[Boot].by = "resume" /\ loops'[Boot].run = r
      /\ loops'[Boot].attempt = 0
  BY <1>1, VisitTakes
<1>3. rows[r] \in Row /\ Len(rows[r].turns) \in Nat /\ r \in Runs /\ r # 0
  <2>1. rows[r] \in Row /\ r \in Runs /\ r # 0
    BY <1>2, TableType DEF Runs
  <2> QED
    BY <2>1, LenProperties DEF Row
<1>4. /\ new \in Row /\ new.session = rows[r].session /\ new.status = rows[r].status
      /\ new.report = rows[r].report /\ new.turns = rows[r].turns
      /\ new.resumes = rows[r].resumes + 1 /\ new.delivered = rows[r].delivered
      /\ new.attempts = rows[r].attempts
  <2> DEFINE from == Len(rows[r].turns) + 1
             resumes == rows[r].resumes + 1
  <2>1. from \in Nat /\ resumes \in Nat
    BY <1>3 DEF Row
  <2>2. new = [rows[r] EXCEPT !.resumes = resumes, !.from = from, !.stale = FALSE]
    OBVIOUS
  <2>3. resumes = rows[r].resumes + 1
    OBVIOUS
  <2> HIDE DEF from, resumes, new
  <2> QED
    BY <1>3, <2>1, <2>2, <2>3 DEF Row
<1>5. rows[r].status = "running" => ~rows[r].report
  BY <1>2 DEF RunningOwesNothing, Running
<1> HIDE DEF new
<1>6. /\ RowsKept /\ SameDebt /\ DOMAIN rows' = DOMAIN rows /\ Len(rows') = Len(rows)
      /\ rows'[r] = new /\ \A q \in DOMAIN rows : q # r => rows'[q] = rows[q]
  BY <1>1, <1>2, <1>4, <1>5, UpdateRow DEF SameDebt
<1>7. Boot \in Loops /\ Loops = Callers \cup {Boot} /\ Boot \notin Callers
  BY ActorAssumption DEF Loops
<1>8. /\ launches' \in [Runs -> Nat] /\ achieved' \in [Runs -> BOOLEAN] /\ tried' \subseteq Runs
      /\ launches[r] \in Nat /\ launches'[r] = launches[r] + 1
      /\ \A q \in Runs : q # r => launches'[q] = launches[q]
  BY <1>1, <1>3 DEF TypeOK
<1>9. TypeOK' /\ CallersAreHeard' /\ OneRunPerSession' /\ RunningOwesNothing'
  BY <1>1, <1>2, <1>6, <1>8, PassLeavesAlone
<1>10. LoopsAreDriven'
  BY <1>1, <1>2, <1>3, <1>7 DEF LoopsAreDriven
<1>11. DebtIsDischarged'
  BY <1>1, <1>6, DebtKeeps
<1>12. RefusedIsBehind'
  BY <1>1, <1>2, <1>6 DEF RefusedIsBehind, RowsKept
<1>13. DeadAreAhead'
  BY <1>1, <1>2, <1>4, <1>6 DEF DeadAreAhead, Running
<1>14. WorkIsSpent'
  <2>1. rows[r].resumes < MaxResumes
    <3>1. ~(rows[r].resumes >= MaxResumes)
      BY <1>1 DEF GivesUp
    <3> QED
      BY <1>3, <3>1, SettingAssumption DEF Row
  <2>2. \A c, d \in Callers : c # d /\ loops'[c].run = loops'[d].run => loops'[c].run = 0
    BY <1>2 DEF WorkIsSpent
  <2>3. \A q \in Runs \ DOMAIN rows' : launches'[q] = 0
    BY <1>2, <1>6, <1>8 DEF WorkIsSpent
  <2>4. \A q \in DOMAIN rows :
          /\ Len(rows[q].turns) \in Nat /\ launches[q] \in Nat /\ Allowed(launches[q]) \in Nat
          /\ \A l \in Loops : TurnsLeft(loops[l], q) \in 0 .. Budget + 1
                              /\ TurnsLeft(loops'[l], q) \in 0 .. Budget + 1
          /\ TurnsLeft(loops[Boot], q) = 0
    <3>1. \A q \in DOMAIN rows : Len(rows[q].turns) \in Nat
      BY TableType, LenProperties DEF Row
    <3>2. \A q \in DOMAIN rows : launches[q] \in Nat /\ Allowed(launches[q]) \in Nat
      BY TableType, AllowedGrows DEF TypeOK
    <3>3. \A q \in DOMAIN rows, l \in Loops :
            TurnsLeft(loops[l], q) \in 0 .. Budget + 1 /\ TurnsLeft(loops'[l], q) \in 0 .. Budget + 1
      BY <1>2, TurnsLeftType DEF TypeOK
    <3>4. \A q \in DOMAIN rows : TurnsLeft(loops[Boot], q) = 0
      BY <1>2 DEF TurnsLeft
    <3> QED
      BY <3>1, <3>2, <3>3, <3>4
  <2>5. ASSUME NEW q \in DOMAIN rows, q # r
        PROVE  /\ rows'[q].resumes = launches'[q] /\ launches'[q] <= MaxResumes
               /\ Len(rows'[q].turns) + TurnsLeft(loops'[Boot], q) <= Allowed(launches'[q])
               /\ \A c \in Callers :
                    Len(rows'[q].turns) + TurnsLeft(loops'[c], q) + TurnsLeft(loops'[Boot], q)
                      <= Allowed(launches'[q])
    <3>1. TurnsLeft(loops'[Boot], q) = 0 /\ TurnsLeft(loops[Boot], q) = 0
      BY <1>2, <2>4, <2>5 DEF TurnsLeft
    <3>2. rows'[q] = rows[q] /\ launches'[q] = launches[q]
      BY <1>6, <1>8, <2>5, TableType
    <3> QED
      BY <1>2, <2>4, <3>1, <3>2 DEF WorkIsSpent
  <2>6. Allowed(launches'[r]) = Allowed(launches[r]) + Budget + 1 /\ Allowed(launches'[r]) \in Nat
    BY <1>8, AllowedGrows
  <2>7. /\ rows'[r].resumes = launches'[r] /\ launches'[r] <= MaxResumes
    <3>1. rows[r].resumes = launches[r]
      BY <1>2 DEF WorkIsSpent
    <3> QED
      BY <1>4, <1>6, <1>8, <2>1, <3>1, SettingAssumption
  <2>8. rows'[r].turns = rows[r].turns
    BY <1>4, <1>6
  <2>9. Len(rows[r].turns) <= Allowed(launches[r])
    BY <1>2, <2>4 DEF WorkIsSpent
  <2>10. \A c \in Callers : Len(rows[r].turns) + TurnsLeft(loops'[c], r) <= Allowed(launches[r])
    <3>1. \A c \in Callers : TurnsLeft(loops[c], r) \in 0 .. Budget + 1
      BY <1>2, <1>7, <2>4
    <3> QED
      BY <1>2, <2>4, <3>1 DEF WorkIsSpent
  <2>11. TurnsLeft(loops'[Boot], r) \in 0 .. Budget + 1
         /\ \A c \in Callers : TurnsLeft(loops'[c], r) \in 0 .. Budget + 1
    BY <1>2, <1>7, <2>4
  <2>12. /\ Len(rows'[r].turns) + TurnsLeft(loops'[Boot], r) <= Allowed(launches'[r])
         /\ \A c \in Callers :
              Len(rows'[r].turns) + TurnsLeft(loops'[c], r) + TurnsLeft(loops'[Boot], r)
                <= Allowed(launches'[r])
    BY <1>2, <1>3, <2>4, <2>6, <2>8, <2>9, <2>10, <2>11, SettingAssumption, SMTT(30)
  <2> QED
    BY <1>6, <2>2, <2>3, <2>5, <2>7, <2>12 DEF WorkIsSpent
<1> QED
  BY <1>9, <1>10, <1>11, <1>12, <1>13, <1>14

-----------------------------------------------------------------------------
(* A turn is recorded, and costs the loop one of those it has left.         *)
LEMMA AfterTurn ==
  ASSUME NEW l \in Loop, l.at = "turns", NEW outcome, NEW passes, NEW turns
  PROVE  LET new == After(l, outcome, passes, turns)
         IN /\ new \in Loop /\ new.by = l.by /\ new.run = l.run /\ new.session = l.session
            /\ \/ new.at = "judge"
               \/ new.at = "turns" /\ new.attempt = l.attempt + 1
<1> DEFINE replan == Refuted(outcome, turns) /\ ~l.replanned
           again == l.replanned \/ replan
           more == [l EXCEPT !.attempt = l.attempt + 1, !.fresh = FALSE, !.replanned = again]
           last == [l EXCEPT !.at = "judge", !.fresh = FALSE]
           goesOn == replan \/ Unfinished(outcome, passes, turns)
<1>1. again \in BOOLEAN
  BY Zenon
<1>2. After(l, outcome, passes, turns) = IF Room(l) /\ goesOn THEN more ELSE last
  BY Zenon DEF After
<1> HIDE DEF again, goesOn
<1>3. last \in Loop /\ last.by = l.by /\ last.run = l.run /\ last.session = l.session
      /\ last.at = "judge"
  BY DEF Loop
<1>4. ASSUME Room(l)
      PROVE  more \in Loop /\ more.by = l.by /\ more.run = l.run /\ more.session = l.session
             /\ more.at = "turns" /\ more.attempt = l.attempt + 1
  <2>1. l.attempt + 1 \in 0 .. Budget
    BY <1>4, SettingAssumption DEF Room, Loop
  <2> QED
    BY <1>1, <2>1 DEF Loop
<1> HIDE DEF more, last
<1> QED
  BY <1>2, <1>3, <1>4

LEMMA TurnKeeps ==
  ASSUME RunsInv, NEW c \in Loops, NEW did, NEW outcome, NEW passes,
         Turn(c, did, outcome, passes)
  PROVE  RunsInv'
<1> USE DEF RunsInv
<1> DEFINE l == loops[c]
           r == loops[c].run
           counts == Recorded(l, did)
           turns == Append(rows[r].turns, counts)
           changed == rows[r].changed \/ did = "files"
           row == [rows[r] EXCEPT !.turns = turns, !.stale = FALSE, !.changed = changed]
           new == After(l, outcome, passes, turns)
<1>1. /\ l.at = "turns" /\ r # 0
      /\ rows' = [rows EXCEPT ![r] = row]
      /\ loops' = [loops EXCEPT ![c] = new]
      /\ UNCHANGED <<told, pass, launches, dead, tried, refused, restarts>>
  BY DEF Turn
<1>2. l \in Loop /\ r \in DOMAIN rows /\ rows[r] \in Row /\ r \in Runs
  BY <1>1, TableType DEF TypeOK, Loop, Runs
<1>3. achieved' \in [Runs -> BOOLEAN]
  <2> DEFINE got == achieved[r] \/ did # "nothing"
  <2>1. got \in BOOLEAN
    BY Zenon
  <2>2. achieved' = [achieved EXCEPT ![r] = got]
    BY DEF Turn
  <2> HIDE DEF got
  <2> QED
    BY <1>2, <2>1, <2>2 DEF TypeOK
<1>4. counts \in BOOLEAN /\ changed \in BOOLEAN
  BY Zenon DEF Recorded
<1> HIDE DEF counts, changed
<1>5. turns \in Seq(BOOLEAN) /\ Len(turns) = Len(rows[r].turns) + 1 /\ Len(rows[r].turns) \in Nat
  <2>1. rows[r].turns \in Seq(BOOLEAN)
    BY <1>2 DEF Row
  <2> QED
    BY <1>4, <2>1, AppendProperties, LenProperties
<1>6. /\ new \in Loop /\ new.by = l.by /\ new.run = r /\ new.session = l.session
      /\ \/ new.at = "judge"
         \/ new.at = "turns" /\ new.attempt = l.attempt + 1
  BY <1>1, <1>2, AfterTurn
<1> HIDE DEF turns, new
<1>7. /\ row \in Row /\ row.session = rows[r].session /\ row.status = rows[r].status
      /\ row.report = rows[r].report /\ row.turns = turns
      /\ row.resumes = rows[r].resumes /\ row.delivered = rows[r].delivered
      /\ row.attempts = rows[r].attempts
  BY <1>2, <1>4, <1>5 DEF Row
<1>8. rows[r].status = "running" => ~rows[r].report
  BY <1>2 DEF RunningOwesNothing, Running
<1> HIDE DEF row
<1>9. /\ RowsKept /\ SameDebt /\ DOMAIN rows' = DOMAIN rows /\ Len(rows') = Len(rows)
      /\ rows'[r] = row /\ \A q \in DOMAIN rows : q # r => rows'[q] = rows[q]
  <2> HIDE DEF r
  <2> QED
    BY <1>1, <1>2, <1>7, <1>8, UpdateRow DEF SameDebt
<1>10. Boot \in Loops /\ Loops = Callers \cup {Boot} /\ Boot \notin Callers
  BY ActorAssumption DEF Loops
<1>11. loops'[c] = new /\ \A k \in Loops : k # c => loops'[k] = loops[k]
  BY <1>1 DEF TypeOK
<1>12. \A k \in Loops : loops[k].run # 0 => loops[k].run \in DOMAIN rows
  BY TableType DEF TypeOK, Loop, Runs
<1>13. TypeOK'
  <2>1. \A k \in Loops : loops'[k].run <= Len(rows')
    BY <1>6, <1>9, <1>11 DEF TypeOK
  <2> QED
    BY <1>1, <1>3, <1>6, <1>9, <2>1 DEF TypeOK, RowsKept
<1>14. LoopsAreDriven'
  BY <1>1, <1>6, <1>9, <1>10, <1>11, <1>12 DEF LoopsAreDriven, RowsKept
<1>15. CallersAreHeard'
  BY <1>1, <1>6, <1>9, <1>10, <1>11, <1>12 DEF CallersAreHeard, RowsKept
<1>16. OneRunPerSession' /\ RunningOwesNothing' /\ DebtIsDischarged'
  BY <1>1, <1>9, RowInvsKeep, DebtKeeps
<1>17. RefusedIsBehind'
  BY <1>1, <1>6, <1>9, <1>10, <1>11 DEF RefusedIsBehind, RowsKept
<1>18. DeadAreAhead'
  <2>1. loops'[Boot].at = "judge" /\ loops'[Boot].by = "giveup" => loops'[Boot] = loops[Boot]
    BY <1>1, <1>6, <1>10, <1>11 DEF LoopsAreDriven
  <2>2. loops[Boot].at = "judge" => loops'[Boot] = loops[Boot]
    BY <1>1, <1>10, <1>11
  <2> QED
    BY <1>1, <1>9, <2>1, <2>2 DEF DeadAreAhead, RowsKept, Running
<1>19. WorkIsSpent'
  <2>1. \A q \in DOMAIN rows :
          /\ Len(rows[q].turns) \in Nat /\ launches[q] \in Nat /\ Allowed(launches[q]) \in Nat
    BY TableType, LenProperties, AllowedGrows DEF TypeOK, Row
  <2>2. \A q \in DOMAIN rows, k \in Loops :
          TurnsLeft(loops[k], q) \in 0 .. Budget + 1 /\ TurnsLeft(loops'[k], q) \in 0 .. Budget + 1
    BY <1>13, TurnsLeftType DEF TypeOK
  <2>3. TurnsLeft(new, r) + 1 <= TurnsLeft(l, r)
    <3>1. TurnsLeft(l, r) = Budget + 1 - l.attempt /\ l.attempt \in 0 .. Budget
      BY <1>1, <1>2 DEF TurnsLeft, Loop
    <3>2. CASE new.at = "judge"
      <4>1. TurnsLeft(new, r) = 0
        BY <3>2 DEF TurnsLeft
      <4> QED
        BY <3>1, <4>1, SettingAssumption
    <3>3. CASE new.at = "turns" /\ new.attempt = l.attempt + 1
      <4>1. TurnsLeft(new, r) = Budget + 1 - (l.attempt + 1)
        BY <1>6, <3>3 DEF TurnsLeft
      <4> QED
        BY <3>1, <4>1, SettingAssumption
    <3> QED
      BY <1>6, <3>2, <3>3
  <2>4. ASSUME NEW q \in DOMAIN rows, q # r, NEW k \in Loops
        PROVE  TurnsLeft(loops'[k], q) = TurnsLeft(loops[k], q)
    BY <1>6, <1>11, <2>4 DEF TurnsLeft
  <2>5. ASSUME NEW k \in Callers, c \in Callers, k # c
        PROVE  TurnsLeft(loops[k], r) = 0 /\ TurnsLeft(loops'[k], r) = 0
    BY <1>1, <1>10, <1>11, <2>5 DEF WorkIsSpent, TurnsLeft
  <2>6. ASSUME NEW q \in DOMAIN rows, q # r
        PROVE  /\ rows'[q].resumes = launches[q] /\ launches[q] <= MaxResumes
               /\ Len(rows'[q].turns) + TurnsLeft(loops'[Boot], q) <= Allowed(launches[q])
               /\ \A k \in Callers :
                    Len(rows'[q].turns) + TurnsLeft(loops'[k], q) + TurnsLeft(loops'[Boot], q)
                      <= Allowed(launches[q])
    BY <1>9, <1>10, <2>4, <2>6 DEF WorkIsSpent
  <2>7. rows'[r].resumes = launches[r] /\ launches[r] <= MaxResumes
    BY <1>2, <1>7, <1>9 DEF WorkIsSpent
  <2>8. Len(rows'[r].turns) = Len(rows[r].turns) + 1
    BY <1>5, <1>7, <1>9
  <2>9. /\ Len(rows[r].turns) + TurnsLeft(loops[Boot], r) <= Allowed(launches[r])
        /\ \A k \in Callers :
             Len(rows[r].turns) + TurnsLeft(loops[k], r) + TurnsLeft(loops[Boot], r)
               <= Allowed(launches[r])
    BY <1>2 DEF WorkIsSpent
  <2>10. /\ Len(rows'[r].turns) + TurnsLeft(loops'[Boot], r) <= Allowed(launches[r])
         /\ \A k \in Callers :
              Len(rows'[r].turns) + TurnsLeft(loops'[k], r) + TurnsLeft(loops'[Boot], r)
                <= Allowed(launches[r])
    <3> DEFINE n == Len(rows[r].turns)
               a == Allowed(launches[r])
               T(k) == TurnsLeft(loops[k], r)
               U(k) == TurnsLeft(loops'[k], r)
    <3>1. n \in Nat /\ a \in Nat /\ \A k \in Loops : T(k) \in Nat /\ U(k) \in Nat
      BY <1>2, <2>1, <2>2, SettingAssumption
    <3>2. U(c) + 1 <= T(c) /\ \A k \in Loops : k # c => U(k) = T(k)
      BY <1>11, <2>3
    <3>3. n + T(Boot) <= a /\ \A k \in Callers : n + T(k) + T(Boot) <= a
      BY <2>9
    <3>4. c \in Callers => \A k \in Callers : k # c => T(k) = 0 /\ U(k) = 0
      BY <2>5
    <3> HIDE DEF n, a, T, U
    <3>5. n + 1 + U(Boot) <= a /\ \A k \in Callers : n + 1 + U(k) + U(Boot) <= a
      <4>1. CASE c = Boot
        <5>1. \A k \in Callers : U(k) = T(k) /\ k \in Loops
          BY <1>10, <3>2, <4>1
        <5> QED
          BY <1>10, <3>1, <3>2, <3>3, <4>1, <5>1
      <4>2. CASE c \in Callers
        <5>1. U(Boot) = T(Boot) /\ n + T(c) + T(Boot) <= a
          BY <1>10, <3>2, <3>3, <4>2
        <5>2. ASSUME NEW k \in Callers PROVE n + 1 + U(k) + U(Boot) <= a
          <6>1. k = c \/ U(k) = 0
            BY <3>4, <4>2
          <6>2. k \in Loops /\ Boot \in Loops /\ c \in Loops
            BY <1>10
          <6> QED
            BY <3>1, <3>2, <5>1, <6>1, <6>2
        <5>3. n + 1 + U(Boot) <= a
          BY <1>10, <3>1, <3>2, <5>1
        <5> QED
          BY <5>2, <5>3
      <4> QED
        BY <1>10, <4>1, <4>2
    <3> QED
      BY <2>8, <3>5 DEF n, a, T, U
  <2>11. \A k, d \in Callers : k # d /\ loops'[k].run = loops'[d].run => loops'[k].run = 0
    BY <1>6, <1>10, <1>11 DEF WorkIsSpent
  <2> QED
    BY <1>1, <1>9, <2>6, <2>7, <2>10, <2>11 DEF WorkIsSpent
<1> QED
  BY <1>13, <1>14, <1>15, <1>16, <1>17, <1>18, <1>19

-----------------------------------------------------------------------------
(* Every step.                                                              *)
LEMMA LoopStepKeeps ==
  ASSUME RunsInv, NEW c \in Loops, LoopStep(c)
  PROVE  RunsInv'
<1>1. CASE \E did \in Deeds, outcome \in Ending, passes \in BOOLEAN : Turn(c, did, outcome, passes)
  BY <1>1, TurnKeeps
<1>2. CASE AnswerUnrecorded(c)
  BY <1>2, AnswerUnrecordedKeeps
<1>3. CASE Conclude(c)
  BY <1>3, ConcludeKeeps
<1>4. CASE \E outcome \in {"sent", "refused"} : Send(c, outcome)
  BY <1>4, SendKeeps
<1>5. CASE Mark(c)
  BY <1>5, MarkKeeps
<1>6. CASE GoesUnsent(c)
  BY <1>6, GoesUnsentKeeps
<1> QED
  BY <1>1, <1>2, <1>3, <1>4, <1>5, <1>6 DEF LoopStep

LEMMA PassStepKeeps ==
  ASSUME RunsInv, PassStep
  PROVE  RunsInv'
<1>1. CASE StartDrain \/ StartResume \/ EndPass
  BY <1>1, HalvesKeep
<1>2. CASE \E r \in pass.left : Redeliver(r) \/ LeaveInTheLog(r) \/ GiveUp(r) \/ Resume(r)
  BY <1>2, RedeliverKeeps, LeaveInTheLogKeeps, GiveUpKeeps, ResumeKeeps
<1> QED
  BY <1>1, <1>2 DEF PassStep

LEMMA RunsInvNext == RunsInv /\ [Next]_vars => RunsInv'
<1> SUFFICES ASSUME RunsInv, [Next]_vars
             PROVE  RunsInv'
  OBVIOUS
<1>1. CASE \E c \in Callers, s \in Sessions : Arrive(c, s)
  BY <1>1, ArriveKeeps
<1>2. CASE \E c \in Callers : CallerStep(c)
  <2>1. Callers \subseteq Loops
    BY DEF Loops
  <2> QED
    BY <1>2, <2>1, StartKeeps, StartRefusedKeeps, LoopStepKeeps DEF CallerStep
<1>3. CASE LoopStep(Boot)
  <2>1. Boot \in Loops
    BY DEF Loops
  <2> QED
    BY <1>3, <2>1, LoopStepKeeps
<1>4. CASE PassStep
  BY <1>4, PassStepKeeps
<1>5. CASE \E r \in Runs : Expire(r) \/ GrowStale(r)
  BY <1>5, ClockKeeps
<1>6. CASE Restart
  BY <1>6, RestartKeeps
<1>7. CASE UNCHANGED vars
  BY <1>7 DEF vars, RunsInv, TypeOK, LoopsAreDriven, CallersAreHeard, OneRunPerSession,
              RunningOwesNothing, DebtIsDischarged, RefusedIsBehind, DeadAreAhead, WorkIsSpent,
              Running
<1> QED
  BY <1>1, <1>2, <1>3, <1>4, <1>5, <1>6, <1>7 DEF Next

(* What a step may do to a report and to the refusals counted against it.   *)
LEMMA ReportsInNext ==
  ASSUME RunsInv, [Next]_vars, NEW r \in DOMAIN rows
  PROVE  /\ rows[r].report => rows'[r].report
         /\ rows'[r].attempts > rows[r].attempts => r \notin refused
<1> USE DEF RunsInv
<1> DEFINE Kept == rows'[r].report = rows[r].report /\ rows'[r].attempts = rows[r].attempts
<1>1. rows[r] \in Row /\ rows[r].attempts \in Nat /\ ~(rows[r].attempts > rows[r].attempts)
  BY TableType DEF Row
<1>2. ASSUME NEW c \in Loops, LoopStep(c)
      PROVE  /\ rows[r].report => rows'[r].report
             /\ rows'[r].attempts > rows[r].attempts => r \notin refused
  <2>1. CASE \E did \in Deeds, outcome \in Ending, passes \in BOOLEAN : Turn(c, did, outcome, passes)
    <3>1. PICK turns, changed :
            rows' = [rows EXCEPT ![loops[c].run] =
                       [rows[loops[c].run] EXCEPT !.turns = turns, !.stale = FALSE,
                                                  !.changed = changed]]
      BY <2>1 DEF Turn
    <3> QED
      BY <1>1, <3>1 DEF Row
  <2>2. CASE AnswerUnrecorded(c) \/ \E outcome \in {"sent", "refused"} : Send(c, outcome)
    BY <1>1, <2>2 DEF AnswerUnrecorded, Send, durable
  <2>3. CASE Conclude(c)
    <3>1. rows' = [rows EXCEPT ![loops[c].run] = Finished(@, TRUE)]
      BY <2>3 DEF Conclude
    <3> QED
      BY <1>1, <3>1 DEF Finished, Row
  <2>4. CASE Mark(c)
    <3> DEFINE q == loops[c].run
               new == Marked(rows[q], loops[c].at)
    <3>1. loops[c].at \in {"sent", "refused"} /\ rows' = [rows EXCEPT ![q] = new]
      BY <2>4 DEF Mark
    <3>2. q \in DOMAIN rows /\ rows[q] \in Row
      BY <3>1, LoopHasRow, TableType
    <3>3. /\ new.report = rows[q].report
          /\ loops[c].at # "refused" => new.attempts = rows[q].attempts
      BY <3>2, MarkedRow
    <3>4. loops[c].at = "refused" => q \notin refused
      BY DEF CallersAreHeard, RefusedIsBehind, Loops
    <3> HIDE DEF q, new
    <3> QED
      BY <1>1, <3>1, <3>2, <3>3, <3>4
  <2>5. CASE GoesUnsent(c)
    <3> DEFINE q == loops[c].run
    <3>1. rows' = rows \/ (Running(q) /\ rows' = [rows EXCEPT ![q] = Finished(@, FALSE)])
      BY <2>5 DEF GoesUnsent, AfterGiveUp
    <3>2. Running(q) => ~rows[q].report
      BY DEF RunningOwesNothing, Running
    <3>3. rows[q] \in Row => Finished(rows[q], FALSE).attempts = rows[q].attempts
      BY DEF Finished, Row
    <3> HIDE DEF q
    <3>4. rows'[r] = rows[r] \/ (r = q /\ Running(q) /\ rows'[r] = Finished(rows[q], FALSE))
      BY <3>1
    <3> QED
      BY <1>1, <3>2, <3>3, <3>4
  <2> QED
    BY <1>2, <2>1, <2>2, <2>3, <2>4, <2>5 DEF LoopStep
<1>3. CASE \E c \in Callers, s \in Sessions : Arrive(c, s)
  BY <1>1, <1>3 DEF Arrive, durable
<1>4. CASE \E c \in Callers : CallerStep(c)
  <2>1. PICK c \in Callers : Start(c) \/ StartRefused(c) \/ LoopStep(c)
    BY <1>4 DEF CallerStep
  <2> DEFINE freed == Reclaim(loops[c].session)
  <2>2. freed[r].report = rows[r].report /\ freed[r].attempts = rows[r].attempts
        /\ freed \in Seq(Row) /\ DOMAIN freed = DOMAIN rows /\ Len(freed) = Len(rows)
    BY ReclaimRows
  <2>3. CASE Start(c)
    <3>1. rows' = Append(freed, NewRow(loops[c].session))
      BY <2>3 DEF Start
    <3> HIDE DEF freed
    <3>2. rows'[r] = freed[r]
      BY <2>2, <3>1, TableType
    <3> QED
      BY <1>1, <2>2, <3>2
  <2>4. CASE StartRefused(c)
    <3>1. rows' = freed
      BY <2>4 DEF StartRefused
    <3> HIDE DEF freed
    <3> QED
      BY <1>1, <2>2, <3>1
  <2>5. CASE LoopStep(c)
    BY <1>2, <2>5 DEF Loops
  <2> QED
    BY <2>1, <2>3, <2>4, <2>5
<1>5. CASE LoopStep(Boot)
  BY <1>2, <1>5 DEF Loops
<1>6. CASE PassStep
  <2>1. CASE StartDrain \/ StartResume \/ EndPass
    BY <1>1, <2>1 DEF StartDrain, StartResume, EndPass, durable
  <2>2. CASE \E q \in pass.left : Redeliver(q) \/ GiveUp(q)
    BY <1>1, <2>2 DEF Redeliver, GiveUp, durable
  <2>3. CASE \E q \in pass.left : LeaveInTheLog(q)
    <3>1. PICK q \in pass.left : rows' = [rows EXCEPT ![q] = Marked(@, "sent")]
      BY <2>3 DEF LeaveInTheLog
    <3>2. q \in DOMAIN rows /\ rows[q] \in Row
      BY TableType DEF RefusedIsBehind
    <3>3. Marked(rows[q], "sent").report = rows[q].report
          /\ Marked(rows[q], "sent").attempts = rows[q].attempts
      BY <3>2, MarkedRow
    <3> QED
      BY <1>1, <3>1, <3>2, <3>3
  <2>4. CASE \E q \in pass.left : Resume(q)
    <3>1. PICK q \in pass.left :
            rows' = [rows EXCEPT ![q] = [rows[q] EXCEPT !.resumes = rows[q].resumes + 1,
                                           !.from = Len(rows[q].turns) + 1, !.stale = FALSE]]
      BY <2>4 DEF Resume
    <3> QED
      BY <1>1, <3>1 DEF Row
  <2> QED
    BY <1>6, <2>1, <2>2, <2>3, <2>4 DEF PassStep
<1>7. CASE \E q \in Runs : Expire(q) \/ GrowStale(q)
  <2>1. PICK q \in Runs : \/ rows' = [rows EXCEPT ![q] = [rows[q] EXCEPT !.expired = TRUE]]
                           \/ rows' = [rows EXCEPT ![q] = [rows[q] EXCEPT !.stale = TRUE]]
    BY <1>7 DEF Expire, GrowStale
  <2> QED
    BY <1>1, <2>1 DEF Row
<1>8. CASE Restart
  BY <1>1, <1>8 DEF Restart, durable
<1>9. CASE UNCHANGED vars
  BY <1>1, <1>9 DEF vars
<1> QED
  BY <1>3, <1>4, <1>5, <1>6, <1>7, <1>8, <1>9 DEF Next

-----------------------------------------------------------------------------
(* The theorems.                                                            *)
LEMMA RunsInvariant == Spec => []RunsInv
<1>1. Init => RunsInv
  BY RunsInvInit
<1>2. RunsInv /\ [Next]_vars => RunsInv'
  BY RunsInvNext
<1> QED
  BY <1>1, <1>2, PTL DEF Spec

(* The runs table, the loops on it and the start-up pass have the shapes    *)
(* run-store.ts and boot.ts give them.                                      *)
THEOREM RunsType == Spec => []TypeOK
<1>1. RunsInv => TypeOK
  BY DEF RunsInv
<1> QED
  BY <1>1, RunsInvariant, PTL

(* startRun: however many messages and firings come together on a           *)
(* conversation, and whatever is reclaimed, resumed or given up meanwhile,  *)
(* at most one of its runs is in flight.                                    *)
THEOREM OneRunAtATime == Spec => []OneRunPerSession
<1>1. RunsInv => OneRunPerSession
  BY DEF RunsInv
<1> QED
  BY <1>1, RunsInvariant, PTL

(* drainUndelivered: a row says its report is delivered only if the report  *)
(* went out or its target refused it as often as allowed.                   *)
THEOREM DebtsAreDischarged == Spec => []DebtIsDischarged
<1>1. RunsInv => DebtIsDischarged
  BY DEF RunsInv
<1> QED
  BY <1>1, RunsInvariant, PTL

(* resumeInterruptedRuns: after the pass each run that was running when the *)
(* process died is over or was tried again.                                 *)
THEOREM NobodyLeftBehind == Spec => []NobodyIsForgotten
<1>1. RunsInv => NobodyIsForgotten
  <2> SUFFICES ASSUME RunsInv, pass.at = "done", NEW r \in dead
               PROVE  ~Running(r) \/ r \in tried
    BY DEF NobodyIsForgotten
  <2>1. loops[Boot].at = "judge" /\ loops[Boot].by = "giveup" => FALSE
    BY DEF RunsInv, DeadAreAhead
  <2> QED
    BY <2>1 DEF RunsInv, DeadAreAhead
<1> QED
  BY <1>1, RunsInvariant, PTL

(* run-resume.ts: a run is picked up at most MaxResumes times, and takes at *)
(* most a budget's turns for each time it was started.                      *)
THEOREM RunsAreBounded == Spec => []WorkIsBounded
<1>1. RunsInv => WorkIsBounded
  <2> SUFFICES ASSUME RunsInv, NEW r \in DOMAIN rows
               PROVE  launches[r] <= MaxResumes
                      /\ Len(rows[r].turns) <= (MaxResumes + 1) * (Budget + 1)
    BY DEF WorkIsBounded
  <2>1. /\ launches[r] \in Nat /\ launches[r] <= MaxResumes
        /\ Len(rows[r].turns) \in Nat /\ Allowed(launches[r]) \in Nat
    BY TableType, LenProperties, AllowedGrows DEF RunsInv, TypeOK, Row, WorkIsSpent
  <2>2. TurnsLeft(loops[Boot], r) \in 0 .. Budget + 1
    BY TurnsLeftType DEF RunsInv, TypeOK, Loops
  <2>3. Len(rows[r].turns) <= Allowed(launches[r])
    <3>1. Len(rows[r].turns) + TurnsLeft(loops[Boot], r) <= Allowed(launches[r])
      BY DEF RunsInv, WorkIsSpent
    <3> QED
      BY <2>1, <2>2, <3>1, SettingAssumption
  <2>4. \A x, y, z \in Nat : x <= y => (x + 1) * z <= (y + 1) * z
    OBVIOUS
  <2>5. Allowed(launches[r]) <= (MaxResumes + 1) * (Budget + 1)
                              /\ (MaxResumes + 1) * (Budget + 1) \in Nat
    <3> DEFINE b == Budget + 1
    <3>1. b \in Nat
      BY SettingAssumption
    <3> HIDE DEF b
    <3>2. (launches[r] + 1) * b <= (MaxResumes + 1) * b /\ (MaxResumes + 1) * b \in Nat
      <4>1. \A x, y \in Nat : x * y \in Nat
        OBVIOUS
      <4> QED
        BY <2>1, <2>4, <3>1, <4>1, SettingAssumption
    <3> QED
      BY <3>2 DEF b, Allowed
  <2> DEFINE most == (MaxResumes + 1) * (Budget + 1)
             all == Allowed(launches[r])
  <2> HIDE DEF most, all
  <2>6. Len(rows[r].turns) <= most
    BY <2>1, <2>3, <2>5 DEF most, all
  <2> QED
    BY <2>1, <2>6 DEF most
<1> QED
  BY <1>1, RunsInvariant, PTL

(* finish(): no step of any loop, reclaim or net takes a report off a row.  *)
THEOREM ReportsAreKept == Spec => ReportIsNeverErased
<1>1. RunsInv /\ [Next]_vars
        => [\A r \in DOMAIN rows : rows[r].report => rows'[r].report]_vars
  BY ReportsInNext
<1> QED
  BY <1>1, RunsInvariant, PTL DEF Spec, ReportIsNeverErased

(* deliverAndMark: a boot counts at most one refusal against a target, so   *)
(* the limit is reached over distinct boots.                                *)
THEOREM RefusalsAreSpread == Spec => OneRefusalPerBoot
<1>1. RunsInv /\ [Next]_vars
        => [\A r \in DOMAIN rows : rows'[r].attempts > rows[r].attempts => r \notin refused]_vars
  BY ReportsInNext
<1> QED
  BY <1>1, RunsInvariant, PTL DEF Spec, OneRefusalPerBoot

-----------------------------------------------------------------------------
(***************************************************************************)
(* The contract.  To settle or refuse a report, a step of the contract      *)
(* needs the report to exist and refusals to be left, so the invariant      *)
(* gains what a mark is about: only a report is marked or sent, whoever     *)
(* sends has one, and whom the start-up pass asks again has not refused too *)
(* often.                                                                   *)
(***************************************************************************)
OnlyReportsAreMarked ==
  \A r \in DOMAIN rows : ~rows[r].report => ~rows[r].delivered /\ rows[r].attempts = 0

OnlyReportsAreTold == \A r \in told : r \in DOMAIN rows /\ rows[r].report

SendersHaveReports ==
  \A l \in Loops : loops[l].at \in {"owing", "sent", "refused"} => rows[loops[l].run].report

RefusalsAreLeft ==
  /\ loops[Boot].at # "idle" => loops[Boot].by # "none"
  /\ loops[Boot].by = "drain" => rows[loops[Boot].run].attempts < MaxRefusals
  /\ loops[Boot].by \in {"resume", "giveup"} =>
       loops[Boot].run # 0 /\ rows[loops[Boot].run].attempts = 0
  /\ pass.at = "resume" => \A r \in pass.left : rows[r].attempts = 0

MarksInv ==
  OnlyReportsAreMarked /\ OnlyReportsAreTold /\ SendersHaveReports /\ RefusalsAreLeft

(* A step of the contract, or none.                                         *)
ContractStep == RunSpec!Next \/ RunsBegun' = RunsBegun

(* Most steps mark nothing: rows keep their marks and new ones have none.   *)
MarksKept ==
  /\ \A r \in DOMAIN rows :
       /\ r \in DOMAIN rows'
       /\ rows[r].report => rows'[r].report
       /\ rows'[r].delivered = rows[r].delivered
       /\ rows'[r].attempts = rows[r].attempts
  /\ \A r \in DOMAIN rows' \ DOMAIN rows : ~rows'[r].delivered /\ rows'[r].attempts = 0

(* Who is in the middle of something is in the middle of a row.             *)
LEMMA DriverHasRow ==
  ASSUME RunsInv, NEW l \in Loops, loops[l].run # 0
  PROVE  loops[l].run \in DOMAIN rows
BY TableType DEF RunsInv, TypeOK, Loop, Runs

LEMMA BootHasRow ==
  ASSUME RunsInv, MarksInv, loops[Boot].by # "none"
  PROVE  loops[Boot].run \in DOMAIN rows
<1>1. Boot \in Loops
  BY DEF Loops
<1>2. loops[Boot].run # 0
  BY DEF RunsInv, LoopsAreDriven, MarksInv, RefusalsAreLeft
<1> QED
  BY <1>1, <1>2, DriverHasRow

LEMMA LoopMarksNothing ==
  ASSUME RunsInv, MarksInv, MarksKept, NEW c \in Loops, NEW new,
         loops' = [loops EXCEPT ![c] = new], pass' = pass,
         \A r \in told' : r \in told \/ (r \in DOMAIN rows' /\ rows'[r].report),
         new.at \in {"owing", "sent", "refused"} => rows'[new.run].report,
         c = Boot => \/ new.by = "none" /\ new.at = "idle"
                     \/ /\ new.by = loops[Boot].by /\ new.run = loops[Boot].run
                        /\ new.at # "idle" => loops[Boot].at # "idle"
  PROVE  MarksInv'
<1>1. Boot \in Loops
  BY DEF Loops
<1>2. loops'[c] = new /\ \A l \in Loops : l # c => loops'[l] = loops[l]
  BY DEF RunsInv, TypeOK
<1>3. OnlyReportsAreMarked'
  BY DEF MarksInv, OnlyReportsAreMarked, MarksKept
<1>4. SendersHaveReports'
  <2> SUFFICES ASSUME NEW l \in Loops, loops'[l].at \in {"owing", "sent", "refused"}
               PROVE  rows'[loops'[l].run].report
    BY DEF SendersHaveReports
  <2>1. CASE l = c
    BY <1>2, <2>1
  <2>2. CASE l # c
    <3>1. loops'[l] = loops[l] /\ rows[loops[l].run].report
      BY <1>2, <2>2 DEF MarksInv, SendersHaveReports
    <3>2. loops[l].run \in DOMAIN rows
      BY <1>2, <2>2, LoopHasRow
    <3> QED
      BY <3>1, <3>2 DEF MarksKept
  <2> QED
    BY <2>1, <2>2
<1>5. RefusalsAreLeft'
  <2>1. \/ loops'[Boot].by = "none" /\ loops'[Boot].at = "idle"
        \/ /\ loops'[Boot].by = loops[Boot].by /\ loops'[Boot].run = loops[Boot].run
           /\ loops'[Boot].at # "idle" => loops[Boot].at # "idle"
    BY <1>1, <1>2
  <2>2. loops[Boot].by # "none" => loops[Boot].run \in DOMAIN rows
    BY BootHasRow
  <2>3. pass.left \subseteq DOMAIN rows
    BY DEF RunsInv, RefusedIsBehind
  <2> QED
    BY <2>1, <2>2, <2>3 DEF MarksInv, RefusalsAreLeft, MarksKept
<1>6. OnlyReportsAreTold'
  BY DEF MarksInv, OnlyReportsAreTold, MarksKept
<1> QED
  BY <1>3, <1>4, <1>5, <1>6 DEF MarksInv

(* What the contract sees of a step that changes one run, and of one that   *)
(* changes nothing it knows of.                                             *)
LEMMA OneRunChanges ==
  ASSUME NEW r \in DOMAIN rows, DOMAIN rows' = DOMAIN rows, NEW new,
         \A q \in DOMAIN rows : q # r => rows'[q] = rows[q] /\ (q \in told' <=> q \in told),
         RunOf(rows'[r], r \in told') = new
  PROVE  RunsBegun' = [RunsBegun EXCEPT ![r] = new]
<1>1. \A q \in DOMAIN rows : q # r =>
        RunOf(rows'[q], q \in told') = RunOf(rows[q], q \in told)
  BY DEF RunOf, StageOf
<1>2. DOMAIN RunsBegun = DOMAIN rows
      /\ \A q \in DOMAIN rows : RunsBegun[q] = RunOf(rows[q], q \in told)
  BY DEF RunsBegun
<1>3. RunsBegun' = [q \in DOMAIN rows |-> RunOf(rows'[q], q \in told')]
  BY DEF RunsBegun
<1> HIDE DEF RunsBegun, RunOf
<1> QED
  BY <1>1, <1>2, <1>3 DEF RunsBegun

LEMMA NoRunChanges ==
  ASSUME DOMAIN rows' = DOMAIN rows,
         \A r \in DOMAIN rows :
           /\ rows'[r].session = rows[r].session /\ rows'[r].status = rows[r].status
           /\ rows'[r].report = rows[r].report /\ rows'[r].delivered = rows[r].delivered
           /\ rows'[r].attempts = rows[r].attempts /\ rows'[r].resumes = rows[r].resumes
           /\ r \in told' <=> r \in told
  PROVE  RunsBegun' = RunsBegun
<1>1. \A r \in DOMAIN rows : RunOf(rows'[r], r \in told') = RunOf(rows[r], r \in told)
  BY DEF RunOf, StageOf
<1>2. RunsBegun' = [r \in DOMAIN rows |-> RunOf(rows'[r], r \in told')]
  BY DEF RunsBegun
<1> QED
  BY <1>1, <1>2 DEF RunsBegun

-----------------------------------------------------------------------------
(* Steps of which the contract sees nothing.                                *)
LEMMA ArriveIsNothing ==
  ASSUME RunsInv, MarksInv, NEW c \in Callers, NEW s \in Sessions, Arrive(c, s)
  PROVE  MarksInv' /\ ContractStep
<1> DEFINE new == NewLoop("begin", IF s \in Jobs THEN "job" ELSE "message", s, 0)
<1>1. /\ loops' = [loops EXCEPT ![c] = new]
      /\ rows' = rows /\ told' = told /\ pass' = pass
  BY DEF Arrive, durable
<1>2. new.at = "begin"
  BY DEF NewLoop
<1> HIDE DEF new
<1>3. MarksKept
  BY <1>1 DEF MarksKept
<1>4. c \in Loops /\ c # Boot
  BY ActorAssumption DEF Loops
<1>5. MarksInv'
  BY <1>1, <1>2, <1>3, <1>4, LoopMarksNothing
<1>6. RunsBegun' = RunsBegun
  BY <1>1, NoRunChanges
<1> QED
  BY <1>5, <1>6 DEF ContractStep

LEMMA AnswerUnrecordedIsNothing ==
  ASSUME RunsInv, MarksInv, NEW c \in Loops, AnswerUnrecorded(c)
  PROVE  MarksInv' /\ ContractStep
<1>1. loops' = [loops EXCEPT ![c] = Idle] /\ rows' = rows /\ told' = told /\ pass' = pass
  BY DEF AnswerUnrecorded, durable
<1>2. MarksKept
  BY <1>1 DEF MarksKept
<1>3. MarksInv'
  BY <1>1, <1>2, IdleIsLoop, LoopMarksNothing
<1>4. RunsBegun' = RunsBegun
  BY <1>1, NoRunChanges
<1> QED
  BY <1>3, <1>4 DEF ContractStep

(* Another run of the session is in flight and stays: reclaiming changed    *)
(* nothing, for there is only one.                                          *)
LEMMA StartRefusedIsNothing ==
  ASSUME RunsInv, MarksInv, NEW c \in Callers, StartRefused(c)
  PROVE  MarksInv' /\ ContractStep
<1> DEFINE freed == Reclaim(loops[c].session)
           new == IF loops[c].by = "job" THEN Idle ELSE [loops[c] EXCEPT !.at = "turns"]
<1>1. /\ rows' = freed /\ Active(freed, loops[c].session) # {}
      /\ loops' = [loops EXCEPT ![c] = new] /\ told' = told /\ pass' = pass
      /\ loops[c].at = "begin"
  BY DEF StartRefused
<1>2. c \in Loops /\ c # Boot /\ loops[c] \in Loop
  BY ActorAssumption DEF Loops, RunsInv, TypeOK
<1>3. new.at \notin {"owing", "sent", "refused"}
  BY <1>2, IdleIsLoop DEF Loop
<1>4. DOMAIN freed = DOMAIN rows
      /\ \A r \in DOMAIN rows :
           /\ freed[r].session = rows[r].session
           /\ freed[r].status = "running" => freed[r] = rows[r]
  BY ReclaimRows DEF RunsInv
<1>5. PICK q \in DOMAIN rows : freed[q].status = "running" /\ freed[q].session = loops[c].session
  BY <1>1, <1>4 DEF Active
<1>6. \A r \in DOMAIN rows : r # q => r \notin Active(rows, loops[c].session)
  BY <1>4, <1>5 DEF Active, RunsInv, OneRunPerSession, Running
<1>7. \A r \in DOMAIN rows : freed[r] = rows[r]
  BY <1>4, <1>5, <1>6 DEF Reclaim
<1> HIDE DEF freed, new
<1>8. MarksKept
  BY <1>1, <1>4, <1>7 DEF MarksKept
<1>9. MarksInv'
  BY <1>1, <1>2, <1>3, <1>8, LoopMarksNothing
<1>10. RunsBegun' = RunsBegun
  BY <1>1, <1>4, <1>7, NoRunChanges
<1> QED
  BY <1>9, <1>10 DEF ContractStep

LEMMA TurnIsNothing ==
  ASSUME RunsInv, MarksInv, NEW c \in Loops, NEW did, NEW outcome, NEW passes,
         Turn(c, did, outcome, passes)
  PROVE  MarksInv' /\ ContractStep
<1> DEFINE r == loops[c].run
           turns == Append(rows[r].turns, Recorded(loops[c], did))
           row == [rows[r] EXCEPT !.turns = turns, !.stale = FALSE,
                                  !.changed = rows[r].changed \/ did = "files"]
           new == After(loops[c], outcome, passes, turns)
<1>1. /\ loops[c].at = "turns" /\ r # 0
      /\ rows' = [rows EXCEPT ![r] = row] /\ loops' = [loops EXCEPT ![c] = new]
      /\ told' = told /\ pass' = pass
  BY DEF Turn
<1>2. loops[c] \in Loop /\ r \in DOMAIN rows /\ rows[r] \in Row
  BY <1>1, DriverHasRow, TableType DEF RunsInv, TypeOK
<1>3. new.at \in {"judge", "turns"} /\ new.by = loops[c].by /\ new.run = loops[c].run
  <2> HIDE DEF turns
  <2> QED
    BY <1>1, <1>2, AfterTurn
<1>4. /\ row.session = rows[r].session /\ row.status = rows[r].status
      /\ row.report = rows[r].report /\ row.delivered = rows[r].delivered
      /\ row.attempts = rows[r].attempts /\ row.resumes = rows[r].resumes
  BY <1>2 DEF Row
<1> HIDE DEF row, new
<1>5. DOMAIN rows' = DOMAIN rows /\ rows'[r] = row
      /\ \A q \in DOMAIN rows : q # r => rows'[q] = rows[q]
  BY <1>1, <1>2
<1> HIDE DEF r
<1>6. MarksKept
  BY <1>4, <1>5 DEF MarksKept
<1>7. MarksInv'
  BY <1>1, <1>3, <1>6, LoopMarksNothing
<1>8. RunsBegun' = RunsBegun
  BY <1>1, <1>4, <1>5, NoRunChanges
<1> QED
  BY <1>7, <1>8 DEF ContractStep

LEMMA ClockIsNothing ==
  ASSUME RunsInv, MarksInv, NEW r \in Runs, Expire(r) \/ GrowStale(r)
  PROVE  MarksInv' /\ ContractStep
<1>1. r \in DOMAIN rows /\ loops' = loops /\ told' = told /\ pass' = pass
  BY DEF Expire, GrowStale, Running
<1>2. PICK row \in {[rows[r] EXCEPT !.expired = TRUE], [rows[r] EXCEPT !.stale = TRUE]} :
        rows' = [rows EXCEPT ![r] = row]
  BY DEF Expire, GrowStale
<1>3. /\ row.session = rows[r].session /\ row.status = rows[r].status
      /\ row.report = rows[r].report /\ row.delivered = rows[r].delivered
      /\ row.attempts = rows[r].attempts /\ row.resumes = rows[r].resumes
  BY <1>1, TableType DEF Row, RunsInv
<1>4. DOMAIN rows' = DOMAIN rows /\ rows'[r] = row
      /\ \A q \in DOMAIN rows : q # r => rows'[q] = rows[q]
  BY <1>1, <1>2
<1>5. MarksKept
  BY <1>3, <1>4 DEF MarksKept
<1>6. Boot \in Loops /\ loops' = [loops EXCEPT ![Boot] = loops[Boot]]
  BY <1>1 DEF Loops, RunsInv, TypeOK
<1>7. loops[Boot].at \in {"owing", "sent", "refused"} => rows'[loops[Boot].run].report
  BY <1>5, <1>6, LoopHasRow DEF MarksKept, MarksInv, SendersHaveReports
<1>8. MarksInv'
  BY <1>1, <1>5, <1>6, <1>7, LoopMarksNothing
<1>9. RunsBegun' = RunsBegun
  BY <1>1, <1>3, <1>4, NoRunChanges
<1> QED
  BY <1>8, <1>9 DEF ContractStep

(* The death of the process: what is promised is on disk.                   *)
LEMMA RestartIsNothing ==
  ASSUME RunsInv, MarksInv, Restart
  PROVE  MarksInv' /\ ContractStep
<1>1. rows' = rows /\ told' = told /\ pass' = Starting /\ loops' = [l \in Loops |-> Idle]
  BY DEF Restart, durable
<1>2. Boot \in Loops
  BY DEF Loops
<1>3. MarksInv'
  BY <1>1, <1>2, IdleIsLoop DEF MarksInv, OnlyReportsAreMarked, OnlyReportsAreTold,
     SendersHaveReports, RefusalsAreLeft, Starting
<1>4. RunsBegun' = RunsBegun
  BY <1>1, NoRunChanges
<1> QED
  BY <1>3, <1>4 DEF ContractStep

-----------------------------------------------------------------------------
(* What changes of a run when its row changes in one respect.               *)
LEMMA StageChanges ==
  ASSUME NEW row, NEW new, NEW sent,
         new.session = row.session, new.attempts = row.attempts, new.resumes = row.resumes
  PROVE  RunOf(new, sent) = [RunOf(row, sent) EXCEPT !.stage = StageOf(new)]
BY DEF RunOf

LEMMA SentChanges ==
  ASSUME NEW row, NEW was
  PROVE  RunOf(row, TRUE) = [RunOf(row, was) EXCEPT !.sent = TRUE]
<1>1. ASSUME NEW now
      PROVE  RunOf(row, now) = [RunOf(row, was) EXCEPT !.sent = now]
  BY DEF RunOf
<1>2. \A now : RunOf(row, now) = [RunOf(row, was) EXCEPT !.sent = now]
  BY <1>1
<1> HIDE DEF RunOf
<1> QED
  BY <1>2, Zenon

LEMMA FreshRun ==
  ASSUME NEW s
  PROVE  RunOf(NewRow(s), FALSE) = RunSpec!Fresh(s)
BY DEF RunOf, StageOf, NewRow, RunSpec!Fresh

(* A run begins.                                                            *)
LEMMA StartBegins ==
  ASSUME RunsInv, MarksInv, NEW c \in Callers, Start(c)
  PROVE  MarksInv' /\ ContractStep
<1> DEFINE s == loops[c].session
           freed == Reclaim(s)
           n == Len(rows) + 1
           new == [loops[c] EXCEPT !.at = "turns", !.run = n]
<1>1. /\ Active(freed, s) = {} /\ rows' = Append(freed, NewRow(s))
      /\ loops' = [loops EXCEPT ![c] = new] /\ told' = told /\ pass' = pass
      /\ loops[c].at = "begin" /\ Len(rows) < MaxRuns
  BY DEF Start
<1>2. c \in Loops /\ c # Boot /\ loops[c] \in Loop
  BY ActorAssumption DEF Loops, RunsInv, TypeOK
<1>3. new.at = "turns"
  BY <1>2 DEF Loop
<1>4. s \in Sessions
  BY <1>1 DEF RunsInv, CallersAreHeard
<1>5. /\ freed \in Seq(Row) /\ Len(freed) = Len(rows) /\ DOMAIN freed = DOMAIN rows
      /\ \A r \in DOMAIN rows :
           /\ freed[r] \in Row /\ freed[r].session = rows[r].session
           /\ freed[r].status = "running" => freed[r] = rows[r]
           /\ freed[r].report = rows[r].report
           /\ freed[r].turns = rows[r].turns /\ freed[r].resumes = rows[r].resumes
           /\ freed[r].delivered = rows[r].delivered /\ freed[r].attempts = rows[r].attempts
  BY ReclaimRows DEF RunsInv
<1>6. Len(rows) \in Nat /\ DOMAIN rows = 1 .. Len(rows) /\ DOMAIN rows \subseteq Runs
      /\ \A r \in DOMAIN rows : rows[r] \in Row
  BY TableType DEF RunsInv
<1>7. \A r \in DOMAIN rows :
        freed[r] = rows[r] \/ (rows[r].status = "running" /\ freed[r].status = "over")
  BY <1>6 DEF Reclaim, Active, Finished, Row
<1>8. \A r \in DOMAIN rows : freed[r] # rows[r] => rows[r].session = s
  BY DEF Reclaim, Active
<1>9. n \in Runs /\ n \notin DOMAIN rows
  BY <1>1, <1>6, BoundAssumption DEF Runs
<1> HIDE DEF s, freed, new
<1>10. DOMAIN rows' = DOMAIN rows \cup {n} /\ rows'[n] = NewRow(s)
       /\ \A r \in DOMAIN rows : rows'[r] = freed[r]
  BY <1>1, <1>5, <1>6
<1> HIDE DEF n
<1>11. MarksKept
  BY <1>5, <1>10 DEF MarksKept, NewRow
<1>12. MarksInv'
  BY <1>1, <1>2, <1>3, <1>11, LoopMarksNothing
<1>13. n \notin told
  BY <1>9 DEF MarksInv, OnlyReportsAreTold
<1>14. \A r \in DOMAIN rows : RunsBegun[r] = RunOf(rows[r], r \in told)
  BY DEF RunsBegun
<1>15. RunSpec!InFlight(s) = {r \in DOMAIN rows : rows[r].session = s /\ rows[r].status = "running"}
  BY <1>14 DEF RunSpec!InFlight, RunsBegun, RunOf, StageOf
<1>16. RunOf(NewRow(s), n \in told) = RunSpec!Fresh(s)
  <2>1. (n \in told) = FALSE
    BY <1>13
  <2> QED
    BY <2>1, FreshRun
<1>17. ASSUME NEW r \in DOMAIN rows
       PROVE  RunOf(freed[r], r \in told)
                = IF r \in RunSpec!InFlight(s) THEN [RunsBegun[r] EXCEPT !.stage = "dropped"]
                  ELSE RunsBegun[r]
  <2>1. CASE r \in RunSpec!InFlight(s)
    <3>1. rows[r].status = "running" /\ rows[r].session = s
      BY <1>15, <2>1
    <3>2. freed[r].status # "running"
      BY <1>1, <1>5, <3>1 DEF Active
    <3>3. ~rows[r].report /\ ~rows[r].delivered
      BY <3>1 DEF RunsInv, RunningOwesNothing, Running, MarksInv, OnlyReportsAreMarked
    <3>4. StageOf(freed[r]) = "dropped"
      BY <1>5, <3>2, <3>3 DEF StageOf
    <3>5. RunOf(freed[r], r \in told)
            = [RunOf(rows[r], r \in told) EXCEPT !.stage = StageOf(freed[r])]
      BY <1>5, StageChanges
    <3> HIDE DEF RunOf, StageOf
    <3> QED
      BY <1>14, <2>1, <3>4, <3>5
  <2>2. CASE r \notin RunSpec!InFlight(s)
    <3>1. freed[r] = rows[r]
      BY <1>7, <1>8, <1>15, <2>2
    <3> QED
      BY <1>14, <2>2, <3>1
  <2> QED
    BY <2>1, <2>2
<1>18. RunsBegun' = [q \in DOMAIN rows \cup {n} |->
                       IF q = n THEN RunSpec!Fresh(s)
                       ELSE IF q \in RunSpec!InFlight(s) THEN [RunsBegun[q] EXCEPT !.stage = "dropped"]
                       ELSE RunsBegun[q]]
  <2>1. RunsBegun' = [q \in DOMAIN rows \cup {n} |-> RunOf(rows'[q], q \in told)]
    BY <1>1, <1>10 DEF RunsBegun
  <2>2. RunOf(rows'[n], n \in told) = RunSpec!Fresh(s)
    BY <1>10, <1>16
  <2>3. \A q \in DOMAIN rows : q # n /\ RunOf(rows'[q], q \in told) = RunOf(freed[q], q \in told)
    BY <1>9, <1>10
  <2> HIDE DEF RunsBegun, RunOf
  <2> QED
    BY <1>17, <2>1, <2>2, <2>3
<1>19. DOMAIN RunsBegun = DOMAIN rows
  BY DEF RunsBegun
<1>20. RunSpec!Begin(n, s)
  BY <1>9, <1>18, <1>19 DEF RunSpec!Begin
<1> QED
  BY <1>4, <1>9, <1>12, <1>20 DEF ContractStep, RunSpec!Next

-----------------------------------------------------------------------------
(* The end of a run.                                                        *)
LEMMA RunMoves ==
  ASSUME NEW r \in DOMAIN rows, NEW new, rows' = [rows EXCEPT ![r] = new], told' = told,
         new.session = rows[r].session, new.attempts = rows[r].attempts,
         new.resumes = rows[r].resumes
  PROVE  /\ DOMAIN RunsBegun = DOMAIN rows
         /\ RunsBegun[r] = RunOf(rows[r], r \in told)
         /\ RunsBegun[r].stage = StageOf(rows[r])
         /\ RunsBegun' = [RunsBegun EXCEPT ![r].stage = StageOf(new)]
         /\ StageOf(new) = StageOf(rows[r]) => RunsBegun' = RunsBegun
<1>1. DOMAIN RunsBegun = DOMAIN rows /\ RunsBegun[r] = RunOf(rows[r], r \in told)
  BY DEF RunsBegun
<1>2. RunsBegun[r].stage = StageOf(rows[r])
  BY <1>1 DEF RunOf
<1>3. RunOf(new, r \in told) = [RunsBegun[r] EXCEPT !.stage = StageOf(new)]
  BY <1>1, StageChanges
<1>4. DOMAIN rows' = DOMAIN rows /\ rows'[r] = new
      /\ \A q \in DOMAIN rows : q # r => rows'[q] = rows[q]
  OBVIOUS
<1>5. RunsBegun' = [RunsBegun EXCEPT ![r] = [RunsBegun[r] EXCEPT !.stage = StageOf(new)]]
  <2> HIDE DEF RunsBegun, RunOf, StageOf
  <2> QED
    BY <1>3, <1>4, OneRunChanges
<1>6. StageOf(new) = StageOf(rows[r]) => RunsBegun' = RunsBegun
  <2> SUFFICES ASSUME StageOf(new) = StageOf(rows[r]) PROVE RunsBegun' = RunsBegun
    OBVIOUS
  <2>1. [RunsBegun[r] EXCEPT !.stage = StageOf(new)] = RunsBegun[r]
    <3>1. \A sent : [RunOf(rows[r], sent) EXCEPT !.stage = StageOf(rows[r])] = RunOf(rows[r], sent)
      BY DEF RunOf
    <3> QED
      BY <1>1, <3>1
  <2>2. RunsBegun = [q \in DOMAIN RunsBegun |-> RunsBegun[q]]
    BY DEF RunsBegun
  <2> HIDE DEF RunsBegun, RunOf, StageOf
  <2> QED
    BY <1>5, <2>1, <2>2
<1> QED
  BY <1>1, <1>2, <1>5, <1>6

(* A report is written to the row of a run that is in flight, of one that   *)
(* was dropped meanwhile, or over an earlier report.                        *)
LEMMA ConcludeReports ==
  ASSUME RunsInv, MarksInv, NEW c \in Loops, Conclude(c)
  PROVE  MarksInv' /\ ContractStep
<1> DEFINE r == loops[c].run
           row == Finished(rows[r], TRUE)
           new == [loops[c] EXCEPT !.at = "owing"]
<1>1. /\ loops[c].at = "judge" /\ told' = told /\ pass' = pass
      /\ rows' = [rows EXCEPT ![r] = row] /\ loops' = [loops EXCEPT ![c] = new]
  BY DEF Conclude
<1>2. loops[c] \in Loop /\ r \in DOMAIN rows /\ rows[r] \in Row
  BY <1>1, LoopHasRow, TableType DEF RunsInv
<1>3. new.by = loops[c].by /\ new.run = r
  BY <1>2 DEF Loop
<1>4. /\ row.session = rows[r].session /\ row.status = "over" /\ row.report
      /\ row.delivered = rows[r].delivered /\ row.attempts = rows[r].attempts
      /\ row.resumes = rows[r].resumes
  BY <1>2 DEF Row, Finished
<1> HIDE DEF row, new
<1>5. DOMAIN rows' = DOMAIN rows /\ rows'[r] = row
      /\ \A q \in DOMAIN rows : q # r => rows'[q] = rows[q]
  BY <1>1, <1>2
<1>6. MarksKept
  BY <1>4, <1>5 DEF MarksKept
<1>7. MarksInv'
  <2>1. rows'[new.run].report
    BY <1>3, <1>4, <1>5
  <2> QED
    BY <1>1, <1>3, <1>6, <2>1, LoopMarksNothing
<1>8. rows[r].status = "running" => ~rows[r].report
  BY <1>2 DEF RunsInv, RunningOwesNothing, Running
<1>9. ~rows[r].report => ~rows[r].delivered
  BY <1>2 DEF MarksInv, OnlyReportsAreMarked
<1> HIDE DEF r
<1>10. /\ DOMAIN RunsBegun = DOMAIN rows
       /\ RunsBegun[r].stage = StageOf(rows[r])
       /\ RunsBegun' = [RunsBegun EXCEPT ![r].stage = StageOf(row)]
       /\ StageOf(row) = StageOf(rows[r]) => RunsBegun' = RunsBegun
  <2> HIDE DEF RunsBegun, StageOf
  <2> QED
    BY <1>1, <1>2, <1>4, RunMoves
<1>11. CASE StageOf(row) = StageOf(rows[r])
  BY <1>7, <1>10, <1>11 DEF ContractStep
<1>12. CASE StageOf(row) # StageOf(rows[r])
  <2>1. StageOf(row) = "owed" /\ StageOf(rows[r]) \in {"working", "dropped"}
    BY <1>4, <1>8, <1>9, <1>12 DEF StageOf
  <2> HIDE DEF RunsBegun, StageOf
  <2>2. RunSpec!Report(r)
    BY <1>10, <2>1 DEF RunSpec!Report, RunSpec!Moves
  <2> QED
    BY <1>2, <1>7, <1>10, <2>2 DEF ContractStep, RunSpec!Next
<1> QED
  BY <1>11, <1>12

(* A loop ends early.  Only a give-up touches the row, and drops a run that *)
(* is still in flight.                                                      *)
LEMMA GoesUnsentDrops ==
  ASSUME RunsInv, MarksInv, NEW c \in Loops, GoesUnsent(c)
  PROVE  MarksInv' /\ ContractStep
<1> DEFINE r == loops[c].run
           row == Finished(rows[r], FALSE)
<1>1. /\ loops[c].at \in {"judge", "owing"} /\ told' = told /\ pass' = pass
      /\ rows' = rows \/ (Running(r) /\ rows' = [rows EXCEPT ![r] = row])
      /\ loops' = [loops EXCEPT ![c] = Idle]
  BY DEF GoesUnsent, AfterGiveUp
<1>2. r \in DOMAIN rows /\ rows[r] \in Row
  BY <1>1, LoopHasRow, TableType DEF RunsInv
<1>3. /\ row.session = rows[r].session /\ row.status = "over" /\ ~row.report
      /\ row.delivered = rows[r].delivered /\ row.attempts = rows[r].attempts
      /\ row.resumes = rows[r].resumes
  BY <1>2 DEF Row, Finished
<1> HIDE DEF r, row
<1>4. CASE rows' = rows
  <2>1. MarksKept
    BY <1>4 DEF MarksKept
  <2>2. MarksInv'
    BY <1>1, <2>1, IdleIsLoop, LoopMarksNothing
  <2>3. RunsBegun' = RunsBegun
    BY <1>1, <1>4, NoRunChanges
  <2> QED
    BY <2>2, <2>3 DEF ContractStep
<1>5. CASE Running(r) /\ rows' = [rows EXCEPT ![r] = row]
  <2>1. ~rows[r].report /\ ~rows[r].delivered
    BY <1>2, <1>5 DEF RunsInv, RunningOwesNothing, MarksInv, OnlyReportsAreMarked
  <2>2. DOMAIN rows' = DOMAIN rows /\ rows'[r] = row
        /\ \A q \in DOMAIN rows : q # r => rows'[q] = rows[q]
    BY <1>2, <1>5
  <2>3. MarksKept
    BY <1>3, <2>1, <2>2 DEF MarksKept
  <2>4. MarksInv'
    BY <1>1, <2>3, IdleIsLoop, LoopMarksNothing
  <2>5. StageOf(rows[r]) = "working" /\ StageOf(row) = "dropped"
    BY <1>3, <1>5, <2>1 DEF StageOf, Running
  <2> HIDE DEF RunsBegun, StageOf
  <2>6. /\ DOMAIN RunsBegun = DOMAIN rows
        /\ RunsBegun[r].stage = StageOf(rows[r])
        /\ RunsBegun' = [RunsBegun EXCEPT ![r].stage = StageOf(row)]
    BY <1>1, <1>2, <1>3, <1>5, RunMoves
  <2>7. RunSpec!Drop(r)
    BY <2>5, <2>6 DEF RunSpec!Drop, RunSpec!Moves
  <2> QED
    BY <1>2, <2>4, <2>6, <2>7 DEF ContractStep, RunSpec!Next
<1> QED
  BY <1>1, <1>4, <1>5

-----------------------------------------------------------------------------
(* A report goes out, or comes back, and the row says so.                   *)
LEMMA SendSends ==
  ASSUME RunsInv, MarksInv, NEW c \in Loops, NEW outcome \in {"sent", "refused"}, Send(c, outcome)
  PROVE  MarksInv' /\ ContractStep
<1> DEFINE r == loops[c].run
           new == [loops[c] EXCEPT !.at = outcome]
<1>1. /\ loops[c].at = "owing" /\ rows' = rows /\ pass' = pass
      /\ loops' = [loops EXCEPT ![c] = new]
      /\ told' = IF outcome = "sent" THEN told \cup {r} ELSE told
  BY DEF Send
<1>2. loops[c] \in Loop /\ r \in DOMAIN rows
  BY <1>1, LoopHasRow
<1>3. new.by = loops[c].by /\ new.run = r
  BY <1>2 DEF Loop
<1>4. rows[r].report
  BY <1>1 DEF MarksInv, SendersHaveReports
<1>5. MarksKept
  BY <1>1 DEF MarksKept
<1> HIDE DEF new
<1>6. MarksInv'
  <2>1. rows'[new.run].report
    BY <1>1, <1>3, <1>4
  <2>2. \A q \in told' : q \in told \/ (q \in DOMAIN rows' /\ rows'[q].report)
    BY <1>1, <1>2, <1>4
  <2>3. c = Boot => new.by = loops[Boot].by /\ new.run = loops[Boot].run /\ loops[Boot].at # "idle"
    BY <1>1, <1>3
  <2> HIDE DEF r
  <2> QED
    BY <1>1, <1>5, <2>1, <2>2, <2>3, LoopMarksNothing
<1> HIDE DEF r
<1>7. CASE outcome = "refused"
  <2>1. RunsBegun' = RunsBegun
    BY <1>1, <1>7, NoRunChanges
  <2> QED
    BY <1>6, <2>1 DEF ContractStep
<1>8. CASE outcome = "sent"
  <2>1. StageOf(rows[r]) \in {"owed", "settled"}
    BY <1>2, <1>4 DEF StageOf, RunsInv, RunningOwesNothing, Running
  <2>2. DOMAIN RunsBegun = DOMAIN rows /\ RunsBegun[r] = RunOf(rows[r], r \in told)
    BY <1>2 DEF RunsBegun
  <2>3. RunsBegun[r].stage = StageOf(rows[r])
    BY <2>2 DEF RunOf
  <2>4. (r \in told') = TRUE
    BY <1>1, <1>8
  <2>5. RunOf(rows[r], TRUE) = [RunsBegun[r] EXCEPT !.sent = TRUE]
    <3>1. PICK was : was = (r \in told)
      OBVIOUS
    <3> HIDE DEF RunsBegun, RunOf
    <3>2. RunsBegun[r] = RunOf(rows[r], was)
      BY <2>2, <3>1, Zenon
    <3>3. RunOf(rows[r], TRUE) = [RunOf(rows[r], was) EXCEPT !.sent = TRUE]
      BY SentChanges
    <3> QED
      BY <3>2, <3>3
  <2>6. RunOf(rows'[r], r \in told') = [RunsBegun[r] EXCEPT !.sent = TRUE]
    <3> HIDE DEF RunsBegun, RunOf
    <3>1. RunOf(rows'[r], r \in told') = RunOf(rows[r], TRUE)
      BY <1>1, <2>4, Zenon
    <3> QED
      BY <2>5, <3>1
  <2>7. DOMAIN rows' = DOMAIN rows
        /\ \A q \in DOMAIN rows : q # r => rows'[q] = rows[q] /\ (q \in told' <=> q \in told)
    BY <1>1
  <2> HIDE DEF RunsBegun, RunOf, StageOf
  <2>8. RunsBegun' = [RunsBegun EXCEPT ![r] = [RunsBegun[r] EXCEPT !.sent = TRUE]]
    BY <1>2, <2>6, <2>7, OneRunChanges
  <2>9. RunSpec!Send(r)
    BY <2>1, <2>3, <2>8 DEF RunSpec!Send
  <2> QED
    BY <1>2, <1>6, <2>2, <2>9 DEF ContractStep, RunSpec!Next
<1> QED
  BY <1>7, <1>8

(* What a mark does to a run: settle a report that is owed, for a reason,   *)
(* or nothing.                                                              *)
LEMMA MarkSettles ==
  ASSUME RunsInv, MarksInv, NEW r \in DOMAIN rows, rows[r].report,
         rows' = [rows EXCEPT ![r] = Marked(@, "sent")], told' = told,
         r \in told \/ rows[r].attempts >= MaxRefusals
  PROVE  /\ ContractStep /\ DOMAIN rows' = DOMAIN rows
         /\ OnlyReportsAreMarked' /\ OnlyReportsAreTold'
         /\ \A q \in DOMAIN rows : /\ rows'[q].report = rows[q].report
                                   /\ rows'[q].attempts = rows[q].attempts
<1> DEFINE row == Marked(rows[r], "sent")
<1>1. rows[r] \in Row
  BY TableType DEF RunsInv
<1>2. /\ row.session = rows[r].session /\ row.status = rows[r].status
      /\ row.report = rows[r].report /\ row.resumes = rows[r].resumes
      /\ row.delivered /\ row.attempts = rows[r].attempts
  BY <1>1, MarkedRow, ZenonT(30)
<1>3. rows' = [rows EXCEPT ![r] = row]
  OBVIOUS
<1> HIDE DEF row
<1>4. DOMAIN rows' = DOMAIN rows /\ rows'[r] = row
      /\ \A q \in DOMAIN rows : q # r => rows'[q] = rows[q]
  BY <1>3
<1>5. \A q \in DOMAIN rows : rows'[q].report = rows[q].report /\ rows'[q].attempts = rows[q].attempts
  BY <1>2, <1>4
<1>6. OnlyReportsAreMarked' /\ OnlyReportsAreTold'
  BY <1>2, <1>4, <1>5 DEF MarksInv, OnlyReportsAreMarked, OnlyReportsAreTold
<1>7. rows[r].status # "running"
  BY DEF RunsInv, RunningOwesNothing, Running
<1>8. StageOf(row) = "settled" /\ StageOf(rows[r]) \in {"owed", "settled"}
  BY <1>2, <1>7 DEF StageOf
<1>9. /\ DOMAIN RunsBegun = DOMAIN rows
      /\ RunsBegun[r] = RunOf(rows[r], r \in told)
      /\ RunsBegun[r].stage = StageOf(rows[r])
      /\ RunsBegun' = [RunsBegun EXCEPT ![r].stage = StageOf(row)]
      /\ StageOf(row) = StageOf(rows[r]) => RunsBegun' = RunsBegun
  <2> HIDE DEF RunsBegun, StageOf, RunOf
  <2> QED
    BY <1>2, <1>3, RunMoves
<1>10. RunsBegun[r].refusals = rows[r].attempts
  <2> HIDE DEF RunsBegun, StageOf
  <2> QED
    BY <1>9 DEF RunOf
<1>11. RunsBegun[r].sent \/ RunsBegun[r].refusals >= MaxRefusals
  <2>1. CASE r \in told
    <3>1. (r \in told) = TRUE
      BY <2>1
    <3> HIDE DEF RunsBegun, RunOf
    <3>2. RunsBegun[r] = RunOf(rows[r], TRUE)
      BY <1>9, <3>1
    <3>3. RunOf(rows[r], TRUE).sent = TRUE
      BY DEF RunOf
    <3>4. RunsBegun[r].sent = TRUE
      BY <3>2, <3>3
    <3> QED
      BY <3>4, Zenon
  <2>2. CASE rows[r].attempts >= MaxRefusals
    BY <1>10, <2>2
  <2> QED
    BY <2>1, <2>2
<1> HIDE DEF RunsBegun, StageOf, RunOf
<1>12. ContractStep
  <2>1. CASE StageOf(rows[r]) = "settled"
    BY <1>8, <1>9, <2>1 DEF ContractStep
  <2>2. CASE StageOf(rows[r]) = "owed"
    <3>1. RunSpec!Settle(r)
      BY <1>8, <1>9, <1>11, <2>2 DEF RunSpec!Settle, RunSpec!Moves
    <3> QED
      BY <1>9, <3>1 DEF ContractStep, RunSpec!Next
  <2> QED
    BY <1>8, <2>1, <2>2
<1> QED
  BY <1>4, <1>5, <1>6, <1>12

(* markDelivered and recordDeliveryRefusal.  A refusal is the start-up      *)
(* pass's, of a report that was not refused too often yet.                  *)
LEMMA MarkMarks ==
  ASSUME RunsInv, MarksInv, NEW c \in Loops, Mark(c)
  PROVE  MarksInv' /\ ContractStep
<1> DEFINE r == loops[c].run
<1>1. /\ loops[c].at \in {"sent", "refused"} /\ told' = told /\ pass' = pass
      /\ rows' = [rows EXCEPT ![r] = Marked(@, loops[c].at)]
      /\ loops' = [loops EXCEPT ![c] = Idle]
  BY DEF Mark
<1>2. r \in DOMAIN rows /\ rows[r] \in Row /\ rows[r].report
  BY <1>1, LoopHasRow, TableType DEF RunsInv, MarksInv, SendersHaveReports
<1>3. /\ loops'[c] = Idle /\ \A l \in Loops : l # c => loops'[l] = loops[l]
      /\ Boot \in Loops
  BY <1>1 DEF RunsInv, TypeOK, Loops
<1>4. ASSUME DOMAIN rows' = DOMAIN rows, \A q \in DOMAIN rows : rows'[q].report = rows[q].report
      PROVE  SendersHaveReports'
  <2> SUFFICES ASSUME NEW l \in Loops, loops'[l].at \in {"owing", "sent", "refused"}
               PROVE  rows'[loops'[l].run].report
    BY DEF SendersHaveReports
  <2>1. l # c /\ loops'[l] = loops[l]
    BY <1>3, IdleIsLoop
  <2>2. loops[l].run \in DOMAIN rows
    BY <2>1, LoopHasRow
  <2> QED
    BY <1>4, <2>1, <2>2 DEF MarksInv, SendersHaveReports
<1>5. CASE loops[c].at = "sent"
  <2>1. r \in told
    BY <1>5 DEF RunsInv, LoopsAreDriven
  <2>2. rows' = [rows EXCEPT ![r] = Marked(@, "sent")]
    BY <1>1, <1>5
  <2> HIDE DEF r
  <2>3. /\ ContractStep /\ DOMAIN rows' = DOMAIN rows
        /\ OnlyReportsAreMarked' /\ OnlyReportsAreTold'
        /\ \A q \in DOMAIN rows : /\ rows'[q].report = rows[q].report
                                  /\ rows'[q].attempts = rows[q].attempts
    BY <1>1, <1>2, <2>1, <2>2, MarkSettles
  <2>4. RefusalsAreLeft'
    <3>1. loops'[Boot] = loops[Boot] \/ loops'[Boot] = Idle
      BY <1>3
    <3>2. loops[Boot].by # "none" => loops[Boot].run \in DOMAIN rows
      BY BootHasRow
    <3>3. pass.left \subseteq DOMAIN rows
      BY DEF RunsInv, RefusedIsBehind
    <3> QED
      BY <1>1, <2>3, <3>1, <3>2, <3>3, IdleIsLoop DEF MarksInv, RefusalsAreLeft
  <2> QED
    BY <1>4, <2>3, <2>4 DEF MarksInv
<1>6. CASE loops[c].at = "refused"
  <2> DEFINE row == Marked(rows[r], "refused")
  <2>1. c = Boot
    BY <1>6 DEF RunsInv, CallersAreHeard, Loops
  <2>2. /\ row.session = rows[r].session /\ row.status = rows[r].status
        /\ row.report = rows[r].report /\ row.resumes = rows[r].resumes
        /\ row.delivered = rows[r].delivered /\ row.attempts = rows[r].attempts + 1
    BY <1>2 DEF Marked, Row
  <2>3. rows' = [rows EXCEPT ![r] = row]
    BY <1>1, <1>6
  <2>4. rows[r].attempts = 0 \/ rows[r].attempts < MaxRefusals
    BY <1>6, <2>1 DEF RunsInv, LoopsAreDriven, MarksInv, RefusalsAreLeft
  <2>5. r \notin pass.left
    BY <1>6, <2>1 DEF RunsInv, RefusedIsBehind
  <2> HIDE DEF r, row
  <2>6. DOMAIN rows' = DOMAIN rows /\ rows'[r] = row
        /\ \A q \in DOMAIN rows : q # r => rows'[q] = rows[q]
    BY <1>2, <2>3
  <2>7. OnlyReportsAreMarked' /\ OnlyReportsAreTold'
    BY <1>1, <1>2, <2>2, <2>6 DEF MarksInv, OnlyReportsAreMarked, OnlyReportsAreTold
  <2>8. SendersHaveReports'
    BY <1>4, <2>2, <2>6
  <2>9. RefusalsAreLeft'
    <3>1. loops'[Boot] = Idle
      BY <1>3, <2>1
    <3>2. pass.left \subseteq DOMAIN rows
      BY DEF RunsInv, RefusedIsBehind
    <3> QED
      BY <1>1, <2>5, <2>6, <3>1, <3>2, IdleIsLoop DEF MarksInv, RefusalsAreLeft
  <2>10. StageOf(rows[r]) \in {"owed", "settled"} /\ StageOf(row) = StageOf(rows[r])
    BY <1>2, <2>2 DEF StageOf, RunsInv, RunningOwesNothing, Running
  <2>11. DOMAIN RunsBegun = DOMAIN rows /\ RunsBegun[r] = RunOf(rows[r], r \in told)
    BY <1>2 DEF RunsBegun
  <2>12. RunsBegun[r].stage = StageOf(rows[r]) /\ RunsBegun[r].refusals = rows[r].attempts
    BY <2>11 DEF RunOf
  <2>13. \A sent : RunOf(row, sent)
                     = [RunOf(rows[r], sent) EXCEPT !.refusals = rows[r].attempts + 1]
    BY <2>2, <2>10 DEF RunOf
  <2> HIDE DEF RunsBegun, RunOf, StageOf
  <2>14. RunsBegun' = [RunsBegun EXCEPT ![r] = [RunsBegun[r] EXCEPT !.refusals = rows[r].attempts + 1]]
    <3>1. RunOf(rows'[r], r \in told')
            = [RunsBegun[r] EXCEPT !.refusals = rows[r].attempts + 1]
      BY <1>1, <2>6, <2>11, <2>13
    <3> QED
      BY <1>1, <1>2, <2>6, <3>1, OneRunChanges
  <2>15. RunSpec!Refuse(r)
    BY <2>4, <2>10, <2>12, <2>14 DEF RunSpec!Refuse
  <2> QED
    BY <1>2, <2>7, <2>8, <2>9, <2>11, <2>15 DEF MarksInv, ContractStep, RunSpec!Next
<1> QED
  BY <1>1, <1>5, <1>6

LEMMA LoopStepKeepsContract ==
  ASSUME RunsInv, MarksInv, NEW c \in Loops, LoopStep(c)
  PROVE  MarksInv' /\ ContractStep
BY TurnIsNothing, AnswerUnrecordedIsNothing, ConcludeReports, SendSends, MarkMarks,
   GoesUnsentDrops DEF LoopStep

-----------------------------------------------------------------------------
(* The start-up pass.  The callers go on with the reports they have.        *)
LEMMA PassKeepsSenders ==
  ASSUME RunsInv, MarksInv, \A r \in DOMAIN rows : rows[r].report => rows'[r].report,
         \A c \in Callers : loops'[c] = loops[c],
         loops'[Boot].at \in {"owing", "sent", "refused"} => rows'[loops'[Boot].run].report
  PROVE  SendersHaveReports'
<1> SUFFICES ASSUME NEW l \in Loops, loops'[l].at \in {"owing", "sent", "refused"}
             PROVE  rows'[loops'[l].run].report
  BY DEF SendersHaveReports
<1>1. CASE l = Boot
  BY <1>1
<1>2. CASE l # Boot
  <2>1. loops'[l] = loops[l]
    BY <1>2 DEF Loops
  <2>2. loops[l].run \in DOMAIN rows
    BY <2>1, LoopHasRow
  <2> QED
    BY <2>1, <2>2 DEF MarksInv, SendersHaveReports
<1> QED
  BY <1>1, <1>2

(* The running runs of a snapshot have no report, so nobody refused one.    *)
LEMMA HalvesAreNothing ==
  ASSUME RunsInv, MarksInv, StartDrain \/ StartResume \/ EndPass
  PROVE  MarksInv' /\ ContractStep
<1>1. rows' = rows /\ told' = told /\ loops' = loops
  BY DEF StartDrain, StartResume, EndPass, durable
<1>2. pass'.at = "resume" => pass'.left = RunningRuns
  <2>1. pass \in Pass
    BY DEF RunsInv, TypeOK
  <2>2. CASE StartDrain
    BY <2>1, <2>2 DEF StartDrain, Pass
  <2>3. CASE StartResume
    BY <2>3 DEF StartResume
  <2>4. CASE EndPass
    BY <2>1, <2>4 DEF EndPass, Pass
  <2> QED
    BY <2>2, <2>3, <2>4
<1>3. \A r \in RunningRuns : rows[r].attempts = 0
  BY DEF RunningRuns, RunsInv, RunningOwesNothing, Running, MarksInv, OnlyReportsAreMarked
<1>4. MarksInv'
  BY <1>1, <1>2, <1>3 DEF MarksInv, OnlyReportsAreMarked, OnlyReportsAreTold,
     SendersHaveReports, RefusalsAreLeft
<1>5. RunsBegun' = RunsBegun
  BY <1>1, NoRunChanges
<1> QED
  BY <1>4, <1>5 DEF ContractStep

LEMMA RedeliverIsNothing ==
  ASSUME RunsInv, MarksInv, NEW r \in pass.left, Redeliver(r)
  PROVE  MarksInv' /\ ContractStep
<1>1. Visit("drain", r, "owing", "drain") /\ rows[r].attempts < MaxRefusals
      /\ rows' = rows /\ told' = told
  BY DEF Redeliver, durable
<1>2. /\ pass.at = "drain" /\ pass'.at = "drain" /\ \A c \in Callers : loops'[c] = loops[c]
      /\ loops'[Boot].by = "drain" /\ loops'[Boot].run = r
  BY <1>1, VisitTakes
<1>3. rows[r].report
  BY <1>2 DEF RunsInv, RefusedIsBehind
<1>4. SendersHaveReports'
  BY <1>1, <1>2, <1>3, PassKeepsSenders
<1>5. MarksInv'
  BY <1>1, <1>2, <1>4 DEF MarksInv, OnlyReportsAreMarked, OnlyReportsAreTold, RefusalsAreLeft
<1>6. RunsBegun' = RunsBegun
  BY <1>1, NoRunChanges
<1> QED
  BY <1>5, <1>6 DEF ContractStep

(* The target has refused often enough: the debt ends in the log.           *)
LEMMA LeaveInTheLogSettles ==
  ASSUME RunsInv, MarksInv, NEW r \in pass.left, LeaveInTheLog(r)
  PROVE  MarksInv' /\ ContractStep
<1>1. Visit("drain", r, "idle", "none") /\ rows[r].attempts >= MaxRefusals
      /\ rows' = [rows EXCEPT ![r] = Marked(@, "sent")] /\ told' = told
  BY DEF LeaveInTheLog
<1>2. /\ pass.at = "drain" /\ pass'.at = "drain" /\ r \in DOMAIN rows /\ loops' = loops
      /\ loops[Boot].at = "idle"
  BY <1>1, VisitTakes
<1>3. rows[r].report
  BY <1>2 DEF RunsInv, RefusedIsBehind
<1>4. /\ ContractStep /\ DOMAIN rows' = DOMAIN rows
      /\ OnlyReportsAreMarked' /\ OnlyReportsAreTold'
      /\ \A q \in DOMAIN rows : /\ rows'[q].report = rows[q].report
                                /\ rows'[q].attempts = rows[q].attempts
  BY <1>1, <1>2, <1>3, MarkSettles
<1>5. SendersHaveReports'
  BY <1>2, <1>4, PassKeepsSenders
<1>6. loops[Boot].by # "none" => loops[Boot].run \in DOMAIN rows
  BY BootHasRow
<1>7. RefusalsAreLeft'
  BY <1>2, <1>4, <1>6 DEF MarksInv, RefusalsAreLeft
<1> QED
  BY <1>4, <1>5, <1>7 DEF MarksInv

LEMMA GiveUpIsNothing ==
  ASSUME RunsInv, MarksInv, NEW r \in pass.left, GiveUp(r)
  PROVE  MarksInv' /\ ContractStep
<1>1. Visit("resume", r, "judge", "giveup") /\ rows' = rows /\ told' = told
  BY DEF GiveUp, durable
<1>2. /\ pass.at = "resume" /\ pass'.left = pass.left \ {r}
      /\ \A c \in Callers : loops'[c] = loops[c] /\ r \in DOMAIN rows
      /\ loops'[Boot].by = "giveup" /\ loops'[Boot].run = r /\ loops'[Boot].at = "judge"
      /\ r \in DOMAIN rows
  BY <1>1, VisitTakes
<1>3. SendersHaveReports'
  BY <1>1, <1>2, PassKeepsSenders
<1>4. rows[r].attempts = 0 /\ r # 0
  BY <1>2, TableType DEF MarksInv, RefusalsAreLeft, RunsInv, Runs
<1>5. MarksInv'
  BY <1>1, <1>2, <1>3, <1>4 DEF MarksInv, OnlyReportsAreMarked, OnlyReportsAreTold,
     RefusalsAreLeft
<1>6. RunsBegun' = RunsBegun
  BY <1>1, NoRunChanges
<1> QED
  BY <1>5, <1>6 DEF ContractStep

(* The attempt is on the row, under the limit, and not of a job.            *)
LEMMA ResumeRetries ==
  ASSUME RunsInv, MarksInv, NEW r \in pass.left, Resume(r)
  PROVE  MarksInv' /\ ContractStep
<1> DEFINE row == [rows[r] EXCEPT !.resumes = rows[r].resumes + 1,
                                  !.from = Len(rows[r].turns) + 1, !.stale = FALSE]
<1>1. Visit("resume", r, "turns", "resume") /\ ~GivesUp(r)
      /\ rows' = [rows EXCEPT ![r] = row] /\ told' = told
  BY DEF Resume
<1>2. /\ pass.at = "resume" /\ pass'.left = pass.left \ {r} /\ r \in DOMAIN rows
      /\ \A c \in Callers : loops'[c] = loops[c]
      /\ loops'[Boot].by = "resume" /\ loops'[Boot].run = r /\ loops'[Boot].at = "turns"
  BY <1>1, VisitTakes
<1>3. rows[r] \in Row /\ r # 0
  BY <1>2, TableType DEF RunsInv, Runs
<1>4. /\ row.session = rows[r].session /\ row.status = rows[r].status
      /\ row.report = rows[r].report /\ row.delivered = rows[r].delivered
      /\ row.attempts = rows[r].attempts /\ row.resumes = rows[r].resumes + 1
  BY <1>3 DEF Row
<1>5. rows[r].session \notin Jobs /\ rows[r].resumes < MaxResumes
  BY <1>1, <1>3, SettingAssumption DEF GivesUp, Row
<1> HIDE DEF row
<1>6. DOMAIN rows' = DOMAIN rows /\ rows'[r] = row
      /\ \A q \in DOMAIN rows : q # r => rows'[q] = rows[q]
  BY <1>1, <1>2
<1>7. \A q \in DOMAIN rows : /\ rows'[q].report = rows[q].report
                             /\ rows'[q].delivered = rows[q].delivered
                             /\ rows'[q].attempts = rows[q].attempts
  BY <1>4, <1>6
<1>8. SendersHaveReports'
  BY <1>2, <1>7, PassKeepsSenders
<1>9. OnlyReportsAreMarked' /\ OnlyReportsAreTold'
  BY <1>1, <1>6, <1>7 DEF MarksInv, OnlyReportsAreMarked, OnlyReportsAreTold
<1>10. RefusalsAreLeft'
  <2>1. \A q \in pass.left : q \in DOMAIN rows /\ rows[q].attempts = 0
    BY <1>2 DEF MarksInv, RefusalsAreLeft, RunsInv, RefusedIsBehind
  <2> QED
    BY <1>2, <1>3, <1>7, <2>1 DEF RefusalsAreLeft
<1>11. DOMAIN RunsBegun = DOMAIN rows /\ RunsBegun[r] = RunOf(rows[r], r \in told)
  BY <1>2 DEF RunsBegun
<1>12. RunsBegun[r].session = rows[r].session /\ RunsBegun[r].tries = rows[r].resumes
  BY <1>11 DEF RunOf
<1>13. StageOf(row) = StageOf(rows[r])
  BY <1>4 DEF StageOf
<1>14. \A sent : RunOf(row, sent) = [RunOf(rows[r], sent) EXCEPT !.tries = rows[r].resumes + 1]
  BY <1>4, <1>13 DEF RunOf
<1> HIDE DEF RunsBegun, RunOf, StageOf
<1>15. RunsBegun' = [RunsBegun EXCEPT ![r] = [RunsBegun[r] EXCEPT !.tries = rows[r].resumes + 1]]
  <2>1. RunOf(rows'[r], r \in told') = [RunsBegun[r] EXCEPT !.tries = rows[r].resumes + 1]
    BY <1>1, <1>6, <1>11, <1>14
  <2> QED
    BY <1>1, <1>2, <1>6, <2>1, OneRunChanges
<1>16. RunSpec!Retry(r)
  BY <1>5, <1>12, <1>15 DEF RunSpec!Retry
<1> QED
  BY <1>2, <1>8, <1>9, <1>10, <1>11, <1>16 DEF MarksInv, ContractStep, RunSpec!Next

-----------------------------------------------------------------------------
LEMMA MarksInvInit == Init => MarksInv
<1> SUFFICES ASSUME Init PROVE MarksInv
  OBVIOUS
<1>1. DOMAIN rows = {} /\ told = {} /\ pass = Starting /\ \A l \in Loops : loops[l] = Idle
  BY EmptySeq DEF Init
<1>2. Boot \in Loops
  BY DEF Loops
<1> QED
  BY <1>1, <1>2, IdleIsLoop DEF MarksInv, OnlyReportsAreMarked, OnlyReportsAreTold,
     SendersHaveReports, RefusalsAreLeft, Starting

LEMMA StepKeepsContract ==
  RunsInv /\ MarksInv /\ [Next]_vars => MarksInv' /\ ContractStep
<1> SUFFICES ASSUME RunsInv, MarksInv, [Next]_vars PROVE MarksInv' /\ ContractStep
  OBVIOUS
<1>1. CASE \E c \in Callers, s \in Sessions : Arrive(c, s)
  BY <1>1, ArriveIsNothing
<1>2. CASE \E c \in Callers : CallerStep(c)
  BY <1>2, StartBegins, StartRefusedIsNothing, LoopStepKeepsContract DEF CallerStep, Loops
<1>3. CASE LoopStep(Boot)
  BY <1>3, LoopStepKeepsContract DEF Loops
<1>4. CASE PassStep
  BY <1>4, HalvesAreNothing, RedeliverIsNothing, LeaveInTheLogSettles, GiveUpIsNothing,
     ResumeRetries DEF PassStep
<1>5. CASE \E r \in Runs : Expire(r) \/ GrowStale(r)
  BY <1>5, ClockIsNothing
<1>6. CASE Restart
  BY <1>6, RestartIsNothing
<1>7. CASE UNCHANGED vars
  <2>1. rows' = rows /\ told' = told /\ loops' = loops /\ pass' = pass
    BY <1>7 DEF vars
  <2>2. MarksInv'
    BY <2>1 DEF MarksInv, OnlyReportsAreMarked, OnlyReportsAreTold, SendersHaveReports,
       RefusalsAreLeft
  <2>3. RunsBegun' = RunsBegun
    BY <2>1, NoRunChanges
  <2> QED
    BY <2>2, <2>3 DEF ContractStep
<1> QED
  BY <1>1, <1>2, <1>3, <1>4, <1>5, <1>6, <1>7 DEF Next

(* Table, loops, start-up pass and clock implement the contract of runs:    *)
(* one run in flight per conversation, a report that is owed until it went  *)
(* out or was refused often enough, bounded retries and none of a job, and  *)
(* deaths of the process that nobody can tell from nothing.                 *)
THEOREM RunsKeepContract == Spec => KeepsRunContract
<1>1. Init => RunSpec!Init
  BY EmptySeq DEF Init, RunSpec!Init, RunsBegun
<1>2. ContractStep => [RunSpec!Next]_RunsBegun
  BY DEF ContractStep
<1> QED
  BY <1>1, <1>2, MarksInvInit, StepKeepsContract, RunsInvariant, PTL
     DEF Spec, KeepsRunContract, RunSpec!Spec

-----------------------------------------------------------------------------
(***************************************************************************)
(* Messages that wait for the start-up pass.  The pass takes every running  *)
(* row for the leftover of a dead process, which is true only if nothing    *)
(* arrives before it is over.  Then, and only with this hypothesis, what    *)
(* run-resume.ts says of the rows it finds holds.                           *)
(***************************************************************************)
BootIsBusy ==
  /\ loops[Boot].at = "idle" => loops[Boot].by = "none"
  /\ loops[Boot].at \in {"turns", "judge"} => loops[Boot].by \in {"resume", "giveup"}
  /\ pass.at = "done" => loops[Boot].at = "idle"

CallersWait == pass.at # "done" => \A c \in Callers : loops[c].at = "idle"

DeadAreKnown ==
  /\ pass.at # "done" => RunningRuns \subseteq dead
  /\ pass.at = "resume" => pass.left \subseteq dead
  /\ \A c \in Callers : loops[c].run \notin dead

PromptInv == BootIsBusy /\ CallersWait /\ DeadAreKnown /\ OnlyTheDeadAreResumed

(* A run is driven by one loop: nobody works on it, judges it or reports it *)
(* twice at a time.                                                         *)
OneDriver == \A r \in Runs : \A l, k \in Loops : Drives(l, r) /\ Drives(k, r) => l = k

LEMMA PromptInit == Init => PromptInv
<1> SUFFICES ASSUME Init PROVE PromptInv
  OBVIOUS
<1>1. DOMAIN rows = {} /\ dead = {} /\ pass = Starting /\ \A l \in Loops : loops[l] = Idle
  BY EmptySeq DEF Init
<1>2. Boot \in Loops /\ Callers \subseteq Loops
  BY DEF Loops
<1> QED
  BY <1>1, <1>2, IdleIsLoop DEF PromptInv, BootIsBusy, CallersWait, DeadAreKnown,
     RunningRuns, OnlyTheDeadAreResumed, Starting

(* A loop that goes on or stops starts no run.                              *)
LEMMA LoopStepStartsNothing ==
  ASSUME RunsInv, NEW c \in Loops, LoopStep(c)
  PROVE  /\ DOMAIN rows' = DOMAIN rows /\ RunningRuns' \subseteq RunningRuns
         /\ pass' = pass /\ dead' = dead /\ loops[c].at # "idle"
         /\ \E new \in Loop :
              /\ loops' = [loops EXCEPT ![c] = new]
              /\ \/ new = Idle
                 \/ /\ new.run = loops[c].run /\ new.by = loops[c].by /\ new.at # "idle"
                    /\ new.at \in {"turns", "judge"} => loops[c].at \in {"turns", "judge"}
<1> USE DEF RunsInv
<1>1. loops[c] \in Loop /\ \A r \in DOMAIN rows : rows[r] \in Row
  BY TableType DEF TypeOK
<1>2. CASE \E did \in Deeds, outcome \in Ending, passes \in BOOLEAN : Turn(c, did, outcome, passes)
  <2>1. PICK did \in Deeds, outcome \in Ending, passes \in BOOLEAN : Turn(c, did, outcome, passes)
    BY <1>2
  <2> DEFINE r == loops[c].run
             turns == Append(rows[r].turns, Recorded(loops[c], did))
             new == After(loops[c], outcome, passes, turns)
  <2>2. /\ loops[c].at = "turns" /\ r # 0 /\ loops' = [loops EXCEPT ![c] = new]
        /\ pass' = pass /\ dead' = dead
        /\ rows' = [rows EXCEPT ![r] =
                     [rows[r] EXCEPT !.turns = turns, !.stale = FALSE,
                                     !.changed = rows[r].changed \/ did = "files"]]
    BY <2>1 DEF Turn
  <2>3. r \in DOMAIN rows
    BY <2>2, DriverHasRow
  <2>4. /\ new \in Loop /\ new.by = loops[c].by /\ new.run = loops[c].run
        /\ new.at \in {"judge", "turns"}
    <3> HIDE DEF turns
    <3> QED
      BY <1>1, <2>2, AfterTurn
  <2> HIDE DEF turns, new
  <2>5. DOMAIN rows' = DOMAIN rows /\ RunningRuns' \subseteq RunningRuns
    BY <1>1, <2>2, <2>3 DEF Row, RunningRuns
  <2> QED
    BY <2>2, <2>4, <2>5
<1>3. CASE AnswerUnrecorded(c)
  BY <1>3, IdleIsLoop DEF AnswerUnrecorded, durable, history, RunningRuns
<1>4. CASE Conclude(c)
  <2> DEFINE r == loops[c].run
             new == [loops[c] EXCEPT !.at = "owing"]
  <2>1. /\ loops[c].at = "judge" /\ loops' = [loops EXCEPT ![c] = new]
        /\ pass' = pass /\ dead' = dead
        /\ rows' = [rows EXCEPT ![r] = Finished(rows[r], TRUE)]
    BY <1>4 DEF Conclude, history
  <2>2. r \in DOMAIN rows
    BY <2>1, LoopHasRow
  <2>3. new \in Loop /\ new.run = r /\ new.by = loops[c].by /\ new.at = "owing"
    BY <1>1 DEF Loop
  <2>4. Finished(rows[r], TRUE).status = "over"
    BY <1>1, <2>2 DEF Finished, Row
  <2> HIDE DEF new, r
  <2>5. DOMAIN rows' = DOMAIN rows /\ RunningRuns' \subseteq RunningRuns
    BY <2>1, <2>2, <2>4 DEF RunningRuns
  <2> QED
    BY <2>1, <2>3, <2>5 DEF r
<1>5. CASE \E outcome \in {"sent", "refused"} : Send(c, outcome)
  <2>1. PICK outcome \in {"sent", "refused"} : Send(c, outcome)
    BY <1>5
  <2> DEFINE new == [loops[c] EXCEPT !.at = outcome]
  <2>2. /\ loops[c].at = "owing" /\ loops' = [loops EXCEPT ![c] = new]
        /\ pass' = pass /\ dead' = dead /\ rows' = rows
    BY <2>1 DEF Send, history
  <2>3. new \in Loop /\ new.run = loops[c].run /\ new.by = loops[c].by /\ new.at = outcome
    BY <1>1 DEF Loop
  <2> HIDE DEF new
  <2> QED
    BY <2>2, <2>3 DEF RunningRuns
<1>6. CASE Mark(c)
  <2> DEFINE r == loops[c].run
  <2>1. /\ loops[c].at \in {"sent", "refused"} /\ loops' = [loops EXCEPT ![c] = Idle]
        /\ pass' = pass /\ dead' = dead
        /\ rows' = [rows EXCEPT ![r] = Marked(rows[r], loops[c].at)]
    BY <1>6 DEF Mark
  <2>2. r \in DOMAIN rows
    BY <2>1, LoopHasRow
  <2>3. Marked(rows[r], loops[c].at).status = rows[r].status
    BY <1>1, <2>2, MarkedRow
  <2> HIDE DEF r
  <2> QED
    BY <2>1, <2>2, <2>3, IdleIsLoop DEF RunningRuns
<1>7. CASE GoesUnsent(c)
  <2> DEFINE r == loops[c].run
  <2>1. /\ loops[c].at \in {"judge", "owing"} /\ loops' = [loops EXCEPT ![c] = Idle]
        /\ pass' = pass /\ dead' = dead
        /\ rows' = rows \/ rows' = [rows EXCEPT ![r] = Finished(rows[r], FALSE)]
    BY <1>7 DEF GoesUnsent, AfterGiveUp, history
  <2>2. r \in DOMAIN rows
    BY <2>1, LoopHasRow
  <2>3. Finished(rows[r], FALSE).status = "over"
    BY <1>1, <2>2 DEF Finished, Row
  <2> HIDE DEF r
  <2> QED
    BY <2>1, <2>2, <2>3, IdleIsLoop DEF RunningRuns
<1> QED
  BY <1>2, <1>3, <1>4, <1>5, <1>6, <1>7 DEF LoopStep

LEMMA DeadAreRows ==
  ASSUME RunsInv
  PROVE  dead \subseteq DOMAIN rows /\ 0 \notin dead /\ RunningRuns \subseteq DOMAIN rows
BY TableType DEF RunsInv, DeadAreAhead, RunningRuns, Runs

(* Only a caller starts a run, and by then the pass is over.                *)
LEMMA PromptCaller ==
  ASSUME RunsInv, PromptInv, ~Early, NEW c \in Callers,
         (\E s \in Sessions : Arrive(c, s)) \/ Start(c) \/ StartRefused(c)
  PROVE  PromptInv'
<1>1. c \in Loops /\ c # Boot /\ Boot \in Loops /\ Callers \subseteq Loops
  BY ActorAssumption DEF Loops
<1>2. pass.at = "done" /\ pass' = pass /\ dead' = dead
  BY DEF Arrive, Start, StartRefused, PromptInv, CallersWait, history
<1>3. PICK new : loops' = [loops EXCEPT ![c] = new] /\ new.run \notin dead
  <2>1. CASE \E s \in Sessions : Arrive(c, s)
    <3>1. PICK s \in Sessions : Arrive(c, s)
      BY <2>1
    <3>2. NewLoop("begin", IF s \in Jobs THEN "job" ELSE "message", s, 0).run = 0
      BY DEF NewLoop
    <3> QED
      BY <3>1, <3>2, DeadAreRows DEF Arrive
  <2>2. CASE Start(c)
    <3> DEFINE now == [loops[c] EXCEPT !.at = "turns", !.run = Len(rows) + 1]
    <3>1. loops' = [loops EXCEPT ![c] = now]
      BY <2>2 DEF Start
    <3>2. now.run = Len(rows) + 1
      BY <1>1 DEF RunsInv, TypeOK, Loop
    <3>3. Len(rows) + 1 \notin DOMAIN rows
      BY TableType DEF RunsInv
    <3> HIDE DEF now
    <3> QED
      BY <3>1, <3>2, <3>3, DeadAreRows
  <2>3. CASE StartRefused(c)
    <3> DEFINE now == IF loops[c].by = "job" THEN Idle ELSE [loops[c] EXCEPT !.at = "turns"]
    <3>1. loops' = [loops EXCEPT ![c] = now] /\ loops[c].at = "begin"
      BY <2>3 DEF StartRefused
    <3>2. now.run = 0
      BY <1>1, <3>1, IdleIsLoop DEF RunsInv, TypeOK, Loop, CallersAreHeard
    <3> HIDE DEF now
    <3> QED
      BY <3>1, <3>2, DeadAreRows
  <2> QED
    BY <2>1, <2>2, <2>3
<1>4. loops'[c] = new /\ \A l \in Loops : l # c => loops'[l] = loops[l]
  BY <1>1, <1>3 DEF RunsInv, TypeOK
<1> QED
  BY <1>1, <1>2, <1>3, <1>4 DEF PromptInv, BootIsBusy, CallersWait, DeadAreKnown,
     OnlyTheDeadAreResumed

LEMMA PromptLoop ==
  ASSUME RunsInv, PromptInv, NEW c \in Loops, LoopStep(c)
  PROVE  PromptInv'
<1>1. PICK new \in Loop :
        /\ DOMAIN rows' = DOMAIN rows /\ RunningRuns' \subseteq RunningRuns
        /\ pass' = pass /\ dead' = dead /\ loops[c].at # "idle"
        /\ loops' = [loops EXCEPT ![c] = new]
        /\ \/ new = Idle
           \/ /\ new.run = loops[c].run /\ new.by = loops[c].by /\ new.at # "idle"
              /\ new.at \in {"turns", "judge"} => loops[c].at \in {"turns", "judge"}
  BY LoopStepStartsNothing
<1>2. Boot \in Loops /\ Callers \subseteq Loops /\ Boot \notin Callers
  BY ActorAssumption DEF Loops
<1>3. loops'[c] = new /\ \A l \in Loops : l # c => loops'[l] = loops[l]
  BY <1>1 DEF RunsInv, TypeOK
<1>4. BootIsBusy'
  BY <1>1, <1>2, <1>3, IdleIsLoop DEF PromptInv, BootIsBusy
<1>5. CallersWait'
  BY <1>1, <1>2, <1>3 DEF PromptInv, CallersWait
<1>6. DeadAreKnown'
  BY <1>1, <1>2, <1>3, IdleIsLoop, DeadAreRows DEF PromptInv, DeadAreKnown
<1>7. OnlyTheDeadAreResumed'
  BY <1>1, <1>2, <1>3, IdleIsLoop DEF PromptInv, OnlyTheDeadAreResumed
<1> QED
  BY <1>4, <1>5, <1>6, <1>7 DEF PromptInv

LEMMA PromptVisit ==
  ASSUME RunsInv, PromptInv, NEW r \in pass.left,
         Redeliver(r) \/ LeaveInTheLog(r) \/ GiveUp(r) \/ Resume(r)
  PROVE  PromptInv'
<1>1. dead' = dead
  BY DEF Redeliver, LeaveInTheLog, GiveUp, Resume, history
<1>2. RunningRuns' \subseteq RunningRuns
  <2>1. \A q \in DOMAIN rows : rows[q] \in Row
    BY TableType DEF RunsInv
  <2>2. CASE Redeliver(r) \/ GiveUp(r)
    BY <2>2 DEF Redeliver, GiveUp, durable, RunningRuns
  <2>3. CASE LeaveInTheLog(r)
    <3>1. rows' = [rows EXCEPT ![r] = Marked(rows[r], "sent")] /\ r \in DOMAIN rows
      BY <2>3, VisitTakes DEF LeaveInTheLog
    <3>2. Marked(rows[r], "sent").status = rows[r].status
      BY <2>1, <3>1, MarkedRow
    <3> QED
      BY <3>1, <3>2 DEF RunningRuns
  <2>4. CASE Resume(r)
    <3>1. r \in DOMAIN rows
          /\ rows' = [rows EXCEPT ![r] = [rows[r] EXCEPT !.resumes = rows[r].resumes + 1,
                                            !.from = Len(rows[r].turns) + 1, !.stale = FALSE]]
      BY <2>4, VisitTakes DEF Resume
    <3> QED
      BY <2>1, <3>1 DEF RunningRuns, Row
  <2> QED
    BY <2>2, <2>3, <2>4
<1>3. /\ pass'.at = pass.at /\ pass.at \in {"drain", "resume"} /\ pass'.left = pass.left \ {r}
      /\ loops[Boot].at = "idle" /\ \A c \in Callers : loops'[c] = loops[c]
      /\ \/ loops'[Boot] = loops[Boot]
         \/ loops'[Boot].at = "owing" /\ loops'[Boot].by = "drain"
         \/ /\ loops'[Boot].at \in {"turns", "judge"} /\ loops'[Boot].by \in {"resume", "giveup"}
            /\ loops'[Boot].run = r /\ pass.at = "resume"
  <2>1. CASE Redeliver(r)
    <3>1. Visit("drain", r, "owing", "drain")
      BY <2>1 DEF Redeliver
    <3> QED
      BY <3>1, VisitTakes
  <2>2. CASE LeaveInTheLog(r)
    <3>1. Visit("drain", r, "idle", "none")
      BY <2>2 DEF LeaveInTheLog
    <3> QED
      BY <3>1, VisitTakes
  <2>3. CASE GiveUp(r)
    <3>1. Visit("resume", r, "judge", "giveup")
      BY <2>3 DEF GiveUp
    <3> QED
      BY <3>1, VisitTakes
  <2>4. CASE Resume(r)
    <3>1. Visit("resume", r, "turns", "resume")
      BY <2>4 DEF Resume
    <3> QED
      BY <3>1, VisitTakes
  <2> QED
    BY <2>1, <2>2, <2>3, <2>4
<1> QED
  BY <1>1, <1>2, <1>3 DEF PromptInv, BootIsBusy, CallersWait, DeadAreKnown,
     OnlyTheDeadAreResumed

LEMMA PromptRest ==
  ASSUME RunsInv, PromptInv,
         \/ StartDrain \/ StartResume \/ EndPass
         \/ \E r \in Runs : Expire(r) \/ GrowStale(r)
         \/ Restart
         \/ UNCHANGED vars
  PROVE  PromptInv'
<1>1. CASE StartDrain \/ StartResume \/ EndPass
  <2>1. /\ rows' = rows /\ loops' = loops /\ dead' = dead /\ pass.at # "done"
        /\ loops[Boot].at = "idle"
    BY <1>1 DEF StartDrain, StartResume, EndPass, PassAt, durable, history
  <2>2. pass'.at = "resume" => pass'.left = RunningRuns
    <3>1. pass \in Pass
      BY DEF RunsInv, TypeOK
    <3>2. CASE StartDrain
      BY <3>1, <3>2 DEF StartDrain, Pass
    <3>3. CASE StartResume
      BY <3>3 DEF StartResume
    <3>4. CASE EndPass
      BY <3>1, <3>4 DEF EndPass, Pass
    <3> QED
      BY <1>1, <3>2, <3>3, <3>4
  <2> QED
    BY <2>1, <2>2 DEF PromptInv, BootIsBusy, CallersWait, DeadAreKnown, OnlyTheDeadAreResumed,
       RunningRuns
<1>2. CASE \E r \in Runs : Expire(r) \/ GrowStale(r)
  <2>1. PICK r \in Runs : Expire(r) \/ GrowStale(r)
    BY <1>2
  <2>2. /\ r \in DOMAIN rows /\ loops' = loops /\ pass' = pass /\ dead' = dead
        /\ \/ rows' = [rows EXCEPT ![r] = [rows[r] EXCEPT !.expired = TRUE]]
           \/ rows' = [rows EXCEPT ![r] = [rows[r] EXCEPT !.stale = TRUE]]
    BY <2>1 DEF Expire, GrowStale, Running, history
  <2>3. rows[r] \in Row
    BY <2>2, TableType DEF RunsInv
  <2>4. RunningRuns' = RunningRuns
    BY <2>2, <2>3 DEF RunningRuns, Row
  <2> QED
    BY <2>2, <2>4 DEF PromptInv, BootIsBusy, CallersWait, DeadAreKnown, OnlyTheDeadAreResumed
<1>3. CASE Restart
  <2>1. /\ rows' = rows /\ dead' = RunningRuns /\ pass' = Starting
        /\ \A l \in Loops : loops'[l] = Idle
    BY <1>3 DEF Restart, durable
  <2>2. Boot \in Loops /\ Callers \subseteq Loops /\ 0 \notin RunningRuns
    BY TableType DEF Loops, RunsInv, Runs, RunningRuns
  <2> QED
    BY <2>1, <2>2, IdleIsLoop DEF PromptInv, BootIsBusy, CallersWait, DeadAreKnown,
       OnlyTheDeadAreResumed, RunningRuns, Starting
<1>4. CASE UNCHANGED vars
  BY <1>4 DEF vars, history, PromptInv, BootIsBusy, CallersWait, DeadAreKnown, OnlyTheDeadAreResumed,
     RunningRuns
<1> QED
  BY <1>1, <1>2, <1>3, <1>4

LEMMA PromptNext == ~Early /\ RunsInv /\ PromptInv /\ [Next]_vars => PromptInv'
<1> SUFFICES ASSUME ~Early, RunsInv, PromptInv, [Next]_vars PROVE PromptInv'
  OBVIOUS
<1>1. CASE \E c \in Callers, s \in Sessions : Arrive(c, s)
  BY <1>1, PromptCaller
<1>2. CASE \E c \in Callers : CallerStep(c)
  BY <1>2, PromptCaller, PromptLoop DEF CallerStep, Loops
<1>3. CASE LoopStep(Boot)
  BY <1>3, PromptLoop DEF Loops
<1>4. CASE PassStep
  BY <1>4, PromptRest, PromptVisit DEF PassStep
<1>5. CASE (\E r \in Runs : Expire(r) \/ GrowStale(r)) \/ Restart \/ UNCHANGED vars
  BY <1>5, PromptRest
<1> QED
  BY <1>1, <1>2, <1>3, <1>4, <1>5 DEF Next

(* run-resume.ts:4-5, "a row still marked running after a restart IS the    *)
(* crash signal": true of a start-up that lets nothing in before the pass   *)
(* is over.  Then the pass takes up only runs whose process died, and no    *)
(* run is ever driven by two loops.                                         *)
THEOREM PromptBootsAreClean == ~Early => (Spec => [](OnlyTheDeadAreResumed /\ OneDriver))
<1> SUFFICES ASSUME ~Early PROVE Spec => [](OnlyTheDeadAreResumed /\ OneDriver)
  OBVIOUS
<1>1. RunsInv /\ PromptInv => OnlyTheDeadAreResumed /\ OneDriver
  <2> SUFFICES ASSUME RunsInv, PromptInv, NEW r \in Runs, NEW l \in Loops, NEW k \in Loops,
                      Drives(l, r), Drives(k, r)
               PROVE  l = k
    BY DEF OneDriver, PromptInv
  <2>1. r # 0 /\ loops[l].run = r /\ loops[k].run = r
    BY DEF Drives, Runs
  <2>2. Drives(Boot, r) => r \in dead
    BY DEF Drives, PromptInv, BootIsBusy, OnlyTheDeadAreResumed
  <2>3. \A c \in Callers : Drives(c, r) => r \notin dead
    BY DEF Drives, PromptInv, DeadAreKnown
  <2>4. \A c, d \in Callers : Drives(c, r) /\ Drives(d, r) => c = d
    BY <2>1 DEF Drives, RunsInv, WorkIsSpent
  <2> QED
    BY <2>2, <2>3, <2>4 DEF Loops
<1>2. RunsInv /\ PromptInv /\ [Next]_vars => PromptInv'
  BY PromptNext
<1> QED
  BY <1>1, <1>2, PromptInit, RunsInvariant, PTL DEF Spec
=============================================================================
