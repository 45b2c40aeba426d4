-------------------------------- MODULE Runs --------------------------------
(***************************************************************************)
(* Unattended runs (CinderpawAgent/src/core/run-store.ts, unattended.ts,    *)
(* run-resume.ts, run-delivery.ts and their wiring in boot.ts): a chat      *)
(* message or a scheduled job becomes a durable row, a loop of turns drives *)
(* it, and the report it ends with is owed until its person has it.  A      *)
(* process that dies leaves rows behind; the next one, when its connectors  *)
(* are up, first sends the reports still owed and then resumes or gives up  *)
(* every run it finds marked running, while new messages already arrive.    *)
(***************************************************************************)
EXTENDS Naturals, Sequences, FiniteSets

CONSTANTS
  Chats,          \* conversations that reach the program over a connector
  Jobs,           \* sessions of scheduled jobs ("cron:...")
  Callers,        \* the messages and firings that can be in hand at a time
  Boot,           \* the start-up pass, a loop of its own
  Measured,       \* is there a safety point, so that changes can be measured?
  Budget,         \* continuations allowed after the first turn
  StallTurns,     \* turns without progress after which a run is stalled
  MaxResumes,     \* times a boot may pick the same run up
  MaxRefusals,    \* times a target may refuse a report
  Deeds,          \* what a turn may do: nothing, change files, close a task
  Early,          \* may anything arrive before the start-up pass is over?
  MaxRuns,        \* bound: runs started
  MaxRestarts     \* bound: times the process dies

ASSUME ActorAssumption   == Chats \cap Jobs = {} /\ Boot \notin Callers
ASSUME InputAssumption   == Deeds \subseteq {"nothing", "files", "task"}
ASSUME SettingAssumption == /\ Measured \in BOOLEAN /\ Early \in BOOLEAN
                            /\ Budget \in Nat
                            /\ StallTurns \in Nat \ {0}
                            /\ MaxResumes \in Nat
                            /\ MaxRefusals \in Nat
ASSUME BoundAssumption   == MaxRuns \in Nat /\ MaxRestarts \in Nat

VARIABLES
  rows,       \* the runs table with each run's turns, oldest first
  loops,      \* what each caller and the start-up pass are in the middle of
  pass,       \* where the start-up pass is, what is left of its snapshot, and
              \* which runs were past their deadline when it read the clock
  told,       \* history: runs whose report was sent, or logged as delivery
  launches,   \* history: times a boot resumed each run
  achieved,   \* history: did the run get anywhere since it was last resumed?
  dead,       \* history: runs the last process left running
  tried,      \* history: runs this process resumed
  refused,    \* history: runs whose report was refused in this process
  restarts

durable == <<rows, told>>
history == <<launches, achieved, dead, tried, refused>>
vars    == <<rows, loops, pass, told, launches, achieved, dead, tried, refused, restarts>>

Sessions == Chats \cup Jobs
Runs     == 1 .. MaxRuns
Loops    == Callers \cup {Boot}

(* `turns' holds, for each turn, whether the recorder counted progress;     *)
(* `changed' whether the workspace differs from the run's safety point;     *)
(* `from' is lastResumeSeq, 0 for null.  `expired' and `stale' are the two  *)
(* comparisons the code makes with the clock: the deadline has passed, and  *)
(* updated_at is older than the stale window.                               *)
Row == [session : Sessions, status : {"running", "over"}, report : BOOLEAN,
        delivered : BOOLEAN, attempts : Nat, resumes : Nat, from : Nat,
        turns : Seq(BOOLEAN), changed : BOOLEAN, expired : BOOLEAN, stale : BOOLEAN]

(* A loop takes its safety point, runs turns, judges the result, owes the   *)
(* report it has written to the row, and notes what came of sending it.     *)
(* Run 0 is a loop without a row.  `fresh' says that its recorder has not   *)
(* seen a turn yet.                                                         *)
Loop == [at : {"idle", "begin", "turns", "judge", "owing", "sent", "refused"},
         by : {"none", "message", "job", "resume", "giveup", "drain"},
         session : Sessions \cup {Boot}, run : {0} \cup Runs,
         attempt : 0 .. Budget, replanned : BOOLEAN, fresh : BOOLEAN]

Pass == [at : {"reload", "drain", "resume", "done"}, left : SUBSET Runs, late : SUBSET Runs]

TypeOK ==
  /\ rows \in Seq(Row)
  /\ Len(rows) <= MaxRuns
  /\ loops \in [Loops -> Loop]
  /\ \A l \in Loops : loops[l].run <= Len(rows)
  /\ pass \in Pass
  /\ told \subseteq Runs
  /\ launches \in [Runs -> Nat]
  /\ achieved \in [Runs -> BOOLEAN]
  /\ dead \subseteq Runs
  /\ tried \subseteq Runs
  /\ refused \subseteq Runs
  /\ restarts \in Nat

NewLoop(at, by, session, run) ==
  [at |-> at, by |-> by, session |-> session, run |-> run,
   attempt |-> 0, replanned |-> FALSE, fresh |-> TRUE]

Idle == NewLoop("idle", "none", Boot, 0)

NewRow(session) ==
  [session |-> session, status |-> "running", report |-> FALSE, delivered |-> FALSE,
   attempts |-> 0, resumes |-> 0, from |-> 0, turns |-> <<>>, changed |-> FALSE,
   expired |-> FALSE, stale |-> FALSE]

Starting == [at |-> "reload", left |-> {}, late |-> {}]

Init ==
  /\ rows = <<>>
  /\ loops = [l \in Loops |-> Idle]
  /\ pass = Starting
  /\ told = {}
  /\ launches = [r \in Runs |-> 0]
  /\ achieved = [r \in Runs |-> FALSE]
  /\ dead = {}
  /\ tried = {}
  /\ refused = {}
  /\ restarts = 0

-----------------------------------------------------------------------------
(* Starting a run.                                                          *)

Running(r) == r \in DOMAIN rows /\ rows[r].status = "running"
RunningRuns == {r \in DOMAIN rows : rows[r].status = "running"}

Active(table, session) ==
  {r \in DOMAIN table : table[r].status = "running" /\ table[r].session = session}

(* finish().                                                                *)
Finished(row, report) == [row EXCEPT !.status = "over", !.report = report, !.stale = FALSE]

(* #maybeReclaimStale: the row ends with no report.                         *)
Reclaim(session) ==
  [r \in DOMAIN rows |->
     IF r \in Active(rows, session) /\ (rows[r].expired \/ rows[r].stale)
     THEN Finished(rows[r], FALSE) ELSE rows[r]]

(* A message or a firing arrives; its safety point is awaited.  One job has *)
(* one firing at a time.                                                    *)
Arrive(c, s) ==
  /\ loops[c].at = "idle"
  /\ Early \/ pass.at = "done"
  /\ s \in Jobs => \A d \in Callers : loops[d].session # s
  /\ Len(rows) < MaxRuns
  /\ loops' = [loops EXCEPT ![c] = NewLoop("begin", IF s \in Jobs THEN "job" ELSE "message", s, 0)]
  /\ UNCHANGED <<durable, pass, history, restarts>>

StartUnchecked(c) ==   \* mutant of Start: nobody looks for a run in flight
  /\ loops[c].at = "begin"
  /\ Len(rows) < MaxRuns
  /\ rows' = Append(Reclaim(loops[c].session), NewRow(loops[c].session))
  /\ loops' = [loops EXCEPT ![c].at = "turns", ![c].run = Len(rows) + 1]
  /\ UNCHANGED <<told, pass, history, restarts>>

Start(c) ==
  LET session == loops[c].session
      freed == Reclaim(session)
  IN /\ loops[c].at = "begin"
     /\ Active(freed, session) = {}
     /\ Len(rows) < MaxRuns
     /\ rows' = Append(freed, NewRow(session))
     /\ loops' = [loops EXCEPT ![c].at = "turns", ![c].run = Len(rows) + 1]
     /\ UNCHANGED <<told, pass, history, restarts>>

(* The session has a run in flight: a message is answered without a row, a  *)
(* firing fails.                                                            *)
StartRefused(c) ==
  LET session == loops[c].session
      freed == Reclaim(session)
  IN /\ loops[c].at = "begin"
     /\ Active(freed, session) # {}
     /\ rows' = freed
     /\ loops' = [loops EXCEPT ![c] = IF @.by = "job" THEN Idle ELSE [@ EXCEPT !.at = "turns"]]
     /\ UNCHANGED <<told, pass, history, restarts>>

-----------------------------------------------------------------------------
(* The turns of a run.                                                      *)

MadeNoProgress(turns, count) ==
  /\ count > 0
  /\ Len(turns) >= count
  /\ \A i \in Len(turns) - count + 1 .. Len(turns) : ~turns[i]

(* runUnattended after a turn: is there another one, and is it the replan?  *)
Room(l) == l.attempt < Budget /\ ~rows[l.run].expired

Stalled(turns) == Measured /\ MadeNoProgress(turns, StallTurns)

Refuted(outcome, turns) == outcome = "stuck" \/ (outcome = "cut" /\ Stalled(turns))

Unfinished(outcome, passes, turns) ==
  \/ outcome = "cut" /\ ~Stalled(turns)
  \/ outcome = "completed" /\ ~passes

After(l, outcome, passes, turns) ==
  LET replan == Refuted(outcome, turns) /\ ~l.replanned
  IN IF Room(l) /\ (replan \/ Unfinished(outcome, passes, turns))
     THEN [l EXCEPT !.attempt = @ + 1, !.fresh = FALSE, !.replanned = @ \/ replan]
     ELSE [l EXCEPT !.at = "judge", !.fresh = FALSE]

(* turnRecorder: closed tasks count, and so do changed files if the stamp   *)
(* of the workspace moved -- or if this recorder has no earlier stamp.      *)
Recorded(l, did) ==
  \/ did = "task"
  \/ Measured /\ (did = "files" \/ (l.fresh /\ rows[l.run].changed))

(* A turn ends and its recorder writes it: it did nothing, changed files or *)
(* closed a task, and was completed (and the check passes or not), cut off  *)
(* by its budget or stuck.  An outcome that just ends the loop counts as    *)
(* completed with no objection.  handleTurn never throws.                   *)
Turn(c, did, outcome, passes) ==
  LET l == loops[c]
      row == rows[l.run]
      turns == Append(row.turns, Recorded(l, did))
  IN /\ l.at = "turns"
     /\ l.run # 0
     /\ rows' = [rows EXCEPT ![l.run] =
                   [row EXCEPT !.turns = turns, !.stale = FALSE,
                               !.changed = row.changed \/ did = "files"]]
     /\ loops' = [loops EXCEPT ![c] = After(l, outcome, passes, turns)]
     /\ achieved' = [achieved EXCEPT ![l.run] = @ \/ did # "nothing"]
     /\ UNCHANGED <<told, pass, launches, dead, tried, refused, restarts>>

(* The loop of a message without a row ends; its reply leaves no trace.     *)
AnswerUnrecorded(c) ==
  /\ loops[c].at = "turns"
  /\ loops[c].run = 0
  /\ loops' = [loops EXCEPT ![c] = Idle]
  /\ UNCHANGED <<durable, pass, history, restarts>>

-----------------------------------------------------------------------------
(* Ending a run: status and report in one statement, then the report goes   *)
(* out, then the row says so.                                               *)

Conclude(c) ==
  /\ loops[c].at = "judge"
  /\ rows' = [rows EXCEPT ![loops[c].run] = Finished(@, TRUE)]
  /\ loops' = [loops EXCEPT ![c].at = "owing"]
  /\ UNCHANGED <<told, pass, history, restarts>>

(* The log is the delivery of a job, and never refuses.  A connector that   *)
(* answers a message reports no refusal, it throws: see GoesUnsent.         *)
Outcomes(l) ==
  IF l.by = "message" \/ rows[l.run].session \in Jobs THEN {"sent"} ELSE {"sent", "refused"}

Send(c, outcome) ==
  /\ loops[c].at = "owing"
  /\ outcome \in Outcomes(loops[c])
  /\ loops' = [loops EXCEPT ![c].at = outcome]
  /\ told' = IF outcome = "sent" THEN told \cup {loops[c].run} ELSE told
  /\ UNCHANGED <<rows, pass, history, restarts>>

(* markDelivered and recordDeliveryRefusal.                                 *)
Marked(row, outcome) ==
  [row EXCEPT !.delivered = @ \/ outcome = "sent",
              !.attempts = IF outcome = "refused" THEN @ + 1 ELSE @]

MarkAndRetry(c) ==   \* mutant of Mark: a refused report is sent again at once
  LET l == loops[c]
  IN /\ l.at \in {"sent", "refused"}
     /\ rows' = [rows EXCEPT ![l.run] = Marked(@, l.at)]
     /\ refused' = IF l.at = "refused" THEN refused \cup {l.run} ELSE refused
     /\ loops' = [loops EXCEPT ![c] = IF l.at = "refused" THEN [l EXCEPT !.at = "owing"] ELSE Idle]
     /\ UNCHANGED <<told, pass, launches, achieved, dead, tried, restarts>>

Mark(c) ==
  LET l == loops[c]
  IN /\ l.at \in {"sent", "refused"}
     /\ rows' = [rows EXCEPT ![l.run] = Marked(@, l.at)]
     /\ refused' = IF l.at = "refused" THEN refused \cup {l.run} ELSE refused
     /\ loops' = [loops EXCEPT ![c] = Idle]
     /\ UNCHANGED <<told, pass, launches, achieved, dead, tried, restarts>>

NoNet(r) == rows   \* mutant of AfterGiveUp: a failed give_up leaves the run running

NetAlways(r) ==    \* mutant of AfterGiveUp: the status is not looked at again
  [rows EXCEPT ![r] = Finished(@, FALSE)]

(* The net under give_up: a row still running is ended, without a report.   *)
AfterGiveUp(r) ==
  IF Running(r) THEN [rows EXCEPT ![r] = Finished(@, FALSE)] ELSE rows

MarkedUnsent(c) ==   \* mutant of GoesUnsent: whatever was not sent counts as delivered
  /\ loops[c].at \in {"judge", "owing"}
  /\ rows' = IF loops[c].at = "owing" THEN [rows EXCEPT ![loops[c].run] = Marked(@, "sent")]
             ELSE IF loops[c].by = "giveup" THEN AfterGiveUp(loops[c].run) ELSE rows
  /\ loops' = [loops EXCEPT ![c] = Idle]
  /\ UNCHANGED <<told, pass, history, restarts>>

(* A loop ends early: judging threw, there is no channel, or the send threw.*)
GoesUnsent(c) ==
  /\ loops[c].at \in {"judge", "owing"}
  /\ rows' = IF loops[c].by = "giveup" THEN AfterGiveUp(loops[c].run) ELSE rows
  /\ loops' = [loops EXCEPT ![c] = Idle]
  /\ UNCHANGED <<told, pass, history, restarts>>

-----------------------------------------------------------------------------
(* The clock, and the death of the process.                                 *)

Drives(l, r) == loops[l].run = r /\ loops[l].at \in {"turns", "judge"}

Expire(r) ==
  /\ r \in DOMAIN rows
  /\ Running(r) \/ \E l \in Loops : Drives(l, r)
  /\ ~rows[r].expired
  /\ rows' = [rows EXCEPT ![r] = [@ EXCEPT !.expired = TRUE]]
  /\ UNCHANGED <<loops, pass, told, history, restarts>>

(* The window is twice a turn's budget: a turn that is not over is assumed  *)
(* to be younger.                                                           *)
GrowStale(r) ==
  /\ Running(r)
  /\ \A l \in Loops : ~Drives(l, r)
  /\ ~rows[r].stale
  /\ rows' = [rows EXCEPT ![r] = [@ EXCEPT !.stale = TRUE]]
  /\ UNCHANGED <<loops, pass, told, history, restarts>>

Restart ==
  /\ restarts < MaxRestarts
  /\ restarts' = restarts + 1
  /\ loops' = [l \in Loops |-> Idle]
  /\ pass' = Starting
  /\ dead' = RunningRuns
  /\ tried' = {}
  /\ refused' = {}
  /\ UNCHANGED <<durable, launches, achieved>>

-----------------------------------------------------------------------------
(* The start-up pass: debts first, then work.  Each half goes through a     *)
(* snapshot, oldest first, one run at a time.                               *)

Oldest(S) == CHOOSE r \in S : \A q \in S : r <= q

Undelivered == {r \in DOMAIN rows : rows[r].report /\ ~rows[r].delivered}

PassAt(half) == pass.at = half /\ loops[Boot].at = "idle"

VisitAgain(half, r, at, by) ==   \* mutant of Visit: the run stays in the queue
  /\ PassAt(half)
  /\ pass.left # {}
  /\ r = Oldest(pass.left)
  /\ pass' = pass
  /\ loops' = IF by = "none" THEN loops
              ELSE [loops EXCEPT ![Boot] = NewLoop(at, by, rows[r].session, r)]

(* The next run of the snapshot, and the loop the pass starts on it.        *)
Visit(half, r, at, by) ==
  /\ PassAt(half)
  /\ pass.left # {}
  /\ r = Oldest(pass.left)
  /\ pass' = [pass EXCEPT !.left = @ \ {r}]
  /\ loops' = IF by = "none" THEN loops
              ELSE [loops EXCEPT ![Boot] = NewLoop(at, by, rows[r].session, r)]

(* connectors.reload() has returned; drainUndelivered reads its snapshot.   *)
StartDrain ==
  /\ PassAt("reload")
  /\ pass' = [pass EXCEPT !.at = "drain", !.left = Undelivered]
  /\ UNCHANGED <<durable, loops, history, restarts>>

Redeliver(r) ==
  /\ Visit("drain", r, "owing", "drain")
  /\ rows[r].attempts < MaxRefusals
  /\ UNCHANGED <<durable, history, restarts>>

(* The target has refused often enough: the report stays in the log.        *)
LeaveInTheLog(r) ==
  /\ Visit("drain", r, "idle", "none")
  /\ rows[r].attempts >= MaxRefusals
  /\ rows' = [rows EXCEPT ![r] = Marked(@, "sent")]
  /\ UNCHANGED <<told, history, restarts>>

(* The clock is read once, here, for every run of the snapshot.             *)
StartResume ==
  /\ PassAt("drain")
  /\ pass.left = {}
  /\ pass' = [at |-> "resume", left |-> RunningRuns,
              late |-> {r \in RunningRuns : rows[r].expired}]
  /\ UNCHANGED <<durable, loops, history, restarts>>

LastResumeAchievedNothing(row) ==
  LET from  == IF row.from = 0 THEN 1 ELSE row.from
      since == SubSeq(row.turns, from, Len(row.turns))
  IN /\ row.resumes > 0
     /\ Measured
     /\ MadeNoProgress(since, Len(since))

(* decideResume.                                                            *)
GivesUp(r) ==
  \/ rows[r].session \in Jobs
  \/ r \in pass.late
  \/ rows[r].resumes >= MaxResumes
  \/ LastResumeAchievedNothing(rows[r])

GiveUp(r) ==
  /\ Visit("resume", r, "judge", "giveup")
  /\ GivesUp(r)
  /\ UNCHANGED <<durable, history, restarts>>

ResumeUnrecorded(r) ==   \* mutant of Resume: the attempt would be noted at its end
  /\ Visit("resume", r, "turns", "resume")
  /\ ~GivesUp(r)
  /\ launches' = [launches EXCEPT ![r] = @ + 1]
  /\ achieved' = [achieved EXCEPT ![r] = FALSE]
  /\ tried' = tried \cup {r}
  /\ UNCHANGED <<durable, dead, refused, restarts>>

(* The attempt is on the row before it is made.                             *)
Resume(r) ==
  /\ Visit("resume", r, "turns", "resume")
  /\ ~GivesUp(r)
  /\ rows' = [rows EXCEPT ![r] =
                [rows[r] EXCEPT !.resumes = rows[r].resumes + 1,
                                !.from = Len(rows[r].turns) + 1, !.stale = FALSE]]
  /\ launches' = [launches EXCEPT ![r] = @ + 1]
  /\ achieved' = [achieved EXCEPT ![r] = FALSE]
  /\ tried' = tried \cup {r}
  /\ UNCHANGED <<told, dead, refused, restarts>>

EndPass ==
  /\ PassAt("resume")
  /\ pass.left = {}
  /\ pass' = [pass EXCEPT !.at = "done"]
  /\ UNCHANGED <<durable, loops, history, restarts>>

-----------------------------------------------------------------------------
Ending  == {"completed", "cut", "stuck"}

(* What a loop, the start-up pass and the surroundings do.                  *)
LoopStep(c) ==
  \/ \E did \in Deeds, outcome \in Ending, passes \in BOOLEAN : Turn(c, did, outcome, passes)
  \/ AnswerUnrecorded(c)
  \/ Conclude(c)
  \/ \E outcome \in {"sent", "refused"} : Send(c, outcome)
  \/ Mark(c)
  \/ GoesUnsent(c)

CallerStep(c) == Start(c) \/ StartRefused(c) \/ LoopStep(c)

PassStep ==
  \/ StartDrain
  \/ StartResume
  \/ EndPass
  \/ \E r \in pass.left : Redeliver(r) \/ LeaveInTheLog(r) \/ GiveUp(r) \/ Resume(r)

Next ==
  \/ \E c \in Callers, s \in Sessions : Arrive(c, s)
  \/ \E c \in Callers : CallerStep(c)
  \/ LoopStep(Boot)
  \/ PassStep
  \/ \E r \in Runs : Expire(r) \/ GrowStale(r)
  \/ Restart

Spec == Init /\ [][Next]_vars

(* Turns and sends are bounded in time and timers fire; nothing makes a     *)
(* message arrive, a deadline pass or a process die.                        *)
Fairness == WF_vars(PassStep) /\ WF_vars(LoopStep(Boot))

FairSpec == Spec /\ Fairness

-----------------------------------------------------------------------------
(* Properties.                                                              *)

(* startRun: one run of a conversation is in flight at a time, whatever     *)
(* messages, firings, reclaims and resumes come together on it.             *)
OneRunPerSession ==
  \A r, q \in DOMAIN rows :
    Running(r) /\ Running(q) /\ rows[r].session = rows[q].session => r = q

(* run-delivery.ts: a report stops being owed only when it went out or its  *)
(* target refused it as often as allowed -- never for want of a channel, a  *)
(* failing send or a process that died before it.                           *)
DebtIsDischarged ==
  \A r \in DOMAIN rows :
    rows[r].delivered => r \in told \/ rows[r].attempts >= MaxRefusals

(* run-resume.ts: however often the process dies, a run is picked up again  *)
(* a bounded number of times and never takes more turns than its budget     *)
(* allows each time.                                                        *)
WorkIsBounded ==
  \A r \in DOMAIN rows :
    /\ launches[r] <= MaxResumes
    /\ Len(rows[r].turns) <= (MaxResumes + 1) * (Budget + 1)

(* resumeInterruptedRuns: when the pass is over, every run the last process *)
(* left running is over or was tried again, though callbacks throw and new  *)
(* messages reclaim rows under it.                                          *)
NobodyIsForgotten ==
  pass.at = "done" =>
    \A r \in dead : ~Running(r) \/ r \in tried

(* finish(): a report that is on the row stays there, whichever of a live   *)
(* loop, a reclaim, a resume and the net under give_up ends the run again.  *)
ReportIsNeverErased ==
  [][\A r \in DOMAIN rows : rows[r].report => rows'[r].report]_vars

(* run-delivery.ts:66-68: the refusals counted against a target come from   *)
(* distinct boots.                                                          *)
OneRefusalPerBoot ==
  [][\A r \in DOMAIN rows : rows'[r].attempts > rows[r].attempts => r \notin refused]_vars

(* resumeInterruptedRuns: the pass ends, though it resumes runs one after   *)
(* the other and each may fail.                                             *)
PassEnds == pass.at # "done" ~> pass.at = "done"

(* run-resume.ts:4-5, "a row still marked running after a restart IS the    *)
(* crash signal": the pass takes up only runs whose process died.           *)
OnlyTheDeadAreResumed ==
  loops[Boot].by \in {"resume", "giveup"} => loops[Boot].run \in dead

(* run-resume.ts:66-68, "Work done before the last resume must not vouch    *)
(* for the last resume": a run whose last resume took turns and got nowhere *)
(* is not resumed again.                                                    *)
LastResumeAchieved ==
  [][\A r \in DOMAIN rows :
       launches'[r] > launches[r] /\ launches[r] > 0 /\ Len(rows[r].turns) >= rows[r].from
         => achieved[r]]_vars

=============================================================================
