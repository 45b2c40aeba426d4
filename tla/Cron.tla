-------------------------------- MODULE Cron --------------------------------
(***************************************************************************)
(* Scheduled tasks (CinderpawAgent/src/cron/scheduler.ts, jobs.ts, limit.ts *)
(* and the runJob, stopJob and boot wiring of boot.ts; the commands of      *)
(* dispatch.ts).  One tick at a time walks a snapshot of the due tasks and  *)
(* runs them one after the other; while a run is awaited its person edits,  *)
(* pauses, resumes and removes tasks, time passes, the run may outlive its  *)
(* timeout, and the process may die.                                        *)
(***************************************************************************)
EXTENDS Naturals, FiniteSets, FiniteSetsExt

CONSTANTS
  Jobs,        \* task ids, numbered in the order of their created_at
  Casts,       \* kinds the tasks may have; a reminder says its text, a watch
               \* reads a page
  Chat,        \* tasks delivered into a chat, and so free to be caught up
  Initial,     \* tasks that exist at the beginning, or the first few of them
  Limit,       \* the weekly limit in dollars
  MaxStarts,   \* bound: runs started
  MaxEdits,    \* bound: commands of the person
  MaxCrashes   \* bound: times the process dies

ASSUME JobAssumption   == /\ Jobs \subseteq Nat \ {0} /\ IsFiniteSet(Jobs)
                          /\ Casts \subseteq [Jobs -> {"agent", "reminder", "watch"}]
                          /\ Chat \subseteq Jobs /\ Initial \subseteq Jobs
                          /\ \A c \in Casts, j \in Jobs : c[j] = "watch" => j \in Chat
ASSUME BoundAssumption == /\ Limit \in Nat \ {0} /\ MaxStarts \in Nat
                          /\ MaxEdits \in Nat /\ MaxCrashes \in Nat

VARIABLES
  kind,       \* the kind column, which no command here changes
  row,        \* the rest of the cron_jobs table
  stale,      \* rows whose updated_at moved since the tick in progress took its
              \* snapshot
  tick,       \* the scheduler: its stage, what is left of the walk, its run
  bodies,     \* the runJob calls of agent tasks that have not returned
  auth,       \* the spend allowance bound to each task's session, 0 for none
  running,    \* the run store's row marked running for each session, 0 for none
  resuming,   \* interrupted runs the boot pass has still to take up
  week,       \* what the weekly limit has recorded
  up, starts, edits, crashes,
  begun,      \* history: times the scheduler began the current occurrence
  again,      \* history: times a boot took the current occurrence up again
  wish,       \* history: does the person want the task on?
  said,       \* history: tasks the person changed since their run was claimed
  billed      \* history: what allowances charged for each task, less what no
              \* scheduler was left to hear of

table   == <<kind, row, stale>>
process == <<tick, bodies, auth, resuming, up>>
counts  == <<starts, edits, crashes>>
history == <<begun, again, wish, said, billed>>
vars    == <<kind, row, stale, tick, bodies, auth, running, resuming, week, up,
             starts, edits, crashes, begun, again, wish, said, billed>>

(* `next' is next_run_ms against the clock: null, ahead, passed, or passed  *)
(* before the scheduler was constructed; `over' says that a watch expired.  *)
(* The retry count and the history only report, and are left out.           *)
Row == [st : {"unborn", "there", "gone"}, on : BOOLEAN, repeat : BOOLEAN,
        next : {"none", "later", "due", "missed"}, over : BOOLEAN, spent : Nat]

Body == [job : Jobs, n : 1 .. MaxStarts, at : {"safety", "working", "concluding", "resumed"},
         stopped : BOOLEAN, cost : 0 .. 1]

Blank == [st |-> "unborn", on |-> FALSE, repeat |-> FALSE, next |-> "none",
          over |-> FALSE, spent |-> 0]
Fresh(repeat) == [Blank EXCEPT !.st = "there", !.on = TRUE, !.repeat = repeat, !.next = "later"]
Idle == [stage |-> "idle", rest |-> {}, snap |-> [j \in {} |-> Blank], job |-> 0, n |-> 0]

TypeOK ==
  /\ kind \in Casts /\ row \in [Jobs -> Row]
  /\ stale \subseteq Jobs /\ resuming \subseteq Jobs /\ said \subseteq Jobs
  /\ tick.stage \in {"idle", "running", "grace", "deliver", "next"}
  /\ tick.rest \subseteq DOMAIN tick.snap
  /\ \A j \in DOMAIN tick.snap : j \in Jobs /\ tick.snap[j] \in Row
  /\ tick.job \in Jobs \cup {0} /\ tick.n \in 0 .. MaxStarts
  /\ bodies \subseteq Body
  /\ auth \in [Jobs -> 0 .. MaxStarts] /\ running \in [Jobs -> 0 .. MaxStarts]
  /\ week \in Nat /\ up \in BOOLEAN
  /\ starts \in 0 .. MaxStarts /\ edits \in 0 .. MaxEdits /\ crashes \in 0 .. MaxCrashes
  /\ begun \in [Jobs -> Nat] /\ again \in [Jobs -> Nat] /\ billed \in [Jobs -> Nat]
  /\ wish \in [Jobs -> BOOLEAN]

Init ==
  /\ kind \in Casts
  /\ \E n \in 0 .. Cardinality(Initial), once \in SUBSET Initial :
       /\ \A j \in once : j <= n /\ kind[j] # "watch"
       /\ row = [j \in Jobs |-> IF j \in Initial /\ j <= n THEN Fresh(j \notin once) ELSE Blank]
  /\ stale = {} /\ tick = Idle /\ bodies = {} /\ resuming = {} /\ said = {}
  /\ auth = [j \in Jobs |-> 0] /\ running = [j \in Jobs |-> 0]
  /\ week = 0 /\ up = TRUE /\ starts = 0 /\ edits = 0 /\ crashes = 0
  /\ begun = [j \in Jobs |-> 0] /\ again = [j \in Jobs |-> 0]
  /\ wish = [j \in Jobs |-> row[j].st = "there"]
  /\ billed = [j \in Jobs |-> 0]

-----------------------------------------------------------------------------
(* The jobs repository.                                                     *)

(* The next time of a task whose time has come: a repeating schedule has    *)
(* one, the target of a one-off has passed.                                 *)
NextOf(r) == IF r.repeat THEN "later" ELSE "none"

(* updateAfterRun: a run whose row has moved on only leaves a record.       *)
AfterAnyRun(r, current, next) ==   \* mutant of AfterRun: the revision is not compared
  IF r.st = "there" THEN [r EXCEPT !.next = next] ELSE r
AfterRun(r, current, next) ==
  IF r.st = "there" /\ current THEN [r EXCEPT !.next = next] ELSE r

(* setEnabled: a task turned on is scheduled from now, and a one-off whose  *)
(* time has passed is due now.                                              *)
SetEnabled(r, on) ==
  IF r.st # "there" THEN r
  ELSE [r EXCEPT !.on = on,
                 !.next = IF on /\ r.next # "later"
                          THEN IF r.repeat THEN "later" ELSE "due" ELSE r.next]

(* claimRun: the row must be the one in the snapshot, and its next time is  *)
(* moved before the work begins.                                            *)
ClaimableThen(j, moved) == row[j].st = "there"   \* mutant of Claimable: as the snapshot had it
Claimable(j, moved) == row[j].st = "there" /\ row[j].on /\ j \notin moved /\ row[j].next # "none"
ClaimedLater(r) == r   \* mutant of Claimed: the next time moves after the work
Claimed(r) == [r EXCEPT !.next = NextOf(r)]

(* settleSpend: the total of the snapshot plus this run.                    *)
SettledAlone(r, total) ==   \* mutant of Settled: this run's cost for the total
  IF r.st = "there" THEN [r EXCEPT !.spent = total - @] ELSE r
Settled(r, total) == IF r.st = "there" THEN [r EXCEPT !.spent = total] ELSE r

-----------------------------------------------------------------------------
(* The tick.                                                                *)

Due(j) == /\ row[j].st = "there" /\ row[j].on
          /\ row[j].over \/ row[j].next \in {"due", "missed"}

(* Why the walk passes a task over; a task it does not pass over is run.    *)
Reason(j, s) ==
  IF s.over THEN "expired"
  ELSE IF s.next = "missed" /\ (kind[j] = "agent" \/ j \notin Chat) THEN "skipped"
  ELSE IF kind[j] = "agent" /\ week >= Limit THEN "limited"
  ELSE "run"

(* #skip: an expired watch and a missed one-off are switched off, and a     *)
(* one-off held back by the weekly limit is tried again in an hour.         *)
SkippedForGood(j, s, current) ==   \* mutant of Skipped: whatever was missed is switched off
  LET after == AfterRun(row[j], current, NextOf(s))
  IN IF Reason(j, s) # "limited" /\ current THEN SetEnabled(after, FALSE) ELSE after
Skipped(j, s, current) ==
  LET why     == Reason(j, s)
      disable == why = "expired" \/ (why = "skipped" /\ ~s.repeat)
      next    == IF disable THEN NextOf(s) ELSE "later"
      after   == AfterRun(row[j], current, next)
  IN IF disable /\ current THEN SetEnabled(after, FALSE) ELSE after

(* From one run to the next nothing is awaited: the tasks to pass over are  *)
(* passed over, a claim that fails is passed over too, and the first task   *)
(* whose claim holds begins.                                                *)
Walk(rest, snap, moved) ==
  LET held(j) == Reason(j, snap[j]) # "run"
      ready   == {j \in rest : ~held(j) /\ Claimable(j, moved)}
      first   == Min(ready)
      past    == {j \in rest : held(j) /\ \A i \in ready : j < i}
      later   == {j \in rest : j > first}
  IN /\ ready # {} => starts < MaxStarts
     /\ row' = [j \in Jobs |-> IF j \in past THEN Skipped(j, snap[j], j \notin moved)
                               ELSE IF ready # {} /\ j = first THEN Claimed(row[j])
                               ELSE row[j]]
     /\ stale' = IF ready = {} THEN {} ELSE moved
     /\ said' = {}
     /\ IF ready = {}
        THEN tick' = Idle /\ UNCHANGED <<starts, begun, bodies>>
        ELSE /\ starts' = starts + 1
             /\ tick' = [stage |-> "running", rest |-> later, job |-> first, n |-> starts + 1,
                         snap |-> [j \in later \cup {first} |-> snap[j]]]
             /\ begun' = [begun EXCEPT ![first] = @ + 1]
             /\ bodies' = bodies \cup
                  (IF kind[first] = "agent"
                   THEN {[job |-> first, n |-> starts + 1, at |-> "safety", stopped |-> FALSE, cost |-> 0]}
                   ELSE {})
     /\ auth' = IF ready # {} /\ kind[first] = "agent" THEN [auth EXCEPT ![first] = starts + 1] ELSE auth
     /\ UNCHANGED <<kind, running, resuming, week, up, edits, crashes, again, wish, billed>>

(* tick(): never two at a time; the snapshot and the walk to the first run  *)
(* are one synchronous piece.                                               *)
Tick ==
  /\ up /\ tick.stage = "idle"
  /\ LET due == {j \in Jobs : Due(j)}
     IN due # {} /\ Walk(due, [j \in due |-> row[j]], {})

Continue == up /\ tick.stage = "next" /\ Walk(tick.rest, tick.snap, stale)

(* The end of #runOne: the charge is settled and the outcome recorded, if   *)
(* the task is still the one that was claimed; then its text is delivered.  *)
Conclude(j, charge, status) ==
  LET current == row[j].st = "there" /\ j \notin stale
      paid    == Settled(row[j], tick.snap[j].spent + charge)
      after   == AfterRun(paid, current, NextOf(tick.snap[j]))
      consume == \/ kind[j] = "watch" /\ status = "success"
                 \/ kind[j] # "watch" /\ ~tick.snap[j].repeat /\ status = "success"
  IN /\ row' = [row EXCEPT ![j] = IF current /\ consume THEN SetEnabled(after, FALSE) ELSE after]
     /\ UNCHANGED stale
     /\ week' = week + charge
     /\ tick' = [tick EXCEPT !.stage =
                    IF current /\ status \in {"success", "incomplete"} THEN "deliver" ELSE "next"]

(* A reminder is its own text, and a watch asks its page.                   *)
Remind ==
  /\ up /\ tick.stage = "running" /\ kind[tick.job] = "reminder"
  /\ Conclude(tick.job, 0, "success")
  /\ UNCHANGED <<kind, bodies, auth, running, resuming, up, counts, history>>

Watched ==
  /\ up /\ tick.stage = "running" /\ kind[tick.job] = "watch"
  /\ \E status \in {"success", "waiting", "failed"} : Conclude(tick.job, 0, status)
  /\ UNCHANGED <<kind, bodies, auth, running, resuming, up, counts, history>>

Delivered ==
  /\ up /\ tick.stage = "deliver"
  /\ tick' = [tick EXCEPT !.stage = "next"]
  /\ UNCHANGED <<table, bodies, auth, running, resuming, week, up, counts, history>>

(* stopJob, and what pausing, editing or removing a task does to its run: a *)
(* turn in progress is told to stop, and the allowance is taken away.       *)
StopJob(j) ==
  /\ bodies' = {IF b.job = j /\ b.at \in {"working", "resumed"} THEN [b EXCEPT !.stopped = TRUE] ELSE b :
                  b \in bodies}
  /\ auth' = [auth EXCEPT ![j] = 0]

TimesOut ==
  /\ up /\ tick.stage = "running" /\ kind[tick.job] = "agent"
  /\ StopJob(tick.job)
  /\ tick' = [tick EXCEPT !.stage = "grace"]
  /\ UNCHANGED <<table, running, resuming, week, up, counts, history>>

(* Thirty seconds on, the run still has not said what it spent.             *)
GraceForEver == FALSE   \* mutant of GraceOver: the cost is waited for without end
GraceOver ==
  /\ up /\ tick.stage = "grace"
  /\ Conclude(tick.job, 0, "timeout")
  /\ UNCHANGED <<kind, bodies, auth, running, resuming, up, counts, history>>

-----------------------------------------------------------------------------
(* runJob for an agent task.  It takes a safety point, opens the run's row, *)
(* works, closes the row with its report, and lets the allowance go.        *)

Move(b, at) == (bodies \ {b}) \cup {[b EXCEPT !.at = at]}

OpenRun(b) ==
  /\ b.at = "safety" /\ running[b.job] = 0
  /\ running' = [running EXCEPT ![b.job] = b.n]
  /\ bodies' = Move(b, "working")
  /\ UNCHANGED <<table, tick, auth, resuming, week, up, counts, history>>

(* What the runs of a task have been charged so far.                        *)
InHand(j) == Cardinality({b \in bodies : b.job = j /\ b.cost = 1})

(* A model call is paid from whatever allowance the session has.            *)
BillUncapped(b) ==   \* mutant of Bill: the allowance never refuses
  /\ b.at \in {"working", "resumed"} /\ ~b.stopped
  /\ \E payer \in bodies :
       /\ payer.n = auth[b.job] /\ payer.job = b.job /\ payer.cost <= 1
       /\ bodies' = (bodies \ {payer}) \cup {[payer EXCEPT !.cost = @ + 1]}
       /\ billed' = [billed EXCEPT ![b.job] = @ + 1]
  /\ UNCHANGED <<table, tick, auth, running, resuming, week, up, counts,
                 begun, again, wish, said>>
Bill(b) ==
  /\ b.at \in {"working", "resumed"} /\ ~b.stopped
  /\ \E payer \in bodies :
       /\ payer.n = auth[b.job] /\ payer.job = b.job /\ payer.cost = 0
       /\ bodies' = (bodies \ {payer}) \cup {[payer EXCEPT !.cost = 1]}
       /\ billed' = [billed EXCEPT ![b.job] = @ + 1]
  /\ UNCHANGED <<table, tick, auth, running, resuming, week, up, counts,
                 begun, again, wish, said>>

CloseRun(b) ==
  /\ b.at = "working"
  /\ running' = [running EXCEPT ![b.job] = 0]
  /\ bodies' = Move(b, "concluding")
  /\ UNCHANGED <<table, tick, auth, resuming, week, up, counts, history>>

(* The call returns, or throws because a run of the session is still open;  *)
(* a scheduler that no longer waits for it does not learn what it cost.     *)
Return(b) ==
  /\ \/ b.at = "concluding"
     \/ b.at = "safety" /\ running[b.job] # 0
  /\ bodies' = bodies \ {b}
  /\ auth' = [auth EXCEPT ![b.job] = 0]
  /\ \/ /\ tick.n = b.n /\ tick.stage = "running" /\ b.at = "concluding"
        /\ \E status \in {"success", "incomplete", "limited"} : Conclude(b.job, b.cost, status)
        /\ UNCHANGED billed
     \/ /\ tick.n = b.n /\ tick.stage = "running" /\ b.at = "safety"
        /\ Conclude(b.job, b.cost, "failed")
        /\ UNCHANGED billed
     \/ /\ tick.n = b.n /\ tick.stage = "grace"
        /\ Conclude(b.job, b.cost, "timeout")
        /\ UNCHANGED billed
     \/ /\ tick.n # b.n \/ tick.stage \notin {"running", "grace"}
        /\ billed' = [billed EXCEPT ![b.job] = @ - b.cost]
        /\ UNCHANGED <<table, tick, week>>
  /\ UNCHANGED <<kind, running, resuming, up, counts, begun, again, wish, said>>

(* The start-up pass takes up a run the last process left open, outside any *)
(* allowance, or gives it up.                                               *)
Resume(j) ==
  /\ up /\ j \in resuming
  /\ resuming' = resuming \ {j}
  /\ \/ /\ bodies' = bodies \cup {[job |-> j, n |-> running[j], at |-> "resumed", stopped |-> FALSE, cost |-> 0]}
        /\ again' = [again EXCEPT ![j] = @ + 1]
        /\ UNCHANGED running
     \/ /\ running' = [running EXCEPT ![j] = 0]
        /\ UNCHANGED <<bodies, again>>
  /\ UNCHANGED <<table, tick, auth, week, up, counts, begun, wish, said, billed>>

EndResumed(b) ==
  /\ b.at = "resumed"
  /\ running' = [running EXCEPT ![b.job] = 0]
  /\ bodies' = bodies \ {b}
  /\ UNCHANGED <<table, tick, auth, resuming, week, up, counts, history>>

-----------------------------------------------------------------------------
(* The person's commands.                                                   *)

Commanded(j) ==
  /\ up /\ edits < MaxEdits
  /\ edits' = edits + 1
  /\ said' = IF tick.stage # "idle" /\ tick.job = j THEN said \cup {j} ELSE said
  /\ stale' = IF tick.stage = "idle" THEN {} ELSE stale \cup {j}

(* cron_add without an id.                                                  *)
Add(j) ==
  /\ row[j].st = "unborn" /\ \A i \in Jobs : i < j => row[i].st # "unborn"
  /\ Commanded(j)
  /\ \E repeat \in BOOLEAN :
       /\ kind[j] = "watch" => repeat
       /\ row' = [row EXCEPT ![j] = Fresh(repeat)]
  /\ wish' = [wish EXCEPT ![j] = TRUE]
  /\ UNCHANGED <<kind, tick, bodies, auth, running, resuming, week, up, starts, crashes,
                 begun, again, billed>>

(* cron_add with an id: an unchanged schedule keeps its next time, a new    *)
(* one is reckoned from now, and a one-off in the past has none.  Saving a  *)
(* watch again may renew it.                                                *)
Edit(j) ==
  /\ row[j].st = "there" /\ Commanded(j) /\ StopJob(j)
  /\ \E over \in {FALSE, row[j].over} :
       \/ row' = [row EXCEPT ![j].over = over] /\ UNCHANGED <<begun, again>>
       \/ /\ \E new \in {<<TRUE, "later">>, <<FALSE, "later">>, <<FALSE, "none">>} :
               /\ kind[j] = "watch" => new[1]
               /\ row' = [row EXCEPT ![j].over = over, ![j].repeat = new[1], ![j].next = new[2]]
          /\ begun' = [begun EXCEPT ![j] = 0] /\ again' = [again EXCEPT ![j] = 0]
  /\ wish' = [wish EXCEPT ![j] = row[j].on]
  /\ UNCHANGED <<kind, tick, running, resuming, week, up, starts, crashes, billed>>

Remove(j) ==
  /\ row[j].st = "there" /\ Commanded(j) /\ StopJob(j)
  /\ row' = [row EXCEPT ![j] = [Blank EXCEPT !.st = "gone"]]
  /\ wish' = [wish EXCEPT ![j] = FALSE]
  /\ UNCHANGED <<kind, tick, running, resuming, week, up, starts, crashes, begun, again, billed>>

Toggle(j, on) ==
  /\ row[j].st = "there" /\ Commanded(j)
  /\ IF on THEN UNCHANGED <<bodies, auth>> ELSE StopJob(j)
  /\ row' = [row EXCEPT ![j] = SetEnabled(@, on)]
  /\ wish' = [wish EXCEPT ![j] = on]
  /\ IF on THEN begun' = [begun EXCEPT ![j] = 0] /\ again' = [again EXCEPT ![j] = 0]
           ELSE UNCHANGED <<begun, again>>
  /\ UNCHANGED <<kind, tick, running, resuming, week, up, starts, crashes, billed>>

-----------------------------------------------------------------------------
(* Time, and the process.                                                   *)

TimeComes(j) ==
  /\ row[j].next = "later"
  /\ row' = [row EXCEPT ![j].next = "due"]
  /\ begun' = [begun EXCEPT ![j] = 0] /\ again' = [again EXCEPT ![j] = 0]
  /\ UNCHANGED <<kind, stale, process, running, week, counts, wish, said, billed>>

Expires(j) ==
  /\ kind[j] = "watch" /\ row[j].st = "there" /\ ~row[j].over
  /\ row' = [row EXCEPT ![j].over = TRUE]
  /\ UNCHANGED <<kind, stale, process, running, week, counts, history>>

(* A week on, spending stops counting.                                      *)
WeekPasses ==
  /\ week > 0 /\ \E left \in 0 .. week - 1 : week' = left
  /\ UNCHANGED <<table, process, running, counts, history>>

Crash ==
  /\ up /\ crashes < MaxCrashes
  /\ up' = FALSE /\ crashes' = crashes + 1
  /\ tick' = Idle /\ bodies' = {} /\ auth' = [j \in Jobs |-> 0] /\ resuming' = {}
  /\ stale' = {} /\ said' = {}
  /\ billed' = [j \in Jobs |-> billed[j] - InHand(j)]
  /\ UNCHANGED <<kind, row, running, week, starts, edits, begun, again, wish>>

Boot ==
  /\ ~up /\ up' = TRUE
  /\ row' = [j \in Jobs |-> IF row[j].next = "due" THEN [row[j] EXCEPT !.next = "missed"] ELSE row[j]]
  /\ resuming' = {j \in Jobs : running[j] # 0}
  /\ UNCHANGED <<kind, stale, tick, bodies, auth, running, week, counts, history>>

Command == \E j \in Jobs : Add(j) \/ Edit(j) \/ Remove(j) \/ \E on \in BOOLEAN : Toggle(j, on)
Work == \E b \in bodies : OpenRun(b) \/ Bill(b) \/ CloseRun(b) \/ Return(b) \/ EndResumed(b)
Clock == WeekPasses \/ \E j \in Jobs : TimeComes(j) \/ Expires(j)

Next ==
  \/ Tick \/ Continue \/ Remind \/ Watched \/ Delivered \/ TimesOut \/ GraceOver
  \/ Work \/ \E j \in Jobs : Resume(j)
  \/ Command \/ Clock \/ Crash \/ Boot

Spec == Init /\ [][Next]_vars

(* The timer ticks as long as the process lives, and what a run awaits is   *)
(* answered or timed out.                                                   *)
FairSpec ==
  /\ Spec
  /\ WF_vars(Tick) /\ WF_vars(Continue) /\ WF_vars(Remind) /\ WF_vars(Watched)
  /\ WF_vars(Delivered) /\ WF_vars(TimesOut) /\ WF_vars(GraceOver)

-----------------------------------------------------------------------------
(* Properties.                                                              *)

(* The scheduler begins an occurrence once, whatever is edited, paused or   *)
(* resumed while it runs and wherever the process dies: "Consume this       *)
(* occurrence before executing it" (jobs.ts, claimRun).                     *)
BegunOnce == \A j \in Jobs : begun[j] <= 1

(* A repeating task its person left on stays on and has a next time, after  *)
(* every failure, timeout, missed night and used-up limit; only a watch     *)
(* switches itself off (scheduler.ts #skip and #runOne).                    *)
RepeatingStaysArmed ==
  \A j \in Jobs :
    row[j].st = "there" /\ row[j].repeat /\ wish[j] =>
      /\ row[j].next # "none"
      /\ row[j].on \/ kind[j] = "watch"

(* After the person changed, paused or removed a task, its run in progress  *)
(* neither moves its next time, nor switches it, nor delivers (the revision *)
(* updateAfterRun compares).                                                *)
PersonHasLastWord ==
  [][\A j \in said :
       tick.job = j /\ edits' = edits =>
         /\ row'[j].on = row[j].on /\ row'[j].repeat = row[j].repeat
         /\ row'[j].next \in {row[j].next, "due"}
         /\ (row'[j].next # row[j].next => row[j].next = "later" /\ tick' = tick)
         /\ ~(tick.stage \in {"running", "grace"} /\ tick'.stage = "deliver")]_vars

(* No run begins of a task that is paused or gone, though the walk works on *)
(* a snapshot that may be many runs old.                                    *)
NothingRunsUnwanted ==
  [][\A j \in Jobs : begun'[j] > begun[j] => wish[j] /\ row[j].st = "there"]_vars

(* A task's total and what its runs still have in hand are together what    *)
(* allowances charged for it (settleSpend on every way a run can end).      *)
ChargesAreSettled ==
  \A j \in Jobs :
    row[j].st = "there" =>
      row[j].spent + InHand(j) = billed[j]

(* A task that is on and due is run, passed over with a record, or taken    *)
(* back by its person, as long as the process lives.                        *)
DueIsDealtWith ==
  \A j \in Jobs :
    up /\ row[j].on /\ row[j].next = "due" ~>
      ~up \/ ~row[j].on \/ row[j].next # "due" \/ starts = MaxStarts

(* "A crash cannot replay it" (jobs.ts:215), "Interrupted runs are never    *)
(* replayed automatically" (jobs.ts:222): the start-up pass included.       *)
CrashNeverReplays == \A j \in Jobs : begun[j] + again[j] <= 1
=============================================================================
