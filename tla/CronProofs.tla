------------------------------ MODULE CronProofs ------------------------------
(***************************************************************************)
(* Proofs about Cron, for any tasks and kinds of tasks, any weekly limit    *)
(* and any number of runs, commands and crashes.                            *)
(***************************************************************************)
EXTENDS Cron, FiniteSetTheorems, WellFoundedInduction, TLAPS

(***************************************************************************)
(* The inductive invariant.  A run works from a snapshot, so most of it is  *)
(* about what a snapshot may still be taken to say: of the tasks the walk   *)
(* has yet to come to and of the one whose run is awaited, their totals as  *)
(* long as they exist, and their schedule as long as their rows were not    *)
(* touched (SnapshotHolds).                                                 *)
(***************************************************************************)
Awaited == tick.rest \cup (IF tick.stage \in {"running", "grace"} THEN {tick.job} ELSE {})

SnapshotHolds ==
  \A j \in Awaited :
    /\ row[j].st # "unborn"
    /\ row[j].st = "there" => row[j].spent = tick.snap[j].spent
    /\ row[j].st = "there" /\ j \notin stale => row[j].repeat = tick.snap[j].repeat
    /\ tick.snap[j].over => kind[j] = "watch"
    /\ j \in tick.rest /\ j \notin stale /\ row[j].st = "there" /\ ~tick.snap[j].over =>
         row[j].next \in {"due", "missed"}

(* What the person last said of the task whose run is awaited moved its row *)
(* on; and a process that is down does nothing.                             *)
TickIsSound ==
  /\ tick = [stage |-> tick.stage, rest |-> tick.rest, snap |-> tick.snap,
             job |-> tick.job, n |-> tick.n]
  /\ tick.n <= starts
  /\ tick.stage = "idle" => tick.rest = {} /\ said = {}
  /\ tick.stage # "idle" => /\ tick.job \in DOMAIN tick.snap
                            /\ \A j \in tick.rest : tick.job < j
  /\ said \subseteq stale
  /\ ~up => tick.stage = "idle" /\ bodies = {} /\ resuming = {}

(* A task that is on is wanted; a repeating one has a next time; a task     *)
(* whose occurrence has begun is not due.                                   *)
RowsAreSound ==
  \A j \in Jobs :
    /\ row[j].st = "there" /\ row[j].on => wish[j]
    /\ row[j].st = "there" /\ row[j].repeat => row[j].next # "none"
    /\ row[j].st = "there" /\ row[j].repeat /\ wish[j] => row[j].on \/ kind[j] = "watch"
    /\ row[j].over => kind[j] = "watch"
    /\ begun[j] <= 1
    /\ begun[j] # 0 => row[j].next \in {"later", "none"}

(* A call of runJob is told by its task and its number.  The runs of the    *)
(* last process that are still to be resumed are older than all of this     *)
(* one's, and the task of such a run waits for it.                          *)
BodiesAreSound ==
  /\ \A b, c \in bodies : b.job = c.job /\ b.n = c.n => b = c
  /\ \A b \in bodies : b.n <= starts
  /\ \A b \in bodies : tick.stage \in {"running", "grace"} /\ b.n = tick.n => b.job = tick.job
  /\ \A j \in Jobs : running[j] <= starts
  /\ \A j \in resuming :
       /\ running[j] # 0
       /\ tick.stage # "idle" => running[j] < tick.n
       /\ \A b \in bodies : /\ b.job = j => b.at = "safety"
                            /\ b.at # "resumed" => running[j] < b.n

(* The numbers of the runs that were charged and have not reported it.      *)
PaidIn(B, j) == {n \in 1 .. MaxStarts : \E b \in B : b.job = j /\ b.cost = 1 /\ b.n = n}
Paid(j) == PaidIn(bodies, j)

ChargesAreSound ==
  \A j \in Jobs :
    /\ Cardinality(Paid(j)) <= billed[j]
    /\ row[j].st = "there" => row[j].spent + Cardinality(Paid(j)) = billed[j]
    /\ row[j].st = "unborn" => billed[j] = 0

(* Only a task that was once added has runs.                                *)
WorkIsOfTasks ==
  /\ \A b \in bodies : row[b.job].st # "unborn"
  /\ \A j \in Jobs : running[j] # 0 => row[j].st # "unborn"

(* A run that was resumed has no allowance of its own, and is charged       *)
(* nothing.                                                                 *)
ResumedIsUncharged ==
  /\ \A b \in bodies : b.at = "resumed" => b.cost = 0 /\ auth[b.job] # b.n
  /\ \A j \in resuming : auth[j] # running[j]
  /\ ~up => auth = [j \in Jobs |-> 0]

CronInv == /\ TypeOK /\ TickIsSound /\ SnapshotHolds /\ RowsAreSound
           /\ BodiesAreSound /\ ChargesAreSound /\ WorkIsOfTasks /\ ResumedIsUncharged

-----------------------------------------------------------------------------
(* What the statements of the jobs repository leave of a row.               *)

LEMMA AfterRunIs ==
  ASSUME NEW r \in Row, NEW current \in BOOLEAN, NEW next \in {"none", "later", "due", "missed"}
  PROVE  LET a == AfterRun(r, current, next)
         IN  /\ a \in Row
             /\ a.st = r.st /\ a.on = r.on /\ a.repeat = r.repeat /\ a.over = r.over
             /\ a.spent = r.spent
             /\ a.next = IF r.st = "there" /\ current THEN next ELSE r.next
BY DEF AfterRun, Row

LEMMA SwitchedOffIs ==
  ASSUME NEW r \in Row
  PROVE  LET a == SetEnabled(r, FALSE)
         IN  /\ a \in Row
             /\ a.st = r.st /\ a.repeat = r.repeat /\ a.over = r.over /\ a.spent = r.spent
             /\ a.next = r.next
             /\ a.on = IF r.st = "there" THEN FALSE ELSE r.on
BY DEF SetEnabled, Row

LEMMA SwitchedOnIs ==
  ASSUME NEW r \in Row, r.st = "there"
  PROVE  LET a == SetEnabled(r, TRUE)
         IN  /\ a \in Row
             /\ a.st = r.st /\ a.repeat = r.repeat /\ a.over = r.over /\ a.spent = r.spent
             /\ a.on = TRUE /\ (a.repeat => a.next = "later")
BY DEF SetEnabled, Row

LEMMA SettledIs ==
  ASSUME NEW r \in Row, NEW total \in Nat
  PROVE  LET a == Settled(r, total)
         IN  /\ a \in Row
             /\ a.st = r.st /\ a.on = r.on /\ a.repeat = r.repeat /\ a.over = r.over
             /\ a.next = r.next
             /\ a.spent = IF r.st = "there" THEN total ELSE r.spent
BY DEF Settled, Row

LEMMA ClaimedIs ==
  ASSUME NEW r \in Row
  PROVE  LET a == Claimed(r)
         IN  /\ a \in Row
             /\ a.st = r.st /\ a.on = r.on /\ a.repeat = r.repeat /\ a.over = r.over
             /\ a.spent = r.spent
             /\ a.next = IF r.repeat THEN "later" ELSE "none"
BY DEF Claimed, NextOf, Row

(* A task is switched off by the walk only if it is an expired watch or a   *)
(* one-off that was missed.                                                 *)
LEMMA SkippedIs ==
  ASSUME NEW j \in Jobs, NEW s \in Row, NEW current \in BOOLEAN, row[j] \in Row
  PROVE  LET a == Skipped(j, s, current)
         IN  /\ a \in Row
             /\ a.st = row[j].st /\ a.repeat = row[j].repeat /\ a.over = row[j].over
             /\ a.spent = row[j].spent
             /\ ~(row[j].st = "there" /\ current) => a = row[j]
             /\ row[j].st = "there" /\ current =>
                  /\ a.next \in {"later", "none"} /\ (s.repeat => a.next = "later")
                  /\ a.on = row[j].on \/ (a.on = FALSE /\ (s.over \/ ~s.repeat))
<1> DEFINE why     == Reason(j, s)
           disable == why = "expired" \/ (why = "skipped" /\ ~s.repeat)
           next    == IF disable THEN NextOf(s) ELSE "later"
           after   == AfterRun(row[j], current, next)
           a       == Skipped(j, s, current)
<1>1. a = IF disable /\ current THEN SetEnabled(after, FALSE) ELSE after
  BY DEF Skipped
<1>2. next \in {"later", "none"} /\ (s.repeat => next = "later")
  BY DEF NextOf
<1>3. disable => s.over \/ ~s.repeat
  BY DEF Reason
<1> HIDE DEF disable, next
<1>4. /\ after \in Row
      /\ after.st = row[j].st /\ after.on = row[j].on /\ after.repeat = row[j].repeat
      /\ after.over = row[j].over /\ after.spent = row[j].spent
      /\ after.next = IF row[j].st = "there" /\ current THEN next ELSE row[j].next
  <2>1. next \in {"none", "later", "due", "missed"}
    BY <1>2
  <2> HIDE DEF next
  <2> QED BY <2>1, AfterRunIs, ZenonT(30)
<1>5. ~(row[j].st = "there" /\ current) => after = row[j]
  BY DEF AfterRun
<1> HIDE DEF after
<1>6. LET off == SetEnabled(after, FALSE)
      IN  /\ off \in Row
          /\ off.st = after.st /\ off.repeat = after.repeat /\ off.over = after.over
          /\ off.spent = after.spent /\ off.next = after.next
          /\ off.on = IF after.st = "there" THEN FALSE ELSE after.on
  BY <1>4, SwitchedOffIs
<1>7. after.st # "there" => SetEnabled(after, FALSE) = after
  BY DEF SetEnabled
<1>8. CASE disable /\ current
  BY <1>1, <1>2, <1>3, <1>4, <1>5, <1>6, <1>7, <1>8
<1>9. CASE ~(disable /\ current)
  BY <1>1, <1>2, <1>4, <1>5, <1>9
<1> QED
  BY <1>8, <1>9

(* A non-empty set of tasks has a first one.                                *)
LEMMA FirstOfTasks ==
  ASSUME NEW S, S \subseteq Nat, S # {}
  PROVE  Min(S) \in S /\ \A x \in S : Min(S) <= x
<1> DEFINE Less == {p \in Nat \X Nat : p[1] < p[2]}
<1>1. IsWellFoundedOn(Less, Nat)
  BY NatLessThanWellFounded DEF OpToRel, IsWellFoundedOn
<1>2. PICK x \in S : \A y \in S : <<y, x>> \notin Less
  <2> HIDE DEF Less
  <2> QED BY <1>1, WFMin
<1>3. ASSUME NEW y \in S PROVE x <= y
  <2>1. <<y, x>> \in Nat \X Nat => ~(<<y, x>>[1] < <<y, x>>[2])
    BY <1>2
  <2> QED BY <2>1
<1> QED
  BY <1>3 DEF Min

-----------------------------------------------------------------------------
(* The walk.                                                                *)

(* What the walk may count on, be it the first piece of a tick or a later   *)
(* one.                                                                     *)
WalkReady(rest, snap, moved) ==
  /\ rest \subseteq Jobs /\ rest \subseteq DOMAIN snap /\ moved \subseteq Jobs
  /\ \A j \in DOMAIN snap : j \in Jobs /\ snap[j] \in Row
  /\ \A j \in rest :
       /\ row[j].st # "unborn"
       /\ row[j].st = "there" => row[j].spent = snap[j].spent
       /\ row[j].st = "there" /\ j \notin moved => row[j].repeat = snap[j].repeat
       /\ snap[j].over => kind[j] = "watch"
       /\ j \notin moved /\ row[j].st = "there" /\ ~snap[j].over => row[j].next \in {"due", "missed"}

PassedOver(j, s, moved) ==
  row'[j] = row[j] \/ row'[j] = Skipped(j, s, j \notin moved)

(* A walk comes to its end, or begins the run of a task it may claim.       *)
WalkEnds(rest, snap, moved) ==
  /\ \A j \in Jobs : row'[j] = row[j] \/ (j \in rest /\ PassedOver(j, snap[j], moved))
  /\ stale' = {} /\ tick' = Idle /\ auth' = auth
  /\ UNCHANGED <<starts, begun, bodies>>

Begins(first, rest, snap, moved) ==
  LET later == {j \in rest : j > first}
      body  == [job |-> first, n |-> starts + 1, at |-> "safety", stopped |-> FALSE, cost |-> 0]
  IN  /\ Claimable(first, moved) /\ Reason(first, snap[first]) = "run"
      /\ starts < MaxStarts /\ starts' = starts + 1
      /\ \A j \in Jobs : \/ row'[j] = row[j] /\ j # first
                         \/ j \in rest /\ j # first /\ j \notin later /\ PassedOver(j, snap[j], moved)
                         \/ j = first /\ row'[j] = Claimed(row[j])
      /\ stale' = moved
      /\ tick' = [stage |-> "running", rest |-> later, job |-> first, n |-> starts + 1,
                  snap |-> [j \in later \cup {first} |-> snap[j]]]
      /\ begun' = [begun EXCEPT ![first] = @ + 1]
      /\ bodies' = bodies \/ bodies' = bodies \cup {body}
      /\ auth' = auth \/ auth' = [auth EXCEPT ![first] = starts + 1]

LEMMA WalkIs ==
  ASSUME NEW rest, NEW snap, NEW moved, TypeOK, WalkReady(rest, snap, moved), Walk(rest, snap, moved)
  PROVE  /\ row' = [j \in Jobs |-> row'[j]] /\ said' = {}
         /\ UNCHANGED <<kind, running, resuming, week, up, edits, crashes, again, wish, billed>>
         /\ \/ WalkEnds(rest, snap, moved)
            \/ \E first \in rest : Begins(first, rest, snap, moved)
<1> DEFINE held(j) == Reason(j, snap[j]) # "run"
           ready   == {j \in rest : ~held(j) /\ Claimable(j, moved)}
           first   == Min(ready)
           past    == {j \in rest : held(j) /\ \A i \in ready : j < i}
           later   == {j \in rest : j > first}
           body    == [job |-> first, n |-> starts + 1, at |-> "safety", stopped |-> FALSE, cost |-> 0]
<1>1. /\ ready # {} => starts < MaxStarts
      /\ row' = [j \in Jobs |-> IF j \in past THEN Skipped(j, snap[j], j \notin moved)
                                ELSE IF ready # {} /\ j = first THEN Claimed(row[j])
                                ELSE row[j]]
      /\ stale' = IF ready = {} THEN {} ELSE moved
      /\ said' = {}
      /\ auth' = IF ready # {} /\ kind[first] = "agent" THEN [auth EXCEPT ![first] = starts + 1] ELSE auth
      /\ UNCHANGED <<kind, running, resuming, week, up, edits, crashes, again, wish, billed>>
  BY DEF Walk
<1>2. ready = {} => tick' = Idle /\ UNCHANGED <<starts, begun, bodies>>
  BY DEF Walk
<1>3. ready # {} =>
        /\ starts' = starts + 1
        /\ tick' = [stage |-> "running", rest |-> later, job |-> first, n |-> starts + 1,
                    snap |-> [j \in later \cup {first} |-> snap[j]]]
        /\ begun' = [begun EXCEPT ![first] = @ + 1]
        /\ bodies' = bodies \/ bodies' = bodies \cup {body}
  BY DEF Walk
<1>4. ready # {} => first \in ready /\ \A i \in ready : first <= i
  <2>1. ready \subseteq Nat
    BY JobAssumption DEF WalkReady
  <2> HIDE DEF ready
  <2> QED BY <2>1, FirstOfTasks
<1>5. past \subseteq rest /\ ready \subseteq rest /\ (\A j \in ready : j \notin past)
  BY JobAssumption DEF WalkReady
<1>6. ASSUME ready # {}
      PROVE  first \notin past /\ \A j \in past : j \notin later
  <2>1. \A j \in past : j < first
    BY <1>4, <1>6
  <2>2. first \in Nat /\ \A j \in past : j \in Nat
    BY <1>4, <1>5, <1>6, JobAssumption DEF WalkReady
  <2> QED BY <2>1, <2>2
<1>7. CASE ready = {}
  <2>1. \A j \in Jobs : row'[j] = row[j] \/ (j \in rest /\ PassedOver(j, snap[j], moved))
    <3> HIDE DEF ready, first, past
    <3> QED BY <1>1, <1>5, <1>7 DEF PassedOver
  <2>2. auth' = auth
    BY <1>1, <1>7
  <2>3. stale' = {}
    BY <1>1, <1>7
  <2>4. WalkEnds(rest, snap, moved)
    BY <1>2, <1>7, <2>1, <2>2, <2>3 DEF WalkEnds
  <2> QED
    BY <1>1, <2>4
<1>8. CASE ready # {}
  <2>1. first \in rest /\ Claimable(first, moved) /\ Reason(first, snap[first]) = "run"
    BY <1>4, <1>8
  <2>2. \A j \in Jobs : \/ row'[j] = row[j] /\ j # first
                        \/ j \in rest /\ j # first /\ j \notin later /\ PassedOver(j, snap[j], moved)
                        \/ j = first /\ row'[j] = Claimed(row[j])
    <3> HIDE DEF ready, first, past, later
    <3> QED BY <1>1, <1>5, <1>6, <1>8 DEF PassedOver
  <2>3. auth' = auth \/ auth' = [auth EXCEPT ![first] = starts + 1]
    BY <1>1
  <2> HIDE DEF ready, first
  <2>4. Begins(first, rest, snap, moved)
    BY <1>1, <1>3, <1>8, <2>1, <2>2, <2>3 DEF Begins
  <2> QED
    BY <1>1, <2>1, <2>4
<1> QED
  BY <1>7, <1>8

(* A row that is passed over keeps what the invariant says of it.           *)
LEMMA PassedKeepsRow ==
  ASSUME CronInv, NEW j \in Jobs, NEW s \in Row, NEW moved, PassedOver(j, s, moved),
         row[j].st = "there" /\ j \notin moved => row[j].repeat = s.repeat,
         s.over => kind[j] = "watch"
  PROVE  /\ row'[j] \in Row
         /\ row'[j].st = row[j].st /\ row'[j].repeat = row[j].repeat
         /\ row'[j].over = row[j].over /\ row'[j].spent = row[j].spent
         /\ row'[j].on => row[j].on
         /\ row'[j].next \in {row[j].next, "later", "none"}
         /\ row[j].st = "there" /\ row[j].repeat => row'[j].next # "none"
         /\ row[j].st = "there" /\ row[j].repeat /\ wish[j] => row'[j].on \/ kind[j] = "watch"
<1>1. row[j] \in Row
  BY DEF CronInv, TypeOK
<1>2. /\ row[j].st = "there" /\ row[j].repeat => row[j].next # "none"
      /\ row[j].st = "there" /\ row[j].repeat /\ wish[j] => row[j].on \/ kind[j] = "watch"
  BY DEF CronInv, RowsAreSound
<1>3. CASE row'[j] = row[j]
  BY <1>1, <1>2, <1>3
<1>4. CASE row'[j] = Skipped(j, s, j \notin moved)
  <2>1. (j \notin moved) \in BOOLEAN
    OBVIOUS
  <2>2. LET a == Skipped(j, s, j \notin moved)
        IN  /\ a \in Row
            /\ a.st = row[j].st /\ a.repeat = row[j].repeat /\ a.over = row[j].over
            /\ a.spent = row[j].spent
            /\ ~(row[j].st = "there" /\ j \notin moved) => a = row[j]
            /\ row[j].st = "there" /\ j \notin moved =>
                 /\ a.next \in {"later", "none"} /\ (s.repeat => a.next = "later")
                 /\ a.on = row[j].on \/ (a.on = FALSE /\ (s.over \/ ~s.repeat))
    BY <1>1, <2>1, SkippedIs
  <2>3. CASE row[j].st = "there" /\ j \notin moved
    BY <1>2, <1>4, <2>2, <2>3
  <2>4. CASE ~(row[j].st = "there" /\ j \notin moved)
    BY <1>1, <1>2, <1>4, <2>2, <2>4
  <2> QED BY <2>3, <2>4
<1> QED
  BY <1>3, <1>4 DEF PassedOver

LEMMA WalkEndsKeeps ==
  ASSUME CronInv, up, NEW rest, NEW snap, NEW moved,
         WalkReady(rest, snap, moved), WalkEnds(rest, snap, moved),
         row' = [j \in Jobs |-> row'[j]], said' = {},
         UNCHANGED <<kind, running, resuming, week, up, edits, crashes, again, wish, billed>>
  PROVE  CronInv'
<1>1. \A j \in Jobs :
         /\ row'[j] \in Row
         /\ row'[j].st = row[j].st /\ row'[j].repeat = row[j].repeat
         /\ row'[j].over = row[j].over /\ row'[j].spent = row[j].spent
         /\ row'[j].on => row[j].on
         /\ row'[j].next \in {row[j].next, "later", "none"}
         /\ row[j].st = "there" /\ row[j].repeat => row'[j].next # "none"
         /\ row[j].st = "there" /\ row[j].repeat /\ wish[j] => row'[j].on \/ kind[j] = "watch"
  <2> SUFFICES ASSUME NEW j \in Jobs
               PROVE  /\ row'[j] \in Row
                      /\ row'[j].st = row[j].st /\ row'[j].repeat = row[j].repeat
                      /\ row'[j].over = row[j].over /\ row'[j].spent = row[j].spent
                      /\ row'[j].on => row[j].on
                      /\ row'[j].next \in {row[j].next, "later", "none"}
                      /\ row[j].st = "there" /\ row[j].repeat => row'[j].next # "none"
                      /\ row[j].st = "there" /\ row[j].repeat /\ wish[j] =>
                           row'[j].on \/ kind[j] = "watch"
    OBVIOUS
  <2>1. CASE row'[j] = row[j]
    BY <2>1 DEF CronInv, TypeOK, RowsAreSound
  <2>2. CASE j \in rest /\ PassedOver(j, snap[j], moved)
    <3>1. /\ snap[j] \in Row
          /\ row[j].st = "there" /\ j \notin moved => row[j].repeat = snap[j].repeat
          /\ snap[j].over => kind[j] = "watch"
      BY <2>2 DEF WalkReady
    <3> QED BY <2>2, <3>1, PassedKeepsRow
  <2> QED BY <2>1, <2>2 DEF WalkEnds
<1>2. /\ stale' = {} /\ tick' = Idle /\ auth' = auth
      /\ starts' = starts /\ begun' = begun /\ bodies' = bodies
  BY DEF WalkEnds
<1>3. row' \in [Jobs -> Row]
  BY <1>1
<1>4. TypeOK'
  <2>1. /\ tick'.stage = "idle" /\ tick'.rest = {} /\ DOMAIN tick'.snap = {}
        /\ tick'.job = 0 /\ tick'.n \in 0 .. MaxStarts
    BY <1>2, BoundAssumption DEF Idle
  <2> QED BY <1>2, <1>3, <2>1 DEF CronInv, TypeOK
<1>5. TickIsSound'
  <2>1. starts \in Nat
    BY BoundAssumption DEF CronInv, TypeOK
  <2>2. tick' = [stage |-> tick'.stage, rest |-> tick'.rest, snap |-> tick'.snap,
                 job |-> tick'.job, n |-> tick'.n]
    BY <1>2 DEF Idle
  <2>3. tick'.stage = "idle" /\ tick'.rest = {} /\ tick'.n = 0
    BY <1>2 DEF Idle
  <2> QED BY <1>2, <2>1, <2>2, <2>3 DEF TickIsSound
<1>6. SnapshotHolds'
  BY <1>2 DEF SnapshotHolds, Awaited, Idle
<1>7. RowsAreSound'
  BY <1>1, <1>2 DEF CronInv, RowsAreSound
<1>8. BodiesAreSound'
  BY <1>2 DEF CronInv, BodiesAreSound, Idle
<1>9. ChargesAreSound'
  <2>1. \A j \in Jobs : Paid(j)' = Paid(j)
    BY <1>2 DEF Paid, PaidIn
  <2> QED BY <1>1, <1>2, <2>1 DEF CronInv, ChargesAreSound
<1>10. WorkIsOfTasks'
  BY <1>1, <1>2 DEF CronInv, WorkIsOfTasks, TypeOK, Body
<1>11. ResumedIsUncharged'
  BY <1>2 DEF CronInv, ResumedIsUncharged
<1> QED
  BY <1>4, <1>5, <1>6, <1>7, <1>8, <1>9, <1>10, <1>11 DEF CronInv

LEMMA BeginsKeeps ==
  ASSUME CronInv, up, NEW rest, NEW snap, NEW moved, NEW first \in rest,
         WalkReady(rest, snap, moved), Begins(first, rest, snap, moved),
         row' = [j \in Jobs |-> row'[j]], said' = {},
         UNCHANGED <<kind, running, resuming, week, up, edits, crashes, again, wish, billed>>
  PROVE  CronInv'
<1> DEFINE later == {j \in rest : j > first}
           body  == [job |-> first, n |-> starts + 1, at |-> "safety", stopped |-> FALSE, cost |-> 0]
<1>1. /\ rest \subseteq Jobs /\ rest \subseteq DOMAIN snap /\ moved \subseteq Jobs
      /\ first \in Jobs /\ snap[first] \in Row /\ row[first] \in Row
      /\ \A j \in DOMAIN snap : j \in Jobs /\ snap[j] \in Row
  BY DEF WalkReady, CronInv, TypeOK
<1>2. /\ row[first].st = "there" /\ row[first].on /\ first \notin moved
      /\ row[first].next \in {"due", "missed"}
      /\ row[first].repeat = snap[first].repeat
  <2>1. Claimable(first, moved) /\ Reason(first, snap[first]) = "run"
    BY DEF Begins
  <2>2. ~snap[first].over
    BY <2>1 DEF Reason
  <2> QED BY <2>1, <2>2 DEF Claimable, WalkReady
<1>3. /\ row'[first] = Claimed(row[first])
      /\ \A j \in Jobs \ {first} : \/ row'[j] = row[j]
                                   \/ j \in rest /\ j \notin later /\ PassedOver(j, snap[j], moved)
      /\ \A j \in later : row'[j] = row[j]
  <2>1. \A j \in Jobs : \/ row'[j] = row[j] /\ j # first
                        \/ j \in rest /\ j # first /\ j \notin later /\ PassedOver(j, snap[j], moved)
                        \/ j = first /\ row'[j] = Claimed(row[j])
    BY DEF Begins
  <2>2. \A j \in later : j \in Jobs /\ j # first
    BY <1>1, JobAssumption
  <2> HIDE DEF later
  <2> QED BY <1>1, <2>1, <2>2
<1>4. /\ row'[first] \in Row
      /\ row'[first].st = "there" /\ row'[first].on /\ row'[first].repeat = row[first].repeat
      /\ row'[first].over = row[first].over /\ row'[first].spent = row[first].spent
      /\ row'[first].next = IF row[first].repeat THEN "later" ELSE "none"
  BY <1>1, <1>2, <1>3, ClaimedIs
<1>5. /\ starts < MaxStarts /\ starts' = starts + 1 /\ starts \in Nat
      /\ stale' = moved
      /\ tick' = [stage |-> "running", rest |-> later, job |-> first, n |-> starts + 1,
                  snap |-> [j \in later \cup {first} |-> snap[j]]]
      /\ begun' = [begun EXCEPT ![first] = @ + 1]
      /\ bodies' = bodies \/ bodies' = bodies \cup {body}
      /\ auth' = auth \/ auth' = [auth EXCEPT ![first] = starts + 1]
  <2>1. starts \in Nat
    BY BoundAssumption DEF CronInv, TypeOK
  <2> QED BY <2>1 DEF Begins
<1>6. /\ tick'.stage = "running" /\ tick'.rest = later /\ tick'.job = first
      /\ tick'.n = starts + 1 /\ tick'.snap = [j \in later \cup {first} |-> snap[j]]
  BY <1>5
<1>7. later \subseteq rest /\ first \notin later /\ \A j \in later : first < j
  BY <1>1, JobAssumption
<1>8. starts + 1 \in 1 .. MaxStarts
  BY <1>5, BoundAssumption
<1>9. body \in Body
  BY <1>1, <1>8 DEF Body
<1>10. begun[first] = 0
  BY <1>1, <1>2 DEF CronInv, RowsAreSound
<1> HIDE DEF later, body
<1>11. \A j \in Jobs \ {first} :
         /\ row'[j] \in Row
         /\ row'[j].st = row[j].st /\ row'[j].repeat = row[j].repeat
         /\ row'[j].over = row[j].over /\ row'[j].spent = row[j].spent
         /\ row'[j].on => row[j].on
         /\ row'[j].next \in {row[j].next, "later", "none"}
         /\ row[j].st = "there" /\ row[j].repeat => row'[j].next # "none"
         /\ row[j].st = "there" /\ row[j].repeat /\ wish[j] => row'[j].on \/ kind[j] = "watch"
  <2> SUFFICES ASSUME NEW j \in Jobs \ {first}
               PROVE  /\ row'[j] \in Row
                      /\ row'[j].st = row[j].st /\ row'[j].repeat = row[j].repeat
                      /\ row'[j].over = row[j].over /\ row'[j].spent = row[j].spent
                      /\ row'[j].on => row[j].on
                      /\ row'[j].next \in {row[j].next, "later", "none"}
                      /\ row[j].st = "there" /\ row[j].repeat => row'[j].next # "none"
                      /\ row[j].st = "there" /\ row[j].repeat /\ wish[j] =>
                           row'[j].on \/ kind[j] = "watch"
    OBVIOUS
  <2>1. CASE row'[j] = row[j]
    BY <2>1 DEF CronInv, TypeOK, RowsAreSound
  <2>2. CASE j \in rest /\ PassedOver(j, snap[j], moved)
    <3>1. /\ snap[j] \in Row
          /\ row[j].st = "there" /\ j \notin moved => row[j].repeat = snap[j].repeat
          /\ snap[j].over => kind[j] = "watch"
      BY <2>2 DEF WalkReady
    <3> QED BY <2>2, <3>1, PassedKeepsRow
  <2> QED BY <1>3, <2>1, <2>2
<1>12. TypeOK'
  <2>1. row' \in [Jobs -> Row]
    BY <1>4, <1>11
  <2>2. /\ tick'.rest \subseteq DOMAIN tick'.snap
        /\ \A j \in DOMAIN tick'.snap : j \in Jobs /\ tick'.snap[j] \in Row
    BY <1>1, <1>6, <1>7
  <2>3. begun' \in [Jobs -> Nat]
    <3>1. begun \in [Jobs -> Nat]
      BY DEF CronInv, TypeOK
    <3>2. begun[first] + 1 \in Nat
      BY <1>10
    <3> QED BY <1>5, <3>1, <3>2
  <2>4. auth' \in [Jobs -> 0 .. MaxStarts]
    BY <1>5, <1>8 DEF CronInv, TypeOK
  <2>5. bodies' \subseteq Body
    BY <1>5, <1>9 DEF CronInv, TypeOK
  <2>6. starts' \in 0 .. MaxStarts /\ tick'.n \in 0 .. MaxStarts
    BY <1>5, <1>6, <1>8
  <2> QED
    BY <1>1, <1>5, <1>6, <2>1, <2>2, <2>3, <2>4, <2>5, <2>6 DEF CronInv, TypeOK
<1>13. TickIsSound'
  <2>1. tick' = [stage |-> tick'.stage, rest |-> tick'.rest, snap |-> tick'.snap,
                 job |-> tick'.job, n |-> tick'.n]
    BY <1>5
  <2>2. tick'.n <= starts'
    BY <1>5, <1>6
  <2>3. tick'.job \in DOMAIN tick'.snap
    BY <1>6
  <2>4. up' /\ said' = {} /\ tick'.stage = "running"
    BY <1>6
  <2>5. \A j \in tick'.rest : tick'.job < j
    BY <1>6, <1>7
  <2> QED BY <2>1, <2>2, <2>3, <2>4, <2>5 DEF TickIsSound
<1>14. SnapshotHolds'
  <2> SUFFICES ASSUME NEW j \in Jobs, j \in later \/ j = first
               PROVE  /\ row'[j].st # "unborn"
                      /\ row'[j].st = "there" => row'[j].spent = tick'.snap[j].spent
                      /\ row'[j].st = "there" /\ j \notin stale' => row'[j].repeat = tick'.snap[j].repeat
                      /\ tick'.snap[j].over => kind'[j] = "watch"
                      /\ (j \in tick'.rest /\ j \notin stale' /\ row'[j].st = "there"
                           /\ ~tick'.snap[j].over) => row'[j].next \in {"due", "missed"}
    BY <1>1, <1>6, <1>7 DEF SnapshotHolds, Awaited
  <2>1. tick'.snap[j] = snap[j] /\ j \in rest
    BY <1>6, <1>7
  <2>2. CASE j = first
    BY <1>2, <1>4, <1>5, <1>6, <1>7, <2>1, <2>2 DEF WalkReady
  <2>3. CASE j \in later
    <3>1. row'[j] = row[j]
      BY <1>3, <2>3
    <3> QED BY <1>5, <2>1, <3>1 DEF WalkReady
  <2> QED BY <2>2, <2>3
<1>15. RowsAreSound'
  <2> SUFFICES ASSUME NEW j \in Jobs
               PROVE  /\ row'[j].st = "there" /\ row'[j].on => wish'[j]
                      /\ row'[j].st = "there" /\ row'[j].repeat => row'[j].next # "none"
                      /\ row'[j].st = "there" /\ row'[j].repeat /\ wish'[j] =>
                           row'[j].on \/ kind'[j] = "watch"
                      /\ row'[j].over => kind'[j] = "watch"
                      /\ begun'[j] <= 1
                      /\ begun'[j] # 0 => row'[j].next \in {"later", "none"}
    BY DEF RowsAreSound
  <2>1. CASE j = first
    <3>1. begun'[j] = 1
      BY <1>5, <1>10, <2>1 DEF CronInv, TypeOK
    <3> QED BY <1>1, <1>2, <1>4, <2>1, <3>1 DEF CronInv, RowsAreSound
  <2>2. CASE j # first
    <3>1. begun'[j] = begun[j]
      BY <1>5, <2>2 DEF CronInv, TypeOK
    <3> QED BY <1>11, <2>2, <3>1 DEF CronInv, RowsAreSound
  <2> QED BY <2>1, <2>2
<1>16. BodiesAreSound'
  <2>1. /\ body.n = starts + 1 /\ body.job = first /\ body.at = "safety"
        /\ \A b \in bodies : b.n \in Nat /\ b.n <= starts
        /\ \A j \in Jobs : running[j] \in Nat /\ running[j] <= starts
    <3>1. body.n = starts + 1 /\ body.job = first /\ body.at = "safety"
      BY DEF body
    <3>2. \A b \in bodies : b.n \in Nat /\ b.n <= starts
      BY DEF CronInv, TypeOK, Body, BodiesAreSound
    <3>3. \A j \in Jobs : running[j] \in Nat /\ running[j] <= starts
      BY DEF CronInv, TypeOK, BodiesAreSound
    <3> QED BY <3>1, <3>2, <3>3
  <2>2. \A b \in bodies' : b \in bodies \/ b = body
    BY <1>5
  <2>3. \A b, c \in bodies' : b.job = c.job /\ b.n = c.n => b = c
    BY <1>5, <2>1, <2>2 DEF CronInv, BodiesAreSound
  <2>4. \A b \in bodies' : b.n <= starts' /\ (b.n = tick'.n => b.job = tick'.job)
    BY <1>5, <1>6, <2>1, <2>2
  <2>5. \A j \in Jobs : running'[j] <= starts'
    BY <1>5, <2>1
  <2>6. \A j \in resuming' :
          /\ running'[j] # 0 /\ running'[j] < tick'.n
          /\ \A b \in bodies' : /\ b.job = j => b.at = "safety"
                                /\ b.at # "resumed" => running'[j] < b.n
    <3>1. resuming' = resuming /\ resuming \subseteq Jobs /\ running' = running
      BY DEF CronInv, TypeOK
    <3> QED BY <1>5, <1>6, <2>1, <2>2, <3>1 DEF CronInv, BodiesAreSound
  <2> QED BY <2>3, <2>4, <2>5, <2>6 DEF BodiesAreSound
<1>17. ChargesAreSound'
  <2>1. \A j \in Jobs : Paid(j)' = Paid(j)
    <3>1. body.cost = 0
      BY DEF body
    <3> QED BY <1>5, <3>1 DEF Paid, PaidIn
  <2>2. \A j \in Jobs : row'[j].st = row[j].st /\ row'[j].spent = row[j].spent
    BY <1>2, <1>4, <1>11
  <2> QED BY <2>1, <2>2 DEF CronInv, ChargesAreSound
<1>18. WorkIsOfTasks'
  <2>1. body.job = first
    BY DEF body
  <2>2. \A j \in Jobs : row'[j].st = row[j].st
    BY <1>2, <1>4, <1>11
  <2>3. \A b \in bodies : b.job \in Jobs /\ row[b.job].st # "unborn"
    BY DEF CronInv, WorkIsOfTasks, TypeOK, Body
  <2>4. \A j \in Jobs : running'[j] # 0 => row'[j].st # "unborn"
    BY <2>2 DEF CronInv, WorkIsOfTasks
  <2> QED BY <1>1, <1>2, <1>5, <2>1, <2>2, <2>3, <2>4 DEF WorkIsOfTasks
<1>19. ResumedIsUncharged'
  <2>1. \A j \in Jobs : auth'[j] = auth[j] \/ auth'[j] = starts + 1
    BY <1>5 DEF CronInv, TypeOK
  <2>2. \A b \in bodies : b.job \in Jobs /\ b.n \in Nat /\ b.n <= starts
    BY DEF CronInv, TypeOK, Body, BodiesAreSound
  <2>3. \A j \in Jobs : running[j] \in Nat /\ running[j] <= starts
    BY DEF CronInv, TypeOK, BodiesAreSound
  <2>4. \A j \in resuming : auth'[j] # running'[j]
    BY <1>5, <2>1, <2>3 DEF CronInv, TypeOK, ResumedIsUncharged
  <2>5. \A b \in bodies : b.at = "resumed" => b.cost = 0 /\ auth'[b.job] # b.n
    BY <1>5, <2>1, <2>2 DEF CronInv, ResumedIsUncharged
  <2>6. body.at = "safety"
    BY DEF body
  <2> QED BY <1>5, <2>4, <2>5, <2>6 DEF ResumedIsUncharged
<1> QED
  BY <1>12, <1>13, <1>14, <1>15, <1>16, <1>17, <1>18, <1>19 DEF CronInv

LEMMA TickIsReady ==
  ASSUME CronInv
  PROVE  LET due == {j \in Jobs : Due(j)} IN WalkReady(due, [j \in due |-> row[j]], {})
<1> DEFINE due  == {j \in Jobs : Due(j)}
           snap == [j \in due |-> row[j]]
<1>1. \A j \in due : j \in Jobs /\ snap[j] = row[j] /\ row[j] \in Row
  BY DEF CronInv, TypeOK
<1>2. \A j \in due : /\ row[j].st = "there" /\ (row[j].over => kind[j] = "watch")
                     /\ ~row[j].over => row[j].next \in {"due", "missed"}
  BY DEF Due, CronInv, RowsAreSound
<1> HIDE DEF due
<1>3. DOMAIN snap = due
  OBVIOUS
<1>4. WalkReady(due, snap, {})
  BY <1>1, <1>2, <1>3 DEF WalkReady
<1> QED
  BY <1>4 DEF due

LEMMA ContinueIsReady ==
  ASSUME CronInv
  PROVE  WalkReady(tick.rest, tick.snap, stale)
<1>1. /\ tick.rest \subseteq DOMAIN tick.snap /\ stale \subseteq Jobs
      /\ \A j \in DOMAIN tick.snap : j \in Jobs /\ tick.snap[j] \in Row
  BY DEF CronInv, TypeOK
<1>2. tick.rest \subseteq Awaited
  BY DEF Awaited
<1> QED
  BY <1>1, <1>2 DEF CronInv, SnapshotHolds, WalkReady

(* A piece of the walk keeps the invariant.                                 *)
LEMMA WalkKeeps ==
  ASSUME CronInv, up, NEW rest, NEW snap, NEW moved,
         WalkReady(rest, snap, moved), Walk(rest, snap, moved)
  PROVE  CronInv'
<1>1. TypeOK
  BY DEF CronInv
<1>2. /\ row' = [j \in Jobs |-> row'[j]] /\ said' = {}
      /\ UNCHANGED <<kind, running, resuming, week, up, edits, crashes, again, wish, billed>>
      /\ \/ WalkEnds(rest, snap, moved)
         \/ \E first \in rest : Begins(first, rest, snap, moved)
  BY <1>1, WalkIs
<1>3. CASE WalkEnds(rest, snap, moved)
  BY <1>2, <1>3, WalkEndsKeeps
<1>4. ASSUME NEW first \in rest, Begins(first, rest, snap, moved)
      PROVE  CronInv'
  BY <1>2, <1>4, BeginsKeeps
<1> QED
  BY <1>2, <1>3, <1>4

-----------------------------------------------------------------------------
(* The end of a run.                                                        *)

(* What is recorded when a run ends: the total whatever the person did      *)
(* meanwhile, the rest only if the task is still the one that was claimed.  *)
Concluded(j, charge) ==
  LET new     == row'[j]
      current == row[j].st = "there" /\ j \notin stale
  IN  /\ new \in Row
      /\ \A i \in Jobs \ {j} : row'[i] = row[i]
      /\ new.st = row[j].st /\ new.repeat = row[j].repeat /\ new.over = row[j].over
      /\ new.spent = IF row[j].st = "there" THEN tick.snap[j].spent + charge ELSE row[j].spent
      /\ ~current => new.on = row[j].on /\ new.next = row[j].next
      /\ current => /\ new.next = NextOf(tick.snap[j])
                    /\ new.on = row[j].on \/
                         (new.on = FALSE /\ (kind[j] = "watch" \/ ~tick.snap[j].repeat))

LEMMA ConcludeIs ==
  ASSUME TypeOK, NEW j \in DOMAIN tick.snap, NEW charge \in Nat,
         NEW status, Conclude(j, charge, status)
  PROVE  /\ row' = [i \in Jobs |-> row'[i]] /\ Concluded(j, charge)
         /\ stale' = stale /\ week' \in Nat
         /\ \E stage \in {"deliver", "next"} :
              /\ tick' = [tick EXCEPT !.stage = stage]
              /\ stage = "deliver" => j \notin stale
<1> DEFINE current == row[j].st = "there" /\ j \notin stale
           total   == tick.snap[j].spent + charge
           paid    == Settled(row[j], total)
           after   == AfterRun(paid, current, NextOf(tick.snap[j]))
           consume == \/ kind[j] = "watch" /\ status = "success"
                      \/ kind[j] # "watch" /\ ~tick.snap[j].repeat /\ status = "success"
           new     == IF current /\ consume THEN SetEnabled(after, FALSE) ELSE after
<1>1. /\ j \in Jobs /\ row[j] \in Row /\ tick.snap[j] \in Row /\ row \in [Jobs -> Row]
  BY DEF TypeOK
<1>2. row' = [row EXCEPT ![j] = new] /\ week' = week + charge /\ stale' = stale
  BY DEF Conclude
<1>3. tick' = [tick EXCEPT !.stage =
                 IF current /\ status \in {"success", "incomplete"} THEN "deliver" ELSE "next"]
  BY DEF Conclude
<1>4. total \in Nat
  BY <1>1 DEF Row
<1>5. /\ paid \in Row
      /\ paid.st = row[j].st /\ paid.on = row[j].on /\ paid.repeat = row[j].repeat
      /\ paid.over = row[j].over /\ paid.next = row[j].next
      /\ paid.spent = IF row[j].st = "there" THEN total ELSE row[j].spent
  <2> HIDE DEF total
  <2> QED BY <1>1, <1>4, SettledIs
<1>6. NextOf(tick.snap[j]) \in {"none", "later", "due", "missed"} /\ current \in BOOLEAN
  BY DEF NextOf
<1>7. /\ after \in Row
      /\ after.st = paid.st /\ after.on = paid.on /\ after.repeat = paid.repeat
      /\ after.over = paid.over /\ after.spent = paid.spent
      /\ after.next = IF paid.st = "there" /\ current THEN NextOf(tick.snap[j]) ELSE paid.next
  <2> HIDE DEF paid, current
  <2> QED BY <1>5, <1>6, AfterRunIs, ZenonT(30)
<1>8. LET off == SetEnabled(after, FALSE)
      IN  /\ off \in Row
          /\ off.st = after.st /\ off.repeat = after.repeat /\ off.over = after.over
          /\ off.spent = after.spent /\ off.next = after.next
          /\ off.on = IF after.st = "there" THEN FALSE ELSE after.on
  <2> HIDE DEF after
  <2> QED BY <1>7, SwitchedOffIs
<1>9. consume => kind[j] = "watch" \/ ~tick.snap[j].repeat
  OBVIOUS
<1>10. row'[j] = new /\ \A i \in Jobs \ {j} : row'[i] = row[i]
  <2> HIDE DEF new
  <2> QED BY <1>1, <1>2
<1>11. Concluded(j, charge)
  <2>1. row'[j] = IF current /\ consume THEN SetEnabled(after, FALSE) ELSE after
    BY <1>10
  <2> HIDE DEF paid, after, consume, new
  <2>2. /\ row'[j] \in Row /\ row'[j].st = row[j].st /\ row'[j].repeat = row[j].repeat
        /\ row'[j].over = row[j].over
        /\ row'[j].spent = IF row[j].st = "there" THEN total ELSE row[j].spent
    BY <1>5, <1>7, <1>8, <2>1
  <2>3. /\ ~current => row'[j].on = row[j].on /\ row'[j].next = row[j].next
        /\ current => /\ row'[j].next = NextOf(tick.snap[j])
                      /\ row'[j].on = row[j].on \/ (row'[j].on = FALSE /\ consume)
    BY <1>5, <1>7, <1>8, <2>1
  <2> QED
    BY <1>9, <1>10, <2>2, <2>3 DEF Concluded
<1>12. row' = [i \in Jobs |-> row'[i]]
  <2> HIDE DEF new
  <2> QED BY <1>1, <1>2
<1>13. week' \in Nat
  BY <1>2 DEF TypeOK
<1> QED
  BY <1>2, <1>3, <1>11, <1>12, <1>13

LEMMA PaidIsFinite ==
  ASSUME NEW B, NEW j
  PROVE  IsFiniteSet(PaidIn(B, j)) /\ Cardinality(PaidIn(B, j)) \in Nat
<1>1. IsFiniteSet(1 .. MaxStarts)
  BY BoundAssumption, FS_Interval
<1>2. PaidIn(B, j) \subseteq 1 .. MaxStarts
  BY DEF PaidIn
<1> QED
  BY <1>1, <1>2, FS_Subset, FS_CardinalityType

(* An allowance that is not moved, or taken away, leaves the resumed runs   *)
(* without one.                                                             *)
LEMMA UnchargedStays ==
  ASSUME CronInv,
         \A c \in bodies' : \E b \in bodies :
            b.job = c.job /\ b.n = c.n /\ b.at = c.at /\ (c.at = "resumed" => b.cost = c.cost),
         resuming' \subseteq resuming, \A i \in resuming' : running'[i] = running[i], up' = up,
         auth' \in [Jobs -> 0 .. MaxStarts], \A i \in Jobs : auth'[i] \in {auth[i], 0}
  PROVE  ResumedIsUncharged'
<1>1. \A b \in bodies : b.job \in Jobs /\ b.n # 0
  BY BoundAssumption DEF CronInv, TypeOK, Body
<1>2. \A j \in resuming : j \in Jobs /\ running[j] # 0
  BY DEF CronInv, TypeOK, BodiesAreSound
<1>3. \A b \in bodies' : b.at = "resumed" => b.cost = 0 /\ auth'[b.job] # b.n
  BY <1>1 DEF CronInv, ResumedIsUncharged
<1>4. \A j \in resuming' : auth'[j] # running'[j]
  BY <1>2 DEF CronInv, ResumedIsUncharged
<1>5. ~up' => auth' = [j \in Jobs |-> 0]
  BY DEF CronInv, ResumedIsUncharged
<1> QED
  BY <1>3, <1>4, <1>5 DEF ResumedIsUncharged

(* The end of the awaited run keeps the invariant, whoever brings it about, *)
(* if what it reports leaves the account of its task.                       *)
LEMMA ConcludeKeeps ==
  ASSUME CronInv, tick.stage \in {"running", "grace"},
         NEW charge \in 0 .. 1, NEW status, Conclude(tick.job, charge, status),
         bodies' \subseteq bodies, auth' \in [Jobs -> 0 .. MaxStarts],
         \A i \in Jobs : auth'[i] \in {auth[i], 0},
         UNCHANGED <<kind, running, resuming, up, counts, history>>,
         \A i \in Jobs \ {tick.job} : PaidIn(bodies', i) = Paid(i),
         Cardinality(PaidIn(bodies', tick.job)) + charge = Cardinality(Paid(tick.job))
  PROVE  CronInv'
<1> DEFINE j == tick.job
<1>1. /\ up /\ j \in DOMAIN tick.snap /\ j \in Jobs /\ row \in [Jobs -> Row] /\ TypeOK
      /\ \A i \in tick.rest : j < i
  BY DEF CronInv, TypeOK, TickIsSound
<1>2. /\ row[j].st # "unborn"
      /\ row[j].st = "there" => row[j].spent = tick.snap[j].spent
      /\ row[j].st = "there" /\ j \notin stale => row[j].repeat = tick.snap[j].repeat
  BY DEF CronInv, SnapshotHolds, Awaited
<1>3. /\ row' = [i \in Jobs |-> row'[i]] /\ Concluded(j, charge)
      /\ stale' = stale /\ week' \in Nat
      /\ \E stage \in {"deliver", "next"} : tick' = [tick EXCEPT !.stage = stage]
  <2>1. charge \in Nat
    OBVIOUS
  <2> QED BY <1>1, <2>1, ConcludeIs
<1>4. /\ tick'.stage \in {"deliver", "next"} /\ tick'.rest = tick.rest /\ tick'.snap = tick.snap
      /\ tick'.job = tick.job /\ tick'.n = tick.n
      /\ tick' = [stage |-> tick'.stage, rest |-> tick'.rest, snap |-> tick'.snap,
                  job |-> tick'.job, n |-> tick'.n]
  <2>1. tick = [stage |-> tick.stage, rest |-> tick.rest, snap |-> tick.snap,
                job |-> tick.job, n |-> tick.n]
    BY DEF CronInv, TickIsSound
  <2>2. PICK stage \in {"deliver", "next"} : tick' = [tick EXCEPT !.stage = stage]
    BY <1>3
  <2>3. tick' = [stage |-> stage, rest |-> tick.rest, snap |-> tick.snap,
                 job |-> tick.job, n |-> tick.n]
    BY <2>1, <2>2
  <2> QED BY <2>2, <2>3
<1>5. /\ row'[j] \in Row
      /\ \A i \in Jobs \ {j} : row'[i] = row[i]
      /\ row'[j].st = row[j].st /\ row'[j].repeat = row[j].repeat /\ row'[j].over = row[j].over
      /\ row'[j].spent = IF row[j].st = "there" THEN row[j].spent + charge ELSE row[j].spent
      /\ row'[j].on => row[j].on
      /\ row'[j].next \in {row[j].next, "later", "none"}
      /\ row[j].st = "there" /\ row[j].repeat /\ wish[j] => row'[j].on \/ kind[j] = "watch"
      /\ row[j].st = "there" /\ row[j].repeat => row'[j].next # "none"
  <2>1. /\ row[j].st = "there" /\ row[j].repeat /\ wish[j] => row[j].on \/ kind[j] = "watch"
        /\ row[j].st = "there" /\ row[j].repeat => row[j].next # "none"
    BY <1>1 DEF CronInv, RowsAreSound
  <2>2. CASE row[j].st = "there" /\ j \notin stale
    BY <1>2, <1>3, <2>1, <2>2 DEF Concluded, NextOf
  <2>3. CASE ~(row[j].st = "there" /\ j \notin stale)
    BY <1>2, <1>3, <2>1, <2>3 DEF Concluded
  <2> QED BY <2>2, <2>3
<1>6. TypeOK'
  <2>1. row' \in [Jobs -> Row]
    BY <1>1, <1>3, <1>5
  <2> QED
    BY <1>3, <1>4, <2>1 DEF CronInv, TypeOK, counts, history
<1>7. TickIsSound'
  BY <1>1, <1>3, <1>4 DEF CronInv, TickIsSound, counts, history
<1>8. SnapshotHolds'
  <2> SUFFICES ASSUME NEW i \in tick.rest
               PROVE  /\ row'[i].st # "unborn"
                      /\ row'[i].st = "there" => row'[i].spent = tick'.snap[i].spent
                      /\ row'[i].st = "there" /\ i \notin stale' => row'[i].repeat = tick'.snap[i].repeat
                      /\ tick'.snap[i].over => kind'[i] = "watch"
                      /\ (i \in tick'.rest /\ i \notin stale' /\ row'[i].st = "there"
                           /\ ~tick'.snap[i].over) => row'[i].next \in {"due", "missed"}
    BY <1>4 DEF SnapshotHolds, Awaited
  <2>1. i \in Jobs \ {j}
    <3>1. i \in Jobs /\ j < i
      BY <1>1 DEF TypeOK
    <3> QED BY <1>1, <3>1, JobAssumption
  <2>2. row'[i] = row[i] /\ i \in Awaited
    BY <1>5, <2>1 DEF Awaited
  <2> QED
    BY <1>3, <1>4, <2>2 DEF CronInv, SnapshotHolds
<1>9. RowsAreSound'
  <2> SUFFICES ASSUME NEW i \in Jobs
               PROVE  /\ row'[i].st = "there" /\ row'[i].on => wish'[i]
                      /\ row'[i].st = "there" /\ row'[i].repeat => row'[i].next # "none"
                      /\ row'[i].st = "there" /\ row'[i].repeat /\ wish'[i] =>
                           row'[i].on \/ kind'[i] = "watch"
                      /\ row'[i].over => kind'[i] = "watch"
                      /\ begun'[i] <= 1
                      /\ begun'[i] # 0 => row'[i].next \in {"later", "none"}
    BY DEF RowsAreSound
  <2>1. wish' = wish /\ begun' = begun /\ kind' = kind
    BY DEF history
  <2>2. CASE i = j
    BY <1>5, <2>1, <2>2 DEF CronInv, RowsAreSound
  <2>3. CASE i # j
    BY <1>5, <2>1, <2>3 DEF CronInv, RowsAreSound
  <2> QED BY <2>2, <2>3
<1>10. BodiesAreSound'
  BY <1>1, <1>4 DEF CronInv, BodiesAreSound, counts
<1>11. ChargesAreSound'
  <2> SUFFICES ASSUME NEW i \in Jobs
               PROVE  /\ Cardinality(PaidIn(bodies', i)) <= billed[i]
                      /\ row'[i].st = "there" =>
                           row'[i].spent + Cardinality(PaidIn(bodies', i)) = billed[i]
                      /\ row'[i].st = "unborn" => billed[i] = 0
    BY DEF ChargesAreSound, Paid, history
  <2>1. /\ Cardinality(Paid(i)) <= billed[i]
        /\ row[i].st = "there" => row[i].spent + Cardinality(Paid(i)) = billed[i]
        /\ row[i].st = "unborn" => billed[i] = 0
    BY DEF CronInv, ChargesAreSound
  <2>2. CASE i = j
    <3>1. /\ Cardinality(PaidIn(bodies', i)) \in Nat /\ Cardinality(Paid(i)) \in Nat
          /\ row[i].spent \in Nat /\ billed[i] \in Nat
      BY <1>1, PaidIsFinite DEF Paid, TypeOK, Row
    <3> HIDE DEF j
    <3>2. Cardinality(PaidIn(bodies', i)) + charge = Cardinality(Paid(i))
      BY <2>2 DEF j
    <3> QED BY <1>2, <1>5, <2>1, <2>2, <3>1, <3>2
  <2>3. CASE i # j
    BY <1>5, <2>1, <2>3
  <2> QED BY <2>2, <2>3
<1>12. WorkIsOfTasks'
  <2>1. \A i \in Jobs : row'[i].st = row[i].st
    BY <1>5
  <2> QED BY <2>1 DEF CronInv, WorkIsOfTasks, TypeOK, Body
<1>13. ResumedIsUncharged'
  BY UnchargedStays
<1> QED
  BY <1>6, <1>7, <1>8, <1>9, <1>10, <1>11, <1>12, <1>13 DEF CronInv

-----------------------------------------------------------------------------
(* The calls of runJob.                                                     *)

(* Being told to stop changes no call's task, number, place or cost.        *)
LEMMA StopJobIs ==
  ASSUME TypeOK, BodiesAreSound, NEW j \in Jobs, StopJob(j)
  PROVE  /\ bodies' \subseteq Body /\ auth' \in [Jobs -> 0 .. MaxStarts]
         /\ \A i : PaidIn(bodies', i) = Paid(i)
         /\ \A i \in Jobs : auth'[i] \in {auth[i], 0}
         /\ \A c \in bodies' : \E b \in bodies :
              b.job = c.job /\ b.n = c.n /\ b.at = c.at /\ b.cost = c.cost
         /\ \A c, d \in bodies' : c.job = d.job /\ c.n = d.n => c = d
<1> DEFINE told(b) == IF b.job = j /\ b.at \in {"working", "resumed"}
                      THEN [b EXCEPT !.stopped = TRUE] ELSE b
<1>1. bodies' = {told(b) : b \in bodies} /\ auth' = [auth EXCEPT ![j] = 0]
  BY DEF StopJob
<1>2. \A b \in bodies : /\ told(b) \in Body /\ told(b).job = b.job /\ told(b).n = b.n
                        /\ told(b).at = b.at /\ told(b).cost = b.cost
  BY DEF TypeOK, Body
<1>3. auth' \in [Jobs -> 0 .. MaxStarts] /\ \A i \in Jobs : auth'[i] \in {auth[i], 0}
  BY <1>1, BoundAssumption DEF TypeOK
<1> HIDE DEF told
<1>4. \A i : PaidIn(bodies', i) = PaidIn(bodies, i)
  BY <1>1, <1>2 DEF PaidIn
<1>5. \A c \in bodies' : \E b \in bodies :
        b.job = c.job /\ b.n = c.n /\ b.at = c.at /\ b.cost = c.cost
  BY <1>1, <1>2
<1>6. \A c, d \in bodies' : c.job = d.job /\ c.n = d.n => c = d
  <2> SUFFICES ASSUME NEW b \in bodies, NEW e \in bodies,
                      told(b).job = told(e).job, told(b).n = told(e).n
               PROVE  told(b) = told(e)
    BY <1>1
  <2>1. b = e
    BY <1>2 DEF BodiesAreSound
  <2> QED BY <2>1
<1> QED
  BY <1>1, <1>2, <1>3, <1>4, <1>5, <1>6 DEF Paid

(* A set of calls that are the calls of before, each where it was, is as    *)
(* sound as they were.                                                      *)
LEMMA BodiesStaySound ==
  ASSUME CronInv,
         \A c \in bodies' : \E b \in bodies : b.job = c.job /\ b.n = c.n /\ b.at = c.at,
         \A c, d \in bodies' : c.job = d.job /\ c.n = d.n => c = d,
         UNCHANGED <<running, resuming, starts>>, tick'.job = tick.job, tick'.n = tick.n,
         tick'.stage \in {"running", "grace"} => tick.stage \in {"running", "grace"},
         tick'.stage # "idle" => tick.stage # "idle"
  PROVE  BodiesAreSound'
<1>1. \A c \in bodies' : /\ c.n <= starts'
                         /\ tick'.stage \in {"running", "grace"} /\ c.n = tick'.n => c.job = tick'.job
  BY DEF CronInv, BodiesAreSound
<1>2. \A j \in Jobs : running'[j] <= starts'
  BY DEF CronInv, BodiesAreSound
<1>3. \A j \in resuming' :
        /\ running'[j] # 0
        /\ tick'.stage # "idle" => running'[j] < tick'.n
        /\ \A c \in bodies' : /\ c.job = j => c.at = "safety"
                              /\ c.at # "resumed" => running'[j] < c.n
  BY DEF CronInv, BodiesAreSound
<1> QED
  BY <1>1, <1>2, <1>3 DEF BodiesAreSound

(* A call that moves on stays the call it was.                              *)
LEMMA OneMovesSoundly ==
  ASSUME CronInv, NEW b \in bodies, NEW c \in Body,
         bodies' = (bodies \ {b}) \cup {c}, c.job = b.job, c.n = b.n,
         b.job \in resuming => c.at = "safety", c.at # "resumed" => b.at # "resumed",
         UNCHANGED <<tick, resuming, starts>>,
         \A j \in Jobs : running'[j] <= starts,
         \A j \in resuming : running'[j] = running[j]
  PROVE  bodies' \subseteq Body /\ BodiesAreSound'
<1>1. bodies' \subseteq Body
  BY DEF CronInv, TypeOK
<1>2. \A d, e \in bodies' : d.job = e.job /\ d.n = e.n => d = e
  BY DEF CronInv, BodiesAreSound
<1>3. \A d \in bodies' : d.n <= starts'
  BY DEF CronInv, BodiesAreSound
<1>4. \A d \in bodies' : tick'.stage \in {"running", "grace"} /\ d.n = tick'.n => d.job = tick'.job
  BY DEF CronInv, BodiesAreSound
<1>5. \A j \in resuming' :
        /\ running'[j] # 0
        /\ tick'.stage # "idle" => running'[j] < tick'.n
        /\ \A d \in bodies' : /\ d.job = j => d.at = "safety"
                              /\ d.at # "resumed" => running'[j] < d.n
  <2> SUFFICES ASSUME NEW j \in resuming
               PROVE  /\ running'[j] # 0
                      /\ tick'.stage # "idle" => running'[j] < tick'.n
                      /\ \A d \in bodies' : /\ d.job = j => d.at = "safety"
                                            /\ d.at # "resumed" => running'[j] < d.n
    OBVIOUS
  <2>1. /\ running'[j] # 0 /\ (tick'.stage # "idle" => running'[j] < tick'.n)
        /\ \A d \in bodies : /\ d.job = j => d.at = "safety"
                             /\ d.at # "resumed" => running'[j] < d.n
    BY DEF CronInv, BodiesAreSound
  <2>2. (c.job = j => c.at = "safety") /\ (c.at # "resumed" => running'[j] < c.n)
    BY <2>1
  <2> QED BY <2>1, <2>2
<1>6. \A j \in Jobs : running'[j] <= starts'
  OBVIOUS
<1> QED
  BY <1>1, <1>2, <1>3, <1>4, <1>5, <1>6 DEF BodiesAreSound

(* When nothing but the calls moves, the rest of the invariant stands.      *)
LEMMA TableStands ==
  ASSUME CronInv, UNCHANGED <<table, tick, resuming, week, up, counts, begun, again, wish, said>>,
         bodies' \subseteq Body, bodies = {} => bodies' = {},
         auth' \in [Jobs -> 0 .. MaxStarts], running' \in [Jobs -> 0 .. MaxStarts],
         billed' \in [Jobs -> Nat], BodiesAreSound', ChargesAreSound', WorkIsOfTasks',
         ResumedIsUncharged'
  PROVE  CronInv'
<1>1. TypeOK'
  BY DEF CronInv, TypeOK, table, counts
<1>2. TickIsSound'
  BY DEF CronInv, TickIsSound, table, counts
<1>3. SnapshotHolds'
  BY DEF CronInv, SnapshotHolds, Awaited, table
<1>4. RowsAreSound'
  BY DEF CronInv, RowsAreSound, table
<1> QED
  BY <1>1, <1>2, <1>3, <1>4 DEF CronInv

-----------------------------------------------------------------------------
(* The actions of the scheduler that are not part of the walk.              *)

LEMMA RemindKeeps ==
  ASSUME CronInv, Remind \/ Watched \/ GraceOver
  PROVE  CronInv'
<1>1. /\ tick.stage \in {"running", "grace"}
      /\ \E status : Conclude(tick.job, 0, status)
      /\ UNCHANGED <<kind, bodies, auth, running, resuming, up, counts, history>>
  BY DEF Remind, Watched, GraceOver
<1>2. PICK status : Conclude(tick.job, 0, status)
  BY <1>1
<1>3. /\ \A i \in Jobs \ {tick.job} : PaidIn(bodies', i) = Paid(i)
      /\ Cardinality(PaidIn(bodies', tick.job)) + 0 = Cardinality(Paid(tick.job))
  <2>1. \A i : PaidIn(bodies', i) = Paid(i)
    BY <1>1 DEF Paid
  <2>2. Cardinality(Paid(tick.job)) \in Nat
    BY PaidIsFinite DEF Paid
  <2> QED BY <2>1, <2>2
<1>4. auth' \in [Jobs -> 0 .. MaxStarts] /\ auth' = auth /\ bodies' \subseteq bodies
  BY <1>1 DEF CronInv, TypeOK
<1>5. 0 \in 0 .. 1
  OBVIOUS
<1> QED
  BY <1>1, <1>2, <1>3, <1>4, <1>5, ConcludeKeeps

(* Only the stage of the tick moves, and no further back than a run that is *)
(* awaited.                                                                 *)
LEMMA StageMoves ==
  ASSUME CronInv, NEW stage \in {"grace", "next"}, tick' = [tick EXCEPT !.stage = stage],
         tick.stage # "idle", stage = "grace" => tick.stage \in {"running", "grace"},
         UNCHANGED <<table, running, resuming, week, up, counts, history>>,
         bodies' \subseteq Body, auth' \in [Jobs -> 0 .. MaxStarts],
         BodiesAreSound', WorkIsOfTasks', ResumedIsUncharged', \A i : PaidIn(bodies', i) = Paid(i)
  PROVE  CronInv'
<1>1. tick = [stage |-> tick.stage, rest |-> tick.rest, snap |-> tick.snap,
              job |-> tick.job, n |-> tick.n]
  BY DEF CronInv, TickIsSound
<1>2. tick' = [stage |-> stage, rest |-> tick.rest, snap |-> tick.snap,
               job |-> tick.job, n |-> tick.n]
  BY <1>1
<1>3. /\ tick'.stage = stage /\ tick'.rest = tick.rest /\ tick'.snap = tick.snap
      /\ tick'.job = tick.job /\ tick'.n = tick.n
  BY <1>2
<1>4. TypeOK'
  BY <1>3 DEF CronInv, TypeOK, table, counts, history
<1>5. TickIsSound'
  <2>1. up
    BY DEF CronInv, TickIsSound
  <2>2. tick' = [stage |-> tick'.stage, rest |-> tick'.rest, snap |-> tick'.snap,
                 job |-> tick'.job, n |-> tick'.n]
    BY <1>2
  <2> QED BY <1>3, <2>1, <2>2 DEF CronInv, TickIsSound, table, counts, history
<1>6. SnapshotHolds'
  BY <1>3 DEF CronInv, SnapshotHolds, Awaited, table
<1>7. RowsAreSound'
  BY DEF CronInv, RowsAreSound, table, history
<1>8. ChargesAreSound'
  BY DEF CronInv, ChargesAreSound, Paid, table, history
<1> QED
  BY <1>4, <1>5, <1>6, <1>7, <1>8 DEF CronInv

LEMMA DeliveredKeeps ==
  ASSUME CronInv, Delivered
  PROVE  CronInv'
<1>1. /\ tick.stage = "deliver" /\ tick' = [tick EXCEPT !.stage = "next"]
      /\ UNCHANGED <<table, bodies, auth, running, resuming, week, up, counts, history>>
  BY DEF Delivered
<1>2. tick'.stage = "next" /\ tick'.job = tick.job /\ tick'.n = tick.n
  <2>1. tick = [stage |-> tick.stage, rest |-> tick.rest, snap |-> tick.snap,
                job |-> tick.job, n |-> tick.n]
    BY DEF CronInv, TickIsSound
  <2>2. tick' = [stage |-> "next", rest |-> tick.rest, snap |-> tick.snap,
                 job |-> tick.job, n |-> tick.n]
    BY <1>1, <2>1
  <2> QED BY <2>2
<1>3. bodies' \subseteq Body /\ auth' \in [Jobs -> 0 .. MaxStarts]
  BY <1>1 DEF CronInv, TypeOK
<1>4. BodiesAreSound'
  BY <1>1, <1>2 DEF CronInv, BodiesAreSound, counts
<1>5. \A i : PaidIn(bodies', i) = Paid(i)
  BY <1>1 DEF Paid
<1>6. WorkIsOfTasks'
  BY <1>1 DEF CronInv, WorkIsOfTasks, table
<1>7. ResumedIsUncharged'
  BY <1>1 DEF CronInv, ResumedIsUncharged
<1> QED
  BY <1>1, <1>3, <1>4, <1>5, <1>6, <1>7, StageMoves

LEMMA TimesOutKeeps ==
  ASSUME CronInv, TimesOut
  PROVE  CronInv'
<1>1. /\ up /\ tick.stage = "running" /\ StopJob(tick.job) /\ tick' = [tick EXCEPT !.stage = "grace"]
      /\ UNCHANGED <<table, running, resuming, week, up, counts, history>>
  BY DEF TimesOut
<1>2. tick'.stage = "grace" /\ tick'.job = tick.job /\ tick'.n = tick.n
  <2>1. tick = [stage |-> tick.stage, rest |-> tick.rest, snap |-> tick.snap,
                job |-> tick.job, n |-> tick.n]
    BY DEF CronInv, TickIsSound
  <2>2. tick' = [stage |-> "grace", rest |-> tick.rest, snap |-> tick.snap,
                 job |-> tick.job, n |-> tick.n]
    BY <1>1, <2>1
  <2> QED BY <2>2
<1>3. TypeOK /\ BodiesAreSound /\ tick.job \in Jobs
  BY <1>1 DEF CronInv, TypeOK, TickIsSound
<1>4. /\ bodies' \subseteq Body /\ auth' \in [Jobs -> 0 .. MaxStarts]
      /\ \A i : PaidIn(bodies', i) = Paid(i)
      /\ \A i \in Jobs : auth'[i] \in {auth[i], 0}
      /\ \A c \in bodies' : \E b \in bodies :
           b.job = c.job /\ b.n = c.n /\ b.at = c.at /\ b.cost = c.cost
      /\ \A c, d \in bodies' : c.job = d.job /\ c.n = d.n => c = d
  BY <1>1, <1>3, StopJobIs
<1>5. BodiesAreSound'
  BY <1>1, <1>2, <1>4, BodiesStaySound DEF counts
<1>6. WorkIsOfTasks'
  BY <1>1, <1>4 DEF CronInv, WorkIsOfTasks, table
<1>7. ResumedIsUncharged'
  BY <1>1, <1>4, UnchargedStays
<1> QED
  BY <1>1, <1>4, <1>5, <1>6, <1>7, StageMoves

-----------------------------------------------------------------------------
(* The actions of runJob.                                                   *)

LEMMA OpenRunKeeps ==
  ASSUME CronInv, NEW b \in bodies, OpenRun(b)
  PROVE  CronInv'
<1> DEFINE c == [b EXCEPT !.at = "working"]
<1>1. /\ b.at = "safety" /\ running[b.job] = 0
      /\ running' = [running EXCEPT ![b.job] = b.n] /\ bodies' = (bodies \ {b}) \cup {c}
      /\ UNCHANGED <<table, tick, auth, resuming, week, up, counts, history>>
  BY DEF OpenRun, Move
<1>2. b \in Body /\ b.job \in Jobs /\ b.n \in 0 .. MaxStarts /\ b.n <= starts
  BY BoundAssumption DEF CronInv, TypeOK, BodiesAreSound, Body
<1>3. c \in Body /\ c.job = b.job /\ c.n = b.n /\ c.at = "working" /\ c.cost = b.cost
  BY <1>2 DEF Body
<1>4. b.job \notin resuming
  BY <1>1 DEF CronInv, BodiesAreSound
<1>5. running' \in [Jobs -> 0 .. MaxStarts]
  BY <1>1, <1>2 DEF CronInv, TypeOK
<1>6. \A j \in Jobs : running'[j] <= starts
  BY <1>1, <1>2 DEF CronInv, TypeOK, BodiesAreSound
<1>7. \A j \in resuming : running'[j] = running[j]
  BY <1>1, <1>4 DEF CronInv, TypeOK
<1> HIDE DEF c
<1>8. bodies' \subseteq Body /\ BodiesAreSound'
  BY <1>1, <1>3, <1>4, <1>6, <1>7, OneMovesSoundly DEF counts
<1>9. ChargesAreSound'
  <2>1. \A i : PaidIn(bodies', i) = Paid(i)
    BY <1>1, <1>3 DEF Paid, PaidIn
  <2> QED BY <1>1, <2>1 DEF CronInv, ChargesAreSound, Paid, table, history
<1>10. WorkIsOfTasks'
  BY <1>1, <1>2, <1>3 DEF CronInv, WorkIsOfTasks, TypeOK, table
<1>11. ResumedIsUncharged'
  BY <1>1, <1>3, <1>4, <1>7 DEF CronInv, ResumedIsUncharged
<1> QED
  BY <1>1, <1>5, <1>8, <1>9, <1>10, <1>11, TableStands DEF CronInv, TypeOK, history

LEMMA CloseRunKeeps ==
  ASSUME CronInv, NEW b \in bodies, CloseRun(b)
  PROVE  CronInv'
<1> DEFINE c == [b EXCEPT !.at = "concluding"]
<1>1. /\ b.at = "working"
      /\ running' = [running EXCEPT ![b.job] = 0] /\ bodies' = (bodies \ {b}) \cup {c}
      /\ UNCHANGED <<table, tick, auth, resuming, week, up, counts, history>>
  BY DEF CloseRun, Move
<1>2. b \in Body /\ b.job \in Jobs /\ 0 <= starts /\ 0 \in 0 .. MaxStarts
  BY BoundAssumption DEF CronInv, TypeOK, Body
<1>3. c \in Body /\ c.job = b.job /\ c.n = b.n /\ c.at = "concluding" /\ c.cost = b.cost
  BY <1>2 DEF Body
<1>4. b.job \notin resuming
  BY <1>1 DEF CronInv, BodiesAreSound
<1>5. running' \in [Jobs -> 0 .. MaxStarts]
  BY <1>1, <1>2 DEF CronInv, TypeOK
<1>6. \A j \in Jobs : running'[j] <= starts
  BY <1>1, <1>2 DEF CronInv, TypeOK, BodiesAreSound
<1>7. \A j \in resuming : running'[j] = running[j]
  BY <1>1, <1>4 DEF CronInv, TypeOK
<1> HIDE DEF c
<1>8. bodies' \subseteq Body /\ BodiesAreSound'
  BY <1>1, <1>3, <1>4, <1>6, <1>7, OneMovesSoundly DEF counts
<1>9. ChargesAreSound'
  <2>1. \A i : PaidIn(bodies', i) = Paid(i)
    BY <1>1, <1>3 DEF Paid, PaidIn
  <2> QED BY <1>1, <2>1 DEF CronInv, ChargesAreSound, Paid, table, history
<1>10. WorkIsOfTasks'
  BY <1>1, <1>2, <1>3 DEF CronInv, WorkIsOfTasks, TypeOK, table
<1>11. ResumedIsUncharged'
  BY <1>1, <1>3, <1>4, <1>7 DEF CronInv, ResumedIsUncharged
<1> QED
  BY <1>1, <1>5, <1>8, <1>9, <1>10, <1>11, TableStands DEF CronInv, TypeOK, history

(* A charge goes to an allowance that has not been charged, and counts once *)
(* more in hand and once more billed.                                       *)
LEMMA BillKeeps ==
  ASSUME CronInv, NEW b \in bodies, Bill(b)
  PROVE  CronInv'
<1>1. PICK payer \in bodies :
        /\ payer.n = auth[b.job] /\ payer.job = b.job /\ payer.cost = 0
        /\ bodies' = (bodies \ {payer}) \cup {[payer EXCEPT !.cost = 1]}
        /\ billed' = [billed EXCEPT ![b.job] = @ + 1]
  BY DEF Bill
<1>2. /\ b.at \in {"working", "resumed"}
      /\ UNCHANGED <<table, tick, auth, running, resuming, week, up, counts, begun, again, wish, said>>
  BY DEF Bill
<1> DEFINE j == payer.job
           c == [payer EXCEPT !.cost = 1]
<1>3. payer \in Body /\ j \in Jobs /\ payer.n \in 1 .. MaxStarts
  BY DEF CronInv, TypeOK, Body
<1>4. c \in Body /\ c.job = j /\ c.n = payer.n /\ c.at = payer.at /\ c.cost = 1
  BY <1>3 DEF Body
<1>5. j \notin resuming
  BY <1>1, <1>2 DEF CronInv, BodiesAreSound
<1>6. bodies' = (bodies \ {payer}) \cup {c} /\ billed' = [billed EXCEPT ![j] = @ + 1]
  BY <1>1
<1> HIDE DEF c
<1>7. bodies' \subseteq Body /\ BodiesAreSound'
  <2>1. \A i \in Jobs : running'[i] <= starts
    BY <1>2 DEF CronInv, BodiesAreSound
  <2>2. \A i \in resuming : running'[i] = running[i]
    BY <1>2
  <2> QED BY <1>2, <1>4, <1>5, <1>6, <2>1, <2>2, OneMovesSoundly DEF counts
<1>8. payer.n \notin Paid(j)
  BY <1>1 DEF Paid, PaidIn, CronInv, BodiesAreSound
<1>9. /\ PaidIn(bodies', j) = Paid(j) \cup {payer.n}
      /\ \A i \in Jobs \ {j} : PaidIn(bodies', i) = Paid(i)
  <2>1. PaidIn(bodies', j) = Paid(j) \cup {payer.n}
    BY <1>1, <1>3, <1>4, <1>6 DEF Paid, PaidIn
  <2>2. \A i \in Jobs \ {j} : PaidIn(bodies', i) = Paid(i)
    BY <1>4, <1>6 DEF Paid, PaidIn
  <2> QED BY <2>1, <2>2
<1>10. /\ IsFiniteSet(Paid(j)) /\ Cardinality(Paid(j)) \in Nat
       /\ Cardinality(PaidIn(bodies', j)) = Cardinality(Paid(j)) + 1
  <2>1. IsFiniteSet(Paid(j)) /\ Cardinality(Paid(j)) \in Nat
    BY PaidIsFinite DEF Paid
  <2> QED BY <1>8, <1>9, <2>1, FS_AddElement
<1>11. billed \in [Jobs -> Nat] /\ billed' \in [Jobs -> Nat]
  BY <1>3, <1>6 DEF CronInv, TypeOK
<1>12. WorkIsOfTasks'
  BY <1>2, <1>4, <1>6 DEF CronInv, WorkIsOfTasks, TypeOK, table
<1>13. ChargesAreSound'
  <2> SUFFICES ASSUME NEW i \in Jobs
               PROVE  /\ Cardinality(PaidIn(bodies', i)) <= billed'[i]
                      /\ row[i].st = "there" =>
                           row[i].spent + Cardinality(PaidIn(bodies', i)) = billed'[i]
                      /\ row[i].st = "unborn" => billed'[i] = 0
    BY <1>2 DEF ChargesAreSound, Paid, table
  <2>1. /\ Cardinality(Paid(i)) <= billed[i]
        /\ row[i].st = "there" => row[i].spent + Cardinality(Paid(i)) = billed[i]
        /\ row[i].st = "unborn" => billed[i] = 0
        /\ row[i].spent \in Nat /\ billed[i] \in Nat
    BY DEF CronInv, ChargesAreSound, TypeOK, Row
  <2>2. CASE i = j
    <3>1. row[j].st # "unborn"
      BY DEF CronInv, WorkIsOfTasks
    <3>2. billed'[j] = billed[j] + 1
      BY <1>3, <1>6, <1>11
    <3> HIDE DEF j
    <3> QED BY <1>10, <2>1, <2>2, <3>1, <3>2
  <2>3. CASE i # j
    <3>1. billed'[i] = billed[i]
      BY <1>6, <1>11, <2>3
    <3> QED BY <1>9, <2>1, <2>3, <3>1
  <2> QED BY <2>2, <2>3
<1>14. bodies # {} /\ auth' \in [Jobs -> 0 .. MaxStarts] /\ running' \in [Jobs -> 0 .. MaxStarts]
  BY <1>2 DEF CronInv, TypeOK
<1>15. payer.at # "resumed"
  BY <1>1 DEF CronInv, ResumedIsUncharged
<1>16. ResumedIsUncharged'
  BY <1>2, <1>4, <1>6, <1>15 DEF CronInv, ResumedIsUncharged
<1> QED
  BY <1>2, <1>7, <1>11, <1>12, <1>13, <1>14, <1>16, TableStands

(* A call that leaves takes its charge out of what is in hand.              *)
LEMMA CallLeaves ==
  ASSUME CronInv, NEW b \in bodies
  PROVE  /\ b.job \in Jobs /\ b.cost \in 0 .. 1
         /\ \A i \in Jobs \ {b.job} : PaidIn(bodies \ {b}, i) = Paid(i)
         /\ Cardinality(PaidIn(bodies \ {b}, b.job)) + b.cost = Cardinality(Paid(b.job))
<1>1. b.job \in Jobs /\ b.cost \in 0 .. 1 /\ b.n \in 1 .. MaxStarts
  BY DEF CronInv, TypeOK, Body
<1>2. \A i \in Jobs \ {b.job} : PaidIn(bodies \ {b}, i) = Paid(i)
  BY DEF Paid, PaidIn
<1>3. IsFiniteSet(Paid(b.job)) /\ Cardinality(Paid(b.job)) \in Nat
  BY PaidIsFinite DEF Paid
<1>4. CASE b.cost = 0
  <2>1. PaidIn(bodies \ {b}, b.job) = Paid(b.job)
    BY <1>4 DEF Paid, PaidIn
  <2> QED BY <1>1, <1>2, <1>3, <1>4, <2>1
<1>5. CASE b.cost = 1
  <2>1. PaidIn(bodies \ {b}, b.job) = Paid(b.job) \ {b.n}
    BY <1>5 DEF Paid, PaidIn, CronInv, BodiesAreSound
  <2>2. b.n \in Paid(b.job)
    BY <1>1, <1>5 DEF Paid, PaidIn
  <2>3. Cardinality(Paid(b.job) \ {b.n}) = Cardinality(Paid(b.job)) - 1
    BY <1>3, <2>2, FS_RemoveElement
  <2>4. Cardinality(PaidIn(bodies \ {b}, b.job)) + b.cost = Cardinality(Paid(b.job))
    <3>1. Cardinality(PaidIn(bodies \ {b}, b.job)) = Cardinality(Paid(b.job)) - 1
      BY <2>1, <2>3, Zenon
    <3> QED BY <1>3, <1>5, <3>1
  <2> QED BY <1>1, <1>2, <2>4
<1>6. b.cost = 0 \/ b.cost = 1
  BY <1>1
<1> QED
  BY <1>4, <1>5, <1>6

LEMMA ReturnKeeps ==
  ASSUME CronInv, NEW b \in bodies, Return(b)
  PROVE  CronInv'
<1>1. /\ b.at # "resumed" /\ bodies' = bodies \ {b} /\ auth' = [auth EXCEPT ![b.job] = 0]
      /\ UNCHANGED <<kind, running, resuming, up, counts, begun, again, wish, said>>
  BY DEF Return
<1>2. /\ b.job \in Jobs /\ b.cost \in 0 .. 1
      /\ \A i \in Jobs \ {b.job} : PaidIn(bodies', i) = Paid(i)
      /\ Cardinality(PaidIn(bodies', b.job)) + b.cost = Cardinality(Paid(b.job))
  BY <1>1, CallLeaves
<1>3. auth' \in [Jobs -> 0 .. MaxStarts] /\ \A i \in Jobs : auth'[i] \in {auth[i], 0}
  <2>1. auth \in [Jobs -> 0 .. MaxStarts] /\ 0 \in 0 .. MaxStarts
    BY BoundAssumption DEF CronInv, TypeOK
  <2> QED BY <1>1, <2>1
<1>4. CASE /\ tick.n = b.n /\ tick.stage \in {"running", "grace"}
           /\ \E status : Conclude(b.job, b.cost, status)
           /\ UNCHANGED billed
  <2>1. b.job = tick.job
    BY <1>4 DEF CronInv, BodiesAreSound
  <2>2. PICK status : Conclude(tick.job, b.cost, status)
    BY <1>4, <2>1
  <2>3. UNCHANGED <<kind, running, resuming, up, counts, history>>
    BY <1>1, <1>4 DEF history
  <2> QED
    BY <1>1, <1>2, <1>3, <1>4, <2>1, <2>2, <2>3, ConcludeKeeps
<1>5. CASE /\ billed' = [billed EXCEPT ![b.job] = @ - b.cost]
           /\ UNCHANGED <<table, tick, week>>
  <2>1. bodies' \subseteq Body /\ running' \in [Jobs -> 0 .. MaxStarts] /\ bodies # {}
    BY <1>1 DEF CronInv, TypeOK
  <2>2. BodiesAreSound'
    BY <1>1, <1>5 DEF CronInv, BodiesAreSound, counts
  <2>3. WorkIsOfTasks'
    BY <1>1, <1>5 DEF CronInv, WorkIsOfTasks, table
  <2>4. ResumedIsUncharged'
    BY <1>1, <1>3, UnchargedStays
  <2>5. \A i \in Jobs :
          /\ Cardinality(PaidIn(bodies', i)) \in Nat /\ Cardinality(Paid(i)) \in Nat
          /\ billed[i] \in Nat /\ row[i].spent \in Nat /\ Cardinality(Paid(i)) <= billed[i]
          /\ row[i].st = "there" => row[i].spent + Cardinality(Paid(i)) = billed[i]
          /\ row[i].st = "unborn" => billed[i] = 0
    BY PaidIsFinite DEF Paid, CronInv, TypeOK, Row, ChargesAreSound
  <2>6. /\ billed'[b.job] = billed[b.job] - b.cost
        /\ \A i \in Jobs \ {b.job} : billed'[i] = billed[i]
    BY <1>2, <1>5 DEF CronInv, TypeOK
  <2>7. \A i \in Jobs : billed'[i] \in Nat
    BY <1>2, <2>5, <2>6
  <2>8. billed' \in [Jobs -> Nat]
    BY <1>5, <2>7 DEF CronInv, TypeOK
  <2>9. row[b.job].st # "unborn"
    BY DEF CronInv, WorkIsOfTasks
  <2>10. ChargesAreSound'
    <3> SUFFICES ASSUME NEW i \in Jobs
                 PROVE  /\ Cardinality(PaidIn(bodies', i)) <= billed'[i]
                        /\ row[i].st = "there" =>
                             row[i].spent + Cardinality(PaidIn(bodies', i)) = billed'[i]
                        /\ row[i].st = "unborn" => billed'[i] = 0
      BY <1>5 DEF ChargesAreSound, Paid, table
    <3>1. CASE i = b.job
      BY <1>2, <2>5, <2>6, <2>9, <3>1
    <3>2. CASE i # b.job
      BY <1>2, <2>5, <2>6, <3>2
    <3> QED BY <3>1, <3>2
  <2> QED
    BY <1>1, <1>3, <1>5, <2>1, <2>2, <2>3, <2>4, <2>8, <2>10, TableStands
<1>6. QED
  BY <1>4, <1>5 DEF Return

LEMMA EndResumedKeeps ==
  ASSUME CronInv, NEW b \in bodies, EndResumed(b)
  PROVE  CronInv'
<1>1. /\ b.at = "resumed" /\ running' = [running EXCEPT ![b.job] = 0] /\ bodies' = bodies \ {b}
      /\ UNCHANGED <<table, tick, auth, resuming, week, up, counts, history>>
  BY DEF EndResumed
<1>2. b.cost = 0 /\ b.job \notin resuming /\ b.job \in Jobs
  BY <1>1 DEF CronInv, ResumedIsUncharged, BodiesAreSound, TypeOK, Body
<1>3. /\ bodies' \subseteq Body /\ bodies # {} /\ auth' \in [Jobs -> 0 .. MaxStarts]
      /\ running' \in [Jobs -> 0 .. MaxStarts] /\ billed' \in [Jobs -> Nat]
  BY <1>1, <1>2, BoundAssumption DEF CronInv, TypeOK, history
<1>4. \A i \in resuming : running'[i] = running[i]
  BY <1>1, <1>2 DEF CronInv, TypeOK
<1>5. \A i \in Jobs : running'[i] <= starts
  BY <1>1, BoundAssumption DEF CronInv, TypeOK, BodiesAreSound
<1>6. BodiesAreSound'
  BY <1>1, <1>4, <1>5 DEF CronInv, BodiesAreSound, counts
<1>7. ChargesAreSound'
  <2>1. \A i : PaidIn(bodies', i) = Paid(i)
    BY <1>1, <1>2 DEF Paid, PaidIn
  <2> QED BY <1>1, <2>1 DEF CronInv, ChargesAreSound, Paid, table, history
<1>8. WorkIsOfTasks'
  BY <1>1 DEF CronInv, WorkIsOfTasks, TypeOK, table
<1>9. ResumedIsUncharged'
  BY <1>1, <1>3, <1>4, UnchargedStays
<1> QED
  BY <1>1, <1>3, <1>6, <1>7, <1>8, <1>9, TableStands DEF history

(* The start-up pass only takes up runs that are older than all of this     *)
(* process's, one at a time for each task.                                  *)
LEMMA ResumeKeeps ==
  ASSUME CronInv, NEW j \in Jobs, Resume(j)
  PROVE  CronInv'
<1> DEFINE body == [job |-> j, n |-> running[j], at |-> "resumed", stopped |-> FALSE, cost |-> 0]
<1>1. /\ up /\ j \in resuming /\ resuming' = resuming \ {j}
      /\ UNCHANGED <<table, tick, auth, week, up, counts, begun, wish, said, billed>>
      /\ \/ bodies' = bodies \cup {body} /\ again' = [again EXCEPT ![j] = @ + 1] /\ running' = running
         \/ bodies' = bodies /\ again' = again /\ running' = [running EXCEPT ![j] = 0]
  BY DEF Resume
<1>2. /\ running[j] # 0 /\ running[j] \in 0 .. MaxStarts /\ running[j] <= starts
      /\ tick.stage # "idle" => running[j] < tick.n
      /\ \A b \in bodies : b.job = j => b.at = "safety" /\ running[j] < b.n
  BY <1>1 DEF CronInv, TypeOK, BodiesAreSound
<1>3. running[j] \in 1 .. MaxStarts
  BY <1>2, BoundAssumption
<1>4. /\ body \in Body /\ body.job = j /\ body.n = running[j] /\ body.at = "resumed" /\ body.cost = 0
  BY <1>3 DEF Body
<1> HIDE DEF body
<1>5. bodies' \subseteq Body /\ \A b \in bodies' : b \in bodies \/ (b = body /\ running' = running)
  BY <1>1, <1>4 DEF CronInv, TypeOK
<1>6. running' \in [Jobs -> 0 .. MaxStarts] /\ again' \in [Jobs -> Nat]
  BY <1>1, BoundAssumption DEF CronInv, TypeOK
<1>7. \A i \in Jobs : running'[i] \in {running[i], 0} /\ (i # j => running'[i] = running[i])
  BY <1>1 DEF CronInv, TypeOK
<1>8. TypeOK'
  BY <1>1, <1>5, <1>6 DEF CronInv, TypeOK, table, counts
<1>9. TickIsSound' /\ SnapshotHolds' /\ RowsAreSound'
  BY <1>1 DEF CronInv, TickIsSound, SnapshotHolds, Awaited, RowsAreSound, table, counts
<1>10. BodiesAreSound'
  <2>1. \A b \in bodies : b.n \in Nat /\ running[j] \in Nat
    BY <1>3 DEF CronInv, TypeOK, Body
  <2>2. \A b, c \in bodies' : b.job = c.job /\ b.n = c.n => b = c
    BY <1>2, <1>4, <1>5, <2>1 DEF CronInv, BodiesAreSound
  <2>3. \A b \in bodies' : b.n <= starts'
    BY <1>1, <1>2, <1>4, <1>5 DEF CronInv, BodiesAreSound, counts
  <2>4. \A b \in bodies' :
          tick'.stage \in {"running", "grace"} /\ b.n = tick'.n => b.job = tick'.job
    <3>1. tick.stage \in {"running", "grace"} => body.n # tick.n
      <4>1. tick.n \in Nat
        BY DEF CronInv, TypeOK
      <4> QED BY <1>2, <1>3, <1>4, <4>1
    <3> QED BY <1>1, <1>5, <3>1 DEF CronInv, BodiesAreSound
  <2>5. \A i \in Jobs : running'[i] <= starts'
    <3>1. starts \in Nat /\ starts' = starts
      BY <1>1, BoundAssumption DEF CronInv, TypeOK, counts
    <3> QED BY <1>7, <3>1 DEF CronInv, BodiesAreSound
  <2>6. \A i \in resuming' :
          /\ running'[i] # 0
          /\ tick'.stage # "idle" => running'[i] < tick'.n
          /\ \A b \in bodies' : /\ b.job = i => b.at = "safety"
                                /\ b.at # "resumed" => running'[i] < b.n
    <3>1. \A i \in resuming' : i \in resuming /\ i \in Jobs /\ i # j /\ running'[i] = running[i]
      BY <1>1, <1>7 DEF CronInv, TypeOK
    <3> QED BY <1>1, <1>4, <1>5, <3>1 DEF CronInv, BodiesAreSound
  <2> QED BY <2>2, <2>3, <2>4, <2>5, <2>6 DEF BodiesAreSound
<1>11. ChargesAreSound'
  <2>1. \A i : PaidIn(bodies', i) = Paid(i)
    BY <1>1, <1>4 DEF Paid, PaidIn
  <2> QED BY <1>1, <2>1 DEF CronInv, ChargesAreSound, Paid, table
<1>12. WorkIsOfTasks'
  <2>1. row[j].st # "unborn"
    BY <1>2 DEF CronInv, WorkIsOfTasks
  <2> QED BY <1>1, <1>4, <1>5, <1>7, <2>1 DEF CronInv, WorkIsOfTasks, table
<1>13. ResumedIsUncharged'
  <2>1. auth[j] # running[j]
    BY <1>1 DEF CronInv, ResumedIsUncharged
  <2>2. \A i \in resuming' : i \in resuming /\ running'[i] = running[i]
    BY <1>1, <1>7 DEF CronInv, TypeOK
  <2> QED BY <1>1, <1>4, <1>5, <2>1, <2>2 DEF CronInv, ResumedIsUncharged
<1> QED
  BY <1>8, <1>9, <1>10, <1>11, <1>12, <1>13 DEF CronInv

-----------------------------------------------------------------------------
(* The commands of the person.                                              *)

(* What a command may make of a task's row and of the wish for it.          *)
Commands(j, new) ==
  /\ new \in Row /\ row' = [row EXCEPT ![j] = new] /\ new.st # "unborn"
  /\ new.st = "there" => \/ row[j].st = "there" /\ new.spent = row[j].spent
                         \/ row[j].st = "unborn" /\ new.spent = 0
  /\ wish' \in [Jobs -> BOOLEAN] /\ begun' \in [Jobs -> Nat] /\ again' \in [Jobs -> Nat]
  /\ \A i \in Jobs \ {j} : wish'[i] = wish[i] /\ begun'[i] = begun[i]
  /\ new.st = "there" /\ new.on => wish'[j]
  /\ new.st = "there" /\ new.repeat => new.next # "none"
  /\ new.st = "there" /\ new.repeat /\ wish'[j] => new.on \/ kind[j] = "watch"
  /\ new.over => kind[j] = "watch"
  /\ begun'[j] <= 1 /\ (begun'[j] # 0 => new.next \in {"later", "none"})

LEMMA CommandKeeps ==
  ASSUME CronInv, NEW j \in Jobs, NEW new, Commanded(j), Commands(j, new),
         bodies' \subseteq Body, auth' \in [Jobs -> 0 .. MaxStarts],
         \A i \in Jobs : auth'[i] \in {auth[i], 0},
         \A i : PaidIn(bodies', i) = Paid(i),
         \A c \in bodies' : \E b \in bodies :
            b.job = c.job /\ b.n = c.n /\ b.at = c.at /\ b.cost = c.cost,
         \A c, d \in bodies' : c.job = d.job /\ c.n = d.n => c = d,
         UNCHANGED <<kind, tick, running, resuming, week, up, starts, crashes, billed>>
  PROVE  CronInv'
<1>1. /\ up /\ edits < MaxEdits /\ edits' = edits + 1
      /\ said' = IF tick.stage # "idle" /\ tick.job = j THEN said \cup {j} ELSE said
      /\ stale' = IF tick.stage = "idle" THEN {} ELSE stale \cup {j}
  BY DEF Commanded
<1>2. /\ row'[j] = new /\ row'[j] \in Row
      /\ \A i \in Jobs \ {j} : row'[i] = row[i]
  BY DEF Commands, CronInv, TypeOK
<1>3. TypeOK'
  <2>1. edits' \in 0 .. MaxEdits
    BY <1>1, BoundAssumption DEF CronInv, TypeOK
  <2>2. stale' \subseteq Jobs /\ said' \subseteq Jobs
    BY <1>1 DEF CronInv, TypeOK
  <2>3. row' \in [Jobs -> Row]
    BY DEF Commands, CronInv, TypeOK
  <2> QED BY <2>1, <2>2, <2>3 DEF Commands, CronInv, TypeOK
<1>4. TickIsSound'
  <2>1. said' \subseteq stale' /\ (tick.stage = "idle" => said' = {})
    BY <1>1 DEF CronInv, TickIsSound
  <2> QED BY <1>1, <2>1 DEF CronInv, TickIsSound
<1>5. SnapshotHolds'
  <2> SUFFICES ASSUME NEW i \in Awaited
               PROVE  /\ row'[i].st # "unborn"
                      /\ row'[i].st = "there" => row'[i].spent = tick.snap[i].spent
                      /\ row'[i].st = "there" /\ i \notin stale' => row'[i].repeat = tick.snap[i].repeat
                      /\ tick.snap[i].over => kind[i] = "watch"
                      /\ (i \in tick.rest /\ i \notin stale' /\ row'[i].st = "there"
                           /\ ~tick.snap[i].over) => row'[i].next \in {"due", "missed"}
    BY DEF SnapshotHolds, Awaited
  <2>1. tick.stage # "idle" /\ i \in Jobs
    BY DEF CronInv, TypeOK, TickIsSound, Awaited
  <2>2. /\ row[i].st # "unborn"
        /\ row[i].st = "there" => row[i].spent = tick.snap[i].spent
        /\ row[i].st = "there" /\ i \notin stale => row[i].repeat = tick.snap[i].repeat
        /\ tick.snap[i].over => kind[i] = "watch"
        /\ (i \in tick.rest /\ i \notin stale /\ row[i].st = "there"
             /\ ~tick.snap[i].over) => row[i].next \in {"due", "missed"}
    BY DEF CronInv, SnapshotHolds
  <2>3. CASE i = j
    BY <1>1, <1>2, <2>1, <2>2, <2>3 DEF Commands
  <2>4. CASE i # j
    BY <1>1, <1>2, <2>1, <2>2, <2>4
  <2> QED BY <2>3, <2>4
<1>6. RowsAreSound'
  <2> SUFFICES ASSUME NEW i \in Jobs
               PROVE  /\ row'[i].st = "there" /\ row'[i].on => wish'[i]
                      /\ row'[i].st = "there" /\ row'[i].repeat => row'[i].next # "none"
                      /\ row'[i].st = "there" /\ row'[i].repeat /\ wish'[i] =>
                           row'[i].on \/ kind'[i] = "watch"
                      /\ row'[i].over => kind'[i] = "watch"
                      /\ begun'[i] <= 1
                      /\ begun'[i] # 0 => row'[i].next \in {"later", "none"}
    BY DEF RowsAreSound
  <2>1. CASE i = j
    BY <1>2, <2>1 DEF Commands
  <2>2. CASE i # j
    BY <1>2, <2>2 DEF Commands, CronInv, RowsAreSound
  <2> QED BY <2>1, <2>2
<1>7. BodiesAreSound'
  BY BodiesStaySound
<1>8. ChargesAreSound'
  <2> SUFFICES ASSUME NEW i \in Jobs
               PROVE  /\ Cardinality(Paid(i)) <= billed[i]
                      /\ row'[i].st = "there" => row'[i].spent + Cardinality(Paid(i)) = billed[i]
                      /\ row'[i].st = "unborn" => billed[i] = 0
    BY DEF ChargesAreSound, Paid
  <2>1. /\ Cardinality(Paid(i)) <= billed[i]
        /\ row[i].st = "there" => row[i].spent + Cardinality(Paid(i)) = billed[i]
        /\ row[i].st = "unborn" => billed[i] = 0
        /\ Cardinality(Paid(i)) \in Nat
    BY PaidIsFinite DEF Paid, CronInv, ChargesAreSound
  <2>2. CASE i = j
    BY <1>2, <2>1, <2>2 DEF Commands
  <2>3. CASE i # j
    BY <1>2, <2>1, <2>3
  <2> QED BY <2>2, <2>3
<1>9. WorkIsOfTasks'
  <2>1. \A i \in Jobs : row[i].st # "unborn" => row'[i].st # "unborn"
    BY <1>2 DEF Commands
  <2> QED BY <2>1 DEF CronInv, WorkIsOfTasks, TypeOK, Body
<1>10. ResumedIsUncharged'
  BY UnchargedStays
<1> QED
  BY <1>3, <1>4, <1>5, <1>6, <1>7, <1>8, <1>9, <1>10 DEF CronInv

(* A command that stops a run stops it soundly, one that does not leaves    *)
(* the calls alone.                                                         *)
LEMMA StoppedOrNot ==
  ASSUME CronInv, NEW j \in Jobs, StopJob(j) \/ UNCHANGED <<bodies, auth>>
  PROVE  /\ bodies' \subseteq Body /\ auth' \in [Jobs -> 0 .. MaxStarts]
         /\ \A i \in Jobs : auth'[i] \in {auth[i], 0}
         /\ \A i : PaidIn(bodies', i) = Paid(i)
         /\ \A c \in bodies' : \E b \in bodies :
              b.job = c.job /\ b.n = c.n /\ b.at = c.at /\ b.cost = c.cost
         /\ \A c, d \in bodies' : c.job = d.job /\ c.n = d.n => c = d
<1>1. CASE StopJob(j)
  BY <1>1, StopJobIs DEF CronInv
<1>2. CASE UNCHANGED <<bodies, auth>>
  BY <1>2 DEF CronInv, TypeOK, BodiesAreSound, Paid
<1> QED
  BY <1>1, <1>2

LEMMA AddKeeps ==
  ASSUME CronInv, NEW j \in Jobs, Add(j)
  PROVE  CronInv'
<1>1. /\ row[j].st = "unborn" /\ Commanded(j) /\ wish' = [wish EXCEPT ![j] = TRUE]
      /\ UNCHANGED <<kind, tick, bodies, auth, running, resuming, week, up, starts, crashes,
                     begun, again, billed>>
  BY DEF Add
<1>2. PICK repeat \in BOOLEAN : row' = [row EXCEPT ![j] = Fresh(repeat)]
  BY DEF Add
<1>3. /\ Fresh(repeat) \in Row /\ Fresh(repeat).st = "there" /\ Fresh(repeat).spent = 0
      /\ Fresh(repeat).on = TRUE /\ Fresh(repeat).next = "later" /\ Fresh(repeat).over = FALSE
  BY DEF Fresh, Blank, Row
<1>4. Commands(j, Fresh(repeat))
  BY <1>1, <1>2, <1>3 DEF Commands, CronInv, TypeOK, RowsAreSound
<1> QED
  BY <1>1, <1>4, StoppedOrNot, CommandKeeps

LEMMA EditKeeps ==
  ASSUME CronInv, NEW j \in Jobs, Edit(j)
  PROVE  CronInv'
<1>1. /\ row[j].st = "there" /\ Commanded(j) /\ StopJob(j) /\ wish' = [wish EXCEPT ![j] = row[j].on]
      /\ UNCHANGED <<kind, tick, running, resuming, week, up, starts, crashes, billed>>
  BY DEF Edit
<1>2. /\ row[j] \in Row /\ (row[j].over => kind[j] = "watch")
      /\ row[j].repeat => row[j].next # "none"
      /\ begun[j] <= 1 /\ (begun[j] # 0 => row[j].next \in {"later", "none"})
      /\ begun \in [Jobs -> Nat] /\ again \in [Jobs -> Nat]
      /\ wish' \in [Jobs -> BOOLEAN] /\ wish'[j] = row[j].on
      /\ \A i \in Jobs \ {j} : wish'[i] = wish[i]
  BY <1>1 DEF CronInv, TypeOK, Row, RowsAreSound
<1>3. PICK over \in {FALSE, row[j].over} :
        \/ row' = [row EXCEPT ![j].over = over] /\ UNCHANGED <<begun, again>>
        \/ /\ \E new \in {<<TRUE, "later">>, <<FALSE, "later">>, <<FALSE, "none">>} :
                row' = [row EXCEPT ![j].over = over, ![j].repeat = new[1], ![j].next = new[2]]
           /\ begun' = [begun EXCEPT ![j] = 0] /\ again' = [again EXCEPT ![j] = 0]
  BY DEF Edit
<1>4. ASSUME row' = [row EXCEPT ![j].over = over], UNCHANGED <<begun, again>>
      PROVE  \E new : Commands(j, new)
  <2> DEFINE new == [row[j] EXCEPT !.over = over]
  <2>1. /\ new \in Row /\ new.st = "there" /\ new.spent = row[j].spent /\ new.on = row[j].on
        /\ new.next = row[j].next /\ new.repeat = row[j].repeat /\ (new.over => row[j].over)
    BY <1>1, <1>2 DEF Row
  <2>2. row' = [row EXCEPT ![j] = new]
    BY <1>4
  <2> HIDE DEF new
  <2> QED BY <1>1, <1>2, <1>4, <2>1, <2>2 DEF Commands
<1>5. ASSUME NEW pair \in {<<TRUE, "later">>, <<FALSE, "later">>, <<FALSE, "none">>},
             row' = [row EXCEPT ![j].over = over, ![j].repeat = pair[1], ![j].next = pair[2]],
             begun' = [begun EXCEPT ![j] = 0], again' = [again EXCEPT ![j] = 0]
      PROVE  \E new : Commands(j, new)
  <2> DEFINE new == [row[j] EXCEPT !.over = over, !.repeat = pair[1], !.next = pair[2]]
  <2>1. pair = <<TRUE, "later">> \/ pair = <<FALSE, "later">> \/ pair = <<FALSE, "none">>
    OBVIOUS
  <2>2. /\ new \in Row /\ new.st = "there" /\ new.spent = row[j].spent /\ new.on = row[j].on
        /\ new.next \in {"later", "none"} /\ (new.repeat => new.next = "later")
        /\ (new.over => row[j].over)
    <3>1. CASE pair = <<TRUE, "later">>
      BY <1>1, <1>2, <3>1 DEF Row
    <3>2. CASE pair = <<FALSE, "later">>
      BY <1>1, <1>2, <3>2 DEF Row
    <3>3. CASE pair = <<FALSE, "none">>
      BY <1>1, <1>2, <3>3 DEF Row
    <3> QED BY <2>1, <3>1, <3>2, <3>3
  <2>3. row' = [row EXCEPT ![j] = new]
    BY <1>5 DEF CronInv, TypeOK
  <2>4. /\ begun' \in [Jobs -> Nat] /\ again' \in [Jobs -> Nat] /\ begun'[j] = 0
        /\ \A i \in Jobs \ {j} : begun'[i] = begun[i]
    BY <1>2, <1>5
  <2> HIDE DEF new
  <2>5. /\ new.st = "there" /\ new.on => wish'[j]
        /\ new.st = "there" /\ new.repeat => new.next # "none"
        /\ new.st = "there" /\ new.repeat /\ wish'[j] => new.on \/ kind[j] = "watch"
        /\ new.over => kind[j] = "watch"
        /\ begun'[j] <= 1
    BY <1>2, <2>2, <2>4
  <2>6. Commands(j, new)
    BY <1>1, <1>2, <2>2, <2>3, <2>4, <2>5 DEF Commands
  <2> QED BY <2>6
<1>6. \E new : Commands(j, new)
  BY <1>3, <1>4, <1>5
<1> QED
  BY <1>1, <1>6, StoppedOrNot, CommandKeeps

LEMMA RemoveKeeps ==
  ASSUME CronInv, NEW j \in Jobs, Remove(j)
  PROVE  CronInv'
<1> DEFINE new == [Blank EXCEPT !.st = "gone"]
<1>1. /\ Commanded(j) /\ StopJob(j) /\ row' = [row EXCEPT ![j] = new] /\ wish' = [wish EXCEPT ![j] = FALSE]
      /\ UNCHANGED <<kind, tick, running, resuming, week, up, starts, crashes, begun, again, billed>>
  BY DEF Remove
<1>2. new \in Row /\ new.st = "gone" /\ new.over = FALSE /\ new.next = "none"
  BY DEF Blank, Row
<1> HIDE DEF new
<1>3. Commands(j, new)
  BY <1>1, <1>2 DEF Commands, CronInv, TypeOK, RowsAreSound
<1> QED
  BY <1>1, <1>3, StoppedOrNot, CommandKeeps

LEMMA ToggleKeeps ==
  ASSUME CronInv, NEW j \in Jobs, NEW on \in BOOLEAN, Toggle(j, on)
  PROVE  CronInv'
<1> DEFINE new == SetEnabled(row[j], on)
<1>1. /\ row[j].st = "there" /\ Commanded(j)
      /\ StopJob(j) \/ UNCHANGED <<bodies, auth>>
      /\ row' = [row EXCEPT ![j] = new] /\ wish' = [wish EXCEPT ![j] = on]
      /\ IF on THEN begun' = [begun EXCEPT ![j] = 0] /\ again' = [again EXCEPT ![j] = 0]
               ELSE UNCHANGED <<begun, again>>
      /\ UNCHANGED <<kind, tick, running, resuming, week, up, starts, crashes, billed>>
  BY DEF Toggle
<1>2. /\ row[j] \in Row /\ (row[j].over => kind[j] = "watch")
      /\ row[j].repeat => row[j].next # "none"
      /\ begun[j] <= 1 /\ (begun[j] # 0 => row[j].next \in {"later", "none"})
      /\ begun \in [Jobs -> Nat] /\ again \in [Jobs -> Nat]
      /\ wish' \in [Jobs -> BOOLEAN] /\ wish'[j] = on
      /\ \A i \in Jobs \ {j} : wish'[i] = wish[i]
  BY <1>1 DEF CronInv, TypeOK, RowsAreSound
<1>3. /\ begun' \in [Jobs -> Nat] /\ again' \in [Jobs -> Nat]
      /\ begun'[j] = (IF on THEN 0 ELSE begun[j])
      /\ \A i \in Jobs \ {j} : begun'[i] = begun[i]
  BY <1>1, <1>2
<1>4. /\ new \in Row /\ new.st = "there" /\ new.repeat = row[j].repeat /\ new.over = row[j].over
      /\ new.spent = row[j].spent /\ new.on = on
      /\ IF on THEN new.repeat => new.next = "later" ELSE new.next = row[j].next
  <2>1. CASE on = TRUE
    BY <1>1, <1>2, <2>1, SwitchedOnIs
  <2>2. CASE on = FALSE
    BY <1>1, <1>2, <2>2, SwitchedOffIs
  <2> QED BY <2>1, <2>2
<1> HIDE DEF new
<1>5. Commands(j, new)
  BY <1>1, <1>2, <1>3, <1>4 DEF Commands
<1> QED
  BY <1>1, <1>5, StoppedOrNot, CommandKeeps

-----------------------------------------------------------------------------
(* Time, and the process.                                                   *)

LEMMA TimeComesKeeps ==
  ASSUME CronInv, NEW j \in Jobs, TimeComes(j)
  PROVE  CronInv'
<1>1. /\ row[j].next = "later" /\ row' = [row EXCEPT ![j].next = "due"]
      /\ begun' = [begun EXCEPT ![j] = 0] /\ again' = [again EXCEPT ![j] = 0]
      /\ UNCHANGED <<kind, stale, tick, bodies, auth, resuming, up, running, week, counts,
                     wish, said, billed>>
  BY DEF TimeComes, process
<1>2. /\ row' \in [Jobs -> Row] /\ \A i \in Jobs \ {j} : row'[i] = row[i]
      /\ row'[j].next = "due"
      /\ row'[j].st = row[j].st /\ row'[j].on = row[j].on /\ row'[j].repeat = row[j].repeat
      /\ row'[j].over = row[j].over /\ row'[j].spent = row[j].spent
  BY <1>1 DEF CronInv, TypeOK, Row
<1>3. /\ begun' \in [Jobs -> Nat] /\ again' \in [Jobs -> Nat]
      /\ begun'[j] = 0 /\ \A i \in Jobs \ {j} : begun'[i] = begun[i]
  BY <1>1 DEF CronInv, TypeOK
<1>4. TypeOK'
  BY <1>1, <1>2, <1>3 DEF CronInv, TypeOK, counts
<1>5. TickIsSound'
  BY <1>1 DEF CronInv, TickIsSound, counts
<1>6. SnapshotHolds'
  <2>1. \A i \in Jobs : /\ row'[i].st = row[i].st /\ row'[i].spent = row[i].spent
                        /\ row'[i].repeat = row[i].repeat
                        /\ row'[i].next = row[i].next \/ row'[i].next = "due"
    BY <1>2
  <2>2. Awaited' = Awaited /\ (tick.rest # {} => tick.stage # "idle")
        /\ tick.rest \subseteq Jobs
    BY <1>1 DEF Awaited, CronInv, TickIsSound, TypeOK
  <2>3. Awaited \subseteq Jobs
    BY <2>2 DEF Awaited, CronInv, TickIsSound, TypeOK
  <2> QED BY <1>1, <2>1, <2>2, <2>3 DEF CronInv, SnapshotHolds
<1>7. RowsAreSound'
  <2>1. kind' = kind /\ wish' = wish
    BY <1>1
  <2> QED BY <1>2, <1>3, <2>1 DEF CronInv, RowsAreSound
<1>8. BodiesAreSound'
  BY <1>1 DEF CronInv, BodiesAreSound, counts
<1>9. ChargesAreSound' /\ WorkIsOfTasks' /\ ResumedIsUncharged'
  <2>1. ChargesAreSound'
    <3>1. \A i \in Jobs : row'[i].st = row[i].st /\ row'[i].spent = row[i].spent
      BY <1>2
    <3> QED BY <1>1, <3>1 DEF CronInv, ChargesAreSound, Paid
  <2>2. WorkIsOfTasks'
    <3>1. \A i \in Jobs : row'[i].st = row[i].st
      BY <1>2
    <3> QED BY <1>1, <3>1 DEF CronInv, WorkIsOfTasks, TypeOK, Body
  <2>3. ResumedIsUncharged'
    BY <1>1 DEF CronInv, ResumedIsUncharged
  <2> QED BY <2>1, <2>2, <2>3
<1> QED
  BY <1>4, <1>5, <1>6, <1>7, <1>8, <1>9 DEF CronInv

LEMMA ExpiresKeeps ==
  ASSUME CronInv, NEW j \in Jobs, Expires(j)
  PROVE  CronInv'
<1>1. /\ kind[j] = "watch" /\ row' = [row EXCEPT ![j].over = TRUE]
      /\ UNCHANGED <<kind, stale, tick, bodies, auth, resuming, up, running, week, counts, history>>
  BY DEF Expires, process
<1>2. /\ row' \in [Jobs -> Row] /\ \A i \in Jobs \ {j} : row'[i] = row[i]
      /\ row'[j].st = row[j].st /\ row'[j].on = row[j].on /\ row'[j].repeat = row[j].repeat
      /\ row'[j].next = row[j].next /\ row'[j].spent = row[j].spent
  <2> DEFINE new == [row[j] EXCEPT !.over = TRUE]
  <2>1. row \in [Jobs -> Row] /\ row[j] \in Row
    BY DEF CronInv, TypeOK
  <2>2. /\ new \in Row
        /\ new.st = row[j].st /\ new.on = row[j].on /\ new.repeat = row[j].repeat
        /\ new.next = row[j].next /\ new.spent = row[j].spent
    BY <2>1 DEF Row
  <2>3. row' = [row EXCEPT ![j] = new]
    BY <1>1
  <2> HIDE DEF new
  <2> QED BY <2>1, <2>2, <2>3
<1>3. TypeOK'
  BY <1>1, <1>2 DEF CronInv, TypeOK, counts, history
<1>4. TickIsSound'
  BY <1>1 DEF CronInv, TickIsSound, counts, history
<1>5. SnapshotHolds'
  <2>1. \A i \in Jobs : /\ row'[i].st = row[i].st /\ row'[i].spent = row[i].spent
                        /\ row'[i].repeat = row[i].repeat /\ row'[i].next = row[i].next
    BY <1>2
  <2>2. Awaited' = Awaited /\ tick.rest \subseteq Jobs
    BY <1>1 DEF Awaited, CronInv, TypeOK
  <2>3. Awaited \subseteq Jobs
    BY <2>2 DEF Awaited, CronInv, TickIsSound, TypeOK
  <2> QED BY <1>1, <2>1, <2>2, <2>3 DEF CronInv, SnapshotHolds
<1>6. RowsAreSound'
  <2>1. kind' = kind /\ wish' = wish /\ begun' = begun
    BY <1>1 DEF history
  <2> QED BY <1>1, <1>2, <2>1 DEF CronInv, RowsAreSound
<1>7. BodiesAreSound'
  BY <1>1 DEF CronInv, BodiesAreSound, counts
<1>8. ChargesAreSound'
  <2>1. \A i \in Jobs : row'[i].st = row[i].st /\ row'[i].spent = row[i].spent
    BY <1>2
  <2> QED BY <1>1, <2>1 DEF CronInv, ChargesAreSound, Paid, history
<1>9. WorkIsOfTasks'
  <2>1. \A i \in Jobs : row'[i].st = row[i].st
    BY <1>2
  <2> QED BY <1>1, <2>1 DEF CronInv, WorkIsOfTasks, TypeOK, Body
<1>10. ResumedIsUncharged'
  BY <1>1 DEF CronInv, ResumedIsUncharged
<1> QED
  BY <1>3, <1>4, <1>5, <1>6, <1>7, <1>8, <1>9, <1>10 DEF CronInv

LEMMA WeekKeeps ==
  ASSUME CronInv, WeekPasses
  PROVE  CronInv'
<1>1. /\ week' \in Nat
      /\ UNCHANGED <<table, process, running, counts, history>>
  BY DEF WeekPasses, CronInv, TypeOK
<1>2. TypeOK'
  BY <1>1 DEF CronInv, TypeOK, table, process, counts, history
<1> QED
  BY <1>1, <1>2 DEF CronInv, TickIsSound, SnapshotHolds, Awaited, RowsAreSound, BodiesAreSound,
                    ChargesAreSound, Paid, WorkIsOfTasks, ResumedIsUncharged,
                    table, process, counts, history

(* What the calls of a task have in hand is counted by their numbers.       *)
LEMMA InHandIsPaid ==
  ASSUME TypeOK, BodiesAreSound, NEW j \in Jobs
  PROVE  InHand(j) = Cardinality(Paid(j))
<1> DEFINE S == {b \in bodies : b.job = j /\ b.cost = 1}
           f == [b \in S |-> b.n]
<1>1. f \in [S -> Paid(j)]
  BY DEF Paid, PaidIn, TypeOK, Body
<1>2. \A b, c \in S : f[b] = f[c] => b = c
  BY DEF BodiesAreSound
<1>3. \A n \in Paid(j) : \E b \in S : f[b] = n
  BY DEF Paid, PaidIn
<1> HIDE DEF S, f
<1>4. f \in Injection(S, Paid(j)) /\ f \in Surjection(S, Paid(j))
  BY <1>1, <1>2, <1>3 DEF Injection, Surjection, IsInjective
<1>5. IsFiniteSet(Paid(j))
  BY PaidIsFinite DEF Paid
<1>6. Cardinality(S) = Cardinality(Paid(j))
  BY <1>4, <1>5, FS_Injection
<1> QED
  BY <1>6 DEF InHand, S

(* What the dead process had in hand is nobody's to report.                 *)
LEMMA CrashKeeps ==
  ASSUME CronInv, Crash
  PROVE  CronInv'
<1>1. /\ crashes < MaxCrashes /\ ~up' /\ crashes' = crashes + 1
      /\ tick' = Idle /\ bodies' = {} /\ auth' = [j \in Jobs |-> 0] /\ resuming' = {}
      /\ stale' = {} /\ said' = {} /\ up' \in BOOLEAN
      /\ billed' = [j \in Jobs |-> billed[j] - InHand(j)]
      /\ UNCHANGED <<kind, row, running, week, starts, edits, begun, again, wish>>
  BY DEF Crash
<1>2. /\ tick'.stage = "idle" /\ tick'.rest = {} /\ DOMAIN tick'.snap = {} /\ tick'.job = 0
      /\ tick'.n = 0
      /\ tick' = [stage |-> tick'.stage, rest |-> tick'.rest, snap |-> tick'.snap,
                  job |-> tick'.job, n |-> tick'.n]
  BY <1>1 DEF Idle
<1>3. 0 \in 0 .. MaxStarts /\ starts \in Nat /\ crashes' \in 0 .. MaxCrashes
  BY <1>1, BoundAssumption DEF CronInv, TypeOK
<1>4. \A j \in Jobs :
        /\ billed'[j] = billed[j] - Cardinality(Paid(j)) /\ Cardinality(Paid(j)) \in Nat
        /\ billed[j] \in Nat /\ Cardinality(Paid(j)) <= billed[j] /\ row[j].spent \in Nat
        /\ row[j].st = "there" => row[j].spent + Cardinality(Paid(j)) = billed[j]
        /\ row[j].st = "unborn" => billed[j] = 0
  BY <1>1, InHandIsPaid, PaidIsFinite DEF Paid, CronInv, TypeOK, Row, ChargesAreSound
<1>5. /\ \A j \in Jobs : billed'[j] \in Nat
      /\ \A j \in Jobs : row[j].st = "there" => row[j].spent = billed'[j]
      /\ \A j \in Jobs : row[j].st = "unborn" => billed'[j] = 0
  BY <1>4
<1>6. billed' \in [Jobs -> Nat]
  BY <1>1, <1>5
<1>7. TypeOK'
  BY <1>1, <1>2, <1>3, <1>6 DEF CronInv, TypeOK
<1>8. TickIsSound'
  BY <1>1, <1>2, <1>3 DEF TickIsSound
<1>9. SnapshotHolds'
  BY <1>2 DEF SnapshotHolds, Awaited
<1>10. RowsAreSound'
  BY <1>1 DEF CronInv, RowsAreSound
<1>11. BodiesAreSound'
  BY <1>1 DEF CronInv, BodiesAreSound
<1>12. ChargesAreSound'
  <2>1. \A j : PaidIn(bodies', j) = {}
    BY <1>1 DEF PaidIn
  <2>2. \A j : Cardinality(PaidIn(bodies', j)) = 0
    BY <2>1, FS_EmptySet
  <2>3. \A j \in Jobs : row[j].spent + 0 = row[j].spent /\ 0 <= billed'[j]
    BY <1>4, <1>5
  <2> QED BY <1>1, <1>5, <2>2, <2>3 DEF ChargesAreSound, Paid
<1>13. WorkIsOfTasks' /\ ResumedIsUncharged'
  BY <1>1 DEF CronInv, WorkIsOfTasks, ResumedIsUncharged
<1> QED
  BY <1>7, <1>8, <1>9, <1>10, <1>11, <1>12, <1>13 DEF CronInv

LEMMA BootKeeps ==
  ASSUME CronInv, Boot
  PROVE  CronInv'
<1>1. /\ ~up /\ up' = TRUE
      /\ row' = [j \in Jobs |-> IF row[j].next = "due" THEN [row[j] EXCEPT !.next = "missed"] ELSE row[j]]
      /\ resuming' = {j \in Jobs : running[j] # 0}
      /\ UNCHANGED <<kind, stale, tick, bodies, auth, running, week, counts, history>>
  BY DEF Boot
<1>2. /\ tick.stage = "idle" /\ tick.rest = {} /\ said = {} /\ bodies = {}
      /\ auth = [j \in Jobs |-> 0]
  BY <1>1 DEF CronInv, TickIsSound, ResumedIsUncharged
<1>3. \A j \in Jobs :
        /\ row'[j] \in Row
        /\ row'[j].st = row[j].st /\ row'[j].on = row[j].on /\ row'[j].repeat = row[j].repeat
        /\ row'[j].over = row[j].over /\ row'[j].spent = row[j].spent
        /\ row'[j].next = IF row[j].next = "due" THEN "missed" ELSE row[j].next
  BY <1>1, SMTT(20) DEF CronInv, TypeOK, Row
<1>4. TypeOK'
  <2>1. row' \in [Jobs -> Row]
    BY <1>1, <1>3
  <2> QED BY <1>1, <2>1 DEF CronInv, TypeOK, counts, history
<1>5. TickIsSound'
  BY <1>1, <1>2 DEF CronInv, TickIsSound, counts, history
<1>6. SnapshotHolds'
  BY <1>1, <1>2 DEF SnapshotHolds, Awaited
<1>7. RowsAreSound'
  <2>1. kind' = kind /\ wish' = wish /\ begun' = begun
    BY <1>1 DEF history
  <2> QED BY <1>3, <2>1 DEF CronInv, RowsAreSound
<1>8. BodiesAreSound'
  BY <1>1, <1>2 DEF CronInv, BodiesAreSound, counts
<1>9. ChargesAreSound'
  BY <1>1, <1>3 DEF CronInv, ChargesAreSound, Paid, history
<1>10. WorkIsOfTasks'
  BY <1>1, <1>2, <1>3 DEF CronInv, WorkIsOfTasks
<1>11. ResumedIsUncharged'
  BY <1>1, <1>2 DEF ResumedIsUncharged
<1> QED
  BY <1>4, <1>5, <1>6, <1>7, <1>8, <1>9, <1>10, <1>11 DEF CronInv

-----------------------------------------------------------------------------
(* The invariant.                                                           *)

LEMMA InitSound ==
  Init => CronInv
<1> SUFFICES ASSUME Init PROVE CronInv
  OBVIOUS
<1>1. PICK n \in 0 .. Cardinality(Initial), once \in SUBSET Initial :
        row = [j \in Jobs |-> IF j \in Initial /\ j <= n THEN Fresh(j \notin once) ELSE Blank]
  BY DEF Init
<1>2. /\ kind \in Casts /\ tick = Idle /\ stale = {} /\ bodies = {} /\ resuming = {} /\ said = {}
      /\ auth = [j \in Jobs |-> 0] /\ running = [j \in Jobs |-> 0]
      /\ week = 0 /\ up = TRUE /\ starts = 0 /\ edits = 0 /\ crashes = 0
      /\ begun = [j \in Jobs |-> 0] /\ again = [j \in Jobs |-> 0]
      /\ wish = [j \in Jobs |-> row[j].st = "there"]
      /\ billed = [j \in Jobs |-> 0]
  BY DEF Init
<1>3. /\ Blank \in Row /\ Blank.st = "unborn" /\ Blank.over = FALSE
      /\ \A repeat \in BOOLEAN :
           /\ Fresh(repeat) \in Row /\ Fresh(repeat).st = "there" /\ Fresh(repeat).spent = 0
           /\ Fresh(repeat).on = TRUE /\ Fresh(repeat).next = "later" /\ Fresh(repeat).over = FALSE
  BY DEF Blank, Fresh, Row
<1>4. \A j \in Jobs :
        /\ row[j] \in Row /\ row[j].over = FALSE
        /\ row[j].st = "there" => row[j].on = TRUE /\ row[j].next = "later" /\ row[j].spent = 0
  <2> SUFFICES ASSUME NEW j \in Jobs
               PROVE  /\ row[j] \in Row /\ row[j].over = FALSE
                      /\ row[j].st = "there" =>
                           row[j].on = TRUE /\ row[j].next = "later" /\ row[j].spent = 0
    OBVIOUS
  <2>1. row[j] = Blank \/ \E repeat \in BOOLEAN : row[j] = Fresh(repeat)
    BY <1>1
  <2> QED BY <1>3, <2>1
<1>5. row \in [Jobs -> Row]
  BY <1>1, <1>4
<1>6. /\ tick.stage = "idle" /\ tick.rest = {} /\ DOMAIN tick.snap = {} /\ tick.job = 0
      /\ tick.n = 0
      /\ tick = [stage |-> tick.stage, rest |-> tick.rest, snap |-> tick.snap,
                 job |-> tick.job, n |-> tick.n]
  BY <1>2 DEF Idle
<1>7. TypeOK
  BY <1>2, <1>5, <1>6, BoundAssumption DEF TypeOK
<1>8. TickIsSound /\ SnapshotHolds
  BY <1>2, <1>6 DEF TickIsSound, SnapshotHolds, Awaited
<1>9. RowsAreSound
  <2>1. \A j \in Jobs : row[j].st = "there" => wish[j]
    BY <1>2
  <2>2. \A j \in Jobs : begun[j] = 0
    BY <1>2
  <2> QED BY <1>4, <2>1, <2>2 DEF RowsAreSound
<1>10. BodiesAreSound /\ WorkIsOfTasks /\ ResumedIsUncharged
  BY <1>2 DEF BodiesAreSound, WorkIsOfTasks, ResumedIsUncharged
<1>11. ChargesAreSound
  <2>1. \A j : PaidIn(bodies, j) = {}
    BY <1>2 DEF PaidIn
  <2>2. \A j : Cardinality(PaidIn(bodies, j)) = 0
    BY <2>1, FS_EmptySet
  <2> QED BY <1>2, <1>4, <2>2 DEF ChargesAreSound, Paid
<1> QED
  BY <1>7, <1>8, <1>9, <1>10, <1>11 DEF CronInv

LEMMA StepSound ==
  CronInv /\ [Next]_vars => CronInv'
<1> SUFFICES ASSUME CronInv, [Next]_vars PROVE CronInv'
  OBVIOUS
<1>1. CASE Tick
  BY <1>1, TickIsReady, WalkKeeps DEF Tick
<1>2. CASE Continue
  BY <1>2, ContinueIsReady, WalkKeeps DEF Continue
<1>3. CASE Remind \/ Watched \/ GraceOver
  BY <1>3, RemindKeeps
<1>4. CASE Delivered
  BY <1>4, DeliveredKeeps
<1>5. CASE TimesOut
  BY <1>5, TimesOutKeeps
<1>6. CASE Work
  BY <1>6, OpenRunKeeps, BillKeeps, CloseRunKeeps, ReturnKeeps, EndResumedKeeps DEF Work
<1>7. CASE \E j \in Jobs : Resume(j)
  BY <1>7, ResumeKeeps
<1>8. CASE Command
  BY <1>8, AddKeeps, EditKeeps, RemoveKeeps, ToggleKeeps DEF Command
<1>9. CASE Clock
  BY <1>9, TimeComesKeeps, ExpiresKeeps, WeekKeeps DEF Clock
<1>10. CASE Crash
  BY <1>10, CrashKeeps
<1>11. CASE Boot
  BY <1>11, BootKeeps
<1>12. CASE UNCHANGED vars
  BY <1>12 DEF vars, CronInv, TypeOK, TickIsSound, SnapshotHolds, Awaited, RowsAreSound,
               BodiesAreSound, ChargesAreSound, Paid, WorkIsOfTasks, ResumedIsUncharged
<1> QED
  BY <1>1, <1>2, <1>3, <1>4, <1>5, <1>6, <1>7, <1>8, <1>9, <1>10, <1>11, <1>12 DEF Next

LEMMA AlwaysSound ==
  Spec => []CronInv
BY InitSound, StepSound, PTL DEF Spec

-----------------------------------------------------------------------------
(* The theorems.                                                            *)

(* The scheduler's state keeps its types, and no run starts beyond the      *)
(* bound.                                                                   *)
THEOREM CronType ==
  Spec => []TypeOK
<1>1. CronInv => TypeOK
  BY DEF CronInv
<1> QED
  BY <1>1, AlwaysSound, PTL

(* However many tasks, runs, commands and crashes: the scheduler begins an  *)
(* occurrence of a task once.  claimRun moves the next time before the run  *)
(* (jobs.ts), so a task whose occurrence has begun is not due until its     *)
(* person or the clock makes a new one of it.                               *)
THEOREM OccurrenceBegunOnce ==
  Spec => []BegunOnce
<1>1. CronInv => BegunOnce
  BY DEF CronInv, RowsAreSound, BegunOnce
<1> QED
  BY <1>1, AlwaysSound, PTL

(* A repeating task its person left on stays on and has a next time: what   *)
(* switches a task off at the end of its run or in the walk reads a         *)
(* snapshot, which says of a row that was not touched whether it repeats.   *)
THEOREM RepeatingArmed ==
  Spec => []RepeatingStaysArmed
<1>1. CronInv => RepeatingStaysArmed
  BY DEF CronInv, RowsAreSound, RepeatingStaysArmed
<1> QED
  BY <1>1, AlwaysSound, PTL

(* The total settleSpend writes is the snapshot's plus the run's, and still *)
(* no charge is lost or counted twice, because no other run of the task is  *)
(* settled between the claim and the end of the one awaited.                *)
THEOREM ChargesSettled ==
  Spec => []ChargesAreSettled
<1>1. CronInv => ChargesAreSettled
  <2> SUFFICES ASSUME CronInv, NEW j \in Jobs, row[j].st = "there"
               PROVE  row[j].spent + InHand(j) = billed[j]
    BY DEF ChargesAreSettled
  <2>1. InHand(j) = Cardinality(Paid(j))
    BY InHandIsPaid DEF CronInv
  <2> QED BY <2>1 DEF CronInv, ChargesAreSound
<1> QED
  BY <1>1, AlwaysSound, PTL

(* No run begins of a task that is paused or gone: the walk asks the row    *)
(* and not its snapshot (claimRun), and a row that is on is wanted.         *)
LEMMA BeginningIsWanted ==
  ASSUME CronInv, [Next]_vars, NEW j \in Jobs, begun'[j] > begun[j]
  PROVE  wish[j] /\ row[j].st = "there"
<1>1. /\ TypeOK /\ begun \in [Jobs -> Nat]
  BY DEF CronInv, TypeOK
<1>2. ASSUME NEW rest, NEW snap, NEW moved,
             WalkReady(rest, snap, moved), Walk(rest, snap, moved)
      PROVE  wish[j] /\ row[j].st = "there"
  <2>1. WalkEnds(rest, snap, moved) \/ \E first \in rest : Begins(first, rest, snap, moved)
    BY <1>1, <1>2, WalkIs
  <2>2. begun' # begun
    BY <1>1
  <2>3. PICK first \in rest : Begins(first, rest, snap, moved)
    BY <2>1, <2>2 DEF WalkEnds
  <2>4. begun' = [begun EXCEPT ![first] = @ + 1] /\ Claimable(first, moved)
    BY <2>3 DEF Begins
  <2>5. j = first
    BY <1>1, <2>4
  <2> QED BY <2>4, <2>5 DEF Claimable, CronInv, RowsAreSound
<1>3. CASE Tick
  <2>1. Walk({i \in Jobs : Due(i)}, [i \in {i \in Jobs : Due(i)} |-> row[i]], {})
    BY <1>3 DEF Tick
  <2>2. WalkReady({i \in Jobs : Due(i)}, [i \in {i \in Jobs : Due(i)} |-> row[i]], {})
    BY TickIsReady
  <2> QED BY <1>2, <2>1, <2>2
<1>4. CASE Continue
  BY <1>2, <1>4, ContinueIsReady DEF Continue
<1>5. CASE begun' = begun
  BY <1>1, <1>5
<1>6. CASE \E i \in Jobs : begun' = [begun EXCEPT ![i] = 0]
  <2>1. PICK i \in Jobs : begun' = [begun EXCEPT ![i] = 0]
    BY <1>6
  <2>2. begun'[j] = begun[j] \/ begun'[j] = 0
    BY <1>1, <2>1
  <2> QED BY <1>1, <2>2
<1>7. Next => Tick \/ Continue \/ begun' = begun \/ \E i \in Jobs : begun' = [begun EXCEPT ![i] = 0]
  <2>1. Remind \/ Watched \/ Delivered \/ TimesOut \/ GraceOver \/ Crash \/ Boot => begun' = begun
    BY DEF Remind, Watched, Delivered, TimesOut, GraceOver, Crash, Boot, history
  <2>2. Work => begun' = begun
    BY DEF Work, OpenRun, Bill, CloseRun, Return, EndResumed, history
  <2>3. \A i \in Jobs : Resume(i) => begun' = begun
    BY DEF Resume
  <2>4. Command => begun' = begun \/ \E i \in Jobs : begun' = [begun EXCEPT ![i] = 0]
    BY DEF Command, Add, Edit, Remove, Toggle
  <2>5. Clock => begun' = begun \/ \E i \in Jobs : begun' = [begun EXCEPT ![i] = 0]
    BY DEF Clock, WeekPasses, TimeComes, Expires, history
  <2> QED BY <2>1, <2>2, <2>3, <2>4, <2>5 DEF Next
<1> QED
  BY <1>3, <1>4, <1>5, <1>6, <1>7 DEF vars

(* No run begins of a task its person paused or removed, also in the middle *)
(* of a walk: claimRun claims the row the walk has read or none (jobs.ts).  *)
THEOREM RunsAreWanted ==
  Spec => NothingRunsUnwanted
<1>1. CronInv /\ [Next]_vars =>
        [\A j \in Jobs : begun'[j] > begun[j] => wish[j] /\ row[j].st = "there"]_vars
  BY BeginningIsWanted
<1> QED
  BY <1>1, AlwaysSound, PTL DEF Spec, NothingRunsUnwanted

(* What a step may do to a task its person changed while its run was        *)
(* awaited.                                                                 *)
LeftAlone(j) ==
  /\ row'[j].on = row[j].on /\ row'[j].repeat = row[j].repeat
  /\ row'[j].next \in {row[j].next, "due"}
  /\ (row'[j].next # row[j].next => row[j].next = "later" /\ tick' = tick)
  /\ ~(tick.stage \in {"running", "grace"} /\ tick'.stage = "deliver")

LEMMA SaidIsLeftAlone ==
  ASSUME CronInv, [Next]_vars, tick.job \in said, edits' = edits
  PROVE  LeftAlone(tick.job)
<1> DEFINE j == tick.job
<1>1. /\ tick.stage # "idle" /\ up /\ j \in stale /\ j \in Jobs /\ TypeOK
      /\ \A i \in tick.rest : j < i
      /\ tick = [stage |-> tick.stage, rest |-> tick.rest, snap |-> tick.snap,
                 job |-> tick.job, n |-> tick.n]
      /\ j \in DOMAIN tick.snap /\ edits \in Nat
  BY BoundAssumption DEF CronInv, TypeOK, TickIsSound
<1>2. CASE row' = row /\ tick' = tick
  BY <1>2 DEF LeftAlone
<1>3. ASSUME NEW charge \in 0 .. 1, NEW status, Conclude(j, charge, status)
      PROVE  LeftAlone(j)
  <2>1. /\ Concluded(j, charge)
        /\ \E stage \in {"deliver", "next"} :
             /\ tick' = [tick EXCEPT !.stage = stage]
             /\ stage = "deliver" => j \notin stale
    <3>1. charge \in Nat
      OBVIOUS
    <3> QED BY <1>1, <1>3, <3>1, ConcludeIs
  <2>2. tick' = [tick EXCEPT !.stage = "next"]
    BY <1>1, <2>1
  <2>3. tick'.stage = "next"
    <3>1. tick' = [stage |-> "next", rest |-> tick.rest, snap |-> tick.snap,
                   job |-> tick.job, n |-> tick.n]
      BY <1>1, <2>2
    <3> QED BY <3>1
  <2> QED BY <1>1, <2>1, <2>3 DEF Concluded, LeftAlone
<1>4. CASE Continue
  <2>1. /\ tick.stage = "next"
        /\ WalkEnds(tick.rest, tick.snap, stale) \/ \E first \in tick.rest : Begins(first, tick.rest, tick.snap, stale)
    BY <1>1, <1>4, ContinueIsReady, WalkIs DEF Continue
  <2>2. j \notin tick.rest
    BY <1>1, JobAssumption
  <2>3. row'[j] = row[j]
    BY <1>1, <2>1, <2>2 DEF WalkEnds, Begins
  <2> QED BY <2>1, <2>3 DEF LeftAlone
<1>5. CASE Remind \/ Watched \/ GraceOver
  BY <1>3, <1>5 DEF Remind, Watched, GraceOver
<1>6. CASE Delivered \/ TimesOut
  <2>1. row' = row /\ \E stage \in {"grace", "next"} : tick' = [tick EXCEPT !.stage = stage]
    BY <1>6 DEF Delivered, TimesOut, table
  <2>2. PICK stage \in {"grace", "next"} : tick' = [tick EXCEPT !.stage = stage]
    BY <2>1
  <2>3. tick' = [stage |-> stage, rest |-> tick.rest, snap |-> tick.snap,
                 job |-> tick.job, n |-> tick.n]
    BY <1>1, <2>2
  <2> QED BY <2>1, <2>3 DEF LeftAlone
<1>7. CASE Work
  <2>1. PICK b \in bodies : OpenRun(b) \/ Bill(b) \/ CloseRun(b) \/ Return(b) \/ EndResumed(b)
    BY <1>7 DEF Work
  <2>2. CASE OpenRun(b) \/ Bill(b) \/ CloseRun(b) \/ EndResumed(b)
    BY <1>2, <2>2 DEF OpenRun, Bill, CloseRun, EndResumed, table
  <2>3. CASE Return(b)
    <3>1. \/ row' = row /\ tick' = tick
          \/ /\ tick.n = b.n /\ tick.stage \in {"running", "grace"}
             /\ \E status : Conclude(b.job, b.cost, status)
      BY <2>3 DEF Return, table
    <3>2. b.cost \in 0 .. 1
      BY DEF CronInv, TypeOK, Body
    <3>3. tick.n = b.n /\ tick.stage \in {"running", "grace"} => b.job = j
      BY DEF CronInv, BodiesAreSound
    <3> QED BY <1>2, <1>3, <3>1, <3>2, <3>3
  <2> QED BY <2>1, <2>2, <2>3
<1>8. CASE \E i \in Jobs : Resume(i)
  BY <1>2, <1>8 DEF Resume, table
<1>9. CASE Command
  <2>1. \E i \in Jobs : Commanded(i)
    BY <1>9 DEF Command, Add, Edit, Remove, Toggle
  <2>2. edits' = edits + 1
    BY <2>1 DEF Commanded
  <2> QED BY <1>1, <2>2
<1>10. CASE WeekPasses
  BY <1>2, <1>10 DEF WeekPasses, table, process
<1>11. ASSUME NEW i \in Jobs, TimeComes(i) \/ Expires(i)
       PROVE  LeftAlone(j)
  <2>1. /\ tick' = tick
        /\ \/ row[i].next = "later" /\ row' = [row EXCEPT ![i].next = "due"]
           \/ row' = [row EXCEPT ![i].over = TRUE]
    BY <1>11 DEF TimeComes, Expires, process
  <2>2. row \in [Jobs -> Row] /\ row[i] \in Row
    BY DEF CronInv, TypeOK
  <2>3. CASE i # j
    BY <1>1, <2>1, <2>2, <2>3 DEF LeftAlone
  <2>4. CASE i = j
    BY <1>1, <2>1, <2>2, <2>4 DEF LeftAlone, Row
  <2> QED BY <2>3, <2>4
<1>12. CASE Crash
  BY <1>12 DEF Crash, Idle, LeftAlone
<1>13. ~Tick /\ ~Boot
  BY <1>1 DEF Tick, Boot
<1>14. CASE UNCHANGED vars
  BY <1>2, <1>14 DEF vars
<1> QED
  BY <1>4, <1>5, <1>6, <1>7, <1>8, <1>9, <1>10, <1>11, <1>12, <1>13, <1>14 DEF Next, Clock

(* After the person changed, paused or removed a task, its run in progress  *)
(* neither moves its next time, nor switches it, nor delivers: whatever the *)
(* person did put the row among those that updateAfterRun no longer takes   *)
(* for the ones the tick has read.                                          *)
THEOREM LastWordIsThePersons ==
  Spec => PersonHasLastWord
<1> DEFINE A == \A j \in said :
                  tick.job = j /\ edits' = edits =>
                    /\ row'[j].on = row[j].on /\ row'[j].repeat = row[j].repeat
                    /\ row'[j].next \in {row[j].next, "due"}
                    /\ (row'[j].next # row[j].next => row[j].next = "later" /\ tick' = tick)
                    /\ ~(tick.stage \in {"running", "grace"} /\ tick'.stage = "deliver")
<1>1. CronInv /\ [Next]_vars => A
  BY SaidIsLeftAlone DEF LeftAlone
<1>2. CronInv /\ [Next]_vars => [A]_vars
  BY <1>1
<1> HIDE DEF A
<1>3. Spec => [][A]_vars
  BY <1>2, AlwaysSound, PTL DEF Spec
<1> QED
  BY <1>3 DEF A, PersonHasLastWord
=============================================================================
