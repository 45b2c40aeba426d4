-------------------------------- MODULE Dreams --------------------------------
(***************************************************************************)
(* When the agent dreams (DreamScheduler in CinderpawAgent/src/rsi/         *)
(* l1-config/dream-scheduler.ts, createDreamCycle in dream-cycle.ts, start, *)
(* stop and the end of a run in rsi/sidecar.ts, their wiring in boot.ts).   *)
(* A timer pulses.  A pulse that finds a reason to dream asks the host for  *)
(* a model, and launches a run of the engine when the answer comes; further *)
(* pulses, its person's own runs and the shutdown may come in between.      *)
(* What a run evaluates is left out: it ends, or is told to stop and ends.  *)
(***************************************************************************)
EXTENDS Naturals, FiniteSets

CONSTANTS
  Pulses,     \* pulses that can be under way at a time
  Yields,     \* CINDERPAW_RSI_STOP_ON_ACTIVITY
  MaxDreams   \* bound: runs of the engine

ASSUME DreamAssumption == IsFiniteSet(Pulses) /\ Yields \in BOOLEAN /\ MaxDreams \in Nat

VARIABLES
  pulse,       \* the trigger of each pulse that awaits the host, or "none"
  scheduler,   \* the fields of DreamScheduler
  episode,     \* its field `episode'
  current,     \* the trigger of currentEpisode in the dream cycle, or "none"
  engine,      \* the run in progress in RsiSidecar
  l1Frozen, dreams

dreamVars == <<pulse, scheduler, episode, current, engine, l1Frozen, dreams>>

(* Idleness, errors and the interval are signals that come and go.          *)
Triggers == {"signal", "user"}

NoEpisode == [trigger |-> "none", stopAsked |-> FALSE, seen |-> FALSE]
NoRun     == [by |-> "none", stage |-> "none", stopped |-> FALSE]

(* `asked' is pendingUserTrigger, `cooling' that the cooldown is not over,  *)
(* `seen' that the person was active since the episode started.  `by' is    *)
(* the trigger of a dream, or "ui".                                         *)
DreamTypeOK ==
  /\ pulse \in [Pulses -> Triggers \cup {"none"}]
  /\ scheduler \in [down : BOOLEAN, launching : BOOLEAN, asked : BOOLEAN, cooling : BOOLEAN]
  /\ episode \in [trigger : Triggers \cup {"none"}, stopAsked : BOOLEAN, seen : BOOLEAN]
  /\ current \in Triggers \cup {"none"}
  /\ engine \in [by : Triggers \cup {"none", "ui"}, stage : {"none", "loads", "runs"}, stopped : BOOLEAN]
  /\ l1Frozen \in BOOLEAN /\ dreams \in 0 .. MaxDreams

DreamInit ==
  /\ pulse = [t \in Pulses |-> "none"]
  /\ scheduler = [down |-> FALSE, launching |-> FALSE, asked |-> FALSE, cooling |-> FALSE]
  /\ episode = NoEpisode /\ current = "none" /\ engine = NoRun
  /\ l1Frozen = FALSE /\ dreams = 0

Running == engine # NoRun

-----------------------------------------------------------------------------
(* The scheduler.                                                           *)

(* yieldToUser: an automatic episode is told to stop, once, when its person *)
(* has been active since it started.                                        *)
Yield ==
  /\ Running /\ Yields /\ episode.trigger = "signal" /\ ~episode.stopAsked /\ episode.seen
  /\ episode' = [episode EXCEPT !.stopAsked = TRUE]
  /\ engine' = [engine EXCEPT !.stopped = TRUE]
  /\ UNCHANGED <<pulse, scheduler, current, l1Frozen, dreams>>

(* The trigger of a pulse: the person's wish needs no cooldown, and comes   *)
(* before whatever signal there is.                                         *)
Trigger ==
  IF scheduler.asked THEN {"user"} ELSE IF scheduler.cooling THEN {} ELSE {"signal"}

(* tick() up to the probe for a model.                                      *)
Pulse(t) ==
  /\ pulse[t] = "none" /\ ~scheduler.down /\ ~scheduler.launching
  /\ \/ Yield
     \/ /\ ~Running
        /\ \E trigger \in Trigger : pulse' = [pulse EXCEPT ![t] = trigger]
        /\ UNCHANGED <<scheduler, episode, current, engine, l1Frozen, dreams>>

(* No model, no host, no money: no dream, and a wish is used up.            *)
WishKept(t) == scheduler.asked   \* mutant of Wish: the wish waits for a model
Wish(t) == scheduler.asked /\ pulse[t] # "user"

NotReady(t) ==
  /\ pulse[t] # "none"
  /\ pulse' = [pulse EXCEPT ![t] = "none"]
  /\ scheduler' = [scheduler EXCEPT !.asked = Wish(t)]
  /\ UNCHANGED <<episode, current, engine, l1Frozen, dreams>>

(* The engine takes one run at a time, and none while its layer is frozen.  *)
EngineStarts(by) ==
  IF Running \/ l1Frozen
  THEN UNCHANGED <<engine, dreams>>
  ELSE /\ dreams < MaxDreams /\ dreams' = dreams + 1
       /\ engine' = [by |-> by, stage |-> "loads", stopped |-> FALSE]

(* currentEpisode is set before the engine is asked.                        *)
AnnouncedUnlessRefused(trigger) ==   \* mutant of Announced: a refused start takes it back
  IF l1Frozen \/ Running THEN "none" ELSE trigger
Announced(trigger) == IF l1Frozen THEN current ELSE trigger

(* There is a model.  Neither the shutdown nor the engine is looked at      *)
(* again, and a start the engine refuses leaves the episode behind; the     *)
(* launch is over when start() returns.                                     *)
Launch(t) ==
  LET trigger == pulse[t] IN
  /\ trigger # "none"
  /\ pulse' = [pulse EXCEPT ![t] = "none"]
  /\ episode' = [trigger |-> trigger, stopAsked |-> FALSE, seen |-> FALSE]
  /\ EngineStarts(trigger)
  /\ scheduler' = [scheduler EXCEPT !.asked = Wish(t), !.launching = engine' # engine]
  /\ current' = Announced(trigger)
  /\ UNCHANGED l1Frozen

-----------------------------------------------------------------------------
(* The engine.                                                              *)

(* start() is back from what it loads, and the run is on its way.           *)
Loaded ==
  /\ engine.stage = "loads"
  /\ engine' = [engine EXCEPT !.stage = "runs"]
  /\ scheduler' = [scheduler EXCEPT !.launching = @ /\ engine.by = "ui"]
  /\ UNCHANGED <<pulse, episode, current, l1Frozen, dreams>>

(* The end of a run, good or bad: onEpisodeEnd records the episode that was *)
(* announced, and the scheduler forgets it and sleeps.                      *)
RunEnds ==
  /\ engine.stage = "runs"
  /\ engine' = NoRun /\ current' = "none" /\ episode' = NoEpisode
  /\ scheduler' = [scheduler EXCEPT !.cooling = @ \/ ~scheduler.down]
  /\ UNCHANGED <<pulse, l1Frozen, dreams>>

-----------------------------------------------------------------------------
(* The person, the clock, the process.                                      *)

UiStarts ==
  /\ EngineStarts("ui") /\ engine' # engine
  /\ UNCHANGED <<pulse, scheduler, episode, current, l1Frozen>>

UiStops ==
  /\ Running /\ engine' = [engine EXCEPT !.stopped = TRUE]
  /\ UNCHANGED <<pulse, scheduler, episode, current, l1Frozen, dreams>>

RequestUserDream ==
  /\ ~scheduler.down /\ scheduler' = [scheduler EXCEPT !.asked = TRUE]
  /\ UNCHANGED <<pulse, episode, current, engine, l1Frozen, dreams>>

FreezeL1 == l1Frozen' = ~l1Frozen
            /\ UNCHANGED <<pulse, scheduler, episode, current, engine, dreams>>

(* recordActivity.                                                          *)
Active ==
  /\ episode # NoEpisode /\ episode' = [episode EXCEPT !.seen = TRUE]
  /\ UNCHANGED <<pulse, scheduler, current, engine, l1Frozen, dreams>>

CoolsDown ==
  /\ scheduler.cooling /\ scheduler' = [scheduler EXCEPT !.cooling = FALSE]
  /\ UNCHANGED <<pulse, episode, current, engine, l1Frozen, dreams>>

(* The timer is cleared; the process goes on until what else it waits for   *)
(* is over.                                                                 *)
DreamShutdown ==
  /\ ~scheduler.down /\ scheduler' = [scheduler EXCEPT !.down = TRUE]
  /\ UNCHANGED <<pulse, episode, current, engine, l1Frozen, dreams>>

DreamNext ==
  \/ \E t \in Pulses : Pulse(t) \/ NotReady(t) \/ Launch(t)
  \/ Loaded \/ RunEnds \/ UiStarts \/ UiStops \/ RequestUserDream \/ FreezeL1 \/ Active
  \/ CoolsDown \/ DreamShutdown

DreamSpec == DreamInit /\ [][DreamNext]_dreamVars

(* The timer pulses, the host answers or times out, and a run ends: it has  *)
(* a budget of time, tokens and iterations.                                 *)
DreamFairness ==
  /\ \A t \in Pulses : WF_dreamVars(Pulse(t)) /\ WF_dreamVars(NotReady(t) \/ Launch(t))
  /\ WF_dreamVars(Loaded) /\ WF_dreamVars(RunEnds)

-----------------------------------------------------------------------------
(* Properties.                                                              *)

(* A run the scheduler launched is announced, so that its end is recorded,  *)
(* and is an episode its person's activity can stop, however the pulses     *)
(* overlapped while they waited for the host.                               *)
DreamsAreKnown ==
  engine.by \in Triggers => current # "none" /\ episode # NoEpisode

(* The dream a person asked for is launched or refused, whatever runs now   *)
(* and whatever they do meanwhile ("explicit intent beats back-off").       *)
WishIsTaken == scheduler.asked ~> ~scheduler.asked \/ scheduler.down \/ dreams = MaxDreams

(* "After this, no episode ever launches" (shutdown).                       *)
NothingAfterShutdown == [][scheduler.down /\ engine = NoRun => engine'.by \notin Triggers]_dreamVars

(* "a `user` episode was explicitly requested and is never stopped here"    *)
(* (yieldToUser), nor is a run its person started.                          *)
WishedIsNeverStopped ==
  [][episode'.stopAsked /\ ~episode.stopAsked => engine.by = "signal"]_dreamVars
=============================================================================
