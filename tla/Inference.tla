------------------------------ MODULE Inference ------------------------------
(***************************************************************************)
(* Model calls of one background task (InferenceRouter.completeWith and     *)
(* #callTarget in CinderpawAgent/src/egress/inference-router.ts, with the   *)
(* task's allowance in inference-spend-authority.ts and the request window  *)
(* of rate-limiter.ts).  Calls overlap: each waits for its turn, then       *)
(* attempts its primary and, when that fails, its fallback, and every       *)
(* attempt holds its highest possible price before the provider is asked.   *)
(* Money is counted in units.                                               *)
(***************************************************************************)
EXTENDS Integers

CONSTANTS
  Askings,      \* calls that can be under way at a time
  NoAsking,
  Targets,      \* <<primary, fallback>> or <<primary>>, each by its price
  Ceiling,      \* [1 .. Len(Targets) -> the hold of one attempt]
  Scope,        \* the task's allowance, maxCostUsd
  Rpm,          \* requests a minute for the primary's endpoint; the rest have no cap
  Again,        \* MAX_TRANSIENT_RETRIES
  Overbill,     \* what a provider may bill above the hold
  MaxAttempts   \* bound: attempts in all

ASSUME InfAssumption ==
  /\ NoAsking \notin Askings /\ Targets \in {{1}, {1, 2}} /\ Ceiling \in [Targets -> Nat]
  /\ Scope \in Nat /\ Rpm \in Nat \ {0} /\ Again \in Nat /\ Overbill \in Nat /\ MaxAttempts \in Nat

VARIABLES
  asks,      \* each call
  latest,     \* the call whose controller #sessionControllers holds
  window,     \* requests in the primary's last minute
  spent, held, stopped,   \* InferenceSpendAuthority
  bound,      \* the task's session is bound to the allowance
  attempts,
  bill,       \* what the providers really charged the task
  excess      \* history: the part of it above the holds

infVars == <<asks, latest, window, spent, held, stopped, bound, attempts, bill, excess>>
money   == <<spent, held, stopped, attempts, bill, excess>>

(* `cut' is the abort of the call's controller, `link' the call whose       *)
(* signal it follows, `paid' that the call was bound to the allowance.      *)
Idle == [stage |-> "idle", target |-> 1, try |-> 0, cut |-> FALSE, link |-> NoAsking, paid |-> FALSE]

InfTypeOK ==
  /\ asks \in [Askings -> [stage : {"idle", "yields", "queues", "sent", "pauses"}, target : Targets,
                            try : 0 .. Again, cut : BOOLEAN, link : Askings \cup {NoAsking},
                            paid : BOOLEAN]]
  /\ latest \in Askings \cup {NoAsking} /\ window \in Nat /\ bound \in BOOLEAN
  /\ spent \in Nat /\ held \in Nat /\ stopped \in BOOLEAN
  /\ attempts \in 0 .. MaxAttempts /\ bill \in Nat /\ excess \in Nat

InfInit ==
  /\ asks = [c \in Askings |-> Idle] /\ latest = NoAsking /\ window = 0 /\ bound = TRUE
  /\ spent = 0 /\ held = 0 /\ stopped = FALSE /\ attempts = 0 /\ bill = 0 /\ excess = 0

-----------------------------------------------------------------------------
(* Signals.                                                                 *)

Linked(c) == asks[c].stage \in {"queues", "sent", "pauses"}

(* Aborting a controller aborts those that follow it: the least set of      *)
(* calls that holds S and with a call the calls that are linked to it.      *)
CutFrom(S) ==
  {c \in Askings : \A T \in SUBSET Askings :
     S \subseteq T /\ (\A k \in Askings : Linked(k) /\ asks[k].link \in T => k \in T) => c \in T}

Cutting(S) == [c \in Askings |-> IF c \in CutFrom(S) THEN [asks[c] EXCEPT !.cut = TRUE] ELSE asks[c]]

Payers == {c \in Askings : Linked(c) /\ asks[c].paid}

-----------------------------------------------------------------------------
(* completeWith().                                                          *)

Start(c) ==
  /\ asks[c].stage = "idle"
  /\ asks' = [asks EXCEPT ![c] = [Idle EXCEPT !.stage = "yields", !.paid = bound]]
  /\ UNCHANGED <<latest, window, bound>> /\ UNCHANGED money

(* linkAbort: the session's running call, and the allowance, may have been  *)
(* stopped already.                                                         *)
AbortedSince(c) == FALSE   \* mutant of AbortedAlready: only listens for a later stop
AbortedAlready(c) ==
  \/ latest # NoAsking /\ asks[latest].cut
  \/ asks[c].paid /\ stopped

Proceed(c) ==
  /\ asks[c].stage = "yields"
  /\ asks' = [asks EXCEPT ![c].stage = "queues", ![c].link = latest, ![c].cut = AbortedAlready(c)]
  /\ latest' = c
  /\ UNCHANGED <<window, bound>> /\ UNCHANGED money

(* The call leaves the map of controllers, if it is still the one there.    *)
Finishes(c) ==
  /\ asks' = [asks EXCEPT ![c] = Idle]
  /\ latest' = IF latest = c THEN NoAsking ELSE latest

(* Stopped while it waited for its turn, or its trust or token budget fails.*)
Refused(c) ==
  /\ asks[c].stage = "yields"
  /\ asks' = [asks EXCEPT ![c] = Idle]
  /\ UNCHANGED <<latest, window, bound>> /\ UNCHANGED money

(* The target failed: its fallback is next, else the call.                  *)
TargetFails(c) ==
  IF asks[c].target = 1 /\ 2 \in Targets
  THEN asks' = [asks EXCEPT ![c].stage = "queues", ![c].target = 2, ![c].try = 0] /\ UNCHANGED latest
  ELSE Finishes(c)

-----------------------------------------------------------------------------
(* #callTarget(): a slot, a hold, the provider.                             *)

Limited(c) == asks[c].target = 1

GivesUp(c) ==
  /\ asks[c].stage = "queues" /\ asks[c].cut /\ Limited(c)
  /\ TargetFails(c)
  /\ UNCHANGED <<window, bound>> /\ UNCHANGED money

Slot(c) == Limited(c) => ~asks[c].cut /\ window < Rpm
InWindow(c) == IF Limited(c) THEN window + 1 ELSE window

(* reserve() refuses, and no fallback is tried.                             *)
Grants(c) == ~stopped /\ spent + held + Ceiling[asks[c].target] <= Scope

Denied(c) ==
  /\ asks[c].stage = "queues" /\ asks[c].paid /\ Slot(c) /\ ~Grants(c)
  /\ window' = InWindow(c) /\ Finishes(c)
  /\ UNCHANGED bound /\ UNCHANGED money

Sends(c) ==
  /\ asks[c].stage = "queues" /\ Slot(c) /\ attempts < MaxAttempts
  /\ asks[c].paid => Grants(c)
  /\ attempts' = attempts + 1 /\ window' = InWindow(c)
  /\ asks' = [asks EXCEPT ![c].stage = "sent"]
  /\ held' = IF asks[c].paid THEN held + Ceiling[asks[c].target] ELSE held
  /\ UNCHANGED <<latest, bound, spent, stopped, bill, excess>>

Plus(n) == IF n > 0 THEN n ELSE 0

(* A hold is released, `charged' is put in its place, and the allowance     *)
(* stops when it is used up.                                                *)
Charge(c, charged, billed, stops) ==
  LET hold == Ceiling[asks[c].target]
  IN IF asks[c].paid
     THEN /\ held' = Plus(held - hold) /\ spent' = spent + charged
          /\ bill' = bill + billed /\ excess' = excess + Plus(billed - hold)
          /\ stopped' = (stopped \/ stops)
     ELSE UNCHANGED <<spent, held, stopped, bill, excess>>

StopsPayers(next) ==
  asks' = [c \in Askings |-> IF stopped' /\ ~stopped /\ c \in CutFrom(Payers) /\ next[c].stage # "idle"
                              THEN [next[c] EXCEPT !.cut = TRUE] ELSE next[c]]

(* settle(): the provider's bill, or nothing and a stop when the price is   *)
(* no longer known.                                                         *)
Completes(c) ==
  /\ asks[c].stage = "sent"
  /\ \E billed \in 0 .. Ceiling[asks[c].target] + Overbill, priced \in BOOLEAN :
       Charge(c, IF priced THEN billed ELSE 0, billed, ~priced \/ spent + billed > Scope)
  /\ StopsPayers([asks EXCEPT ![c] = Idle])
  /\ latest' = IF latest = c THEN NoAsking ELSE latest
  /\ UNCHANGED <<window, bound, attempts>>

(* commitMaximum(): what a failed attempt cost is unknown.                  *)
CommitNothing(c, billed) == Charge(c, 0, billed, FALSE)   \* mutant: the hold is given back
CommitMaximum(c, billed) ==
  LET hold == Ceiling[asks[c].target]
  IN Charge(c, hold, billed, hold > 0 /\ spent + hold >= Scope)

(* A 429 is always tried again, another passing failure only when no        *)
(* fallback is left; a stop, or a long Retry-After, is not waited for.      *)
Breaks(c) ==
  LET last    == asks[c].target = 2 \/ Targets = {1}
  IN /\ asks[c].stage = "sent"
     /\ \E billed \in 0 .. Ceiling[asks[c].target] : CommitMaximum(c, billed)
     /\ \/ /\ asks[c].try < Again /\ ~asks[c].cut /\ (asks[c].paid => ~stopped')
           /\ \/ window' = InWindow(c)
              \/ last /\ UNCHANGED window
           /\ StopsPayers([asks EXCEPT ![c].stage = "pauses", ![c].try = @ + 1])
           /\ UNCHANGED latest
        \/ /\ UNCHANGED window
           /\ IF last
              THEN /\ StopsPayers([asks EXCEPT ![c] = Idle])
                   /\ latest' = IF latest = c THEN NoAsking ELSE latest
              ELSE /\ StopsPayers([asks EXCEPT ![c].stage = "queues", ![c].target = 2, ![c].try = 0])
                   /\ UNCHANGED latest
     /\ UNCHANGED <<bound, attempts>>

(* The pause is over, or a stop ends it and the target has failed.          *)
Resumes(c) ==
  /\ asks[c].stage = "pauses"
  /\ IF asks[c].cut THEN TargetFails(c)
     ELSE asks' = [asks EXCEPT ![c].stage = "queues"] /\ UNCHANGED latest
  /\ UNCHANGED <<window, bound>> /\ UNCHANGED money

-----------------------------------------------------------------------------
(* abort(session): the newest call, and whatever follows it.                *)
AbortSession ==
  /\ latest # NoAsking /\ asks' = Cutting({latest})
  /\ UNCHANGED <<latest, window, bound>> /\ UNCHANGED money

(* The caller's own signal.                                                 *)
CallerAborts(c) ==
  /\ Linked(c) /\ asks' = Cutting({c})
  /\ UNCHANGED <<latest, window, bound>> /\ UNCHANGED money

(* setSessionSpendAuthority(session, null): the task is over.               *)
CloseScope ==
  /\ bound /\ bound' = FALSE /\ stopped' = TRUE
  /\ asks' = Cutting(Payers)
  /\ UNCHANGED <<latest, window, spent, held, attempts, bill, excess>>

WindowMoves ==
  /\ window > 0 /\ window' = window - 1
  /\ UNCHANGED <<asks, latest, bound>> /\ UNCHANGED money

InfNext ==
  \/ \E c \in Askings :
       \/ Start(c) \/ Proceed(c) \/ Refused(c) \/ GivesUp(c) \/ Denied(c) \/ Sends(c)
       \/ Completes(c) \/ Breaks(c) \/ Resumes(c) \/ CallerAborts(c)
  \/ AbortSession \/ CloseScope \/ WindowMoves

InfSpec == InfInit /\ [][InfNext]_infVars

-----------------------------------------------------------------------------
(* Properties.                                                              *)

(* What providers charge a task stays within its allowance, but for what    *)
(* they bill above the most that was thought possible ("a failed/timeout    *)
(* attempt can still be billable, so fallback and retry may not reuse its   *)
(* hold", inference-router.ts:589-592).                                     *)
BillIsCovered == bill <= Scope + excess

(* When the allowance is stopped, every call it pays for is told, also one  *)
(* that got its controller afterwards.                                      *)
StopReachesEveryCall == stopped => \A c \in Payers : asks[c].cut
=============================================================================
