---------------------------- MODULE CoworkApproval ----------------------------
(***************************************************************************)
(* The approval gate of Agent Cowork                                        *)
(* (CinderpawAgent/src/cowork/approval.ts): a consequential tool call of a  *)
(* teammate is held until the person answers or the wait runs out.          *)
(*                                                                         *)
(* A request lives in two places.  Its row is in SQLite; its waiter, its    *)
(* timer and its conversation are in maps of the process, and so is the     *)
(* tool call that awaits the gate.  Three callbacks meet on them: the       *)
(* person's answer, the timer and the continuation of the call.             *)
(***************************************************************************)
EXTENDS Naturals, Sequences, FiniteSets

CONSTANTS
  Agents,       \* the ids of the teammates
  Threads,      \* the conversations a teammate can work for
  NoThread,     \* no conversation: threadOf answers null
  NoTurn,       \* the teammate is not working
  MaxRequests,  \* bound: requests made
  MaxCrashes,   \* bound: times the process dies
  MaxFaults     \* bound: times the database refuses the request's row

ASSUME MarkerAssumption == /\ NoThread \notin Threads
                           /\ NoTurn \notin Threads \cup {NoThread}
ASSUME BoundAssumption  == /\ MaxRequests \in Nat /\ MaxCrashes \in Nat
                           /\ MaxFaults \in Nat

VARIABLES
  rows,      \* cowork_approvals
  waiters,   \* #waiters: requests somebody is blocked on
  timers,    \* #timers: requests with an armed expiry timer
  threads,   \* #threads: the conversation of a request without a verdict
  calls,     \* the tool calls behind the requests
  working,   \* what each teammate's turn works for (CoworkRuntime.#threads)
  events,    \* history: the approval events sent to the person's screen
  unasked,   \* history: gated calls that ran with no request at all
  crashes

process == <<waiters, timers, threads, calls, working>>
vars == <<rows, waiters, timers, threads, calls, working, events, unasked, crashes>>

Requests  == 1 .. MaxRequests
Decision  == {"approved", "denied", "expired"}
RowStatus == {"pending"} \cup Decision

(* A call waits on the gate's promise; holds a decision its continuation    *)
(* has not seen; or is over.                                                *)
InHand    == {"waiting"} \cup Decision
CallState == {"none"} \cup InHand \cup {"ran", "blocked", "lost"}

Row   == [agent : Agents, status : RowStatus]
Event == [request : Requests, kind : {"requested"} \cup Decision,
          thread : Threads \cup {NoThread}]

TypeOK ==
  /\ rows \in Seq(Row)
  /\ Len(rows) <= MaxRequests
  /\ waiters \subseteq Requests
  /\ timers \subseteq Requests
  /\ threads \in [Requests -> Threads \cup {NoThread}]
  /\ calls \in [Requests -> CallState]
  /\ working \in [Agents -> Threads \cup {NoThread, NoTurn}]
  /\ events \in Seq(Event)
  /\ unasked \in Nat
  /\ crashes \in Nat

Init ==
  /\ rows = <<>>
  /\ waiters = {}
  /\ timers = {}
  /\ threads = [r \in Requests |-> NoThread]
  /\ calls = [r \in Requests |-> "none"]
  /\ working = [a \in Agents |-> NoTurn]
  /\ events = <<>>
  /\ unasked = 0
  /\ crashes = 0

-----------------------------------------------------------------------------
(* #emit: the event carries the conversation of the request, and a verdict  *)
(* forgets it.                                                              *)
Emit(request, kind, thread) ==
  events' = Append(events, [request |-> request, kind |-> kind, thread |-> thread])

Forget(request) == threads' = [threads EXCEPT ![request] = NoThread]

(* resolve(): only a pending row moves.                                     *)
Resolve(request, status) ==
  rows' = [rows EXCEPT ![request].status = IF @ = "pending" THEN status ELSE @]

(* The promise of a call takes the first decision and no other.             *)
Decide(request, decision) ==
  calls' = [calls EXCEPT ![request] = IF @ = "waiting" THEN decision ELSE @]

GateWithoutTimer(a) ==   \* mutant of Gate
  LET r == Len(rows) + 1
      thread == working[a]
  IN  /\ working[a] # NoTurn
      /\ r \in Requests
      /\ rows' = Append(rows, [agent |-> a, status |-> "pending"])
      /\ threads' = [threads EXCEPT ![r] = thread]
      /\ Emit(r, "requested", thread)
      /\ waiters' = waiters \cup {r}
      /\ calls' = [calls EXCEPT ![r] = "waiting"]
      /\ UNCHANGED <<timers, working, unasked, crashes>>

(* The gate holds a call of a teammate in a turn.  A turn can have several  *)
(* calls held at once, for subagents it delegated to in parallel.           *)
Gate(a) ==
  LET r == Len(rows) + 1
      thread == working[a]
  IN  /\ working[a] # NoTurn
      /\ r \in Requests
      /\ rows' = Append(rows, [agent |-> a, status |-> "pending"])
      /\ threads' = [threads EXCEPT ![r] = thread]
      /\ Emit(r, "requested", thread)
      /\ waiters' = waiters \cup {r}
      /\ timers' = timers \cup {r}
      /\ calls' = [calls EXCEPT ![r] = "waiting"]
      /\ UNCHANGED <<working, unasked, crashes>>

(* The row cannot be written: the gate throws, the hook registry logs it    *)
(* and goes on, and the call runs.                                          *)
GateFails(a) ==
  /\ working[a] # NoTurn
  /\ unasked < MaxFaults
  /\ unasked' = unasked + 1
  /\ UNCHANGED <<rows, process, events, crashes>>

AnswerKeepsTimer(r, decision) ==   \* mutant of Answer
  /\ r \in DOMAIN rows
  /\ rows[r].status = "pending"
  /\ Resolve(r, decision)
  /\ IF r \in waiters THEN Decide(r, decision) ELSE UNCHANGED calls
  /\ waiters' = waiters \ {r}
  /\ Emit(r, decision, threads[r])
  /\ Forget(r)
  /\ UNCHANGED <<timers, working, unasked, crashes>>

AnswerRewrites(r, decision) ==   \* mutant of Answer
  /\ r \in DOMAIN rows
  /\ rows' = [rows EXCEPT ![r].status = decision]
  /\ UNCHANGED <<process, events, unasked, crashes>>

(* resolveExternal: the person answers, now or long after.                  *)
Answer(r, decision) ==
  /\ r \in DOMAIN rows
  /\ rows[r].status = "pending"
  /\ Resolve(r, decision)
  /\ IF r \in waiters THEN Decide(r, decision) ELSE UNCHANGED calls
  /\ waiters' = waiters \ {r}
  /\ timers' = timers \ {r}
  /\ Emit(r, decision, threads[r])
  /\ Forget(r)
  /\ UNCHANGED <<working, unasked, crashes>>

ExpireKeepsWaiter(r) ==   \* mutant of Expire
  /\ r \in timers
  /\ timers' = timers \ {r}
  /\ Resolve(r, "expired")
  /\ Emit(r, "expired", threads[r])
  /\ Forget(r)
  /\ Decide(r, "expired")
  /\ UNCHANGED <<waiters, working, unasked, crashes>>

(* The expiry timer fires.                                                  *)
Expire(r) ==
  /\ r \in timers
  /\ timers' = timers \ {r}
  /\ waiters' = waiters \ {r}
  /\ Resolve(r, "expired")
  /\ Emit(r, "expired", threads[r])
  /\ Forget(r)
  /\ Decide(r, "expired")
  /\ UNCHANGED <<working, unasked, crashes>>

ResumeUnlessDenied(r) ==   \* mutant of Resume
  /\ calls[r] \in Decision
  /\ calls' = [calls EXCEPT ![r] = IF @ # "denied" THEN "ran" ELSE "blocked"]
  /\ UNCHANGED <<rows, waiters, timers, threads, working, events, unasked, crashes>>

(* The gate's continuation lets the call run or blocks it.                  *)
Resume(r) ==
  /\ calls[r] \in Decision
  /\ calls' = [calls EXCEPT ![r] = IF @ = "approved" THEN "ran" ELSE "blocked"]
  /\ UNCHANGED <<rows, waiters, timers, threads, working, events, unasked, crashes>>

Held(a) == {r \in DOMAIN rows : rows[r].agent = a /\ calls[r] \in InHand}

(* A turn starts and ends; while one of its calls is held it does not end.  *)
BeginTurn(a, thread) ==
  /\ working[a] = NoTurn
  /\ working' = [working EXCEPT ![a] = thread]
  /\ UNCHANGED <<rows, waiters, timers, threads, calls, events, unasked, crashes>>

EndTurn(a) ==
  /\ working[a] # NoTurn
  /\ Held(a) = {}
  /\ working' = [working EXCEPT ![a] = NoTurn]
  /\ UNCHANGED <<rows, waiters, timers, threads, calls, events, unasked, crashes>>

(* The process dies with everything but the rows.                           *)
Crash ==
  /\ crashes < MaxCrashes
  /\ crashes' = crashes + 1
  /\ waiters' = {}
  /\ timers' = {}
  /\ threads' = [r \in Requests |-> NoThread]
  /\ calls' = [r \in Requests |->
                 IF calls[r] \in InHand THEN "lost" ELSE calls[r]]
  /\ working' = [a \in Agents |-> NoTurn]
  /\ UNCHANGED <<rows, events, unasked>>

Next ==
  \/ \E a \in Agents :
       \/ Gate(a)
       \/ GateFails(a)
       \/ \E thread \in Threads \cup {NoThread} : BeginTurn(a, thread)
       \/ EndTurn(a)
  \/ \E r \in Requests :
       \/ \E decision \in {"approved", "denied"} : Answer(r, decision)
       \/ Expire(r)
       \/ Resume(r)
  \/ Crash

Spec == Init /\ [][Next]_vars

(* The timer is not unref'd, so it fires; a continuation that can run does. *)
(* The person need never answer.                                            *)
Fairness == \A r \in Requests : WF_vars(Expire(r)) /\ WF_vars(Resume(r))

FairSpec == Spec /\ Fairness

-----------------------------------------------------------------------------
(* pending(): the requests a person is offered.  Each of them can still be  *)
(* decided: its row is pending, its timer is armed and its call is blocked. *)
(* And no blocked call is missing from the list (the comment of pending).   *)
PendingIsLive ==
  /\ \A r \in waiters : /\ r \in DOMAIN rows /\ rows[r].status = "pending"
                        /\ r \in timers
  /\ \A r \in Requests : calls[r] = "waiting" <=> r \in waiters

(* A gated call that was asked about runs only on a yes: never on a no, on  *)
(* a timeout, or on an answer that came after the timeout, and the record   *)
(* kept for audit says so (gate, resolveExternal and the timer).            *)
RunsOnlyOnYes ==
  \A r \in DOMAIN rows :
    /\ calls[r] \in {"approved", "ran"} => rows[r].status = "approved"
    /\ calls[r] \in {"denied", "expired", "blocked"} =>
         rows[r].status \in {"denied", "expired"}

(* The screen shows one verdict for a request, the one its row holds, in    *)
(* the conversation that showed the request; only a process that died may   *)
(* have forgotten which conversation that was (#emit and #threads).         *)
Of(r, kinds) == {i \in DOMAIN events : events[i].request = r /\ events[i].kind \in kinds}

OneVerdict ==
  \A r \in DOMAIN rows :
    /\ Cardinality(Of(r, Decision)) = IF rows[r].status = "pending" THEN 0 ELSE 1
    /\ \A v \in Of(r, Decision) :
         /\ events[v].kind = rows[r].status
         /\ calls[r] # "lost" =>
              \A i \in Of(r, {"requested"}) : events[i].thread = events[v].thread

(* Nobody is parked for ever: every held call is released or lost with its  *)
(* process, whether or not the person answers (the timer of gate).          *)
EveryWaitEnds ==
  \A r \in Requests : calls[r] \in InHand ~> calls[r] \in {"ran", "blocked", "lost"}

(* "terminal status mandatory for audit" (CoworkApprovalRepo): no row stays *)
(* pending.                                                                 *)
RowIs(r, statuses) == r \in DOMAIN rows /\ rows[r].status \in statuses

EveryRowIsSettled ==
  \A r \in Requests : RowIs(r, {"pending"}) ~> RowIs(r, Decision)

-----------------------------------------------------------------------------
(* The phase of a request, read off its row and its call.                   *)
PhaseOf(r) ==
  IF r \notin DOMAIN rows               THEN "none"
  ELSE IF calls[r] = "lost"             THEN "dropped"
  ELSE IF calls[r] = "ran"              THEN "acted"
  ELSE IF rows[r].status = "pending"    THEN "asked"
  ELSE IF rows[r].status = "approved"   THEN "granted"
  ELSE "refused"

Phases == [r \in Requests |-> PhaseOf(r)]

Contract == INSTANCE ApprovalContract WITH phase <- Phases

(* Row, waiter, timer and call together keep the contract of a gate that    *)
(* asks once, settles once and acts only on a yes.                          *)
KeepsContract == Contract!Spec
=============================================================================
