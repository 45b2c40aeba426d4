------------------------------ MODULE ToolCalls ------------------------------
(***************************************************************************)
(* Tool calls and the breaker of each tool (ToolRegistry.call and what it   *)
(* uses in CinderpawAgent/src/tools/registry.ts, egress/circuit-breaker.ts).*)
(* Calls overlap.  A call asks the breaker once, then tries its tool again  *)
(* after some failures, gives up at its timeout or at Stop without ending   *)
(* the tool, and hands a failure on to a fallback tool, which is a call of  *)
(* its own.  Each execution, whenever it ends, reports to the breaker.      *)
(***************************************************************************)
EXTENDS Naturals, FiniteSets

CONSTANTS
  Calls,       \* calls that can be in hand at a time
  Tools,
  NoTool,
  Fallback,    \* [Tools -> tool or NoTool], manifest.fallback
  Attempts,    \* tries of a tool within a call, manifest.retry
  Threshold,   \* failures in the window that open a breaker
  MaxChain,    \* tools in a chain of fallbacks, MAX_FALLBACK_DEPTH
  MaxExecs     \* bound: executions started

ASSUME ToolAssumption  == /\ NoTool \notin Tools /\ Fallback \in [Tools -> Tools \cup {NoTool}]
                          /\ Attempts \in Nat \ {0} /\ Threshold \in Nat \ {0}
                          /\ MaxChain \in Nat \ {0} /\ MaxExecs \in Nat

VARIABLES
  breaker,   \* each tool's breaker, its recent failures counted
  call,      \* what each call is in the middle of
  execs,     \* executions that have not ended; calls may have left them behind
  made,      \* executions started
  tries      \* history: executions of each tool within each call

toolVars == <<breaker, call, execs, made, tries>>

(* `cooled' says that the cooldown of an open breaker has passed, `probing' *)
(* is membership in #halfOpenInflight.                                      *)
Breaker == [state : {"closed", "open", "half_open"}, fails : Nat,
            cooled : BOOLEAN, probing : BOOLEAN]

(* `gate' is before the breaker is asked: the hook and the injection gate.  *)
(* `chain' holds the tools that failed before this one, `cut' says that the *)
(* call's signal fired, `handOn' whether its result may be handed on.       *)
Call == [stage : {"idle", "gate", "waiting", "backoff", "settle"},
         tool : Tools \cup {NoTool}, exec : 0 .. MaxExecs, attempt : 0 .. Attempts,
         chain : SUBSET Tools, cut : BOOLEAN, handOn : BOOLEAN]

Exec == [n : 1 .. MaxExecs, tool : Tools, probe : BOOLEAN]

NoCall == [stage |-> "idle", tool |-> NoTool, exec |-> 0, attempt |-> 0, chain |-> {},
           cut |-> FALSE, handOn |-> FALSE]

ToolTypeOK ==
  /\ breaker \in [Tools -> Breaker]
  /\ call \in [Calls -> Call]
  /\ execs \subseteq Exec
  /\ made \in 0 .. MaxExecs
  /\ tries \in [Calls -> [Tools -> Nat]]

NeverTried == [t \in Tools |-> 0]

ToolInit ==
  /\ breaker = [t \in Tools |-> [state |-> "closed", fails |-> 0, cooled |-> FALSE, probing |-> FALSE]]
  /\ call = [c \in Calls |-> NoCall]
  /\ execs = {} /\ made = 0
  /\ tries = [c \in Calls |-> NeverTried]

-----------------------------------------------------------------------------
(* The breaker.                                                             *)

Allows(b) == b.state = "closed" \/ (b.state = "open" /\ b.cooled) \/ (b.state = "half_open" /\ ~b.probing)

(* check(): past its cooldown an open breaker lets one probe through.       *)
Checked(b) ==
  IF Allows(b) /\ b.state # "closed" THEN [b EXCEPT !.state = "half_open", !.probing = TRUE] ELSE b

Succeeded(b) == [state |-> "closed", fails |-> 0, cooled |-> FALSE, probing |-> FALSE]

Failed(b) ==
  LET counted == [b EXCEPT !.fails = @ + 1]
  IN IF b.state = "half_open"
     THEN [counted EXCEPT !.state = "open", !.cooled = FALSE, !.probing = FALSE]
     ELSE IF counted.fails >= Threshold THEN [counted EXCEPT !.state = "open", !.cooled = FALSE]
     ELSE counted

(* What an execution tells the breaker: an error that asks for another try  *)
(* or for better arguments says nothing of the tool's health.               *)
Told(b, outcome) ==
  CASE outcome = "ok" -> Succeeded(b)
    [] outcome \in {"failed", "http"} -> Failed(b)
    [] OTHER -> b

-----------------------------------------------------------------------------
(* A call.                                                                  *)

Begin(c, t) ==
  /\ call[c].stage = "idle" /\ made < MaxExecs
  /\ call' = [call EXCEPT ![c] = [NoCall EXCEPT !.stage = "gate", !.tool = t]]
  /\ tries' = [tries EXCEPT ![c] = NeverTried]
  /\ UNCHANGED <<breaker, execs, made>>

Return(c) == call' = [call EXCEPT ![c] = NoCall]

Execute(c, attempt, probe) ==
  /\ made < MaxExecs
  /\ made' = made + 1
  /\ execs' = execs \cup {[n |-> made + 1, tool |-> call[c].tool, probe |-> probe]}
  /\ call' = [call EXCEPT ![c].stage = "waiting", ![c].exec = made + 1, ![c].attempt = attempt]
  /\ tries' = [tries EXCEPT ![c][call[c].tool] = @ + 1]

(* Blocked by the hook or the gate, or short-circuited: neither is handed   *)
(* on to a fallback.  A call that was stopped meanwhile has asked the       *)
(* breaker and never runs its tool.                                         *)
Blocked(c) ==
  /\ call[c].stage = "gate"
  /\ Return(c)
  /\ UNCHANGED <<breaker, execs, made, tries>>

ShortCircuit(c) ==
  /\ call[c].stage = "gate" /\ ~Allows(breaker[call[c].tool])
  /\ Return(c)
  /\ UNCHANGED <<breaker, execs, made, tries>>

Admit(c) ==
  /\ call[c].stage = "gate" /\ Allows(breaker[call[c].tool])
  /\ breaker' = [breaker EXCEPT ![call[c].tool] = Checked(@)]
  /\ IF call[c].cut
     THEN /\ call' = [call EXCEPT ![c].stage = "settle"]
          /\ UNCHANGED <<execs, made, tries>>
     ELSE Execute(c, 1, breaker[call[c].tool].state # "closed")

(* The call's own clock fires, which runs from the first try on, or the     *)
(* caller's signal, which a fallback is not given.  raceWithAbort goes on   *)
(* without the tool; between two tries the signal is noticed after the      *)
(* pause.                                                                   *)
Cut(c) ==
  /\ IF call[c].stage = "waiting"
     THEN call' = [call EXCEPT ![c].stage = "settle", ![c].exec = 0]
     ELSE call' = [call EXCEPT ![c].cut = TRUE]
  /\ UNCHANGED <<breaker, execs, made, tries>>

TimeOutOfFirst(c) ==   \* mutant of TimeOut: the clock is cleared after the first try
  call[c].stage \in {"waiting", "backoff"} /\ call[c].attempt = 1 /\ ~call[c].cut /\ Cut(c)
TimeOut(c) == call[c].stage \in {"waiting", "backoff"} /\ ~call[c].cut /\ Cut(c)

Stop(c) ==
  /\ call[c].stage \in {"gate", "waiting", "backoff"} /\ ~call[c].cut
  /\ call[c].chain = {} /\ Cut(c)

Abandon(c) ==
  /\ call[c].stage = "backoff" /\ call[c].cut
  /\ call' = [call EXCEPT ![c].stage = "settle"]
  /\ UNCHANGED <<breaker, execs, made, tries>>

Retry(c) ==
  /\ call[c].stage = "backoff" /\ ~call[c].cut
  /\ Execute(c, call[c].attempt + 1, FALSE)
  /\ UNCHANGED breaker

MayRetryOnceMore(c) == call[c].attempt <= Attempts   \* mutant of MayRetry
MayRetry(c) == call[c].attempt < Attempts

(* An execution ends; its call, if it is still waiting for it, goes on.     *)
Ends(e, outcome) ==
  /\ execs' = execs \ {e}
  /\ breaker' = [breaker EXCEPT ![e.tool] = Told(@, outcome)]
  /\ LET waiting == {c \in Calls : call[c].stage = "waiting" /\ call[c].exec = e.n}
     IN \E retryable \in BOOLEAN :
          /\ outcome = "http" => retryable
          /\ outcome = "ok" => ~retryable
          /\ call' = [c \in Calls |->
               IF c \notin waiting THEN call[c]
               ELSE IF retryable /\ MayRetry(c)
                    THEN [call[c] EXCEPT !.stage = "backoff", !.exec = 0]
                    ELSE [call[c] EXCEPT !.stage = "settle", !.exec = 0, !.handOn = outcome # "ok"]]
  /\ UNCHANGED <<made, tries>>

(* #settle: the after_tool_call hook has been awaited; a failure goes to    *)
(* the fallback, unless it has been tried in this chain already.            *)
Settle(c) ==
  LET fb == Fallback[call[c].tool]
      chain == call[c].chain \cup {call[c].tool}
      goOn == call[c].handOn /\ fb # NoTool /\ fb \notin chain /\ Cardinality(chain) <= MaxChain
  IN /\ call[c].stage = "settle"
     /\ IF goOn
        THEN call' = [call EXCEPT ![c] = [NoCall EXCEPT !.stage = "gate", !.tool = fb, !.chain = chain]]
        ELSE Return(c)
     /\ UNCHANGED <<breaker, execs, made, tries>>

(* Time: failures leave the window, and an open breaker cools down.         *)
Window(t) ==
  /\ \E left \in 0 .. breaker[t].fails - 1 : breaker' = [breaker EXCEPT ![t].fails = left]
  /\ UNCHANGED <<call, execs, made, tries>>

Cool(t) ==
  /\ breaker[t].state = "open" /\ ~breaker[t].cooled
  /\ breaker' = [breaker EXCEPT ![t].cooled = TRUE]
  /\ UNCHANGED <<call, execs, made, tries>>

ToolNext ==
  \/ \E c \in Calls :
       \/ \E t \in Tools : Begin(c, t)
       \/ Blocked(c) \/ ShortCircuit(c) \/ Admit(c) \/ Stop(c) \/ TimeOut(c) \/ Abandon(c)
       \/ Retry(c) \/ Settle(c)
  \/ \E e \in execs, outcome \in {"ok", "failed", "http", "recoverable", "bad_args"} : Ends(e, outcome)
  \/ \E t \in Tools : Window(t) \/ Cool(t)

ToolSpec == ToolInit /\ [][ToolNext]_toolVars

(* A call goes on by itself, and its clock runs: a tool may never end.      *)
ToolFairness ==
  \A c \in Calls : /\ WF_toolVars(ShortCircuit(c) \/ Admit(c)) /\ WF_toolVars(TimeOut(c))
                   /\ WF_toolVars(Abandon(c)) /\ WF_toolVars(Retry(c)) /\ WF_toolVars(Settle(c))

-----------------------------------------------------------------------------
(* Properties.                                                              *)

(* Within one call a tool is tried at most as often as its policy says,     *)
(* also through fallbacks that lead back to it, and a breaker is asked by   *)
(* every tool of the chain.                                                 *)
TriesAreBounded == \A c \in Calls, t \in Tools : tries[c][t] <= Attempts

(* Every call returns, whatever its tools do, be it stopped, timed out,     *)
(* retried or handed on.                                                    *)
CallsReturn == \A c \in Calls : call[c].stage # "idle" ~> call[c].stage = "idle" \/ made = MaxExecs

(* "Block other concurrent calls until the probe resolves" (circuit-breaker *)
(* .ts:109-110): a breaker that blocks for a probe has one in flight.       *)
ProbeIsInFlight ==
  \A t \in Tools : breaker[t].probing => \E e \in execs : e.tool = t /\ e.probe
=============================================================================
