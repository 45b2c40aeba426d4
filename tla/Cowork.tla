-------------------------------- MODULE Cowork --------------------------------
(***************************************************************************)
(* Agent Cowork: named teammates that work on each other's messages.        *)
(*                                                                         *)
(* The persistent state is three SQLite tables: the roster, the mailbox and *)
(* the handoffs.  The volatile state is the runtime's: the set of busy      *)
(* teammates and, for each, the drains that are working through its inbox.  *)
(* Every await of the source is a boundary between two actions; the code    *)
(* between two awaits is one action.  A model turn is the pair of actions   *)
(* that starts it and ends it, with any step of anyone in between.          *)
(***************************************************************************)
EXTENDS Mailbox, SequencesExt

CONSTANTS
  MaxReplyHops,   \* maxReplyHops: automatic replies stop at this hop count
  RoundLimit,     \* rounds one drain makes before it leaves the rest to a tick
  MaxCoworkers,   \* CINDERPAW_MAX_COWORKERS, the cap on the roster
  InitialRoster,  \* the teammates of the install
  MaxSends,       \* bound: messages sent by a person or by a teammate's tool
  MaxHandoffs,    \* bound: handoffs initiated
  MaxRemovals,    \* bound: teammates removed
  MaxCreations,   \* bound: teammates created
  MaxCrashes      \* bound: times the process dies and starts again

ASSUME LimitAssumption == /\ MaxReplyHops \in Nat
                          /\ RoundLimit \in Nat \ {0}
                          /\ MaxCoworkers \in Nat
ASSUME RosterAssumption == InitialRoster \subseteq Agents
ASSUME BoundAssumption == /\ MaxSends \in Nat    /\ MaxHandoffs \in Nat
                          /\ MaxRemovals \in Nat /\ MaxCreations \in Nat
                          /\ MaxCrashes \in Nat

VARIABLES
  roster,     \* cowork_agents: the teammates that exist
  mail,       \* cowork_mailbox
  handoffs,   \* cowork_handoffs
  busy,       \* CoworkRuntime.#busy
  drains,     \* the drains in progress of each teammate, oldest first
  cancelled,  \* history: messages removeTeammate rejected
  count       \* how often each bounded event has happened

store   == <<roster, mail, handoffs>>
runtime == <<busy, drains>>
vars    == <<roster, mail, handoffs, busy, drains, cancelled, count>>

HandoffStatus == {"initiated", "accepted", "completed", "failed"}

Handoff == [from : Addresses, to : Agents, thread : Threads \cup {NoThread},
            status : HandoffStatus]

(* What a drain awaits: nothing yet, between the messages and the handoffs; *)
(* the turn of message cur; that turn's outcome on its way to the status    *)
(* column, or the refusal of a receiver that is gone; and the turn of a     *)
(* handoff and its outcome.                                                 *)
Stage == {"messages", "messageTurn", "messageSettle", "messageRefused",
          "handoffs", "handoffTurn", "handoffSettle"}

Drain == [stage : Stage, queue : SUBSET Nat, cur : Nat, ok : BOOLEAN, round : Nat]

Bounded == {"sends", "handoffs", "removals", "creations", "crashes"}
Bound == [sends |-> MaxSends, handoffs |-> MaxHandoffs, removals |-> MaxRemovals,
          creations |-> MaxCreations, crashes |-> MaxCrashes]

Within(event) == /\ count[event] < Bound[event]
                 /\ count' = [count EXCEPT ![event] = @ + 1]

TypeOK ==
  /\ roster \subseteq Agents
  /\ mail \in Seq(Message)
  /\ handoffs \in Seq(Handoff)
  /\ busy \subseteq Agents
  /\ drains \in [Agents -> Seq(Drain)]
  /\ cancelled \subseteq Nat
  /\ count \in [Bounded -> Nat]

Init ==
  /\ roster = InitialRoster
  /\ mail = <<>>
  /\ handoffs = <<>>
  /\ busy = {}
  /\ drains = [a \in Agents |-> <<>>]
  /\ cancelled = {}
  /\ count = [event \in Bounded |-> 0]

-----------------------------------------------------------------------------
(***************************************************************************)
(* The runtime                                                             *)
(***************************************************************************)

Offers(offered, a) ==
  {h \in DOMAIN offered : offered[h].to = a /\ offered[h].status = "initiated"}

HasWork(rows, offered, a) == Pending(rows, a) # {} \/ Offers(offered, a) # {}

DrainedForEver(a, queue, round) ==   \* mutant of Drained
  IF queue = {}
    THEN [stage |-> "messages", queue |-> {}, cur |-> 0, ok |-> FALSE, round |-> round]
    ELSE [stage |-> IF a \in roster THEN "messageTurn" ELSE "messageRefused",
          queue |-> queue, cur |-> Max(queue), ok |-> FALSE, round |-> round]

(* The loop over the snapshot of the inbox, newest first, as far as it gets *)
(* without waiting: to the next turn, to the refusal that stands in for one *)
(* when the receiver is no longer on the roster, or to its end.             *)
Drained(a, queue, round) ==
  IF queue = {}
    THEN [stage |-> "messages", queue |-> {}, cur |-> 0, ok |-> FALSE, round |-> round]
    ELSE [stage |-> IF a \in roster THEN "messageTurn" ELSE "messageRefused",
          queue |-> queue \ {Max(queue)}, cur |-> Max(queue),
          ok |-> FALSE, round |-> round]

WokenThoughBusy(rows, offered) == {a \in roster : HasWork(rows, offered, a)} \* mutant of Woken

(* tick(): a drain for every teammate that has work and no drain.           *)
Woken(rows, offered) == {a \in roster \ busy : HasWork(rows, offered, a)}

StartDrains(rows, offered, running) ==
  /\ busy' = busy \cup Woken(rows, offered)
  /\ drains' = [a \in Agents |->
                  IF a \in Woken(rows, offered)
                    THEN Append(running[a], Drained(a, Pending(rows, a), 0))
                    ELSE running[a]]

(* send(): the row is inserted and the onSend listener wakes the runtime,   *)
(* which starts drains before send returns.                                 *)
Deliver(row, running) ==
  LET rows == Append(mail, row)
  IN  /\ mail' = rows
      /\ StartDrains(rows, handoffs, running)

(* The 15 s timer calls wake() whatever is happening.                       *)
Tick ==
  /\ Woken(mail, handoffs) # {}
  /\ StartDrains(mail, handoffs, drains)
  /\ UNCHANGED <<store, cancelled, count>>

(* Drain k of teammate a, at one stage.                                     *)
At(a, k, stage) == k \in DOMAIN drains[a] /\ drains[a][k].stage = stage

Set(a, k, drain) == [drains EXCEPT ![a] = [@ EXCEPT ![k] = drain]]

-----------------------------------------------------------------------------
(***************************************************************************)
(* A drain: first the messages                                             *)
(***************************************************************************)

(* keepForHuman: the answer, or the reason there is none, for the person.   *)
HumanReply(a, i, finished) ==
  [NewMessage(a, Human, mail[i].thread, mail[i].hops)
     EXCEPT !.replyTo = i, !.failed = ~finished]

TeammateReplySameHop(a, i) ==   \* mutant of TeammateReply
  [NewMessage(a, mail[i].from, mail[i].thread, mail[i].hops)
     EXCEPT !.chain = mail[i].chain + 1]

(* maybeReply: the answer to another teammate is one hop further.           *)
TeammateReply(a, i) ==
  [NewMessage(a, mail[i].from, mail[i].thread, mail[i].hops + 1)
     EXCEPT !.chain = mail[i].chain + 1]

MayReply(i) == mail[i].hops < MaxReplyHops

(* The turn is over: the answer is stored before the status is.             *)
EndMessageTurn(a, k, finished) ==
  /\ At(a, k, "messageTurn")
  /\ LET i == drains[a][k].cur
         settled == Set(a, k, [drains[a][k] EXCEPT !.stage = "messageSettle",
                                                   !.ok = finished])
     IN  CASE mail[i].from = Human -> Deliver(HumanReply(a, i, finished), settled)
           [] mail[i].from # Human /\ finished /\ MayReply(i) ->
                Deliver(TeammateReply(a, i), settled)
           [] OTHER -> drains' = settled /\ UNCHANGED <<mail, busy>>
  /\ UNCHANGED <<roster, handoffs, cancelled, count>>

StatusOfHandoff(ok) == IF ok THEN "processed" ELSE "failed"   \* mutant of StatusAfter
StatusLeftPending(ok) == IF ok THEN "processed" ELSE "pending"  \* mutant of StatusAfter

StatusAfter(ok) == IF ok THEN "processed" ELSE "rejected"

(* The status is recorded, whatever the row says by now, and the loop goes  *)
(* on to the next message.                                                  *)
SettleMessage(a, k) ==
  /\ At(a, k, "messageSettle") \/ At(a, k, "messageRefused")
  /\ mail' = UpdateStatus(mail, {drains[a][k].cur}, StatusAfter(drains[a][k].ok))
  /\ drains' = Set(a, k, Drained(a, drains[a][k].queue, drains[a][k].round))
  /\ UNCHANGED <<roster, handoffs, busy, cancelled, count>>

-----------------------------------------------------------------------------
(***************************************************************************)
(* ... then the handoffs                                                   *)
(***************************************************************************)

(* The loop over the snapshot of the offers: accept() the next, which       *)
(* throws unless it is still initiated, and start its turn.  A receiver     *)
(* that is gone is an outcome without a turn.                               *)
Claim(a, k, queue, offered) ==
  IF queue = {}
    THEN /\ handoffs' = offered
         /\ drains' = Set(a, k, [drains[a][k] EXCEPT !.stage = "handoffs", !.queue = {}])
    ELSE LET h == Max(queue)
         IN  /\ offered[h].status = "initiated"
             /\ handoffs' = [offered EXCEPT ![h].status = "accepted"]
             /\ drains' = Set(a, k,
                  [drains[a][k] EXCEPT
                     !.stage = IF a \in roster THEN "handoffTurn" ELSE "handoffSettle",
                     !.queue = queue \ {h}, !.cur = h, !.ok = FALSE])

ClaimHandoffs(a, k) ==
  /\ At(a, k, "messages")
  /\ Claim(a, k, Offers(handoffs, a), handoffs)
  /\ UNCHANGED <<roster, mail, busy, cancelled, count>>

HandoffResult(h) ==
  [NewMessage(handoffs[h].to, handoffs[h].from, handoffs[h].thread, 0)
     EXCEPT !.handoff = h]

EndHandoffTurnUnmailed(a, k, finished, blank) ==   \* mutant of EndHandoffTurn
  /\ At(a, k, "handoffTurn")
  /\ blank => finished
  /\ drains' = Set(a, k, [drains[a][k] EXCEPT !.stage = "handoffSettle",
                                              !.ok = finished /\ ~blank])
  /\ UNCHANGED <<store, busy, cancelled, count>>

(* A finished turn mails its text to the sender before anything is recorded. *)
(* A finished turn with a blank text is then refused by complete().         *)
EndHandoffTurn(a, k, finished, blank) ==
  /\ At(a, k, "handoffTurn")
  /\ blank => finished
  /\ LET h == drains[a][k].cur
         settled == Set(a, k, [drains[a][k] EXCEPT !.stage = "handoffSettle",
                                                   !.ok = finished /\ ~blank])
     IN  IF finished /\ handoffs[h].from # Human
           THEN Deliver(HandoffResult(h), settled)
           ELSE drains' = settled /\ UNCHANGED <<mail, busy>>
  /\ UNCHANGED <<roster, handoffs, cancelled, count>>

(* complete(), or fail() from the catch; then the next offer.               *)
SettleHandoff(a, k) ==
  /\ At(a, k, "handoffSettle")
  /\ LET status == IF drains[a][k].ok THEN "completed" ELSE "failed"
     IN  Claim(a, k, drains[a][k].queue,
               [handoffs EXCEPT ![drains[a][k].cur].status = status])
  /\ UNCHANGED <<roster, mail, busy, cancelled, count>>

EndRoundStillBusy(a, k) ==   \* mutant of EndRound
  /\ At(a, k, "handoffs")
  /\ drains' = [drains EXCEPT ![a] = RemoveAt(@, k)]
  /\ UNCHANGED <<store, busy, cancelled, count>>

(* Loop until the inbox stays empty, at most RoundLimit times.              *)
EndRound(a, k) ==
  /\ At(a, k, "handoffs")
  /\ LET next == drains[a][k].round + 1
     IN  IF next < RoundLimit /\ HasWork(mail, handoffs, a)
           THEN /\ drains' = Set(a, k, Drained(a, Pending(mail, a), next))
                /\ UNCHANGED busy
           ELSE /\ drains' = [drains EXCEPT ![a] = RemoveAt(@, k)]
                /\ busy' = busy \ {a}
  /\ UNCHANGED <<store, cancelled, count>>

DrainStep(a, k) ==
  \/ \E finished \in BOOLEAN : EndMessageTurn(a, k, finished)
  \/ SettleMessage(a, k)
  \/ ClaimHandoffs(a, k)
  \/ \E finished, blank \in BOOLEAN : EndHandoffTurn(a, k, finished, blank)
  \/ SettleHandoff(a, k)
  \/ EndRound(a, k)

-----------------------------------------------------------------------------
(***************************************************************************)
(* What the person, the main agent and the teammates' tools do             *)
(***************************************************************************)

(* A teammate can call a tool while one of its turns runs.                  *)
InTurn(a) ==
  \E k \in DOMAIN drains[a] : drains[a][k].stage \in {"messageTurn", "handoffTurn"}

(* cowork_user_message: the person writes to a teammate from the panel.     *)
UserMessage(to, thread) ==
  /\ to \in roster
  /\ Within("sends")
  /\ Deliver(NewMessage(Human, to, thread, LastHopsInThread(mail, thread) + 1), drains)
  /\ UNCHANGED <<roster, handoffs, cancelled>>

(* cowork_send: the sender is read off the root session.  In a teammate's   *)
(* turn it is that teammate, and the thread is the one the call names, if   *)
(* any; elsewhere it is the person, in the chat the call was made from.     *)
CoworkSend(from, to, thread) ==
  /\ IF from = Human THEN thread # NoThread ELSE InTurn(from)
  /\ to \in roster
  /\ Within("sends")
  /\ Deliver(NewMessage(from, to, thread, LastHopsInThread(mail, thread) + 1), drains)
  /\ UNCHANGED <<roster, handoffs, cancelled>>

(* takeReplies: the unread answers of a thread are handed over and marked.  *)
Unread(thread) == Pending(mail, Human) \cap ByThread(mail, thread)

TakeReplies(thread) ==
  /\ Unread(thread) # {}
  /\ mail' = UpdateStatus(mail, Unread(thread), "read")
  /\ UNCHANGED <<roster, handoffs, runtime, cancelled, count>>

RemoveTeammateOnly(a) ==   \* mutant of RemoveTeammate
  /\ a \in roster
  /\ Within("removals")
  /\ roster' = roster \ {a}
  /\ UNCHANGED <<mail, handoffs, runtime, cancelled>>

(* removeTeammate: what waits is rejected, then the row is deleted.  A turn *)
(* in progress goes on, and handoffs are not looked at.                     *)
RemoveTeammate(a) ==
  /\ a \in roster
  /\ Within("removals")
  /\ mail' = UpdateStatus(mail, Pending(mail, a), "rejected")
  /\ roster' = roster \ {a}
  /\ cancelled' = cancelled \cup Pending(mail, a)
  /\ UNCHANGED <<handoffs, runtime>>

(* cowork_create_teammate: the id is derived from the name, so the teammate *)
(* of a name that was removed has the id, and the inbox, of the old one.    *)
CreateTeammate(a) ==
  /\ a \notin roster
  /\ Cardinality(roster) < MaxCoworkers
  /\ Within("creations")
  /\ roster' = roster \cup {a}
  /\ UNCHANGED <<mail, handoffs, runtime, cancelled>>

(* initiate(): the row only; nothing wakes the receiver before the tick.    *)
Initiate(from, to, thread) ==
  /\ Within("handoffs")
  /\ handoffs' = Append(handoffs, [from |-> from, to |-> to, thread |-> thread,
                                   status |-> "initiated"])
  /\ UNCHANGED <<roster, mail, runtime, cancelled>>

(* The process dies between any two steps; the tables are all that is left, *)
(* and start() only arms the timer.                                         *)
Crash ==
  /\ Within("crashes")
  /\ busy' = {}
  /\ drains' = [a \in Agents |-> <<>>]
  /\ UNCHANGED <<store, cancelled>>

Outside ==
  \/ \E to \in Agents, thread \in Threads \cup {NoThread} :
       \/ UserMessage(to, thread)
       \/ \E from \in Addresses : CoworkSend(from, to, thread)
       \/ \E from \in Addresses : Initiate(from, to, thread)
  \/ \E thread \in Threads : TakeReplies(thread)
  \/ \E a \in Agents : RemoveTeammate(a) \/ CreateTeammate(a)
  \/ Crash

Next ==
  \/ Tick
  \/ \E a \in Agents : \E k \in DOMAIN drains[a] : DrainStep(a, k)
  \/ Outside

Spec == Init /\ [][Next]_vars

(* A drain that can go on does: runUnattended ends every turn, and the      *)
(* event loop runs every continuation.  The timer keeps rescheduling itself. *)
(* Nothing outside is obliged to happen.                                    *)
Fairness ==
  /\ WF_vars(Tick)
  /\ \A a \in Agents : WF_vars(\E k \in DOMAIN drains[a] : DrainStep(a, k))

FairSpec == Spec /\ Fairness

-----------------------------------------------------------------------------
(***************************************************************************)
(* Safety                                                                  *)
(***************************************************************************)

(* A teammate has at most one drain, and exactly while it is busy: its one  *)
(* session never runs two turns at once, however many sends, ticks and      *)
(* drains overlap (runtime.ts #busy and tick).                              *)
OneDrainPerTeammate ==
  \A a \in Agents : Len(drains[a]) = IF a \in busy THEN 1 ELSE 0

(* A question of the person is answered at most once in the life of a       *)
(* process; only a crash between the stored answer and the recorded status  *)
(* asks it again (runtime.ts #onMessage, worker-loop.ts #drainMessages).    *)
AnsweredOncePerLife ==
  \A q \in DOMAIN mail :
    Cardinality(Answers(mail, DOMAIN mail, q)) <= 1 + count.crashes

(* A reopened chat tells the truth about every question: one that is marked *)
(* processed is drawn with an answer, and one that is marked rejected with  *)
(* the reason, unless removing the teammate cancelled it (withHumanReplies  *)
(* over the rows #keepForHuman stored, against the status column).          *)
TranscriptShowsOutcome ==
  \A thread \in Threads : \A q \in ByThread(mail, thread) :
    LET shown == WithHumanReplies(mail, ByThread(mail, thread))[q]
    IN  mail[q].from = Human =>
          /\ mail[q].status = "processed" => shown # 0 /\ ~mail[shown].failed
          /\ mail[q].status = "rejected" /\ q \notin cancelled =>
               shown # 0 /\ mail[shown].failed

(* No question of the person waits for a teammate that does not exist, so   *)
(* cowork_replies never lists one as still working (removeTeammate).        *)
NoOrphanQuestion ==
  \A q \in DOMAIN mail :
    mail[q].from = Human /\ mail[q].status = "pending" => mail[q].to \in roster

(* Automatic replies stop: no row is more than MaxReplyHops automatic       *)
(* replies away from a message somebody chose to send, whatever the hop     *)
(* counts of the other messages of the thread (runtime.ts #maybeReply).     *)
RepliesStop == \A i \in DOMAIN mail : mail[i].chain <= MaxReplyHops

(* The sender of a handoff is mailed one result, never two, and always      *)
(* before the handoff is completed (runtime.ts #onHandoff).                 *)
Results(h) == {i \in DOMAIN mail : mail[i].handoff = h}

ResultPrecedesCompletion ==
  \A h \in DOMAIN handoffs :
    /\ Cardinality(Results(h)) <= 1
    /\ handoffs[h].status = "completed" /\ handoffs[h].from # Human => Results(h) # {}

(* accept() never throws: an offer a drain has in hand stays open until the *)
(* drain gets to it, though its sender, its receiver and the roster change  *)
(* in the meantime.  The claim is outside the try of the worker loop, so a  *)
(* throw would leave every handoff after it unclaimed.                      *)
ClaimsNeverThrow ==
  \A a \in Agents : \A k \in DOMAIN drains[a] :
    drains[a][k].stage \in {"handoffTurn", "handoffSettle"} =>
      drains[a][k].queue \subseteq Offers(handoffs, a)

-----------------------------------------------------------------------------
(***************************************************************************)
(* Steps                                                                   *)
(***************************************************************************)

(* What removeTeammate cancelled is never run ("Messages still waiting for  *)
(* them are cancelled", tools/builtin/cowork.ts).                           *)
StartsTurn(i) ==
  \E a \in Agents : \E k \in DOMAIN drains'[a] :
    /\ drains'[a][k].stage = "messageTurn" /\ drains'[a][k].cur = i
    /\ ~ \E l \in DOMAIN drains[a] :
           drains[a][l].stage = "messageTurn" /\ drains[a][l].cur = i

CancelledNeverRuns == [][\A i \in cancelled : ~StartsTurn(i)]_vars

-----------------------------------------------------------------------------
(***************************************************************************)
(* What the comments of the source say and the code does not keep          *)
(***************************************************************************)

(* "Reading the chain's current depth from the thread is what makes the cap *)
(* hold no matter which path sends the message" (mailbox.ts): no teammate   *)
(* is written to by another past the hop limit.                             *)
CapHoldsOnEveryPath ==
  \A i \in DOMAIN mail :
    mail[i].from \in Agents /\ mail[i].to \in Agents => mail[i].hops <= MaxReplyHops

-----------------------------------------------------------------------------
(***************************************************************************)
(* Liveness                                                                *)
(***************************************************************************)

CONSTANT Rows   \* the row ids the temporal properties speak of

Waits(i) == i \in DOMAIN mail /\ mail[i].to \in roster /\ mail[i].status = "pending"

(* A message to a teammate that stays on the roster is dealt with, even if  *)
(* it arrived while the teammate was busy, past the round limit of a drain  *)
(* or before a crash (runtime.ts wake, #schedule and the drain loop).       *)
MessagesAreDealtWith == \A i \in Rows : Waits(i) ~> ~Waits(i)

(* Left alone, the team falls silent: every drain ends and nobody keeps     *)
(* anybody busy (the loop guard of runtime.ts).                             *)
TeamFallsSilent == <>[](busy = {})

(* "Nobody drains the inbox of a teammate that no longer exists"            *)
(* (tools/builtin/cowork.ts): so nothing is left pending there for ever.    *)
Abandoned(i) == /\ i \in DOMAIN mail
                /\ mail[i].to \in Agents \ roster
                /\ mail[i].status = "pending"

NothingIsAbandoned == \A i \in Rows : Abandoned(i) ~> ~Abandoned(i)

=====================================================================================================================================================
