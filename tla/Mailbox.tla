------------------------------- MODULE Mailbox -------------------------------
(***************************************************************************)
(* The mailbox of Agent Cowork (CinderpawAgent/src/cowork/mailbox.ts): the  *)
(* table of messages and every query the rest of the feature asks of it.    *)
(*                                                                         *)
(* The table is a sequence of rows in insertion order, so a row's position  *)
(* is its id and its age at once: the queries order by created_at and break *)
(* ties by rowid, and the wall clock is taken to be non-decreasing.  Message *)
(* bodies are left out, except for the three things another row is found by: *)
(* the hop count and replyTo of the payload, and the handoff a result is of. *)
(***************************************************************************)
EXTENDS Naturals, Sequences, FiniteSets, FiniteSetsExt

CONSTANTS
  Agents,     \* the ids a teammate can have (cowork_agents.id)
  Human,      \* the address of the person, "human"
  Threads,    \* the conversations a message can belong to
  NoThread    \* thread_id NULL

ASSUME HumanAssumption  == Human \notin Agents
ASSUME ThreadAssumption == NoThread \notin Threads

Addresses == Agents \cup {Human}

MessageStatus == {"pending", "read", "processed", "rejected"}

(* One row.  hops is readHops(payload_json), which a row without a payload  *)
(* reads as 0; replyTo and handoff are 0 when the row answers nothing.      *)
(* chain is history: how many automatic replies led to this row.            *)
Message ==
  [from : Addresses, to : Addresses, thread : Threads \cup {NoThread},
   hops : Nat, replyTo : Nat, failed : BOOLEAN, handoff : Nat,
   status : MessageStatus, chain : Nat]

NewMessage(from, to, thread, hops) ==
  [from |-> from, to |-> to, thread |-> thread, hops |-> hops,
   replyTo |-> 0, failed |-> FALSE, handoff |-> 0,
   status |-> "pending", chain |-> 0]

PendingRetriesRejected(mail, addressee) ==   \* mutant of Pending
  {i \in DOMAIN mail : mail[i].to = addressee /\ mail[i].status \in {"pending", "rejected"}}

(* inbox(agent, "pending"): the ids of the rows waiting for one address.    *)
Pending(mail, addressee) ==
  {i \in DOMAIN mail : mail[i].to = addressee /\ mail[i].status = "pending"}

(* byThread: the ids of one conversation.                                   *)
ByThread(mail, thread) == {i \in DOMAIN mail : mail[i].thread = thread}

(* The hop count of the newest row of a thread.  A message without a thread *)
(* and a thread without a message both read as 0.                           *)
LastHopsInThread(mail, thread) ==
  IF thread = NoThread \/ ByThread(mail, thread) = {}
    THEN 0
    ELSE mail[Max(ByThread(mail, thread))].hops

(* updateStatus overwrites whatever status the row has.                     *)
UpdateStatus(mail, ids, status) ==
  [i \in DOMAIN mail |->
     IF i \in ids THEN [mail[i] EXCEPT !.status = status] ELSE mail[i]]

(***************************************************************************)
(* withHumanReplies: the rows a reopened chat draws.  Each question carries *)
(* the last of its stored answers, and the row of that answer is dropped.   *)
(***************************************************************************)
Answers(mail, rows, question) ==
  {r \in rows : mail[r].to = Human /\ mail[r].replyTo = question}

Answered(mail, rows) == {q \in rows : Answers(mail, rows, q) # {}}

Folded(mail, rows) ==
  {Max(Answers(mail, rows, q)) : q \in Answered(mail, rows)}

WithFirstReplies(mail, rows) ==   \* mutant of WithHumanReplies
  [q \in rows \ Folded(mail, rows) |->
     IF q \in Answered(mail, rows) THEN Min(Answers(mail, rows, q)) ELSE 0]

WithHumanReplies(mail, rows) ==
  [q \in rows \ Folded(mail, rows) |->
     IF q \in Answered(mail, rows) THEN Max(Answers(mail, rows, q)) ELSE 0]

=============================================================================
