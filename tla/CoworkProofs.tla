----------------------------- MODULE CoworkProofs -----------------------------
(***************************************************************************)
(* Proofs about Cowork, for any roster, any number of messages, handoffs,   *)
(* removals, re-creations and crashes, any hop limit and any round limit,   *)
(* in four parts, each with its invariant: drains and hops (CoworkInv), the *)
(* offers of handoffs (HandoffInv), answers and statuses (MessageInv), and  *)
(* that the team implements WorkContract and what was cancelled is not run  *)
(* (GoneInv).                                                               *)
(***************************************************************************)
EXTENDS CoworkRefinement, SequenceTheorems, FiniteSetTheorems, WellFoundedInduction, TLAPS

-----------------------------------------------------------------------------
(* The mailbox.                                                             *)

(* A non-empty set of row ids has a newest one.                             *)
LEMMA MaxOfRows ==
  ASSUME NEW n \in Nat, NEW S, S \subseteq 1 .. n, S # {}
  PROVE  Max(S) \in S /\ \A x \in S : Max(S) >= x
<1> DEFINE Less == {p \in Nat \X Nat : p[1] < p[2]}
           T == {n - x : x \in S}
<1>1. IsWellFoundedOn(Less, Nat)
  BY NatLessThanWellFounded DEF OpToRel, IsWellFoundedOn
<1>2. T \subseteq Nat
  BY SMT
<1>3. T # {}
  BY Zenon
<1>4. \E t \in T : \A u \in T : <<u, t>> \notin Less
  <2> HIDE DEF Less, T
  <2> QED BY <1>1, <1>2, <1>3, WFMin
<1>5. \E x \in S : \A y \in S : x >= y
  <2>1. PICK t \in T : \A u \in T : <<u, t>> \notin Less
    BY <1>4
  <2>2. PICK x \in S : t = n - x
    OBVIOUS
  <2>3. ASSUME NEW y \in S PROVE x >= y
    <3>1. <<n - y, n - x>> \notin Less
      BY <2>1, <2>2
    <3> QED
      BY <3>1
  <2> QED
    BY <2>3
<1> QED
  BY <1>5 DEF Max

(* Rewriting statuses keeps the rows and everything else they say.          *)
LEMMA UpdateStatusKeepsRows ==
  ASSUME NEW rows \in Seq(Message), NEW ids, NEW status \in MessageStatus
  PROVE  LET new == UpdateStatus(rows, ids, status)
         IN  /\ new \in Seq(Message) /\ Len(new) = Len(rows)
             /\ \A i \in 1 .. Len(rows) :
                  /\ new[i].from = rows[i].from /\ new[i].to = rows[i].to
                  /\ new[i].hops = rows[i].hops /\ new[i].chain = rows[i].chain
                  /\ new[i].thread = rows[i].thread /\ new[i].replyTo = rows[i].replyTo
                  /\ new[i].failed = rows[i].failed /\ new[i].handoff = rows[i].handoff
                  /\ new[i].status = IF i \in ids THEN status ELSE rows[i].status
<1> DEFINE new == UpdateStatus(rows, ids, status)
<1>1. DOMAIN rows = 1 .. Len(rows) /\ Len(rows) \in Nat
      /\ \A i \in 1 .. Len(rows) : rows[i] \in Message
  BY LenProperties, ElementOfSeq
<1>2. new = [i \in 1 .. Len(rows) |->
               IF i \in ids THEN [rows[i] EXCEPT !.status = status] ELSE rows[i]]
  BY <1>1 DEF UpdateStatus
<1>3. \A i \in 1 .. Len(rows) : new[i] \in Message
  BY <1>1, <1>2, ZenonT(30) DEF Message
<1>4. new \in [1 .. Len(rows) -> Message]
  BY <1>2, <1>3
<1>5. new \in Seq(Message)
  BY <1>1, <1>4, SeqDef
<1>6. Len(new) = Len(rows)
  BY <1>1, <1>4, <1>5, LenProperties
<1>7. \A i \in 1 .. Len(rows) :
        /\ new[i].from = rows[i].from /\ new[i].to = rows[i].to
        /\ new[i].hops = rows[i].hops /\ new[i].chain = rows[i].chain
        /\ new[i].thread = rows[i].thread /\ new[i].replyTo = rows[i].replyTo
        /\ new[i].failed = rows[i].failed /\ new[i].handoff = rows[i].handoff
        /\ new[i].status = IF i \in ids THEN status ELSE rows[i].status
  BY <1>1, <1>2 DEF Message
<1> QED
  BY <1>5, <1>6, <1>7

LEMMA NewMessageType ==
  ASSUME NEW from \in Addresses, NEW to \in Addresses,
         NEW thread \in Threads \cup {NoThread}, NEW hops \in Nat
  PROVE  /\ NewMessage(from, to, thread, hops) \in Message
         /\ NewMessage(from, to, thread, hops).chain = 0
         /\ NewMessage(from, to, thread, hops).hops = hops
         /\ NewMessage(from, to, thread, hops).from = from
         /\ NewMessage(from, to, thread, hops).to = to
         /\ NewMessage(from, to, thread, hops).thread = thread
         /\ NewMessage(from, to, thread, hops).replyTo = 0
         /\ NewMessage(from, to, thread, hops).handoff = 0
         /\ NewMessage(from, to, thread, hops).status = "pending"
  BY DEF NewMessage, Message, MessageStatus

(* The hop count read off a thread is one of its rows'.                     *)
LEMMA LastHopsType ==
  ASSUME NEW rows \in Seq(Message), NEW thread
  PROVE  LastHopsInThread(rows, thread) \in Nat
<1>1. DOMAIN rows = 1 .. Len(rows) /\ Len(rows) \in Nat
      /\ \A i \in 1 .. Len(rows) : rows[i] \in Message
  BY LenProperties, ElementOfSeq
<1>2. ByThread(rows, thread) \subseteq 1 .. Len(rows)
  BY <1>1 DEF ByThread
<1>3. CASE ByThread(rows, thread) = {} \/ thread = NoThread
  BY <1>3 DEF LastHopsInThread
<1>4. CASE ByThread(rows, thread) # {} /\ thread # NoThread
  <2>1. Max(ByThread(rows, thread)) \in 1 .. Len(rows)
    BY <1>1, <1>2, <1>4, MaxOfRows
  <2>2. rows[Max(ByThread(rows, thread))].hops \in Nat
    BY <1>1, <2>1 DEF Message
  <2> QED
    BY <1>4, <2>2 DEF LastHopsInThread
<1> QED
  BY <1>3, <1>4

-----------------------------------------------------------------------------
(***************************************************************************)
(* The drains.  What a drain holds are rows that exist, m messages and h    *)
(* handoffs being stored, and a teammate has a drain exactly while busy.    *)
(***************************************************************************)
DrainOK(d, m, h) ==
  /\ d \in Drain
  /\ d.stage \in {"messageTurn", "messageSettle", "messageRefused"} =>
       d.cur \in 1 .. m /\ d.queue \subseteq 1 .. m
  /\ d.stage \in {"handoffTurn", "handoffSettle"} =>
       d.cur \in 1 .. h /\ d.queue \subseteq 1 .. h

DrainsOK(running, working, m, h) ==
  /\ running \in [Agents -> Seq(Drain)]
  /\ \A a \in Agents :
       /\ Len(running[a]) = IF a \in working THEN 1 ELSE 0
       /\ \A k \in 1 .. Len(running[a]) : DrainOK(running[a][k], m, h)

LEMMA DrainsOKMonotone ==
  ASSUME NEW running, NEW working, NEW m \in Nat, NEW h \in Nat,
         NEW m2 \in Nat, NEW h2 \in Nat, m <= m2, h <= h2,
         DrainsOK(running, working, m, h)
  PROVE  DrainsOK(running, working, m2, h2)
<1>1. ASSUME NEW d, DrainOK(d, m, h) PROVE DrainOK(d, m2, h2)
  BY <1>1 DEF DrainOK
<1> QED
  BY <1>1 DEF DrainsOK

(* The loop over a snapshot stops at a row of the snapshot or at its end.   *)
LEMMA DrainedOK ==
  ASSUME NEW a, NEW m \in Nat, NEW h \in Nat, NEW round \in Nat,
         NEW queue, queue \subseteq 1 .. m
  PROVE  DrainOK(Drained(a, queue, round), m, h)
<1>1. CASE queue = {}
  BY <1>1 DEF Drained, DrainOK, Drain, Stage
<1>2. CASE queue # {}
  <2> DEFINE i == Max(queue)
             rest == queue \ {i}
             stage == IF a \in roster THEN "messageTurn" ELSE "messageRefused"
  <2>1. i \in 1 .. m /\ rest \subseteq 1 .. m /\ stage \in Stage
    BY <1>2, MaxOfRows DEF Stage
  <2>2. Drained(a, queue, round) =
          [stage |-> stage, queue |-> rest, cur |-> i, ok |-> FALSE, round |-> round]
    BY <1>2 DEF Drained
  <2>3. stage \notin {"handoffTurn", "handoffSettle"}
    OBVIOUS
  <2> HIDE DEF i, rest, stage
  <2>4. i \in Nat /\ rest \in SUBSET Nat
    BY <2>1
  <2>5. Drained(a, queue, round) \in Drain
    BY <2>1, <2>2, <2>4 DEF Drain
  <2> QED
    BY <2>1, <2>2, <2>3, <2>5 DEF DrainOK
<1> QED
  BY <1>1, <1>2

(* Moving a drain on keeps the others.                                      *)
LEMMA SetOK ==
  ASSUME NEW m \in Nat, NEW h \in Nat, NEW m2 \in Nat, NEW h2 \in Nat, m <= m2, h <= h2,
         DrainsOK(drains, busy, m, h),
         NEW a \in Agents, NEW k \in DOMAIN drains[a], NEW d, DrainOK(d, m2, h2)
  PROVE  DrainsOK(Set(a, k, d), busy, m2, h2)
<1> DEFINE new == [drains[a] EXCEPT ![k] = d]
<1>1. DrainsOK(drains, busy, m2, h2)
  BY DrainsOKMonotone
<1>2. drains[a] \in Seq(Drain) /\ k \in 1 .. Len(drains[a]) /\ d \in Drain
  BY <1>1, LenProperties DEF DrainsOK, DrainOK
<1>3. /\ new \in Seq(Drain) /\ Len(new) = Len(drains[a])
      /\ \A j \in 1 .. Len(drains[a]) : new[j] = IF j = k THEN d ELSE drains[a][j]
  BY <1>2, ExceptSeq
<1>4. Set(a, k, d) = [drains EXCEPT ![a] = new]
  BY DEF Set
<1> HIDE DEF new
<1>5. \A j \in 1 .. Len(new) : DrainOK(new[j], m2, h2)
  BY <1>1, <1>3 DEF DrainsOK
<1> QED
  BY <1>1, <1>3, <1>4, <1>5 DEF DrainsOK

(* A wake starts one drain for each teammate that had none.                 *)
LEMMA StartDrainsOK ==
  ASSUME NEW rows \in Seq(Message), NEW offered, NEW h \in Nat, NEW running,
         roster \subseteq Agents, busy \subseteq Agents,
         DrainsOK(running, busy, Len(rows), h),
         StartDrains(rows, offered, running)
  PROVE  busy' \subseteq Agents /\ DrainsOK(drains', busy', Len(rows), h)
<1> DEFINE woken == Woken(rows, offered)
           first(a) == Drained(a, Pending(rows, a), 0)
<1>0. Len(rows) \in Nat /\ DOMAIN rows = 1 .. Len(rows)
  BY LenProperties
<1>1. woken \subseteq Agents /\ woken \cap busy = {}
  BY DEF Woken
<1>2. ASSUME NEW a \in Agents PROVE DrainOK(first(a), Len(rows), h)
  <2>1. Pending(rows, a) \subseteq 1 .. Len(rows)
    BY <1>0 DEF Pending
  <2> QED
    BY <1>0, <2>1, DrainedOK
<1>3. /\ busy' = busy \cup woken
      /\ drains' = [a \in Agents |-> IF a \in woken THEN Append(running[a], first(a)) ELSE running[a]]
  BY DEF StartDrains
<1> HIDE DEF woken, first
<1>4. ASSUME NEW a \in Agents
      PROVE  /\ drains'[a] \in Seq(Drain)
             /\ Len(drains'[a]) = IF a \in busy' THEN 1 ELSE 0
             /\ \A k \in 1 .. Len(drains'[a]) : DrainOK(drains'[a][k], Len(rows), h)
  <2>1. CASE a \in woken
    <3>1. drains'[a] = Append(running[a], first(a)) /\ a \notin busy /\ a \in busy'
      BY <1>1, <1>3, <2>1
    <3>2. running[a] \in Seq(Drain) /\ Len(running[a]) = 0 /\ first(a) \in Drain
      BY <1>2, <3>1 DEF DrainsOK, DrainOK
    <3> QED
      BY <1>2, <3>1, <3>2, AppendProperties
  <2>2. CASE a \notin woken
    BY <1>3, <2>2 DEF DrainsOK
  <2> QED
    BY <2>1, <2>2
<1> QED
  BY <1>1, <1>3, <1>4 DEF DrainsOK

(* A delivery adds one row and whatever drains the wake starts.             *)
LEMMA DeliverOK ==
  ASSUME NEW h \in Nat, NEW running, NEW row \in Message, mail \in Seq(Message),
         roster \subseteq Agents, busy \subseteq Agents,
         DrainsOK(running, busy, Len(mail), h),
         Deliver(row, running)
  PROVE  /\ mail' = Append(mail, row)
         /\ mail' \in Seq(Message) /\ Len(mail') = Len(mail) + 1
         /\ busy' \subseteq Agents /\ DrainsOK(drains', busy', Len(mail'), h)
<1>1. /\ mail' = Append(mail, row) /\ StartDrains(mail', handoffs, running)
  BY DEF Deliver
<1>2. mail' \in Seq(Message) /\ Len(mail') = Len(mail) + 1 /\ Len(mail) \in Nat
  BY <1>1, AppendProperties, LenProperties
<1>3. DrainsOK(running, busy, Len(mail'), h)
  BY <1>2, DrainsOKMonotone
<1> QED
  BY <1>1, <1>2, <1>3, StartDrainsOK

-----------------------------------------------------------------------------
(***************************************************************************)
(* The inductive invariant.  RepliesStop is not inductive alone: that an    *)
(* answer is one automatic reply further is no reason for it to be within   *)
(* the limit, unless the hop count the limit is compared with counts every  *)
(* automatic reply.                                                         *)
(***************************************************************************)
RowOK(row, team) ==
  /\ row.chain <= row.hops
  /\ row.chain <= MaxReplyHops
  /\ row.from = Human /\ row.status = "pending" => row.to \in team

CoworkInv ==
  /\ TypeOK
  /\ DrainsOK(drains, busy, Len(mail), Len(handoffs))
  /\ \A i \in 1 .. Len(mail) : RowOK(mail[i], roster)

LEMMA LensAreNat == TypeOK => /\ Len(mail) \in Nat /\ Len(handoffs) \in Nat
                              /\ DOMAIN mail = 1 .. Len(mail)
                              /\ DOMAIN handoffs = 1 .. Len(handoffs)
                              /\ \A i \in 1 .. Len(mail) : mail[i] \in Message
                              /\ \A h \in 1 .. Len(handoffs) : handoffs[h] \in Handoff
  BY LenProperties, ElementOfSeq DEF TypeOK

(* A delivered row that is itself in order leaves the mailbox in order.     *)
LEMMA DeliverKeepsRows ==
  ASSUME CoworkInv, NEW running, NEW row \in Message, RowOK(row, roster),
         DrainsOK(running, busy, Len(mail), Len(handoffs)),
         Deliver(row, running),
         UNCHANGED <<roster, handoffs>>,
         cancelled' \subseteq Nat, count' \in [Bounded -> Nat]
  PROVE  CoworkInv'
<1>1. /\ Len(handoffs) \in Nat /\ Len(mail) \in Nat
      /\ mail \in Seq(Message) /\ roster \subseteq Agents /\ busy \subseteq Agents
  BY LensAreNat DEF CoworkInv, TypeOK
<1>2. /\ mail' = Append(mail, row)
      /\ mail' \in Seq(Message) /\ Len(mail') = Len(mail) + 1
      /\ busy' \subseteq Agents /\ DrainsOK(drains', busy', Len(mail'), Len(handoffs))
  BY <1>1, DeliverOK
<1>3. /\ \A i \in 1 .. Len(mail) : mail'[i] = mail[i]
      /\ mail'[Len(mail) + 1] = row
  BY <1>1, <1>2, AppendProperties
<1>4. ASSUME NEW i \in 1 .. Len(mail') PROVE RowOK(mail'[i], roster)
  <2>1. i \in 1 .. Len(mail) \/ i = Len(mail) + 1
    BY <1>1, <1>2
  <2> QED
    BY <1>3, <2>1 DEF CoworkInv
<1>5. drains' \in [Agents -> Seq(Drain)]
  BY <1>2 DEF DrainsOK
<1>6. TypeOK'
  BY <1>2, <1>5 DEF CoworkInv, TypeOK
<1> QED
  BY <1>2, <1>4, <1>6 DEF CoworkInv

(* Settling, cancelling or reading rows leaves the mailbox in order.        *)
LEMMA SettledRowsOK ==
  ASSUME CoworkInv, NEW ids, NEW status \in MessageStatus \ {"pending"},
         mail' = UpdateStatus(mail, ids, status)
  PROVE  /\ mail' \in Seq(Message) /\ Len(mail') = Len(mail)
         /\ \A i \in 1 .. Len(mail') : RowOK(mail'[i], roster)
         /\ \A i \in ids \cap (1 .. Len(mail')) : mail'[i].status # "pending"
         /\ \A i \in 1 .. Len(mail') : mail'[i].from = mail[i].from /\ mail'[i].to = mail[i].to
<1>1. mail \in Seq(Message)
  BY DEF CoworkInv, TypeOK
<1>2. /\ mail' \in Seq(Message) /\ Len(mail') = Len(mail)
      /\ \A i \in 1 .. Len(mail) :
            /\ mail'[i].from = mail[i].from /\ mail'[i].to = mail[i].to
            /\ mail'[i].hops = mail[i].hops /\ mail'[i].chain = mail[i].chain
            /\ mail'[i].status = IF i \in ids THEN status ELSE mail[i].status
  BY <1>1, UpdateStatusKeepsRows
<1> QED
  BY <1>2 DEF CoworkInv, RowOK

(* A handoff whose status is rewritten stays a handoff.                     *)
LEMMA HandoffStatusRewritten ==
  ASSUME NEW offered \in Seq(Handoff), NEW h \in 1 .. Len(offered), NEW status \in HandoffStatus
  PROVE  /\ [offered EXCEPT ![h].status = status] \in Seq(Handoff)
         /\ Len([offered EXCEPT ![h].status = status]) = Len(offered)
<1> DEFINE new == [offered[h] EXCEPT !.status = status]
<1>1. new \in Handoff
  <2>1. offered[h] \in Handoff
    BY ElementOfSeq
  <2> QED
    BY <2>1 DEF Handoff
<1>2. [offered EXCEPT ![h].status = status] = [offered EXCEPT ![h] = new]
  OBVIOUS
<1> QED
  BY <1>1, <1>2, ExceptSeq

(* Claiming the next offer leaves the drains in order.                      *)
LEMMA ClaimOK ==
  ASSUME CoworkInv, NEW a \in Agents, NEW k \in DOMAIN drains[a],
         NEW offered \in Seq(Handoff), Len(offered) = Len(handoffs),
         NEW queue, queue \subseteq 1 .. Len(handoffs),
         Claim(a, k, queue, offered)
  PROVE  /\ handoffs' \in Seq(Handoff) /\ Len(handoffs') = Len(handoffs)
         /\ DrainsOK(drains', busy, Len(mail), Len(handoffs))
<1>1. /\ Len(handoffs) \in Nat /\ Len(mail) \in Nat
      /\ DrainsOK(drains, busy, Len(mail), Len(handoffs))
      /\ drains[a] \in Seq(Drain) /\ drains[a][k] \in Drain
  BY LensAreNat, LenProperties, ElementOfSeq DEF CoworkInv, TypeOK
<1>2. CASE queue = {}
  <2> DEFINE d == [drains[a][k] EXCEPT !.stage = "handoffs", !.queue = {}]
  <2>1. DrainOK(d, Len(mail), Len(handoffs))
    BY <1>1 DEF DrainOK, Drain, Stage
  <2>2. handoffs' = offered /\ drains' = Set(a, k, d)
    BY <1>2 DEF Claim
  <2> HIDE DEF d
  <2> QED
    BY <1>1, <2>1, <2>2, SetOK
<1>3. CASE queue # {}
  <2> DEFINE h == Max(queue)
             rest == queue \ {h}
             stage == IF a \in roster THEN "handoffTurn" ELSE "handoffSettle"
             d == [drains[a][k] EXCEPT !.stage = stage, !.queue = rest, !.cur = h, !.ok = FALSE]
  <2>1. h \in 1 .. Len(handoffs) /\ rest \subseteq 1 .. Len(handoffs) /\ stage \in Stage
    BY <1>1, <1>3, MaxOfRows DEF Stage
  <2>2. handoffs' = [offered EXCEPT ![h].status = "accepted"] /\ drains' = Set(a, k, d)
    BY <1>3 DEF Claim
  <2>3. stage \in {"handoffTurn", "handoffSettle"}
    OBVIOUS
  <2> HIDE DEF h, rest, stage
  <2>4. DrainOK(d, Len(mail), Len(handoffs))
    <3>1. h \in Nat /\ rest \in SUBSET Nat
      BY <2>1
    <3> QED
      BY <1>1, <2>1, <2>3, <3>1 DEF DrainOK, Drain
  <2> HIDE DEF d
  <2>5. DrainsOK(drains', busy, Len(mail), Len(handoffs))
    BY <1>1, <2>2, <2>4, SetOK
  <2> QED
    BY <2>1, <2>2, <2>5, HandoffStatusRewritten DEF HandoffStatus
<1> QED
  BY <1>2, <1>3

-----------------------------------------------------------------------------
LEMMA CoworkInvInit == Init => CoworkInv
<1> SUFFICES ASSUME Init PROVE CoworkInv
  OBVIOUS
<1>1. /\ mail \in Seq(Message) /\ handoffs \in Seq(Handoff)
      /\ Len(mail) = 0 /\ Len(handoffs) = 0
  BY EmptySeq DEF Init
<1>2. <<>> \in Seq(Drain) /\ Len(<<>>) = 0
  BY EmptySeq
<1>3. TypeOK
  BY <1>1, <1>2, RosterAssumption DEF Init, TypeOK
<1>4. DrainsOK(drains, busy, Len(mail), Len(handoffs))
  BY <1>2 DEF Init, DrainsOK
<1> QED
  BY <1>1, <1>3, <1>4 DEF CoworkInv

(* The drain k of a teammate, and what there is to know of it.              *)
LEMMA ADrain ==
  ASSUME CoworkInv, NEW a \in Agents, NEW k \in DOMAIN drains[a]
  PROVE  /\ drains \in [Agents -> Seq(Drain)] /\ mail \in Seq(Message) /\ handoffs \in Seq(Handoff)
         /\ drains[a][k] \in Drain /\ DrainOK(drains[a][k], Len(mail), Len(handoffs))
         /\ DOMAIN drains[a] = {k} /\ a \in busy /\ k = 1 /\ Len(drains[a]) = 1
         /\ DOMAIN mail = 1 .. Len(mail) /\ DOMAIN handoffs = 1 .. Len(handoffs)
<1>1. /\ TypeOK /\ DrainsOK(drains, busy, Len(mail), Len(handoffs))
      /\ DOMAIN mail = 1 .. Len(mail) /\ DOMAIN handoffs = 1 .. Len(handoffs)
  BY LensAreNat DEF CoworkInv
<1>2. drains[a] \in Seq(Drain) /\ DOMAIN drains[a] = 1 .. Len(drains[a]) /\ Len(drains[a]) \in Nat
  BY <1>1, LenProperties DEF TypeOK
<1>3. drains[a][k] \in Drain /\ DrainOK(drains[a][k], Len(mail), Len(handoffs))
  BY <1>1, <1>2, ElementOfSeq DEF DrainsOK
<1>4. Len(drains[a]) = 1 /\ a \in busy
  BY <1>1, <1>2 DEF DrainsOK
<1>5. DOMAIN drains[a] = {k} /\ k = 1
  BY <1>2, <1>4
<1> QED
  BY <1>1, <1>3, <1>4, <1>5 DEF TypeOK

LEMMA LastDrainRemoved ==
  ASSUME CoworkInv, NEW a \in Agents, NEW k \in DOMAIN drains[a]
  PROVE  RemoveAt(drains[a], k) = <<>>
<1>1. SubSeq(drains[a], 1, 0) = <<>> /\ SubSeq(drains[a], 2, 1) = <<>>
  BY SubSeqEmpty
<1>2. <<>> \o <<>> = <<>>
  BY EmptySeq, ConcatEmptySeq
<1> QED
  BY <1>1, <1>2, ADrain DEF RemoveAt

(* The answers a turn leaves.                                               *)
LEMMA HumanReplyIs ==
  ASSUME NEW a \in Agents, NEW i \in Nat, mail[i] \in Message, NEW finished \in BOOLEAN
  PROVE  LET row == HumanReply(a, i, finished)
         IN  /\ row \in Message /\ row.chain = 0 /\ row.hops = mail[i].hops /\ row.hops \in Nat
             /\ row.from = a /\ row.to = Human /\ row.thread = mail[i].thread
             /\ row.replyTo = i /\ row.failed = ~finished /\ row.handoff = 0
             /\ row.status = "pending"
  BY DEF HumanReply, NewMessage, Message, MessageStatus, Addresses

LEMMA TeammateReplyIs ==
  ASSUME NEW a \in Agents, NEW i, mail[i] \in Message
  PROVE  LET row == TeammateReply(a, i)
         IN  /\ row \in Message /\ row.chain = mail[i].chain + 1 /\ row.hops = mail[i].hops + 1
             /\ row.from = a /\ row.to = mail[i].from
             /\ row.replyTo = 0 /\ row.handoff = 0 /\ row.status = "pending"
<1>1. /\ mail[i].chain \in Nat /\ mail[i].hops \in Nat /\ mail[i].from \in Addresses
      /\ mail[i].thread \in Threads \cup {NoThread}
  BY DEF Message
<1>2. PICK chain \in Nat, hops \in Nat : chain = mail[i].chain + 1 /\ hops = mail[i].hops + 1
  BY <1>1
<1> DEFINE blank == NewMessage(a, mail[i].from, mail[i].thread, hops)
<1>3. TeammateReply(a, i) = [blank EXCEPT !.chain = chain]
  BY <1>2 DEF TeammateReply
<1>4. /\ blank \in Message /\ blank.hops = hops /\ blank.from = a /\ blank.to = mail[i].from
      /\ blank.replyTo = 0 /\ blank.handoff = 0 /\ blank.status = "pending"
  BY <1>1 DEF NewMessage, Message, MessageStatus, Addresses
<1> HIDE DEF blank
<1> QED
  BY <1>1, <1>2, <1>3, <1>4 DEF Message

LEMMA HandoffResultIs ==
  ASSUME NEW h \in Nat, handoffs[h] \in Handoff
  PROVE  LET row == HandoffResult(h)
         IN  /\ row \in Message /\ row.chain = 0 /\ row.hops = 0
             /\ row.from = handoffs[h].to /\ row.from \in Agents /\ row.to = handoffs[h].from
             /\ row.replyTo = 0 /\ row.handoff = h /\ row.status = "pending"
  BY DEF HandoffResult, NewMessage, Message, MessageStatus, Addresses, Handoff

(* The steps of a drain.                                                    *)
LEMMA EndMessageTurnKeeps ==
  ASSUME CoworkInv, NEW a \in Agents, NEW k \in DOMAIN drains[a], NEW finished \in BOOLEAN,
         EndMessageTurn(a, k, finished)
  PROVE  CoworkInv'
<1> DEFINE i == drains[a][k].cur
           d == [drains[a][k] EXCEPT !.stage = "messageSettle", !.ok = finished]
<1>1. /\ TypeOK /\ Len(handoffs) \in Nat /\ Len(mail) \in Nat
      /\ DrainsOK(drains, busy, Len(mail), Len(handoffs))
      /\ \A j \in 1 .. Len(mail) : mail[j] \in Message
      /\ drains[a] \in Seq(Drain)
  BY LensAreNat DEF CoworkInv, TypeOK
<1>2. k \in 1 .. Len(drains[a]) /\ drains[a][k] \in Drain
  BY <1>1, LenProperties, ElementOfSeq
<1>3. drains[a][k].stage = "messageTurn" /\ DrainOK(drains[a][k], Len(mail), Len(handoffs))
  BY <1>1, <1>2 DEF EndMessageTurn, At, DrainsOK
<1>4. i \in 1 .. Len(mail) /\ DrainOK(d, Len(mail), Len(handoffs))
  BY <1>2, <1>3 DEF DrainOK, Drain, Stage
<1> DEFINE settled == Set(a, k, d)
<1>5. DrainsOK(settled, busy, Len(mail), Len(handoffs))
  BY <1>1, <1>4, SetOK
<1>6. /\ mail[i] \in Message /\ RowOK(mail[i], roster) /\ a \in Addresses /\ Human \in Addresses
  BY <1>1, <1>4 DEF CoworkInv, Addresses
<1>7. UNCHANGED <<roster, handoffs, cancelled, count>>
      /\ cancelled' \subseteq Nat /\ count' \in [Bounded -> Nat]
  BY <1>1 DEF EndMessageTurn, TypeOK
<1> HIDE DEF d
<1>8. CASE mail[i].from = Human
  <2> DEFINE row == HumanReply(a, i, finished)
  <2>1. Deliver(row, settled)
    BY <1>8 DEF EndMessageTurn, d
  <2>2. row \in Message /\ row.chain = 0 /\ row.hops \in Nat /\ row.from = a
    BY <1>1, <1>4, HumanReplyIs
  <2>3. RowOK(row, roster)
    BY <2>2, HumanAssumption, LimitAssumption DEF RowOK
  <2> QED
    BY <1>5, <1>7, <2>1, <2>2, <2>3, DeliverKeepsRows
<1>9. CASE mail[i].from # Human /\ finished /\ MayReply(i)
  <2> DEFINE row == TeammateReply(a, i)
  <2>1. Deliver(row, settled)
    BY <1>9 DEF EndMessageTurn, d
  <2>2. row \in Message /\ row.from = a
        /\ row.chain = mail[i].chain + 1 /\ row.hops = mail[i].hops + 1
    BY <1>1, <1>4, TeammateReplyIs
  <2>3. RowOK(row, roster)
    <3>1. /\ mail[i].chain \in Nat /\ mail[i].hops \in Nat
          /\ mail[i].chain <= mail[i].hops /\ mail[i].hops < MaxReplyHops
      BY <1>6, <1>9 DEF RowOK, MayReply, Message
    <3> QED
      BY <2>2, <3>1, HumanAssumption, LimitAssumption DEF RowOK
  <2> QED
    BY <1>5, <1>7, <2>1, <2>2, <2>3, DeliverKeepsRows
<1>10. CASE mail[i].from # Human /\ ~(finished /\ MayReply(i))
  <2>1. drains' = settled /\ UNCHANGED <<mail, busy>>
    BY <1>10 DEF EndMessageTurn, d
  <2> QED
    BY <1>5, <1>7, <2>1 DEF CoworkInv, TypeOK, DrainsOK
<1> QED
  BY <1>8, <1>9, <1>10

LEMMA SettleMessageKeeps ==
  ASSUME CoworkInv, NEW a \in Agents, NEW k \in DOMAIN drains[a], SettleMessage(a, k)
  PROVE  CoworkInv'
<1> DEFINE i == drains[a][k].cur
           d == Drained(a, drains[a][k].queue, drains[a][k].round)
           status == StatusAfter(drains[a][k].ok)
<1>1. /\ TypeOK /\ Len(handoffs) \in Nat /\ Len(mail) \in Nat
      /\ DrainsOK(drains, busy, Len(mail), Len(handoffs))
      /\ drains[a] \in Seq(Drain)
  BY LensAreNat DEF CoworkInv, TypeOK
<1>2. k \in 1 .. Len(drains[a]) /\ drains[a][k] \in Drain
  BY <1>1, LenProperties, ElementOfSeq
<1>3. drains[a][k].queue \subseteq 1 .. Len(mail) /\ drains[a][k].round \in Nat
  BY <1>1, <1>2 DEF SettleMessage, At, DrainsOK, DrainOK, Drain
<1>4. DrainOK(d, Len(mail), Len(handoffs))
  BY <1>1, <1>3, DrainedOK
<1>5. /\ mail' = UpdateStatus(mail, {i}, status) /\ drains' = Set(a, k, d)
      /\ UNCHANGED <<roster, handoffs, busy, cancelled, count>>
  BY DEF SettleMessage
<1>6. status \in MessageStatus \ {"pending"}
  BY DEF StatusAfter, MessageStatus
<1> HIDE DEF i, d, status
<1>7. /\ mail' \in Seq(Message) /\ Len(mail') = Len(mail)
      /\ \A j \in 1 .. Len(mail') : RowOK(mail'[j], roster)
  BY <1>5, <1>6, SettledRowsOK
<1>8. DrainsOK(drains', busy', Len(mail'), Len(handoffs'))
  BY <1>1, <1>4, <1>5, <1>7, SetOK
<1> QED
  BY <1>1, <1>5, <1>7, <1>8 DEF CoworkInv, TypeOK, DrainsOK

LEMMA ClaimHandoffsKeeps ==
  ASSUME CoworkInv, NEW a \in Agents, NEW k \in DOMAIN drains[a], ClaimHandoffs(a, k)
  PROVE  CoworkInv'
<1>1. TypeOK /\ handoffs \in Seq(Handoff) /\ DOMAIN handoffs = 1 .. Len(handoffs)
  BY LensAreNat DEF CoworkInv, TypeOK
<1>2. Offers(handoffs, a) \subseteq 1 .. Len(handoffs)
  BY <1>1 DEF Offers
<1>3. /\ handoffs' \in Seq(Handoff) /\ Len(handoffs') = Len(handoffs)
      /\ DrainsOK(drains', busy, Len(mail), Len(handoffs))
  BY <1>1, <1>2, ClaimOK DEF ClaimHandoffs
<1>4. UNCHANGED <<roster, mail, busy, cancelled, count>>
  BY DEF ClaimHandoffs
<1> QED
  BY <1>3, <1>4 DEF CoworkInv, TypeOK, DrainsOK

LEMMA SettleHandoffKeeps ==
  ASSUME CoworkInv, NEW a \in Agents, NEW k \in DOMAIN drains[a], SettleHandoff(a, k)
  PROVE  CoworkInv'
<1> DEFINE status == IF drains[a][k].ok THEN "completed" ELSE "failed"
           h == drains[a][k].cur
           settled == [handoffs EXCEPT ![h].status = status]
<1>1. /\ TypeOK /\ handoffs \in Seq(Handoff) /\ drains[a] \in Seq(Drain)
      /\ DrainsOK(drains, busy, Len(mail), Len(handoffs))
  BY DEF CoworkInv, TypeOK
<1>2. k \in 1 .. Len(drains[a])
  BY <1>1, LenProperties
<1>3. h \in 1 .. Len(handoffs) /\ drains[a][k].queue \subseteq 1 .. Len(handoffs)
  BY <1>1, <1>2 DEF SettleHandoff, At, DrainsOK, DrainOK
<1>4. status \in HandoffStatus
  BY DEF HandoffStatus
<1>5. Claim(a, k, drains[a][k].queue, settled)
  BY DEF SettleHandoff
<1> HIDE DEF status, h
<1>6. settled \in Seq(Handoff) /\ Len(settled) = Len(handoffs)
  BY <1>1, <1>3, <1>4, HandoffStatusRewritten
<1> HIDE DEF settled
<1>7. /\ handoffs' \in Seq(Handoff) /\ Len(handoffs') = Len(handoffs)
      /\ DrainsOK(drains', busy, Len(mail), Len(handoffs))
  BY <1>3, <1>5, <1>6, ClaimOK
<1>8. UNCHANGED <<roster, mail, busy, cancelled, count>>
  BY DEF SettleHandoff
<1> QED
  BY <1>7, <1>8 DEF CoworkInv, TypeOK, DrainsOK

LEMMA EndHandoffTurnKeeps ==
  ASSUME CoworkInv, NEW a \in Agents, NEW k \in DOMAIN drains[a],
         NEW finished \in BOOLEAN, NEW blank \in BOOLEAN,
         EndHandoffTurn(a, k, finished, blank)
  PROVE  CoworkInv'
<1> DEFINE h == drains[a][k].cur
           d == [drains[a][k] EXCEPT !.stage = "handoffSettle", !.ok = finished /\ ~blank]
           settled == Set(a, k, d)
<1>1. /\ TypeOK /\ Len(handoffs) \in Nat /\ Len(mail) \in Nat
      /\ DrainsOK(drains, busy, Len(mail), Len(handoffs))
      /\ \A j \in 1 .. Len(handoffs) : handoffs[j] \in Handoff
      /\ drains[a] \in Seq(Drain)
  BY LensAreNat DEF CoworkInv, TypeOK
<1>2. k \in 1 .. Len(drains[a]) /\ drains[a][k] \in Drain
  BY <1>1, LenProperties, ElementOfSeq
<1>3. drains[a][k].stage = "handoffTurn" /\ DrainOK(drains[a][k], Len(mail), Len(handoffs))
  BY <1>1, <1>2 DEF EndHandoffTurn, At, DrainsOK
<1>4. h \in 1 .. Len(handoffs) /\ DrainOK(d, Len(mail), Len(handoffs))
  BY <1>2, <1>3 DEF DrainOK, Drain, Stage
<1>5. DrainsOK(settled, busy, Len(mail), Len(handoffs))
  BY <1>1, <1>4, SetOK
<1>6. UNCHANGED <<roster, handoffs, cancelled, count>>
      /\ cancelled' \subseteq Nat /\ count' \in [Bounded -> Nat]
  BY <1>1 DEF EndHandoffTurn, TypeOK
<1> HIDE DEF d
<1>7. CASE finished /\ handoffs[h].from # Human
  <2> DEFINE row == HandoffResult(h)
  <2>1. Deliver(row, settled)
    BY <1>7 DEF EndHandoffTurn, d
  <2>2. row \in Message /\ row.chain = 0 /\ row.hops = 0 /\ row.from \in Agents
    BY <1>1, <1>4, HandoffResultIs
  <2>3. RowOK(row, roster)
    BY <2>2, HumanAssumption, LimitAssumption DEF RowOK
  <2> QED
    BY <1>5, <1>6, <2>1, <2>2, <2>3, DeliverKeepsRows
<1>8. CASE ~(finished /\ handoffs[h].from # Human)
  <2>1. drains' = settled /\ UNCHANGED <<mail, busy>>
    BY <1>8 DEF EndHandoffTurn, d
  <2> QED
    BY <1>5, <1>6, <2>1 DEF CoworkInv, TypeOK, DrainsOK
<1> QED
  BY <1>7, <1>8

LEMMA EndRoundKeeps ==
  ASSUME CoworkInv, NEW a \in Agents, NEW k \in DOMAIN drains[a], EndRound(a, k)
  PROVE  CoworkInv'
<1> DEFINE next == drains[a][k].round + 1
           again == next < RoundLimit /\ HasWork(mail, handoffs, a)
<1>1. /\ TypeOK /\ Len(handoffs) \in Nat /\ Len(mail) \in Nat
      /\ DOMAIN mail = 1 .. Len(mail)
      /\ DrainsOK(drains, busy, Len(mail), Len(handoffs))
      /\ drains[a] \in Seq(Drain)
  BY LensAreNat DEF CoworkInv, TypeOK
<1>2. k \in 1 .. Len(drains[a]) /\ drains[a][k] \in Drain
  BY <1>1, LenProperties, ElementOfSeq
<1>3. next \in Nat
  BY <1>2 DEF Drain
<1>4. UNCHANGED <<roster, mail, handoffs, cancelled, count>>
  BY DEF EndRound, store
<1>5. CASE again
  <2> DEFINE d == Drained(a, Pending(mail, a), next)
  <2>1. drains' = Set(a, k, d) /\ busy' = busy
    BY <1>5 DEF EndRound
  <2>2. Pending(mail, a) \subseteq 1 .. Len(mail)
    BY <1>1 DEF Pending
  <2>3. DrainOK(d, Len(mail), Len(handoffs))
    BY <1>1, <1>3, <2>2, DrainedOK
  <2> HIDE DEF d
  <2>4. DrainsOK(drains', busy', Len(mail), Len(handoffs))
    BY <1>1, <2>1, <2>3, SetOK
  <2> QED
    BY <1>4, <2>1, <2>4 DEF CoworkInv, TypeOK, DrainsOK
<1>6. CASE ~again
  <2>1. drains' = [drains EXCEPT ![a] = RemoveAt(@, k)] /\ busy' = busy \ {a}
    BY <1>6 DEF EndRound
  <2>3. RemoveAt(drains[a], k) = <<>>
    BY LastDrainRemoved
  <2>4. drains' = [drains EXCEPT ![a] = <<>>] /\ <<>> \in Seq(Drain) /\ Len(<<>>) = 0
    BY <2>1, <2>3, EmptySeq
  <2>5. DrainsOK(drains', busy', Len(mail), Len(handoffs))
    BY <1>1, <2>1, <2>4 DEF DrainsOK
  <2> QED
    BY <1>4, <2>1, <2>5 DEF CoworkInv, TypeOK, DrainsOK
<1> QED
  BY <1>5, <1>6

(* What happens outside the drains.                                         *)
LEMMA WithinType ==
  ASSUME TypeOK, NEW event \in Bounded, Within(event)
  PROVE  count' \in [Bounded -> Nat]
  BY DEF Within, TypeOK

LEMMA TickKeeps ==
  ASSUME CoworkInv, Tick
  PROVE  CoworkInv'
<1>1. /\ TypeOK /\ Len(handoffs) \in Nat
      /\ DrainsOK(drains, busy, Len(mail), Len(handoffs))
  BY LensAreNat DEF CoworkInv
<1>2. StartDrains(mail, handoffs, drains) /\ UNCHANGED <<roster, mail, handoffs, cancelled, count>>
  BY DEF Tick, store
<1>3. busy' \subseteq Agents /\ DrainsOK(drains', busy', Len(mail), Len(handoffs))
  BY <1>1, <1>2, StartDrainsOK DEF TypeOK
<1> QED
  BY <1>2, <1>3 DEF CoworkInv, TypeOK, DrainsOK

(* A message somebody chooses to send is written to a teammate of the roster. *)
LEMMA SendKeeps ==
  ASSUME CoworkInv, NEW from \in Addresses, NEW to \in Agents, to \in roster,
         NEW thread \in Threads \cup {NoThread},
         Within("sends"),
         Deliver(NewMessage(from, to, thread, LastHopsInThread(mail, thread) + 1), drains),
         UNCHANGED <<roster, handoffs, cancelled>>
  PROVE  CoworkInv'
<1>1. TypeOK /\ DrainsOK(drains, busy, Len(mail), Len(handoffs))
      /\ to \in Addresses /\ count' \in [Bounded -> Nat] /\ cancelled' \subseteq Nat
  BY WithinType DEF CoworkInv, TypeOK, Addresses, Bounded
<1>2. LastHopsInThread(mail, thread) \in Nat
  BY <1>1, LastHopsType DEF TypeOK
<1>3. PICK hops \in Nat : hops = LastHopsInThread(mail, thread) + 1
  BY <1>2
<1> DEFINE row == NewMessage(from, to, thread, hops)
<1>4. row \in Message /\ row.chain = 0 /\ row.hops = hops /\ row.to = to
  BY <1>1, <1>3, NewMessageType
<1>5. RowOK(row, roster)
  BY <1>3, <1>4, LimitAssumption DEF RowOK
<1>6. Deliver(row, drains)
  BY <1>3
<1> HIDE DEF row
<1> QED
  BY <1>1, <1>4, <1>5, <1>6, DeliverKeepsRows

LEMMA TakeRepliesKeeps ==
  ASSUME CoworkInv, NEW thread \in Threads, TakeReplies(thread)
  PROVE  CoworkInv'
<1>1. /\ mail' = UpdateStatus(mail, Unread(thread), "read")
      /\ UNCHANGED <<roster, handoffs, busy, drains, cancelled, count>>
  BY DEF TakeReplies, runtime
<1>2. "read" \in MessageStatus \ {"pending"}
  BY DEF MessageStatus
<1>3. /\ mail' \in Seq(Message) /\ Len(mail') = Len(mail)
      /\ \A j \in 1 .. Len(mail') : RowOK(mail'[j], roster)
  BY <1>1, <1>2, SettledRowsOK
<1> QED
  BY <1>1, <1>3 DEF CoworkInv, TypeOK, DrainsOK

LEMMA RemoveTeammateKeeps ==
  ASSUME CoworkInv, NEW a \in Agents, RemoveTeammate(a)
  PROVE  CoworkInv'
<1>1. /\ mail' = UpdateStatus(mail, Pending(mail, a), "rejected")
      /\ roster' = roster \ {a} /\ cancelled' = cancelled \cup Pending(mail, a)
      /\ UNCHANGED <<handoffs, busy, drains>> /\ Within("removals")
  BY DEF RemoveTeammate, runtime
<1>2. TypeOK /\ Len(mail) \in Nat /\ DOMAIN mail = 1 .. Len(mail)
      /\ DrainsOK(drains, busy, Len(mail), Len(handoffs))
  BY LensAreNat DEF CoworkInv
<1>3. "rejected" \in MessageStatus \ {"pending"}
  BY DEF MessageStatus
<1>4. /\ mail' \in Seq(Message) /\ Len(mail') = Len(mail)
      /\ \A j \in 1 .. Len(mail') : RowOK(mail'[j], roster)
      /\ \A j \in Pending(mail, a) \cap (1 .. Len(mail')) : mail'[j].status # "pending"
      /\ \A j \in 1 .. Len(mail') : mail'[j].from = mail[j].from /\ mail'[j].to = mail[j].to
  BY <1>1, <1>3, SettledRowsOK
<1>5. ASSUME NEW j \in 1 .. Len(mail') PROVE RowOK(mail'[j], roster')
  <2>1. CASE mail'[j].status = "pending" /\ mail'[j].from = Human
    <3>1. j \notin Pending(mail, a)
      BY <1>4, <2>1
    <3>2. mail[j].status = "pending"
      BY <1>1, <1>2, <1>4, <2>1, <3>1 DEF UpdateStatus
    <3>3. mail'[j].to # a
      BY <1>2, <1>4, <3>1, <3>2 DEF Pending
    <3> QED
      BY <1>1, <1>4, <2>1, <3>3 DEF RowOK
  <2>2. CASE ~(mail'[j].status = "pending" /\ mail'[j].from = Human)
    BY <1>4, <2>2 DEF RowOK
  <2> QED
    BY <2>1, <2>2
<1>6. count' \in [Bounded -> Nat]
  BY <1>1, <1>2, WithinType DEF Bounded
<1>7. Pending(mail, a) \subseteq Nat
  BY <1>2 DEF Pending
<1>8. cancelled' \subseteq Nat
  BY <1>1, <1>2, <1>7 DEF TypeOK
<1> QED
  BY <1>1, <1>2, <1>4, <1>5, <1>6, <1>8 DEF CoworkInv, TypeOK, DrainsOK

LEMMA CreateTeammateKeeps ==
  ASSUME CoworkInv, NEW a \in Agents, CreateTeammate(a)
  PROVE  CoworkInv'
<1>1. /\ roster' = roster \cup {a} /\ Within("creations")
      /\ UNCHANGED <<mail, handoffs, busy, drains, cancelled>>
  BY DEF CreateTeammate, runtime
<1>2. count' \in [Bounded -> Nat]
  BY <1>1, WithinType DEF CoworkInv, Bounded
<1>3. \A j \in 1 .. Len(mail) : RowOK(mail[j], roster')
  BY <1>1 DEF CoworkInv, RowOK
<1> QED
  BY <1>1, <1>2, <1>3 DEF CoworkInv, TypeOK, DrainsOK

LEMMA InitiateKeeps ==
  ASSUME CoworkInv, NEW from \in Addresses, NEW to \in Agents,
         NEW thread \in Threads \cup {NoThread}, Initiate(from, to, thread)
  PROVE  CoworkInv'
<1> DEFINE row == [from |-> from, to |-> to, thread |-> thread, status |-> "initiated"]
<1>1. /\ handoffs' = Append(handoffs, row) /\ Within("handoffs")
      /\ UNCHANGED <<roster, mail, busy, drains, cancelled>>
  BY DEF Initiate, runtime
<1>2. TypeOK /\ Len(mail) \in Nat /\ Len(handoffs) \in Nat
      /\ DrainsOK(drains, busy, Len(mail), Len(handoffs))
  BY LensAreNat DEF CoworkInv
<1>3. row \in Handoff
  BY DEF Handoff, HandoffStatus
<1> HIDE DEF row
<1>4. handoffs' \in Seq(Handoff) /\ Len(handoffs') = Len(handoffs) + 1
  BY <1>1, <1>2, <1>3, AppendProperties DEF TypeOK
<1>5. DrainsOK(drains, busy, Len(mail), Len(handoffs'))
  BY <1>2, <1>4, DrainsOKMonotone
<1>6. count' \in [Bounded -> Nat]
  BY <1>1, <1>2, WithinType DEF Bounded
<1> QED
  BY <1>1, <1>2, <1>4, <1>5, <1>6 DEF CoworkInv, TypeOK, DrainsOK

LEMMA CrashKeeps ==
  ASSUME CoworkInv, Crash
  PROVE  CoworkInv'
<1>1. /\ busy' = {} /\ drains' = [a \in Agents |-> <<>>] /\ Within("crashes")
      /\ UNCHANGED <<roster, mail, handoffs, cancelled>>
  BY DEF Crash, store
<1>2. count' \in [Bounded -> Nat]
  BY <1>1, WithinType DEF CoworkInv, Bounded
<1>3. <<>> \in Seq(Drain) /\ Len(<<>>) = 0
  BY EmptySeq
<1>4. DrainsOK(drains', busy', Len(mail), Len(handoffs))
  BY <1>1, <1>3 DEF DrainsOK
<1> QED
  BY <1>1, <1>2, <1>4 DEF CoworkInv, TypeOK, DrainsOK

LEMMA CoworkInvNext == CoworkInv /\ [Next]_vars => CoworkInv'
<1> SUFFICES ASSUME CoworkInv, [Next]_vars PROVE CoworkInv'
  OBVIOUS
<1>1. ASSUME NEW a \in Agents, NEW k \in DOMAIN drains[a], DrainStep(a, k) PROVE CoworkInv'
  BY <1>1, EndMessageTurnKeeps, SettleMessageKeeps, ClaimHandoffsKeeps,
     EndHandoffTurnKeeps, SettleHandoffKeeps, EndRoundKeeps DEF DrainStep
<1>2. ASSUME NEW to \in Agents, NEW thread \in Threads \cup {NoThread},
             UserMessage(to, thread)
      PROVE  CoworkInv'
  BY <1>2, SendKeeps DEF UserMessage, Addresses
<1>3. ASSUME NEW from \in Addresses, NEW to \in Agents, NEW thread \in Threads \cup {NoThread},
             CoworkSend(from, to, thread)
      PROVE  CoworkInv'
  BY <1>3, SendKeeps DEF CoworkSend
<1>4. CASE Outside
  BY <1>2, <1>3, <1>4, InitiateKeeps, TakeRepliesKeeps, RemoveTeammateKeeps,
     CreateTeammateKeeps, CrashKeeps DEF Outside
<1>5. CASE UNCHANGED vars
  BY <1>5 DEF vars, CoworkInv, TypeOK, DrainsOK
<1> QED
  BY <1>1, <1>4, <1>5, TickKeeps DEF Next

LEMMA CoworkInvariant == Spec => []CoworkInv
  BY CoworkInvInit, CoworkInvNext, PTL DEF Spec

-----------------------------------------------------------------------------
LEMMA InvImplies ==
  CoworkInv => TypeOK /\ OneDrainPerTeammate /\ RepliesStop /\ NoOrphanQuestion
<1> SUFFICES ASSUME CoworkInv
             PROVE  TypeOK /\ OneDrainPerTeammate /\ RepliesStop /\ NoOrphanQuestion
  OBVIOUS
<1>1. DOMAIN mail = 1 .. Len(mail)
  BY LensAreNat DEF CoworkInv
<1>2. OneDrainPerTeammate
  BY DEF CoworkInv, DrainsOK, OneDrainPerTeammate
<1> QED
  BY <1>1, <1>2 DEF CoworkInv, RowOK, RepliesStop, NoOrphanQuestion

(* Every reachable state of Cowork has its type; in particular a drain that *)
(* takes the newest row of a snapshot always finds one (#drainMessages).    *)
THEOREM CoworkType == Spec => []TypeOK
  BY CoworkInvariant, InvImplies, PTL

(* A teammate has at most one drain, exactly while it is busy, whatever     *)
(* wakes, deliveries, rounds and crashes come together (tick and #busy).    *)
THEOREM OneDrain == Spec => []OneDrainPerTeammate
  BY CoworkInvariant, InvImplies, PTL

(* No row is more than MaxReplyHops automatic replies away from a message   *)
(* somebody chose to send (#maybeReply).                                    *)
THEOREM AutomaticRepliesStop == Spec => []RepliesStop
  BY CoworkInvariant, InvImplies, PTL

(* No question of the person waits for a teammate that is off the roster    *)
(* (removeTeammate).                                                        *)
THEOREM QuestionsHaveATeammate == Spec => []NoOrphanQuestion
  BY CoworkInvariant, InvImplies, PTL

-----------------------------------------------------------------------------
(***************************************************************************)
(* The handoffs.  ClaimsNeverThrow and ResultPrecedesCompletion rest on the *)
(* same facts: the offers a drain has not come to are open and its own, the *)
(* one it works on is accepted and its own, and the result of that one is   *)
(* in the mailbox from the end of its turn, not before.                     *)
(***************************************************************************)
HandoffStages == {"handoffTurn", "handoffSettle"}

ResultsIn(rows, h) == {i \in DOMAIN rows : rows[i].handoff = h}

OfferHeld(a, d, rows, offered) ==
  d.stage \in HandoffStages =>
    /\ d.queue \subseteq Offers(offered, a)
    /\ d.cur \in DOMAIN offered /\ offered[d.cur].to = a /\ offered[d.cur].status = "accepted"
    /\ d.stage = "handoffTurn" => ResultsIn(rows, d.cur) = {}
    /\ d.stage = "handoffSettle" /\ d.ok /\ offered[d.cur].from # Human =>
         ResultsIn(rows, d.cur) # {}

ResultOf(h, rows, offered) ==
  /\ offered[h].status = "initiated" => ResultsIn(rows, h) = {}
  /\ offered[h].status = "completed" /\ offered[h].from # Human => ResultsIn(rows, h) # {}
  /\ \E i : ResultsIn(rows, h) \subseteq {i}

OffersOK(rows, offered, running) ==
  /\ \A a \in Agents : \A k \in DOMAIN running[a] : OfferHeld(a, running[a][k], rows, offered)
  /\ \A h \in DOMAIN offered : ResultOf(h, rows, offered)
  /\ \A i \in DOMAIN rows : rows[i].handoff = 0 \/ rows[i].handoff \in DOMAIN offered

HandoffInv == OffersOK(mail, handoffs, drains)

LEMMA OffersOfSameMail ==
  ASSUME NEW rows, NEW rows2, NEW offered, NEW running, OffersOK(rows, offered, running),
         \A h \in DOMAIN offered : ResultsIn(rows2, h) = ResultsIn(rows, h),
         \A i \in DOMAIN rows2 : rows2[i].handoff = 0 \/ rows2[i].handoff \in DOMAIN offered
  PROVE  OffersOK(rows2, offered, running)
<1>1. \A h \in DOMAIN offered : ResultOf(h, rows2, offered)
  BY DEF OffersOK, ResultOf
<1>2. \A a \in Agents : \A k \in DOMAIN running[a] : OfferHeld(a, running[a][k], rows2, offered)
  BY DEF OffersOK, OfferHeld
<1> QED
  BY <1>1, <1>2 DEF OffersOK

LEMMA OffersOfSameDrains ==
  ASSUME NEW rows, NEW offered, NEW running, NEW running2, OffersOK(rows, offered, running),
         \A a \in Agents : \A k \in DOMAIN running2[a] :
           \/ running2[a][k].stage \notin HandoffStages
           \/ k \in DOMAIN running[a] /\ running2[a][k] = running[a][k]
  PROVE  OffersOK(rows, offered, running2)
<1>1. \A a \in Agents : \A k \in DOMAIN running2[a] : OfferHeld(a, running2[a][k], rows, offered)
  BY DEF OffersOK, OfferHeld
<1> QED
  BY <1>1 DEF OffersOK

(* What a wake leaves of the drains: those there were, and fresh ones of    *)
(* teammates that were not busy.                                            *)
LEMMA StartedDrains ==
  ASSUME NEW rows, NEW offered, NEW running \in [Agents -> Seq(Drain)],
         StartDrains(rows, offered, running)
  PROVE  \A a \in Agents :
           /\ a \notin Woken(rows, offered) => drains'[a] = running[a]
           /\ a \in Woken(rows, offered) =>
                drains'[a] = Append(running[a], Drained(a, Pending(rows, a), 0))
           /\ \A k \in DOMAIN drains'[a] :
                \/ k \in DOMAIN running[a] /\ drains'[a][k] = running[a][k]
                \/ /\ a \in Woken(rows, offered)
                   /\ drains'[a][k] = Drained(a, Pending(rows, a), 0)
<1> SUFFICES ASSUME NEW a \in Agents
             PROVE  /\ a \notin Woken(rows, offered) => drains'[a] = running[a]
                    /\ a \in Woken(rows, offered) =>
                         drains'[a] = Append(running[a], Drained(a, Pending(rows, a), 0))
                    /\ \A k \in DOMAIN drains'[a] :
                         \/ k \in DOMAIN running[a] /\ drains'[a][k] = running[a][k]
                         \/ /\ a \in Woken(rows, offered)
                            /\ drains'[a][k] = Drained(a, Pending(rows, a), 0)
  OBVIOUS
<1> DEFINE first == Drained(a, Pending(rows, a), 0)
<1>1. drains'[a] = IF a \in Woken(rows, offered) THEN Append(running[a], first) ELSE running[a]
  BY DEF StartDrains
<1>2. running[a] \in Seq(Drain)
  OBVIOUS
<1> HIDE DEF first
<1>3. ASSUME NEW k \in DOMAIN Append(running[a], first)
      PROVE  \/ k \in DOMAIN running[a] /\ Append(running[a], first)[k] = running[a][k]
             \/ Append(running[a], first)[k] = first
  BY <1>2, <1>3
<1> QED
  BY <1>1, <1>3 DEF first

LEMMA DrainedStages ==
  ASSUME NEW a, NEW queue, NEW round
  PROVE  Drained(a, queue, round).stage \in {"messages", "messageTurn", "messageRefused"}
BY DEF Drained

LEMMA SetIs ==
  ASSUME drains \in [Agents -> Seq(Drain)], NEW a \in Agents, NEW k \in DOMAIN drains[a], NEW d \in Drain
  PROVE  /\ Set(a, k, d) \in [Agents -> Seq(Drain)]
         /\ \A b \in Agents :
              /\ DOMAIN Set(a, k, d)[b] = DOMAIN drains[b]
              /\ \A j \in DOMAIN drains[b] :
                   Set(a, k, d)[b][j] = IF b = a /\ j = k THEN d ELSE drains[b][j]
<1>1. drains[a] \in Seq(Drain) /\ DOMAIN drains[a] = 1 .. Len(drains[a])
  BY LenProperties
<1>2. [drains[a] EXCEPT ![k] = d] \in Seq(Drain)
  BY <1>1, ExceptSeq
<1>3. Set(a, k, d) = [drains EXCEPT ![a] = [drains[a] EXCEPT ![k] = d]]
  BY DEF Set
<1> QED
  BY <1>2, <1>3

LEMMA DrainMoved ==
  ASSUME drains \in [Agents -> Seq(Drain)], NEW a \in Agents, NEW k \in DOMAIN drains[a],
         NEW d, d \in Drain, drains' = Set(a, k, d)
  PROVE  \A b \in Agents : /\ DOMAIN drains'[b] = DOMAIN drains[b]
                           /\ \A j \in DOMAIN drains[b] :
                                drains'[b][j] = IF b = a /\ j = k THEN d ELSE drains[b][j]
<1> DEFINE new == Set(a, k, d)
<1>1. /\ new \in [Agents -> Seq(Drain)]
      /\ \A b \in Agents : /\ DOMAIN new[b] = DOMAIN drains[b]
                           /\ \A j \in DOMAIN drains[b] :
                                new[b][j] = IF b = a /\ j = k THEN d ELSE drains[b][j]
  BY SetIs
<1>2. drains' = new
  OBVIOUS
<1> HIDE DEF new
<1> QED
  BY <1>1, <1>2

(* A row that is the result of nothing, and a rewritten status, leave the   *)
(* results as they are.                                                     *)
LEMMA OffersRowAdded ==
  ASSUME NEW rows \in Seq(Message), NEW row \in Message, row.handoff = 0,
         NEW offered \in Seq(Handoff), NEW running, OffersOK(rows, offered, running)
  PROVE  OffersOK(Append(rows, row), offered, running)
<1> DEFINE new == Append(rows, row)
<1>1. /\ DOMAIN rows = 1 .. Len(rows) /\ Len(rows) \in Nat
      /\ DOMAIN new = 1 .. Len(rows) + 1 /\ new[Len(rows) + 1] = row
      /\ \A i \in 1 .. Len(rows) : new[i] = rows[i]
      /\ DOMAIN offered = 1 .. Len(offered)
  BY AppendProperties, LenProperties
<1>2. DOMAIN new = DOMAIN rows \cup {Len(rows) + 1}
  BY <1>1
<1>3. \A i \in DOMAIN rows : new[i] = rows[i]
  BY <1>1
<1>4. 0 \notin DOMAIN offered
  BY <1>1
<1> HIDE DEF new
<1>5. \A h \in DOMAIN offered : ResultsIn(new, h) = ResultsIn(rows, h)
  BY <1>1, <1>2, <1>3, <1>4 DEF ResultsIn
<1>6. \A i \in DOMAIN new : new[i].handoff = 0 \/ new[i].handoff \in DOMAIN offered
  BY <1>1, <1>2, <1>3 DEF OffersOK
<1> QED
  BY <1>5, <1>6, OffersOfSameMail DEF new

LEMMA OffersRowsSettled ==
  ASSUME NEW rows \in Seq(Message), NEW ids, NEW status \in MessageStatus,
         NEW offered, NEW running, OffersOK(rows, offered, running)
  PROVE  OffersOK(UpdateStatus(rows, ids, status), offered, running)
<1> DEFINE new == UpdateStatus(rows, ids, status)
<1>1. DOMAIN new = DOMAIN rows
  BY DEF UpdateStatus
<1>2. DOMAIN rows = 1 .. Len(rows) /\ \A i \in 1 .. Len(rows) : new[i].handoff = rows[i].handoff
  BY UpdateStatusKeepsRows, LenProperties
<1> HIDE DEF new
<1>3. \A h : ResultsIn(new, h) = ResultsIn(rows, h)
  BY <1>1, <1>2 DEF ResultsIn
<1> QED
  BY <1>1, <1>2, <1>3, OffersOfSameMail DEF OffersOK, new

LEMMA OffersWoken ==
  ASSUME NEW rows, NEW offered, NEW running \in [Agents -> Seq(Drain)],
         StartDrains(rows, offered, running), OffersOK(rows, offered, running)
  PROVE  OffersOK(rows, offered, drains')
<1>1. \A a \in Agents : \A k \in DOMAIN drains'[a] :
        \/ drains'[a][k].stage \notin HandoffStages
        \/ k \in DOMAIN running[a] /\ drains'[a][k] = running[a][k]
  BY StartedDrains, DrainedStages DEF HandoffStages
<1> QED
  BY <1>1, OffersOfSameDrains

LEMMA OffersDelivered ==
  ASSUME mail \in Seq(Message), handoffs \in Seq(Handoff), NEW row \in Message, row.handoff = 0,
         NEW running \in [Agents -> Seq(Drain)], OffersOK(mail, handoffs, running),
         Deliver(row, running)
  PROVE  OffersOK(mail', handoffs, drains')
<1>1. mail' = Append(mail, row) /\ StartDrains(mail', handoffs, running)
  BY DEF Deliver
<1>2. OffersOK(mail', handoffs, running)
  BY <1>1, OffersRowAdded
<1> QED
  BY <1>1, <1>2, OffersWoken

(* A drain that moves on to something other than a handoff.                 *)
LEMMA OffersMoved ==
  ASSUME TypeOK, HandoffInv, NEW a \in Agents, NEW k \in DOMAIN drains[a], NEW d \in Drain,
         d.stage \notin HandoffStages
  PROVE  Set(a, k, d) \in [Agents -> Seq(Drain)] /\ OffersOK(mail, handoffs, Set(a, k, d))
<1>1. drains \in [Agents -> Seq(Drain)]
  BY DEF TypeOK
<1> DEFINE new == Set(a, k, d)
<1>2. /\ new \in [Agents -> Seq(Drain)]
      /\ \A b \in Agents :
           /\ DOMAIN new[b] = DOMAIN drains[b]
           /\ \A j \in DOMAIN drains[b] : new[b][j] = IF b = a /\ j = k THEN d ELSE drains[b][j]
  BY <1>1, SetIs
<1> HIDE DEF new
<1>3. OffersOK(mail, handoffs, new)
  BY <1>2, OffersOfSameDrains DEF HandoffInv
<1> QED
  BY <1>2, <1>3 DEF new

LEMMA HandoffInvInit == Init => HandoffInv
<1> SUFFICES ASSUME Init PROVE HandoffInv
  OBVIOUS
<1>1. DOMAIN mail = {} /\ DOMAIN handoffs = {} /\ \A a \in Agents : DOMAIN drains[a] = {}
  BY DEF Init
<1> QED
  BY <1>1 DEF HandoffInv, OffersOK

LEMMA MessageTurnKeepsOffers ==
  ASSUME CoworkInv, HandoffInv, NEW a \in Agents, NEW k \in DOMAIN drains[a],
         NEW finished \in BOOLEAN, EndMessageTurn(a, k, finished)
  PROVE  HandoffInv'
<1> DEFINE i == drains[a][k].cur
           d == [drains[a][k] EXCEPT !.stage = "messageSettle", !.ok = finished]
           settled == Set(a, k, d)
<1>1. /\ drains[a][k] \in Drain /\ TypeOK /\ mail \in Seq(Message) /\ handoffs \in Seq(Handoff)
      /\ drains[a][k].stage = "messageTurn" /\ i \in 1 .. Len(mail)
  BY ADrain DEF CoworkInv, EndMessageTurn, At, DrainOK
<1>2. i \in Nat /\ mail[i] \in Message
  BY <1>1, ElementOfSeq
<1>3. d \in Drain /\ d.stage \notin HandoffStages
  BY <1>1 DEF Drain, Stage, HandoffStages
<1> HIDE DEF d
<1>4. settled \in [Agents -> Seq(Drain)] /\ OffersOK(mail, handoffs, settled)
  BY <1>1, <1>3, OffersMoved
<1>5. handoffs' = handoffs
  BY DEF EndMessageTurn
<1>6. CASE mail[i].from = Human
  <2>1. Deliver(HumanReply(a, i, finished), settled)
    BY <1>6 DEF EndMessageTurn, d
  <2>2. HumanReply(a, i, finished) \in Message /\ HumanReply(a, i, finished).handoff = 0
    BY <1>2, HumanReplyIs
  <2> QED BY <1>1, <1>4, <1>5, <2>1, <2>2, OffersDelivered DEF HandoffInv
<1>7. CASE mail[i].from # Human /\ finished /\ MayReply(i)
  <2>1. Deliver(TeammateReply(a, i), settled)
    BY <1>7 DEF EndMessageTurn, d
  <2>2. TeammateReply(a, i) \in Message /\ TeammateReply(a, i).handoff = 0
    BY <1>2, TeammateReplyIs
  <2> QED BY <1>1, <1>4, <1>5, <2>1, <2>2, OffersDelivered DEF HandoffInv
<1>8. CASE mail[i].from # Human /\ ~(finished /\ MayReply(i))
  <2>1. drains' = settled /\ mail' = mail
    BY <1>8 DEF EndMessageTurn, d
  <2> QED BY <1>4, <1>5, <2>1 DEF HandoffInv
<1> QED
  BY <1>6, <1>7, <1>8

LEMMA SettleMessageKeepsOffers ==
  ASSUME CoworkInv, HandoffInv, NEW a \in Agents, NEW k \in DOMAIN drains[a], SettleMessage(a, k)
  PROVE  HandoffInv'
<1> DEFINE d == Drained(a, drains[a][k].queue, drains[a][k].round)
           status == StatusAfter(drains[a][k].ok)
           ids == {drains[a][k].cur}
<1>1. /\ drains[a][k] \in Drain /\ TypeOK /\ mail \in Seq(Message)
      /\ drains[a][k].queue \subseteq 1 .. Len(mail) /\ Len(mail) \in Nat /\ Len(handoffs) \in Nat
  BY ADrain, LensAreNat DEF CoworkInv, SettleMessage, At, DrainOK
<1>2. d \in Drain /\ d.stage \notin HandoffStages
  <2>1. drains[a][k].round \in Nat
    BY <1>1 DEF Drain
  <2>2. DrainOK(d, Len(mail), Len(handoffs))
    BY <1>1, <2>1, DrainedOK
  <2> QED BY <2>2, DrainedStages DEF DrainOK, HandoffStages
<1>3. /\ mail' = UpdateStatus(mail, ids, status) /\ drains' = Set(a, k, d) /\ handoffs' = handoffs
      /\ status \in MessageStatus
  BY DEF SettleMessage, StatusAfter, MessageStatus
<1> HIDE DEF d, status, ids
<1>4. OffersOK(mail, handoffs, drains')
  BY <1>1, <1>2, <1>3, OffersMoved
<1> QED
  BY <1>1, <1>3, <1>4, OffersRowsSettled DEF HandoffInv

LEMMA EndRoundKeepsOffers ==
  ASSUME CoworkInv, HandoffInv, NEW a \in Agents, NEW k \in DOMAIN drains[a], EndRound(a, k)
  PROVE  HandoffInv'
<1> DEFINE next == drains[a][k].round + 1
<1>1. /\ drains[a][k] \in Drain /\ TypeOK /\ DOMAIN mail = 1 .. Len(mail)
      /\ Len(mail) \in Nat /\ Len(handoffs) \in Nat /\ DOMAIN drains[a] = {k}
      /\ drains \in [Agents -> Seq(Drain)]
  BY ADrain, LensAreNat DEF CoworkInv
<1>2. mail' = mail /\ handoffs' = handoffs
  BY DEF EndRound, store
<1>3. CASE next < RoundLimit /\ HasWork(mail, handoffs, a)
  <2> DEFINE d == Drained(a, Pending(mail, a), next)
  <2>1. d \in Drain /\ d.stage \notin HandoffStages
    <3>1. next \in Nat /\ Pending(mail, a) \subseteq 1 .. Len(mail)
      BY <1>1 DEF Drain, Pending
    <3>2. DrainOK(d, Len(mail), Len(handoffs))
      BY <1>1, <3>1, DrainedOK
    <3> QED BY <3>2, DrainedStages DEF DrainOK, HandoffStages
  <2>2. drains' = Set(a, k, d)
    BY <1>3 DEF EndRound
  <2> QED BY <1>1, <1>2, <2>1, <2>2, OffersMoved DEF HandoffInv
<1>4. CASE ~(next < RoundLimit /\ HasWork(mail, handoffs, a))
  <2>1. drains' = [drains EXCEPT ![a] = RemoveAt(@, k)]
    BY <1>4 DEF EndRound
  <2>2. DOMAIN drains'[a] = {} /\ \A b \in Agents \ {a} : drains'[b] = drains[b]
    <3>1. RemoveAt(drains[a], k) = <<>>
      BY LastDrainRemoved
    <3> QED BY <1>1, <2>1, <3>1
  <2>3. OffersOK(mail, handoffs, drains')
    BY <2>2, OffersOfSameDrains DEF HandoffInv
  <2> QED BY <1>2, <2>3 DEF HandoffInv
<1> QED
  BY <1>3, <1>4

(* A handoff of one teammate can change without the drains of another       *)
(* noticing.                                                                *)
LEMMA OthersKeepOffers ==
  ASSUME NEW b, NEW d, NEW rows, NEW offered, NEW new, OfferHeld(b, d, rows, offered),
         DOMAIN new = DOMAIN offered, NEW c, offered[c].to # b,
         \A h \in DOMAIN offered : h # c => new[h] = offered[h]
  PROVE  OfferHeld(b, d, rows, new)
<1> SUFFICES ASSUME d.stage \in HandoffStages
             PROVE  OfferHeld(b, d, rows, new)
  BY DEF OfferHeld
<1>1. d.queue \subseteq Offers(offered, b) /\ d.cur \in DOMAIN offered /\ offered[d.cur].to = b
  BY DEF OfferHeld
<1>2. d.queue \subseteq Offers(new, b) /\ new[d.cur] = offered[d.cur]
  BY <1>1 DEF Offers
<1> QED
  BY <1>2 DEF OfferHeld

LEMMA StatusOfOne ==
  ASSUME NEW offered \in Seq(Handoff), NEW c \in DOMAIN offered, NEW status \in HandoffStatus
  PROVE  LET new == [offered EXCEPT ![c].status = status]
         IN  /\ new \in Seq(Handoff) /\ DOMAIN new = DOMAIN offered
             /\ \A h \in DOMAIN offered : h # c => new[h] = offered[h]
             /\ new[c].to = offered[c].to /\ new[c].from = offered[c].from
             /\ new[c].status = status
<1> DEFINE new == [offered EXCEPT ![c].status = status]
<1>1. c \in 1 .. Len(offered) /\ offered[c] \in Handoff
  BY LenProperties, ElementOfSeq
<1>2. new \in Seq(Handoff)
  BY <1>1, HandoffStatusRewritten
<1>3. DOMAIN new = DOMAIN offered /\ \A h \in DOMAIN offered : h # c => new[h] = offered[h]
  OBVIOUS
<1>4. new[c] = [offered[c] EXCEPT !.status = status]
  OBVIOUS
<1>5. /\ new[c].to = offered[c].to /\ new[c].from = offered[c].from
      /\ new[c].status = status
  BY <1>1, <1>4 DEF Handoff
<1> QED
  BY <1>2, <1>3, <1>5

LEMMA ClaimKeepsOffers ==
  ASSUME CoworkInv, NEW a \in Agents, NEW k \in DOMAIN drains[a],
         NEW offered \in Seq(Handoff), NEW queue, queue \subseteq Offers(offered, a),
         \A b \in Agents \ {a} : \A j \in DOMAIN drains[b] :
           OfferHeld(b, drains[b][j], mail, offered),
         \A h \in DOMAIN offered : ResultOf(h, mail, offered),
         \A i \in DOMAIN mail : mail[i].handoff = 0 \/ mail[i].handoff \in DOMAIN offered,
         Claim(a, k, queue, offered)
  PROVE  OffersOK(mail, handoffs', drains')
<1>1. /\ drains \in [Agents -> Seq(Drain)] /\ drains[a][k] \in Drain /\ DOMAIN drains[a] = {k}
      /\ DOMAIN offered = 1 .. Len(offered) /\ Len(offered) \in Nat
  BY ADrain, LenProperties
<1>2. queue \subseteq 1 .. Len(offered)
  BY <1>1 DEF Offers
<1>3. CASE queue = {}
  <2> DEFINE d == [drains[a][k] EXCEPT !.stage = "handoffs", !.queue = {}]
  <2>1. d \in Drain /\ d.stage \notin HandoffStages
    BY <1>1 DEF Drain, Stage, HandoffStages
  <2>2. handoffs' = offered /\ drains' = Set(a, k, d)
    BY <1>3 DEF Claim
  <2> HIDE DEF d
  <2>3. \A b \in Agents : /\ DOMAIN drains'[b] = DOMAIN drains[b]
                          /\ \A j \in DOMAIN drains[b] :
                               drains'[b][j] = IF b = a /\ j = k THEN d ELSE drains[b][j]
    BY <1>1, <2>1, <2>2, DrainMoved
  <2>4. ASSUME NEW b \in Agents, NEW j \in DOMAIN drains'[b]
        PROVE  OfferHeld(b, drains'[b][j], mail, offered)
    <3>1. CASE b = a
      BY <1>1, <2>1, <2>3, <2>4, <3>1 DEF OfferHeld
    <3>2. CASE b # a
      BY <2>3, <2>4, <3>2
    <3> QED BY <3>1, <3>2
  <2> QED BY <2>2, <2>4 DEF OffersOK
<1>4. CASE queue # {}
  <2> DEFINE h == Max(queue)
             stage == IF a \in roster THEN "handoffTurn" ELSE "handoffSettle"
             d == [drains[a][k] EXCEPT !.stage = stage, !.queue = queue \ {h}, !.cur = h, !.ok = FALSE]
  <2>1. /\ handoffs' = [offered EXCEPT ![h].status = "accepted"] /\ drains' = Set(a, k, d)
        /\ stage \in HandoffStages
    BY <1>4 DEF Claim, HandoffStages
  <2>2. h \in queue /\ h \in DOMAIN offered
    BY <1>1, <1>2, <1>4, MaxOfRows
  <2> HIDE DEF h, stage
  <2>3. /\ d \in Drain /\ d.stage = stage /\ d.queue = queue \ {h} /\ d.cur = h /\ d.ok = FALSE
    <3>1. h \in Nat /\ queue \ {h} \in SUBSET Nat /\ stage \in Stage
      BY <1>1, <1>2, <2>1, <2>2 DEF HandoffStages, Stage
    <3> QED BY <1>1, <3>1 DEF Drain
  <2> HIDE DEF d
  <2>4. /\ DOMAIN handoffs' = DOMAIN offered /\ handoffs'[h].status = "accepted"
        /\ \A q \in DOMAIN offered : q # h => handoffs'[q] = offered[q]
        /\ handoffs'[h].to = offered[h].to /\ handoffs'[h].from = offered[h].from
    BY <2>1, <2>2, StatusOfOne DEF HandoffStatus
  <2>5. offered[h].to = a /\ offered[h].status = "initiated" /\ ResultsIn(mail, h) = {}
    BY <2>2 DEF Offers, ResultOf
  <2>6. \A b \in Agents : /\ DOMAIN drains'[b] = DOMAIN drains[b]
                          /\ \A j \in DOMAIN drains[b] :
                               drains'[b][j] = IF b = a /\ j = k THEN d ELSE drains[b][j]
    BY <1>1, <2>3, <2>1, DrainMoved
  <2>7. OfferHeld(a, d, mail, handoffs')
    <3>1. queue \ {h} \subseteq Offers(handoffs', a)
      BY <2>4 DEF Offers
    <3> QED BY <2>2, <2>3, <2>4, <2>5, <3>1 DEF OfferHeld
  <2>8. ASSUME NEW b \in Agents, NEW j \in DOMAIN drains'[b]
        PROVE  OfferHeld(b, drains'[b][j], mail, handoffs')
    <3>1. CASE b = a
      BY <1>1, <2>6, <2>7, <2>8, <3>1
    <3>2. CASE b # a
      <4>1. j \in DOMAIN drains[b] /\ drains'[b][j] = drains[b][j] /\ offered[h].to # b
        BY <2>5, <2>6, <2>8, <3>2
      <4> QED BY <2>4, <3>2, <4>1, OthersKeepOffers
    <3> QED BY <3>1, <3>2
  <2>9. \A q \in DOMAIN handoffs' : ResultOf(q, mail, handoffs')
    BY <2>4, <2>5 DEF ResultOf
  <2> QED BY <2>4, <2>8, <2>9 DEF OffersOK
<1> QED
  BY <1>3, <1>4

LEMMA ClaimHandoffsKeepsOffers ==
  ASSUME CoworkInv, HandoffInv, NEW a \in Agents, NEW k \in DOMAIN drains[a], ClaimHandoffs(a, k)
  PROVE  HandoffInv'
<1>1. Claim(a, k, Offers(handoffs, a), handoffs) /\ mail' = mail
  BY DEF ClaimHandoffs
<1>2. handoffs \in Seq(Handoff)
  BY ADrain
<1> QED
  BY <1>1, <1>2, ClaimKeepsOffers DEF HandoffInv, OffersOK

LEMMA SettleHandoffKeepsOffers ==
  ASSUME CoworkInv, HandoffInv, NEW a \in Agents, NEW k \in DOMAIN drains[a], SettleHandoff(a, k)
  PROVE  HandoffInv'
<1> DEFINE status == IF drains[a][k].ok THEN "completed" ELSE "failed"
           c == drains[a][k].cur
           queue == drains[a][k].queue
           offered == [handoffs EXCEPT ![c].status = status]
<1>1. /\ Claim(a, k, queue, offered) /\ mail' = mail /\ drains[a][k].stage = "handoffSettle"
      /\ handoffs \in Seq(Handoff) /\ status \in HandoffStatus
  BY ADrain DEF SettleHandoff, At, HandoffStatus
<1>2. /\ queue \subseteq Offers(handoffs, a) /\ c \in DOMAIN handoffs
      /\ handoffs[c].to = a /\ handoffs[c].status = "accepted"
      /\ drains[a][k].ok /\ handoffs[c].from # Human => ResultsIn(mail, c) # {}
  BY <1>1 DEF HandoffInv, OffersOK, OfferHeld, HandoffStages
<1>3. /\ status = "completed" => drains[a][k].ok
      /\ status # "initiated"
  OBVIOUS
<1> HIDE DEF c, status
<1>4. /\ offered \in Seq(Handoff) /\ DOMAIN offered = DOMAIN handoffs
      /\ \A h \in DOMAIN handoffs : h # c => offered[h] = handoffs[h]
      /\ offered[c].to = handoffs[c].to /\ offered[c].from = handoffs[c].from
      /\ offered[c].status = status
  BY <1>1, <1>2, StatusOfOne
<1> HIDE DEF offered, queue
<1>5. queue \subseteq Offers(offered, a)
  BY <1>2, <1>4 DEF Offers
<1>6. \A b \in Agents \ {a} : \A j \in DOMAIN drains[b] : OfferHeld(b, drains[b][j], mail, offered)
  BY <1>2, <1>4, OthersKeepOffers DEF HandoffInv, OffersOK
<1>7. \A h \in DOMAIN offered : ResultOf(h, mail, offered)
  BY <1>2, <1>3, <1>4 DEF HandoffInv, OffersOK, ResultOf
<1>8. \A i \in DOMAIN mail : mail[i].handoff = 0 \/ mail[i].handoff \in DOMAIN offered
  BY <1>4 DEF HandoffInv, OffersOK
<1>9. OffersOK(mail, handoffs', drains')
  BY <1>1, <1>4, <1>5, <1>6, <1>7, <1>8, ClaimKeepsOffers
<1> QED
  BY <1>1, <1>9 DEF HandoffInv

LEMMA HandoffTurnKeepsOffers ==
  ASSUME CoworkInv, HandoffInv, NEW a \in Agents, NEW k \in DOMAIN drains[a],
         NEW finished \in BOOLEAN, NEW blank \in BOOLEAN,
         EndHandoffTurn(a, k, finished, blank)
  PROVE  HandoffInv'
<1> DEFINE c == drains[a][k].cur
           d == [drains[a][k] EXCEPT !.stage = "handoffSettle", !.ok = finished /\ ~blank]
           settled == Set(a, k, d)
<1>1. /\ drains[a][k] \in Drain /\ drains \in [Agents -> Seq(Drain)] /\ DOMAIN drains[a] = {k}
      /\ mail \in Seq(Message) /\ handoffs \in Seq(Handoff) /\ Len(mail) \in Nat
      /\ DOMAIN mail = 1 .. Len(mail) /\ DOMAIN handoffs = 1 .. Len(handoffs)
      /\ drains[a][k].stage = "handoffTurn"
  BY ADrain, LenProperties DEF EndHandoffTurn, At
<1>2. /\ drains[a][k].queue \subseteq Offers(handoffs, a) /\ c \in DOMAIN handoffs
      /\ handoffs[c].to = a /\ handoffs[c].status = "accepted" /\ ResultsIn(mail, c) = {}
  BY <1>1, ZenonT(30) DEF HandoffInv, OffersOK, OfferHeld, HandoffStages
<1>3. c \in Nat /\ handoffs[c] \in Handoff
  BY <1>1, <1>2, ElementOfSeq
<1>4. /\ d \in Drain /\ d.stage = "handoffSettle" /\ d.cur = c /\ d.queue = drains[a][k].queue
      /\ d.ok = (finished /\ ~blank)
  BY <1>1 DEF Drain, Stage
<1> HIDE DEF c, d
<1>5. /\ settled \in [Agents -> Seq(Drain)]
      /\ \A b \in Agents :
           /\ DOMAIN settled[b] = DOMAIN drains[b]
           /\ \A j \in DOMAIN drains[b] : settled[b][j] = IF b = a /\ j = k THEN d ELSE drains[b][j]
  <2>1. drains \in [Agents -> Seq(Drain)] /\ d \in Drain
    BY <1>1, <1>4
  <2> QED BY <2>1, SetIs
<1>6. handoffs' = handoffs
  BY DEF EndHandoffTurn
<1> HIDE DEF settled
<1>7. CASE finished /\ handoffs[c].from # Human
  <2> DEFINE row == HandoffResult(c)
             rows == Append(mail, row)
  <2>1. Deliver(row, settled)
    BY <1>7 DEF EndHandoffTurn, d, c, settled
  <2>2. row \in Message /\ row.handoff = c
    BY <1>3, HandoffResultIs
  <2> HIDE DEF row
  <2>3. /\ DOMAIN rows = DOMAIN mail \cup {Len(mail) + 1} /\ Len(mail) + 1 \notin DOMAIN mail
        /\ \A i \in DOMAIN mail : rows[i] = mail[i]
        /\ rows[Len(mail) + 1] = row
    <3>1. /\ DOMAIN rows = 1 .. Len(mail) + 1 /\ rows[Len(mail) + 1] = row
          /\ \A i \in 1 .. Len(mail) : rows[i] = mail[i]
      BY <1>1, <2>2, AppendProperties, LenProperties
    <3> QED BY <1>1, <3>1
  <2>4. mail' = rows /\ StartDrains(rows, handoffs, settled)
    BY <2>1 DEF Deliver
  <2> HIDE DEF rows
  <2>5. /\ ResultsIn(rows, c) = {Len(mail) + 1}
        /\ \A h : h # c => ResultsIn(rows, h) = ResultsIn(mail, h)
    BY <1>2, <2>2, <2>3 DEF ResultsIn
  <2>6. ASSUME NEW b \in Agents, NEW j \in DOMAIN settled[b]
        PROVE  OfferHeld(b, settled[b][j], rows, handoffs)
    <3>1. CASE b = a
      <4>1. settled[b][j] = d
        BY <1>1, <1>5, <2>6, <3>1
      <4> QED BY <1>2, <1>4, <2>5, <3>1, <4>1 DEF OfferHeld
    <3>2. CASE b # a
      <4>1. settled[b][j] = drains[b][j] /\ OfferHeld(b, drains[b][j], mail, handoffs)
        BY <1>5, <2>6, <3>2 DEF HandoffInv, OffersOK
      <4>2. drains[b][j].stage \in HandoffStages => drains[b][j].cur # c
        BY <1>2, <3>2, <4>1 DEF OfferHeld
      <4> QED BY <2>5, <4>1, <4>2 DEF OfferHeld
    <3> QED BY <3>1, <3>2
  <2>7. \A h \in DOMAIN handoffs : ResultOf(h, rows, handoffs)
    BY <1>2, <2>5 DEF HandoffInv, OffersOK, ResultOf
  <2>8. \A i \in DOMAIN rows : rows[i].handoff = 0 \/ rows[i].handoff \in DOMAIN handoffs
    BY <1>2, <2>2, <2>3 DEF HandoffInv, OffersOK
  <2>9. OffersOK(rows, handoffs, settled)
    BY <2>6, <2>7, <2>8 DEF OffersOK
  <2>10. OffersOK(rows, handoffs, drains')
    BY <1>5, <2>4, <2>9, OffersWoken
  <2> QED BY <1>6, <2>4, <2>10 DEF HandoffInv
<1>8. CASE ~(finished /\ handoffs[c].from # Human)
  <2>1. drains' = settled /\ mail' = mail
    BY <1>8 DEF EndHandoffTurn, d, c, settled
  <2>2. ASSUME NEW b \in Agents, NEW j \in DOMAIN settled[b]
        PROVE  OfferHeld(b, settled[b][j], mail, handoffs)
    <3>1. CASE b = a
      <4>1. settled[b][j] = d
        BY <1>1, <1>5, <2>2, <3>1
      <4> QED BY <1>2, <1>4, <1>8, <3>1, <4>1 DEF OfferHeld
    <3>2. CASE b # a
      BY <1>5, <2>2, <3>2 DEF HandoffInv, OffersOK
    <3> QED BY <3>1, <3>2
  <2>3. OffersOK(mail, handoffs, settled)
    BY <2>2 DEF HandoffInv, OffersOK
  <2> QED BY <1>6, <2>1, <2>3 DEF HandoffInv
<1> QED
  BY <1>7, <1>8

LEMMA InitiateKeepsOffers ==
  ASSUME CoworkInv, HandoffInv, NEW from \in Addresses, NEW to \in Agents,
         NEW thread \in Threads \cup {NoThread}, Initiate(from, to, thread)
  PROVE  HandoffInv'
<1> DEFINE row == [from |-> from, to |-> to, thread |-> thread, status |-> "initiated"]
<1>1. /\ handoffs' = Append(handoffs, row) /\ mail' = mail /\ drains' = drains
  BY DEF Initiate, runtime
<1>2. handoffs \in Seq(Handoff) /\ Len(handoffs) \in Nat /\ DOMAIN handoffs = 1 .. Len(handoffs)
  BY LensAreNat DEF CoworkInv, TypeOK
<1>3. row.status = "initiated"
  OBVIOUS
<1> HIDE DEF row
<1>4. /\ DOMAIN handoffs' = DOMAIN handoffs \cup {Len(handoffs) + 1}
      /\ \A h \in DOMAIN handoffs : handoffs'[h] = handoffs[h]
      /\ handoffs'[Len(handoffs) + 1] = row /\ Len(handoffs) + 1 \notin DOMAIN handoffs
      /\ Len(handoffs) + 1 # 0
  BY <1>1, <1>2
<1>5. ResultsIn(mail, Len(handoffs) + 1) = {}
  BY <1>4 DEF ResultsIn, HandoffInv, OffersOK
<1>6. \A h \in DOMAIN handoffs' : ResultOf(h, mail, handoffs')
  BY <1>3, <1>4, <1>5 DEF HandoffInv, OffersOK, ResultOf
<1>7. ASSUME NEW a \in Agents, NEW k \in DOMAIN drains[a]
      PROVE  OfferHeld(a, drains[a][k], mail, handoffs')
  <2>1. OfferHeld(a, drains[a][k], mail, handoffs)
    BY DEF HandoffInv, OffersOK
  <2>2. Offers(handoffs, a) \subseteq Offers(handoffs', a)
    BY <1>4 DEF Offers
  <2> QED BY <1>4, <2>1, <2>2 DEF OfferHeld
<1>8. OffersOK(mail, handoffs', drains)
  BY <1>4, <1>6, <1>7 DEF HandoffInv, OffersOK
<1> QED
  BY <1>1, <1>8 DEF HandoffInv

LEMMA HandoffInvNext == CoworkInv /\ HandoffInv /\ [Next]_vars => HandoffInv'
<1> SUFFICES ASSUME CoworkInv, HandoffInv, [Next]_vars PROVE HandoffInv'
  OBVIOUS
<1>1. /\ drains \in [Agents -> Seq(Drain)] /\ mail \in Seq(Message) /\ handoffs \in Seq(Handoff)
      /\ TypeOK
  BY DEF CoworkInv, TypeOK
<1>2. ASSUME NEW a \in Agents, NEW k \in DOMAIN drains[a], DrainStep(a, k) PROVE HandoffInv'
  BY <1>2, MessageTurnKeepsOffers, SettleMessageKeepsOffers, ClaimHandoffsKeepsOffers,
     HandoffTurnKeepsOffers, SettleHandoffKeepsOffers, EndRoundKeepsOffers DEF DrainStep
<1>3. ASSUME NEW from \in Addresses, NEW to \in Agents, NEW thread \in Threads \cup {NoThread},
             handoffs' = handoffs,
             Deliver(NewMessage(from, to, thread, LastHopsInThread(mail, thread) + 1), drains)
      PROVE  HandoffInv'
  <2>1. PICK hops \in Nat : hops = LastHopsInThread(mail, thread) + 1
    <3>1. LastHopsInThread(mail, thread) \in Nat
      BY <1>1, LastHopsType
    <3> QED BY <3>1
  <2> DEFINE row == NewMessage(from, to, thread, hops)
  <2>2. row \in Message /\ row.handoff = 0
    BY NewMessageType DEF Addresses
  <2>3. Deliver(row, drains)
    BY <1>3, <2>1
  <2> HIDE DEF row
  <2> QED BY <1>1, <1>3, <2>2, <2>3, OffersDelivered DEF HandoffInv
<1>4. CASE Tick
  BY <1>1, <1>4, OffersWoken DEF Tick, store, HandoffInv
<1>5. ASSUME NEW ids, NEW status \in MessageStatus, mail' = UpdateStatus(mail, ids, status),
             handoffs' = handoffs, drains' = drains
      PROVE  HandoffInv'
  BY <1>1, <1>5, OffersRowsSettled DEF HandoffInv
<1>6. ASSUME NEW thread \in Threads, TakeReplies(thread) PROVE HandoffInv'
  BY <1>5, <1>6 DEF TakeReplies, runtime, MessageStatus
<1>7. ASSUME NEW a \in Agents, RemoveTeammate(a) PROVE HandoffInv'
  BY <1>5, <1>7 DEF RemoveTeammate, runtime, MessageStatus
<1>8. CASE Crash
  <2>1. mail' = mail /\ handoffs' = handoffs /\ \A a \in Agents : DOMAIN drains'[a] = {}
    BY <1>8 DEF Crash, store
  <2>2. OffersOK(mail, handoffs, drains')
    BY <2>1, OffersOfSameDrains DEF HandoffInv
  <2> QED BY <2>1, <2>2 DEF HandoffInv
<1>9. ASSUME UNCHANGED <<mail, handoffs, drains>> PROVE HandoffInv'
  BY <1>9 DEF HandoffInv, OffersOK, OfferHeld, ResultOf
<1>10. ASSUME NEW to \in Agents, NEW thread \in Threads \cup {NoThread},
              UserMessage(to, thread) \/ \E from \in Addresses : CoworkSend(from, to, thread)
       PROVE  HandoffInv'
  BY <1>3, <1>10 DEF UserMessage, CoworkSend, Addresses
<1>11. ASSUME NEW a \in Agents, CreateTeammate(a) PROVE HandoffInv'
  BY <1>9, <1>11 DEF CreateTeammate, runtime
<1>12. CASE Outside
  BY <1>6, <1>7, <1>8, <1>10, <1>11, <1>12, InitiateKeepsOffers DEF Outside
<1> QED
  BY <1>2, <1>4, <1>9, <1>12 DEF Next, vars

LEMMA HandoffInvariant == Spec => [](CoworkInv /\ HandoffInv)
  BY CoworkInvInit, CoworkInvNext, HandoffInvInit, HandoffInvNext, PTL DEF Spec

LEMMA OffersImply == HandoffInv => ClaimsNeverThrow /\ ResultPrecedesCompletion
<1> SUFFICES ASSUME HandoffInv PROVE ClaimsNeverThrow /\ ResultPrecedesCompletion
  OBVIOUS
<1>1. ClaimsNeverThrow
  BY DEF HandoffInv, OffersOK, OfferHeld, HandoffStages, ClaimsNeverThrow
<1>2. ASSUME NEW h \in DOMAIN handoffs
      PROVE  /\ Cardinality(Results(h)) <= 1
             /\ handoffs[h].status = "completed" /\ handoffs[h].from # Human => Results(h) # {}
  <2>1. Results(h) = ResultsIn(mail, h) /\ ResultOf(h, mail, handoffs)
    BY DEF Results, ResultsIn, HandoffInv, OffersOK
  <2>2. PICK i : ResultsIn(mail, h) \subseteq {i}
    BY <2>1 DEF ResultOf
  <2>3. Results(h) = {} \/ Results(h) = {i}
    BY <2>1, <2>2
  <2>4. Cardinality(Results(h)) <= 1
    <3>1. Cardinality({}) = 0 /\ Cardinality({i}) = 1
      BY FS_EmptySet, FS_Singleton
    <3>2. Cardinality(Results(h)) \in {0, 1}
      BY <2>3, <3>1
    <3> HIDE DEF Results
    <3> QED BY <3>2
  <2> QED BY <2>1, <2>4 DEF ResultOf
<1> QED
  BY <1>1, <1>2 DEF ResultPrecedesCompletion

(* accept() never throws for an offer of a drain's snapshot, whoever sends, *)
(* is removed or comes back in the meantime: only the drain it is in can    *)
(* move it (worker-loop.ts #claimAndRunHandoffs).                           *)
THEOREM OffersStayOpen == Spec => []ClaimsNeverThrow
  BY HandoffInvariant, OffersImply, PTL

(* The sender of a handoff is mailed one result at most, and always before  *)
(* the handoff is completed, through every crash: a handoff that was        *)
(* accepted is never accepted again (runtime.ts #onHandoff).                *)
THEOREM OneResultBeforeCompletion == Spec => []ResultPrecedesCompletion
  BY HandoffInvariant, OffersImply, PTL

-----------------------------------------------------------------------------
(***************************************************************************)
(* The messages.  AnsweredOncePerLife and TranscriptShowsOutcome speak of   *)
(* rows that are written at the end of a turn and of statuses that are      *)
(* written a step later.  In between, and while a row waits in a snapshot,  *)
(* the drain is what says that the row has no answer yet in this life of    *)
(* the process, or that it has just had one and which.  A row that leaves   *)
(* "pending" while a drain has it can only have been cancelled.             *)
(***************************************************************************)
MessageStages == {"messageTurn", "messageSettle", "messageRefused"}

AnswersTo(rows, q) == Answers(rows, DOMAIN rows, q)

LastSays(rows, q, failed) ==
  AnswersTo(rows, q) # {} /\ rows[Max(AnswersTo(rows, q))].failed = failed

MessageHeld(a, d, rows, gone, lives) ==
  d.stage \in MessageStages =>
    /\ d.cur \notin d.queue
    /\ \A i \in d.queue \cup {d.cur} :
         /\ i \in DOMAIN rows /\ rows[i].to = a
         /\ rows[i].status = "pending" \/ (rows[i].status = "rejected" /\ i \in gone)
    /\ \A i \in d.queue : Cardinality(AnswersTo(rows, i)) <= lives
    /\ d.stage # "messageSettle" => Cardinality(AnswersTo(rows, d.cur)) <= lives
    /\ d.stage = "messageSettle" /\ rows[d.cur].from = Human => LastSays(rows, d.cur, ~d.ok)
    /\ d.stage = "messageRefused" => ~d.ok /\ (rows[d.cur].from = Human => d.cur \in gone)

Settling(q, running) ==
  \E a \in Agents : \E k \in DOMAIN running[a] :
    running[a][k].stage = "messageSettle" /\ running[a][k].cur = q

OutcomeShown(q, rows, gone) ==
  rows[q].from = Human =>
    /\ rows[q].status = "processed" => LastSays(rows, q, FALSE)
    /\ rows[q].status = "rejected" /\ q \notin gone => LastSays(rows, q, TRUE)

AnswersCounted(q, rows, running, lives) ==
  /\ Cardinality(AnswersTo(rows, q)) <= 1 + lives
  /\ rows[q].status = "pending" /\ ~Settling(q, running) => Cardinality(AnswersTo(rows, q)) <= lives

AnswerFits(r, rows) ==
  rows[r].replyTo # 0 => /\ rows[r].replyTo \in DOMAIN rows /\ rows[r].from # Human
                         /\ rows[r].thread = rows[rows[r].replyTo].thread

MessagesOK(rows, running, gone, lives) ==
  /\ \A a \in Agents : \A k \in DOMAIN running[a] :
       MessageHeld(a, running[a][k], rows, gone, lives)
  /\ \A q \in DOMAIN rows : /\ AnswersCounted(q, rows, running, lives)
                            /\ OutcomeShown(q, rows, gone)
                            /\ AnswerFits(q, rows)

MessageInv == MessagesOK(mail, drains, cancelled, count.crashes)

LEMMA AnswersAreRows ==
  ASSUME NEW rows \in Seq(Message), NEW q
  PROVE  /\ DOMAIN rows = 1 .. Len(rows) /\ Len(rows) \in Nat
         /\ AnswersTo(rows, q) \subseteq 1 .. Len(rows)
         /\ IsFiniteSet(AnswersTo(rows, q)) /\ Cardinality(AnswersTo(rows, q)) \in Nat
         /\ AnswersTo(rows, q) # {} => Max(AnswersTo(rows, q)) \in AnswersTo(rows, q)
<1>1. DOMAIN rows = 1 .. Len(rows) /\ Len(rows) \in Nat
  BY LenProperties
<1>2. AnswersTo(rows, q) \subseteq 1 .. Len(rows)
  BY <1>1 DEF AnswersTo, Answers
<1>3. IsFiniteSet(1 .. Len(rows))
  BY <1>1, FS_Interval
<1>4. IsFiniteSet(AnswersTo(rows, q)) /\ Cardinality(AnswersTo(rows, q)) \in Nat
  BY <1>2, <1>3, FS_Subset, FS_CardinalityType
<1>5. AnswersTo(rows, q) # {} => Max(AnswersTo(rows, q)) \in AnswersTo(rows, q)
  BY <1>1, <1>2, MaxOfRows
<1> QED
  BY <1>1, <1>2, <1>4, <1>5

(* The drains change and the mailbox does not.                              *)
LEMMA MessagesOfDrains ==
  ASSUME NEW rows, NEW running, NEW running2, NEW gone, NEW lives,
         MessagesOK(rows, running, gone, lives),
         \A a \in Agents : \A k \in DOMAIN running2[a] :
           MessageHeld(a, running2[a][k], rows, gone, lives),
         \A q : Settling(q, running) => Settling(q, running2)
  PROVE  MessagesOK(rows, running2, gone, lives)
<1>1. \A q \in DOMAIN rows : AnswersCounted(q, rows, running2, lives)
  BY DEF MessagesOK, AnswersCounted
<1> QED
  BY <1>1 DEF MessagesOK

(* A row that answers nothing.                                              *)
LEMMA MessagesRowAdded ==
  ASSUME NEW rows \in Seq(Message), NEW row \in Message, row.replyTo = 0, row.status = "pending",
         NEW running, NEW gone, NEW lives \in Nat, MessagesOK(rows, running, gone, lives)
  PROVE  MessagesOK(Append(rows, row), running, gone, lives)
<1> DEFINE new == Append(rows, row)
           n == Len(rows) + 1
<1>1. /\ DOMAIN rows = 1 .. Len(rows) /\ Len(rows) \in Nat
      /\ DOMAIN new = 1 .. n /\ new[n] = row /\ \A i \in 1 .. Len(rows) : new[i] = rows[i]
  BY AppendProperties, LenProperties
<1>2. /\ DOMAIN new = DOMAIN rows \cup {n} /\ n \notin DOMAIN rows /\ n # 0
      /\ \A i \in DOMAIN rows : new[i] = rows[i] /\ i # 0
  BY <1>1
<1> HIDE DEF new, n
<1>3. \A q : q # 0 => AnswersTo(new, q) = AnswersTo(rows, q)
  BY <1>1, <1>2 DEF AnswersTo, Answers
<1>4. AnswersTo(new, n) = {}
  <2>1. \A i \in DOMAIN rows : rows[i].replyTo # n
    BY <1>2 DEF MessagesOK, AnswerFits
  <2>2. \A i \in DOMAIN new : new[i].replyTo # n
    BY <1>1, <1>2, <2>1
  <2> QED BY <2>2 DEF AnswersTo, Answers
<1>5. \A q \in DOMAIN rows : \A failed : LastSays(rows, q, failed) => LastSays(new, q, failed)
  <2> SUFFICES ASSUME NEW q \in DOMAIN rows, NEW failed, LastSays(rows, q, failed)
               PROVE  LastSays(new, q, failed)
    OBVIOUS
  <2>1. Max(AnswersTo(rows, q)) \in DOMAIN rows
    BY AnswersAreRows DEF LastSays
  <2> QED BY <1>2, <1>3, <2>1 DEF LastSays
<1>6. ASSUME NEW a \in Agents, NEW k \in DOMAIN running[a]
      PROVE  MessageHeld(a, running[a][k], new, gone, lives)
  <2>1. MessageHeld(a, running[a][k], rows, gone, lives)
    BY DEF MessagesOK
  <2> QED BY <1>2, <1>3, <1>5, <2>1 DEF MessageHeld
<1>7. ASSUME NEW q \in DOMAIN rows
      PROVE  /\ AnswersCounted(q, new, running, lives)
             /\ OutcomeShown(q, new, gone) /\ AnswerFits(q, new)
  <2>1. /\ AnswersCounted(q, rows, running, lives)
        /\ OutcomeShown(q, rows, gone) /\ AnswerFits(q, rows)
    BY DEF MessagesOK
  <2>2. AnswersCounted(q, new, running, lives)
    BY <1>2, <1>3, <2>1 DEF AnswersCounted
  <2>3. OutcomeShown(q, new, gone)
    BY <1>2, <1>5, <2>1 DEF OutcomeShown
  <2>4. AnswerFits(q, new)
    BY <1>2, <2>1 DEF AnswerFits
  <2> QED BY <2>2, <2>3, <2>4
<1>8. AnswersCounted(n, new, running, lives) /\ OutcomeShown(n, new, gone) /\ AnswerFits(n, new)
  <2>1. Cardinality({}) = 0
    BY FS_EmptySet
  <2>2. Cardinality(AnswersTo(new, n)) = 0 /\ 0 <= 1 + lives /\ 0 <= lives
    BY <1>4, <2>1
  <2>3. AnswersCounted(n, new, running, lives)
    BY <2>2 DEF AnswersCounted
  <2>4. OutcomeShown(n, new, gone)
    BY <1>1 DEF OutcomeShown
  <2>5. AnswerFits(n, new)
    BY <1>1 DEF AnswerFits
  <2> QED BY <2>3, <2>4, <2>5
<1> QED
  BY <1>2, <1>6, <1>7, <1>8 DEF MessagesOK, new

(* A rewritten status leaves the answers as they are.                       *)
LEMMA StatusKeepsAnswers ==
  ASSUME NEW rows \in Seq(Message), NEW ids, NEW status \in MessageStatus
  PROVE  LET new == UpdateStatus(rows, ids, status)
         IN  /\ new \in Seq(Message) /\ DOMAIN new = DOMAIN rows
             /\ \A q : AnswersTo(new, q) = AnswersTo(rows, q)
             /\ \A q : \A failed : LastSays(new, q, failed) <=> LastSays(rows, q, failed)
             /\ \A q \in DOMAIN rows :
                  /\ new[q].from = rows[q].from /\ new[q].to = rows[q].to
                  /\ new[q].status = IF q \in ids THEN status ELSE rows[q].status
                  /\ AnswerFits(q, rows) => AnswerFits(q, new)
<1> DEFINE new == UpdateStatus(rows, ids, status)
<1>1. DOMAIN new = DOMAIN rows
  BY DEF UpdateStatus
<1>2. /\ DOMAIN rows = 1 .. Len(rows) /\ new \in Seq(Message)
      /\ \A i \in 1 .. Len(rows) :
           /\ new[i].from = rows[i].from /\ new[i].to = rows[i].to
           /\ new[i].thread = rows[i].thread /\ new[i].replyTo = rows[i].replyTo
           /\ new[i].failed = rows[i].failed
           /\ new[i].status = IF i \in ids THEN status ELSE rows[i].status
  BY UpdateStatusKeepsRows, LenProperties
<1> HIDE DEF new
<1>3. \A q : AnswersTo(new, q) = AnswersTo(rows, q)
  BY <1>1, <1>2 DEF AnswersTo, Answers
<1>4. ASSUME NEW q, NEW failed PROVE LastSays(new, q, failed) <=> LastSays(rows, q, failed)
  <2>1. AnswersTo(rows, q) # {} => Max(AnswersTo(rows, q)) \in 1 .. Len(rows)
    BY AnswersAreRows
  <2> QED BY <1>2, <1>3, <2>1 DEF LastSays
<1>5. ASSUME NEW q \in DOMAIN rows, AnswerFits(q, rows) PROVE AnswerFits(q, new)
  BY <1>1, <1>2, <1>5 DEF AnswerFits
<1>6. \A q \in DOMAIN rows :
        /\ new[q].from = rows[q].from /\ new[q].to = rows[q].to
        /\ new[q].status = IF q \in ids THEN status ELSE rows[q].status
  BY <1>2
<1> QED
  BY <1>1, <1>2, <1>3, <1>4, <1>5, <1>6 DEF new

(* Rows nobody drains are read; rows somebody may be draining are cancelled. *)
LEMMA MessagesSettled ==
  ASSUME NEW rows \in Seq(Message), NEW ids, NEW status \in MessageStatus,
         NEW running, NEW gone, NEW gone2, NEW lives, gone \subseteq gone2,
         MessagesOK(rows, running, gone, lives),
         \/ status = "read" /\ \A i \in ids : rows[i].to \notin Agents
         \/ status = "rejected" /\ ids \subseteq gone2
  PROVE  MessagesOK(UpdateStatus(rows, ids, status), running, gone2, lives)
<1> DEFINE new == UpdateStatus(rows, ids, status)
<1>1. /\ DOMAIN new = DOMAIN rows
      /\ \A q : AnswersTo(new, q) = AnswersTo(rows, q)
      /\ \A q : \A failed : LastSays(new, q, failed) <=> LastSays(rows, q, failed)
      /\ \A q \in DOMAIN rows :
           /\ new[q].from = rows[q].from /\ new[q].to = rows[q].to
           /\ new[q].status = IF q \in ids THEN status ELSE rows[q].status
           /\ AnswerFits(q, rows) => AnswerFits(q, new)
  BY StatusKeepsAnswers
<1> HIDE DEF new
<1>2. ASSUME NEW a \in Agents, NEW k \in DOMAIN running[a]
      PROVE  MessageHeld(a, running[a][k], new, gone2, lives)
  <2> DEFINE d == running[a][k]
  <2>1. MessageHeld(a, d, rows, gone, lives)
    BY DEF MessagesOK
  <2> HIDE DEF d
  <2> SUFFICES ASSUME d.stage \in MessageStages PROVE MessageHeld(a, d, new, gone2, lives)
    BY DEF MessageHeld, d
  <2>2. ASSUME NEW i \in d.queue \cup {d.cur}
        PROVE  /\ i \in DOMAIN new /\ new[i].to = a
               /\ new[i].status = "pending" \/ (new[i].status = "rejected" /\ i \in gone2)
    BY <1>1, <2>1 DEF MessageHeld
  <2> QED BY <1>1, <2>1, <2>2 DEF MessageHeld
<1>3. ASSUME NEW q \in DOMAIN rows
      PROVE  AnswersCounted(q, new, running, lives) /\ OutcomeShown(q, new, gone2)
  <2>1. AnswersCounted(q, rows, running, lives) /\ OutcomeShown(q, rows, gone)
    BY DEF MessagesOK
  <2>2. AnswersCounted(q, new, running, lives)
    BY <1>1, <2>1 DEF AnswersCounted
  <2>3. OutcomeShown(q, new, gone2)
    BY <1>1, <2>1 DEF OutcomeShown
  <2> QED BY <2>2, <2>3
<1>4. \A q \in DOMAIN rows : AnswerFits(q, new)
  BY <1>1 DEF MessagesOK
<1> QED
  BY <1>1, <1>2, <1>3, <1>4 DEF MessagesOK, new

(* The loop over a snapshot starts a turn only for a row whose answer, if   *)
(* it is to have one in this life, is still to come.                        *)
LEMMA FreshHeld ==
  ASSUME NEW a, NEW m \in Nat, NEW queue, queue \subseteq 1 .. m, NEW round,
         NEW rows, NEW gone, NEW lives,
         \A i \in queue :
           /\ i \in DOMAIN rows /\ rows[i].to = a
           /\ rows[i].status = "pending" \/ (rows[i].status = "rejected" /\ i \in gone)
           /\ Cardinality(AnswersTo(rows, i)) <= lives
           /\ a \notin roster /\ rows[i].from = Human => i \in gone
  PROVE  MessageHeld(a, Drained(a, queue, round), rows, gone, lives)
<1> DEFINE d == Drained(a, queue, round)
<1>1. CASE queue = {}
  <2>1. d.stage = "messages"
    BY <1>1 DEF Drained
  <2> QED BY <2>1 DEF MessageHeld, MessageStages
<1>2. CASE queue # {}
  <2> DEFINE c == Max(queue)
  <2>1. c \in queue
    BY <1>2, MaxOfRows
  <2>2. /\ d.stage = IF a \in roster THEN "messageTurn" ELSE "messageRefused"
        /\ d.queue = queue \ {c} /\ d.cur = c /\ d.ok = FALSE
    BY <1>2 DEF Drained
  <2> HIDE DEF c, d
  <2> QED BY <2>1, <2>2 DEF MessageHeld, d
<1> QED
  BY <1>1, <1>2

(* The same of a snapshot of the inbox, when no outcome of the teammate is  *)
(* on its way to the status column.                                         *)
LEMMA PendingHeld ==
  ASSUME NEW a \in Agents, NEW rows \in Seq(Message), NEW round,
         NEW running, NEW gone, NEW lives, MessagesOK(rows, running, gone, lives),
         \A k \in DOMAIN running[a] : running[a][k].stage # "messageSettle",
         \A i \in DOMAIN rows :
           rows[i].from = Human /\ rows[i].status = "pending" => rows[i].to \in roster
  PROVE  MessageHeld(a, Drained(a, Pending(rows, a), round), rows, gone, lives)
<1> DEFINE queue == Pending(rows, a)
<1>1. DOMAIN rows = 1 .. Len(rows) /\ Len(rows) \in Nat
  BY LenProperties
<1>2. queue \subseteq 1 .. Len(rows)
  BY <1>1 DEF Pending
<1>3. ASSUME NEW i \in queue
      PROVE  /\ i \in DOMAIN rows /\ rows[i].to = a /\ rows[i].status = "pending"
             /\ Cardinality(AnswersTo(rows, i)) <= lives
             /\ a \notin roster /\ rows[i].from = Human => i \in gone
  <2>1. i \in DOMAIN rows /\ rows[i].to = a /\ rows[i].status = "pending"
    BY DEF Pending
  <2>2. ~Settling(i, running)
    <3>1. SUFFICES ASSUME NEW b \in Agents, NEW k \in DOMAIN running[b],
                          running[b][k].stage = "messageSettle", running[b][k].cur = i
                   PROVE  FALSE
      BY DEF Settling
    <3>2. rows[i].to = b
      BY <3>1 DEF MessagesOK, MessageHeld, MessageStages
    <3> QED BY <2>1, <3>1, <3>2
  <2>3. AnswersCounted(i, rows, running, lives)
    BY <2>1 DEF MessagesOK
  <2> QED BY <2>1, <2>2, <2>3 DEF AnswersCounted
<1> HIDE DEF queue
<1> QED
  BY <1>1, <1>2, <1>3, FreshHeld DEF queue

(* A wake.                                                                  *)
LEMMA MessagesWoken ==
  ASSUME NEW rows \in Seq(Message), NEW offered, NEW running \in [Agents -> Seq(Drain)],
         NEW gone, NEW lives, MessagesOK(rows, running, gone, lives),
         \A a \in Agents \ busy : DOMAIN running[a] = {}, roster \subseteq Agents,
         \A i \in DOMAIN rows :
           rows[i].from = Human /\ rows[i].status = "pending" => rows[i].to \in roster,
         StartDrains(rows, offered, running)
  PROVE  MessagesOK(rows, drains', gone, lives)
<1>1. \A a \in Agents :
        /\ a \notin Woken(rows, offered) => drains'[a] = running[a]
        /\ a \in Woken(rows, offered) => DOMAIN running[a] = {}
        /\ \A k \in DOMAIN drains'[a] :
             \/ k \in DOMAIN running[a] /\ drains'[a][k] = running[a][k]
             \/ /\ a \in Woken(rows, offered)
                /\ drains'[a][k] = Drained(a, Pending(rows, a), 0)
  BY StartedDrains DEF Woken
<1>2. ASSUME NEW a \in Agents, NEW k \in DOMAIN drains'[a]
      PROVE  MessageHeld(a, drains'[a][k], rows, gone, lives)
  <2>1. CASE k \in DOMAIN running[a] /\ drains'[a][k] = running[a][k]
    BY <2>1 DEF MessagesOK
  <2>2. CASE a \in Woken(rows, offered) /\ drains'[a][k] = Drained(a, Pending(rows, a), 0)
    <3>1. \A j \in DOMAIN running[a] : running[a][j].stage # "messageSettle"
      BY <1>1, <2>2
    <3> QED BY <2>2, <3>1, PendingHeld
  <2> QED BY <1>1, <2>1, <2>2
<1>3. ASSUME NEW q, Settling(q, running) PROVE Settling(q, drains')
  BY <1>1, <1>3 DEF Settling
<1> QED
  BY <1>2, <1>3, MessagesOfDrains

(* A message that answers no question.                                      *)
LEMMA MessagesDelivered ==
  ASSUME CoworkInv, NEW row \in Message, row.replyTo = 0, row.status = "pending",
         row.from = Human => row.to \in roster,
         NEW running \in [Agents -> Seq(Drain)], \A a \in Agents \ busy : DOMAIN running[a] = {},
         NEW gone, NEW lives \in Nat, MessagesOK(mail, running, gone, lives),
         Deliver(row, running)
  PROVE  MessagesOK(mail', drains', gone, lives)
<1>1. /\ mail \in Seq(Message) /\ roster \subseteq Agents /\ Len(mail) \in Nat
      /\ DOMAIN mail = 1 .. Len(mail)
  BY LensAreNat DEF CoworkInv, TypeOK
<1>2. mail' = Append(mail, row) /\ StartDrains(mail', handoffs, running)
  BY DEF Deliver
<1>3. MessagesOK(mail', running, gone, lives)
  BY <1>1, <1>2, MessagesRowAdded
<1>4. /\ mail' \in Seq(Message) /\ DOMAIN mail' = 1 .. Len(mail) + 1
      /\ mail'[Len(mail) + 1] = row /\ \A i \in 1 .. Len(mail) : mail'[i] = mail[i]
  BY <1>1, <1>2, AppendProperties, LenProperties
<1>5. ASSUME NEW i \in DOMAIN mail', mail'[i].from = Human, mail'[i].status = "pending"
      PROVE  mail'[i].to \in roster
  <2>1. CASE i = Len(mail) + 1
    BY <1>4, <1>5, <2>1
  <2>2. CASE i \in 1 .. Len(mail)
    BY <1>4, <1>5, <2>2 DEF CoworkInv, RowOK
  <2> QED BY <1>1, <1>4, <2>1, <2>2
<1> QED
  BY <1>1, <1>2, <1>3, <1>4, <1>5, MessagesWoken

(* A drain that had no outcome to record moves on.                          *)
LEMMA MessagesMoved ==
  ASSUME CoworkInv, MessageInv, NEW a \in Agents, NEW k \in DOMAIN drains[a], NEW d \in Drain,
         drains[a][k].stage # "messageSettle",
         MessageHeld(a, d, mail, cancelled, count.crashes)
  PROVE  /\ Set(a, k, d) \in [Agents -> Seq(Drain)]
         /\ \A b \in Agents : DOMAIN Set(a, k, d)[b] = DOMAIN drains[b]
         /\ MessagesOK(mail, Set(a, k, d), cancelled, count.crashes)
<1> DEFINE new == Set(a, k, d)
<1>1. drains \in [Agents -> Seq(Drain)]
  BY DEF CoworkInv, TypeOK
<1>2. /\ new \in [Agents -> Seq(Drain)]
      /\ \A b \in Agents :
           /\ DOMAIN new[b] = DOMAIN drains[b]
           /\ \A j \in DOMAIN drains[b] : new[b][j] = IF b = a /\ j = k THEN d ELSE drains[b][j]
  BY <1>1, SetIs
<1> HIDE DEF new
<1>3. ASSUME NEW b \in Agents, NEW j \in DOMAIN new[b]
      PROVE  MessageHeld(b, new[b][j], mail, cancelled, count.crashes)
  BY <1>2 DEF MessageInv, MessagesOK
<1>4. ASSUME NEW q, Settling(q, drains) PROVE Settling(q, new)
  BY <1>2, <1>4, SMTT(30) DEF Settling
<1>5. MessagesOK(mail, drains, cancelled, count.crashes)
  BY DEF MessageInv
<1>6. MessagesOK(mail, new, cancelled, count.crashes)
  BY <1>3, <1>4, <1>5, MessagesOfDrains
<1> QED
  BY <1>2, <1>6 DEF new

LEMMA IdleHasNoDrain ==
  ASSUME CoworkInv
  PROVE  /\ \A a \in Agents \ busy : DOMAIN drains[a] = {}
         /\ \A i \in DOMAIN mail :
              mail[i].from = Human /\ mail[i].status = "pending" => mail[i].to \in roster
<1>1. /\ DOMAIN mail = 1 .. Len(mail)
      /\ DrainsOK(drains, busy, Len(mail), Len(handoffs)) /\ drains \in [Agents -> Seq(Drain)]
  BY LensAreNat DEF CoworkInv, TypeOK
<1>2. ASSUME NEW a \in Agents \ busy PROVE DOMAIN drains[a] = {}
  <2>1. drains[a] \in Seq(Drain) /\ Len(drains[a]) = 0
    BY <1>1 DEF DrainsOK
  <2> QED BY <2>1, LenProperties
<1> QED
  BY <1>1, <1>2 DEF CoworkInv, RowOK

(* An answer: the newest of its question, and nobody else's.                *)
LEMMA AnswerAdded ==
  ASSUME NEW rows \in Seq(Message), NEW row \in Message, NEW i \in DOMAIN rows,
         row.to = Human, row.replyTo = i, row.from # Human, row.thread = rows[i].thread,
         \A r \in DOMAIN rows : AnswerFits(r, rows)
  PROVE  LET new == Append(rows, row)
             n == Len(rows) + 1
         IN  /\ DOMAIN new = DOMAIN rows \cup {n} /\ n \notin DOMAIN rows /\ new[n] = row
             /\ \A j \in DOMAIN rows : new[j] = rows[j]
             /\ \A q : q # i => AnswersTo(new, q) = AnswersTo(rows, q)
             /\ AnswersTo(new, n) = {}
             /\ Cardinality(AnswersTo(new, i)) = Cardinality(AnswersTo(rows, i)) + 1
             /\ LastSays(new, i, row.failed)
             /\ \A q : q # i => \A failed : LastSays(rows, q, failed) => LastSays(new, q, failed)
             /\ \A r \in DOMAIN new : AnswerFits(r, new)
<1> DEFINE new == Append(rows, row)
           n == Len(rows) + 1
<1>1. /\ DOMAIN rows = 1 .. Len(rows) /\ Len(rows) \in Nat /\ new \in Seq(Message)
      /\ DOMAIN new = 1 .. n /\ new[n] = row /\ \A j \in 1 .. Len(rows) : new[j] = rows[j]
      /\ n \in Nat
  BY AppendProperties, LenProperties
<1>2. /\ DOMAIN new = DOMAIN rows \cup {n} /\ n \notin DOMAIN rows /\ n # 0 /\ i # n /\ i # 0
      /\ \A j \in DOMAIN rows : new[j] = rows[j] /\ j < n
  BY <1>1
<1> HIDE DEF new, n
<1>3. \A q : q # i => AnswersTo(new, q) = AnswersTo(rows, q)
  BY <1>1, <1>2 DEF AnswersTo, Answers
<1>4. AnswersTo(new, i) = AnswersTo(rows, i) \cup {n}
  BY <1>1, <1>2 DEF AnswersTo, Answers
<1>5. AnswersTo(new, n) = {}
  <2>1. AnswersTo(rows, n) = {}
    BY <1>2 DEF AnswersTo, Answers, AnswerFits
  <2> QED BY <1>2, <1>3, <2>1
<1>6. Cardinality(AnswersTo(new, i)) = Cardinality(AnswersTo(rows, i)) + 1
  <2>1. IsFiniteSet(AnswersTo(rows, i))
    BY AnswersAreRows
  <2>2. n \notin AnswersTo(rows, i)
    BY <1>2 DEF AnswersTo, Answers
  <2> QED BY <1>4, <2>1, <2>2, FS_AddElement, ZenonT(30)
<1>7. LastSays(new, i, row.failed)
  <2>1. AnswersTo(new, i) \subseteq 1 .. n /\ AnswersTo(new, i) # {} /\ n \in AnswersTo(new, i)
    BY <1>1, <1>4, AnswersAreRows DEF AnswersTo, Answers
  <2>2. Max(AnswersTo(new, i)) \in AnswersTo(new, i) /\ Max(AnswersTo(new, i)) >= n
    BY <1>1, <2>1, MaxOfRows
  <2>3. Max(AnswersTo(new, i)) = n
    BY <1>1, <2>1, <2>2
  <2> QED BY <1>1, <2>1, <2>3 DEF LastSays
<1>8. ASSUME NEW q, q # i, NEW failed, LastSays(rows, q, failed) PROVE LastSays(new, q, failed)
  <2>1. Max(AnswersTo(rows, q)) \in DOMAIN rows
    BY <1>8, AnswersAreRows DEF LastSays
  <2> QED BY <1>2, <1>3, <1>8, <2>1 DEF LastSays
<1>9. ASSUME NEW r \in DOMAIN new PROVE AnswerFits(r, new)
  <2>1. CASE r = n
    BY <1>1, <1>2, <2>1 DEF AnswerFits
  <2>2. CASE r \in DOMAIN rows
    <3>1. AnswerFits(r, rows)
      BY <2>2
    <3> QED BY <1>2, <2>2, <3>1 DEF AnswerFits
  <2> QED BY <1>2, <2>1, <2>2
<1> QED
  BY <1>1, <1>2, <1>3, <1>5, <1>6, <1>7, <1>8, <1>9 DEF new, n

(* The answer of the person's question is stored while its drain waits to   *)
(* record the outcome.                                                      *)
LEMMA AnswerStored ==
  ASSUME MessageInv, mail \in Seq(Message), count.crashes \in Nat,
         NEW row \in Message, NEW a \in Agents, NEW k \in DOMAIN drains[a],
         DOMAIN drains[a] = {k}, drains[a][k].stage = "messageTurn",
         row.from = a, row.to = Human, row.replyTo = drains[a][k].cur,
         row.thread = mail[row.replyTo].thread,
         NEW running2,
         \A b \in Agents :
           /\ DOMAIN running2[b] = DOMAIN drains[b]
           /\ \A j \in DOMAIN drains[b] : b # a => running2[b][j] = drains[b][j],
         running2[a][k].stage = "messageSettle", running2[a][k].cur = drains[a][k].cur,
         running2[a][k].queue = drains[a][k].queue, row.failed = ~running2[a][k].ok
  PROVE  MessagesOK(Append(mail, row), running2, cancelled, count.crashes)
<1> DEFINE i == drains[a][k].cur
           d == running2[a][k]
           new == Append(mail, row)
           n == Len(mail) + 1
<1>0. /\ MessagesOK(mail, drains, cancelled, count.crashes) /\ i \in DOMAIN mail
      /\ mail \in Seq(Message) /\ count.crashes \in Nat /\ k \in DOMAIN drains[a]
      /\ row.replyTo = i /\ row.thread = mail[i].thread /\ row.failed = ~d.ok
      /\ drains[a][k].cur = i /\ d.cur = i /\ d.stage = "messageSettle"
      /\ d.queue = drains[a][k].queue
      /\ \A b \in Agents :
           /\ DOMAIN running2[b] = DOMAIN drains[b]
           /\ \A j \in DOMAIN drains[b] :
                running2[b][j] = IF b = a /\ j = k THEN d ELSE drains[b][j]
  <2>1. MessageHeld(a, drains[a][k], mail, cancelled, count.crashes)
    BY DEF MessageInv, MessagesOK
  <2>2. i \in DOMAIN mail
    BY <2>1 DEF MessageHeld, MessageStages
  <2> QED BY <2>2 DEF MessageInv
<1> HIDE DEF i, d
<1> USE <1>0
<1>1. /\ DOMAIN new = DOMAIN mail \cup {n} /\ n \notin DOMAIN mail /\ new[n] = row
      /\ \A j \in DOMAIN mail : new[j] = mail[j]
      /\ \A q : q # i => AnswersTo(new, q) = AnswersTo(mail, q)
      /\ AnswersTo(new, n) = {}
      /\ Cardinality(AnswersTo(new, i)) = Cardinality(AnswersTo(mail, i)) + 1
      /\ LastSays(new, i, row.failed)
      /\ \A q : q # i => \A failed : LastSays(mail, q, failed) => LastSays(new, q, failed)
      /\ \A r \in DOMAIN new : AnswerFits(r, new)
  <2>1. row.from # Human /\ \A r \in DOMAIN mail : AnswerFits(r, mail)
    BY HumanAssumption DEF MessagesOK
  <2> QED BY <2>1, AnswerAdded
<1> HIDE DEF new, n
<1>2. MessageHeld(a, drains[a][k], mail, cancelled, count.crashes)
  BY DEF MessagesOK
<1>3. /\ i \notin d.queue
      /\ \A q \in d.queue \cup {i} :
           /\ q \in DOMAIN mail /\ mail[q].to = a
           /\ mail[q].status = "pending" \/ (mail[q].status = "rejected" /\ q \in cancelled)
      /\ \A q \in d.queue : Cardinality(AnswersTo(mail, q)) <= count.crashes
      /\ Cardinality(AnswersTo(mail, i)) <= count.crashes
  BY <1>2 DEF MessageHeld, MessageStages
<1>4. ASSUME NEW b \in Agents, NEW j \in DOMAIN running2[b]
      PROVE  MessageHeld(b, running2[b][j], new, cancelled, count.crashes)
  <2>1. CASE b = a
    <3>1. running2[b][j] = d
      BY <1>4, <2>1
    <3> QED BY <1>1, <1>3, <2>1, <3>1 DEF MessageHeld
  <2>2. CASE b # a
    <3> DEFINE e == drains[b][j]
    <3>1. running2[b][j] = e /\ MessageHeld(b, e, mail, cancelled, count.crashes)
      BY <1>4, <2>2 DEF MessagesOK
    <3> HIDE DEF e
    <3>2. SUFFICES ASSUME e.stage \in MessageStages PROVE MessageHeld(b, e, new, cancelled, count.crashes)
      BY <3>1 DEF MessageHeld
    <3>3. \A q \in e.queue \cup {e.cur} : q # i /\ q \in DOMAIN mail
      BY <1>3, <2>2, <3>1, <3>2 DEF MessageHeld
    <3> QED BY <1>1, <3>1, <3>2, <3>3 DEF MessageHeld
  <2> QED BY <2>1, <2>2
<1>5. Settling(i, running2) /\ \A q : Settling(q, drains) => Settling(q, running2)
  BY DEF Settling
<1>6. ASSUME NEW q \in DOMAIN new PROVE AnswersCounted(q, new, running2, count.crashes)
  <2>1. CASE q = i
    <3>1. Cardinality(AnswersTo(mail, i)) \in Nat
      BY AnswersAreRows
    <3>2. Cardinality(AnswersTo(new, i)) <= 1 + count.crashes
      BY <1>1, <1>3, <3>1
    <3> QED BY <1>5, <2>1, <3>2 DEF AnswersCounted
  <2>2. CASE q = n
    <3>1. Cardinality(AnswersTo(new, q)) = 0
      BY <1>1, <2>2, FS_EmptySet
    <3> QED BY <3>1 DEF AnswersCounted
  <2>3. CASE q \in DOMAIN mail \ {i}
    <3>1. AnswersCounted(q, mail, drains, count.crashes)
      BY <2>3 DEF MessagesOK
    <3> QED BY <1>1, <1>5, <2>3, <3>1 DEF AnswersCounted
  <2> QED BY <1>1, <2>1, <2>2, <2>3
<1>7. ASSUME NEW q \in DOMAIN new PROVE OutcomeShown(q, new, cancelled)
  <2>1. CASE q = i
    BY <1>1, <1>3, <2>1 DEF OutcomeShown
  <2>2. CASE q = n
    BY <1>1, <2>2, HumanAssumption DEF OutcomeShown
  <2>3. CASE q \in DOMAIN mail \ {i}
    <3>1. OutcomeShown(q, mail, cancelled)
      BY <2>3 DEF MessagesOK
    <3> QED BY <1>1, <2>3, <3>1 DEF OutcomeShown
  <2> QED BY <1>1, <2>1, <2>2, <2>3
<1> QED
  BY <1>1, <1>4, <1>6, <1>7 DEF MessagesOK, new

(* The steps of a drain.                                                    *)
LEMMA MessageTurnKeepsAnswers ==
  ASSUME CoworkInv, MessageInv, NEW a \in Agents, NEW k \in DOMAIN drains[a],
         NEW finished \in BOOLEAN, EndMessageTurn(a, k, finished)
  PROVE  MessageInv'
<1> DEFINE i == drains[a][k].cur
           d == [drains[a][k] EXCEPT !.stage = "messageSettle", !.ok = finished]
           settled == Set(a, k, d)
<1>1. /\ drains[a][k] \in Drain /\ drains \in [Agents -> Seq(Drain)] /\ DOMAIN drains[a] = {k}
      /\ mail \in Seq(Message) /\ DOMAIN mail = 1 .. Len(mail) /\ Len(mail) \in Nat
      /\ drains[a][k].stage = "messageTurn" /\ i \in 1 .. Len(mail)
      /\ roster \subseteq Agents /\ count.crashes \in Nat /\ a \in busy
  BY ADrain, LensAreNat DEF CoworkInv, TypeOK, EndMessageTurn, At, DrainOK, Bounded
<1>2. i \in Nat /\ mail[i] \in Message
  BY <1>1, ElementOfSeq
<1>3. /\ d \in Drain /\ d.stage = "messageSettle" /\ d.cur = i /\ d.queue = drains[a][k].queue
      /\ d.ok = finished
  BY <1>1 DEF Drain, Stage
<1>4. UNCHANGED <<roster, cancelled, count>>
  BY DEF EndMessageTurn
<1>5. /\ settled \in [Agents -> Seq(Drain)]
      /\ \A b \in Agents :
           /\ DOMAIN settled[b] = DOMAIN drains[b]
           /\ \A j \in DOMAIN drains[b] : settled[b][j] = IF b = a /\ j = k THEN d ELSE drains[b][j]
  <2>1. drains \in [Agents -> Seq(Drain)] /\ d \in Drain
    BY <1>1, <1>3
  <2> HIDE DEF d
  <2> QED BY <2>1, SetIs
<1>6. \A b \in Agents \ busy : DOMAIN settled[b] = {}
  BY <1>5, IdleHasNoDrain
<1>7. CASE mail[i].from = Human
  <2> DEFINE row == HumanReply(a, i, finished)
  <2>1. Deliver(row, settled)
    BY <1>7 DEF EndMessageTurn
  <2>2. /\ row \in Message /\ row.from = a /\ row.to = Human /\ row.replyTo = i
        /\ row.thread = mail[i].thread /\ row.failed = ~finished
    BY <1>2, HumanReplyIs
  <2> HIDE DEF row, i, d, settled
  <2>3. mail' = Append(mail, row) /\ StartDrains(mail', handoffs, settled)
    BY <2>1 DEF Deliver
  <2>4. MessagesOK(mail', settled, cancelled, count.crashes)
    <3>1. /\ drains[a][k].stage = "messageTurn" /\ row.replyTo = drains[a][k].cur
          /\ row.thread = mail[row.replyTo].thread /\ DOMAIN drains[a] = {k}
      BY <1>1, <2>2 DEF i
    <3>2. /\ settled[a][k].stage = "messageSettle" /\ settled[a][k].cur = drains[a][k].cur
          /\ settled[a][k].queue = drains[a][k].queue /\ row.failed = ~settled[a][k].ok
      BY <1>1, <1>3, <1>5, <2>2 DEF i
    <3>3. \A b \in Agents :
            /\ DOMAIN settled[b] = DOMAIN drains[b]
            /\ \A j \in DOMAIN drains[b] : b # a => settled[b][j] = drains[b][j]
      BY <1>5
    <3>4. mail \in Seq(Message) /\ count.crashes \in Nat
      BY <1>1
    <3>5. MessagesOK(Append(mail, row), settled, cancelled, count.crashes)
      BY <2>2, <3>1, <3>2, <3>3, <3>4, AnswerStored
    <3> QED BY <2>3, <3>5
  <2>5. mail' \in Seq(Message) /\ DOMAIN mail' = 1 .. Len(mail) + 1
        /\ mail'[Len(mail) + 1] = row /\ \A j \in 1 .. Len(mail) : mail'[j] = mail[j]
    BY <1>1, <2>2, <2>3, AppendProperties, LenProperties
  <2>6. ASSUME NEW j \in DOMAIN mail', mail'[j].from = Human, mail'[j].status = "pending"
        PROVE  mail'[j].to \in roster
    <3>1. Len(mail) \in Nat /\ DOMAIN mail = 1 .. Len(mail) /\ row.from # Human
      BY <1>1, <2>2, HumanAssumption
    <3>2. j # Len(mail) + 1
      BY <2>5, <2>6, <3>1
    <3>3. j \in 1 .. Len(mail)
      BY <2>5, <2>6, <3>1, <3>2
    <3>4. j \in DOMAIN mail /\ mail'[j] = mail[j]
      BY <2>5, <3>1, <3>3
    <3> QED BY <2>6, <3>4, IdleHasNoDrain
  <2>7. MessagesOK(mail', drains', cancelled, count.crashes)
    BY <1>1, <1>5, <1>6, <2>3, <2>4, <2>5, <2>6, MessagesWoken
  <2> QED BY <1>4, <2>7 DEF MessageInv
<1>8. CASE mail[i].from # Human
  <2> HIDE DEF d
  <2>1. MessageHeld(a, drains[a][k], mail, cancelled, count.crashes)
    BY DEF MessageInv, MessagesOK
  <2>2. MessageHeld(a, d, mail, cancelled, count.crashes)
    BY <1>1, <1>3, <1>8, <2>1 DEF MessageHeld, MessageStages
  <2> HIDE DEF i
  <2>3. MessagesOK(mail, settled, cancelled, count.crashes)
    BY <1>1, <1>3, <2>2, MessagesMoved
  <2>4. CASE finished /\ MayReply(i)
    <3> DEFINE row == TeammateReply(a, i)
    <3>1. Deliver(row, settled)
      BY <1>8, <2>4 DEF EndMessageTurn, d, i
    <3>2. /\ row \in Message /\ row.from = a /\ row.replyTo = 0 /\ row.status = "pending"
      BY <1>2, TeammateReplyIs
    <3>3. row.from = Human => row.to \in roster
      BY <3>2, HumanAssumption
    <3> HIDE DEF row, settled
    <3>4. MessagesOK(mail', drains', cancelled, count.crashes)
      BY <1>1, <1>5, <1>6, <2>3, <3>1, <3>2, <3>3, MessagesDelivered
    <3> QED BY <1>4, <3>4 DEF MessageInv
  <2>5. CASE ~(finished /\ MayReply(i))
    <3>1. drains' = settled /\ mail' = mail
      BY <1>8, <2>5 DEF EndMessageTurn, d, i
    <3> QED BY <1>4, <2>3, <3>1 DEF MessageInv
  <2> QED BY <2>4, <2>5
<1> QED
  BY <1>7, <1>8

LEMMA SettleMessageKeepsAnswers ==
  ASSUME CoworkInv, MessageInv, NEW a \in Agents, NEW k \in DOMAIN drains[a], SettleMessage(a, k)
  PROVE  MessageInv'
<1> DEFINE e == drains[a][k]
           i == e.cur
           status == StatusAfter(e.ok)
           d == Drained(a, e.queue, e.round)
<1>1. /\ e \in Drain /\ drains \in [Agents -> Seq(Drain)] /\ DOMAIN drains[a] = {k}
      /\ mail \in Seq(Message) /\ DOMAIN mail = 1 .. Len(mail) /\ Len(mail) \in Nat
      /\ Len(handoffs) \in Nat /\ i \in 1 .. Len(mail) /\ e.queue \subseteq 1 .. Len(mail)
      /\ e.stage \in {"messageSettle", "messageRefused"}
  BY ADrain, LensAreNat DEF CoworkInv, SettleMessage, At, DrainOK
<1>2. d \in Drain
  <2>1. e.round \in Nat
    BY <1>1 DEF Drain
  <2>2. DrainOK(d, Len(mail), Len(handoffs))
    BY <1>1, <2>1, DrainedOK
  <2> QED BY <2>2 DEF DrainOK
<1>3. /\ mail' = UpdateStatus(mail, {i}, status) /\ drains' = Set(a, k, d)
      /\ UNCHANGED <<roster, cancelled, count>>
  BY DEF SettleMessage
<1>4. /\ e.ok => status = "processed"
      /\ ~e.ok => status = "rejected"
      /\ status \in MessageStatus /\ e.ok \in BOOLEAN
  BY <1>1 DEF StatusAfter, MessageStatus, Drain
<1>5. MessageHeld(a, e, mail, cancelled, count.crashes)
  BY DEF MessageInv, MessagesOK
<1> HIDE DEF e, status
<1>6. /\ i \notin e.queue
      /\ \A q \in e.queue \cup {i} :
           /\ q \in DOMAIN mail /\ mail[q].to = a
           /\ mail[q].status = "pending" \/ (mail[q].status = "rejected" /\ q \in cancelled)
      /\ \A q \in e.queue : Cardinality(AnswersTo(mail, q)) <= count.crashes
      /\ e.stage = "messageSettle" /\ mail[i].from = Human => LastSays(mail, i, ~e.ok)
      /\ e.stage = "messageRefused" => ~e.ok /\ (mail[i].from = Human => i \in cancelled)
  BY <1>1, <1>5 DEF MessageHeld, MessageStages
<1>7. /\ DOMAIN mail' = DOMAIN mail
      /\ \A q : AnswersTo(mail', q) = AnswersTo(mail, q)
      /\ \A q : \A failed : LastSays(mail', q, failed) <=> LastSays(mail, q, failed)
      /\ \A q \in DOMAIN mail :
           /\ mail'[q].from = mail[q].from /\ mail'[q].to = mail[q].to
           /\ mail'[q].status = IF q \in {i} THEN status ELSE mail[q].status
           /\ AnswerFits(q, mail) => AnswerFits(q, mail')
  <2> DEFINE new == UpdateStatus(mail, {i}, status)
  <2>1. /\ DOMAIN new = DOMAIN mail
        /\ \A q : AnswersTo(new, q) = AnswersTo(mail, q)
        /\ \A q : \A failed : LastSays(new, q, failed) <=> LastSays(mail, q, failed)
        /\ \A q \in DOMAIN mail :
             /\ new[q].from = mail[q].from /\ new[q].to = mail[q].to
             /\ new[q].status = IF q \in {i} THEN status ELSE mail[q].status
             /\ AnswerFits(q, mail) => AnswerFits(q, new)
    BY <1>1, <1>4, StatusKeepsAnswers
  <2>2. mail' = new
    BY <1>3
  <2> HIDE DEF new
  <2> QED BY <2>1, <2>2
<1> HIDE DEF i
<1>8. MessageHeld(a, d, mail', cancelled, count.crashes)
  <2>1. ASSUME NEW q \in e.queue
        PROVE  /\ q \in DOMAIN mail' /\ mail'[q].to = a
               /\ mail'[q].status = "pending" \/ (mail'[q].status = "rejected" /\ q \in cancelled)
               /\ Cardinality(AnswersTo(mail', q)) <= count.crashes
               /\ a \notin roster /\ mail'[q].from = Human => q \in cancelled
    BY <1>6, <1>7, <2>1, IdleHasNoDrain
  <2> QED BY <1>1, <2>1, FreshHeld
<1> HIDE DEF d
<1>9. \A b \in Agents : /\ DOMAIN drains'[b] = DOMAIN drains[b]
                        /\ \A j \in DOMAIN drains[b] :
                             drains'[b][j] = IF b = a /\ j = k THEN d ELSE drains[b][j]
  <2>1. drains \in [Agents -> Seq(Drain)] /\ d \in Drain /\ drains' = Set(a, k, d)
    BY <1>1, <1>2, <1>3
  <2> QED BY <2>1, DrainMoved
<1>10. ASSUME NEW b \in Agents, NEW j \in DOMAIN drains'[b]
       PROVE  MessageHeld(b, drains'[b][j], mail', cancelled, count.crashes)
  <2>1. CASE b = a
    BY <1>1, <1>8, <1>9, <1>10, <2>1
  <2>2. CASE b # a
    <3> DEFINE f == drains[b][j]
    <3>1. drains'[b][j] = f /\ MessageHeld(b, f, mail, cancelled, count.crashes)
      BY <1>9, <1>10, <2>2 DEF MessageInv, MessagesOK
    <3> HIDE DEF f
    <3>2. SUFFICES ASSUME f.stage \in MessageStages
                   PROVE  MessageHeld(b, f, mail', cancelled, count.crashes)
      BY <3>1 DEF MessageHeld
    <3>3. \A q \in f.queue \cup {f.cur} : q # i /\ q \in DOMAIN mail
      BY <1>6, <2>2, <3>1, <3>2 DEF MessageHeld
    <3> QED BY <1>7, <3>1, <3>2, <3>3 DEF MessageHeld
  <2> QED BY <2>1, <2>2
<1>11. ASSUME NEW q, q # i, Settling(q, drains) PROVE Settling(q, drains')
  BY <1>1, <1>9, <1>11 DEF Settling, e, i
<1>12. ASSUME NEW q \in DOMAIN mail'
       PROVE  /\ AnswersCounted(q, mail', drains', count.crashes)
              /\ OutcomeShown(q, mail', cancelled) /\ AnswerFits(q, mail')
  <2>1. /\ AnswersCounted(q, mail, drains, count.crashes)
        /\ OutcomeShown(q, mail, cancelled) /\ AnswerFits(q, mail)
    BY <1>7 DEF MessageInv, MessagesOK
  <2>2. AnswersCounted(q, mail', drains', count.crashes)
    BY <1>4, <1>7, <1>11, <2>1 DEF AnswersCounted
  <2>3. OutcomeShown(q, mail', cancelled)
    <3>1. CASE q = i
      BY <1>1, <1>4, <1>6, <1>7, <3>1 DEF OutcomeShown
    <3>2. CASE q # i
      BY <1>7, <2>1, <3>2 DEF OutcomeShown
    <3> QED BY <3>1, <3>2
  <2> QED BY <1>7, <2>1, <2>2, <2>3
<1>13. MessagesOK(mail', drains', cancelled, count.crashes)
  BY <1>10, <1>12 DEF MessagesOK
<1> QED
  BY <1>3, <1>13 DEF MessageInv

(* A drain that works on handoffs has no message in hand.                   *)
LEMMA ClaimKeepsAnswers ==
  ASSUME CoworkInv, MessageInv, NEW a \in Agents, NEW k \in DOMAIN drains[a],
         drains[a][k].stage # "messageSettle",
         NEW offered, NEW queue, queue \subseteq 1 .. Len(handoffs),
         Claim(a, k, queue, offered), UNCHANGED <<mail, cancelled, count>>
  PROVE  MessageInv'
<1>1. drains[a][k] \in Drain /\ Len(handoffs) \in Nat
  BY ADrain, LensAreNat DEF CoworkInv
<1>2. PICK d \in Drain : drains' = Set(a, k, d) /\ d.stage \notin MessageStages
  <2>1. CASE queue = {}
    <3> DEFINE d == [drains[a][k] EXCEPT !.stage = "handoffs", !.queue = {}]
    <3>1. d \in Drain /\ d.stage \notin MessageStages
      BY <1>1 DEF Drain, Stage, MessageStages
    <3> QED BY <2>1, <3>1 DEF Claim
  <2>2. CASE queue # {}
    <3> DEFINE h == Max(queue)
               stage == IF a \in roster THEN "handoffTurn" ELSE "handoffSettle"
               d == [drains[a][k] EXCEPT !.stage = stage, !.queue = queue \ {h}, !.cur = h, !.ok = FALSE]
    <3>1. h \in Nat /\ queue \ {h} \in SUBSET Nat /\ stage \in Stage /\ stage \notin MessageStages
      <4>1. queue \subseteq Nat
        BY <1>1
      <4>2. h \in queue
        BY <1>1, <2>2, MaxOfRows
      <4>3. stage \in Stage /\ stage \notin MessageStages
        BY DEF Stage, MessageStages
      <4> HIDE DEF h, stage
      <4> QED BY <4>1, <4>2, <4>3
    <3>2. drains' = Set(a, k, d)
      BY <2>2 DEF Claim
    <3> HIDE DEF h, stage
    <3>3. d \in Drain /\ d.stage \notin MessageStages
      BY <1>1, <3>1 DEF Drain
    <3> QED BY <3>2, <3>3
  <2> QED BY <2>1, <2>2
<1>3. MessageHeld(a, d, mail, cancelled, count.crashes)
  BY <1>2 DEF MessageHeld
<1>4. MessagesOK(mail, drains', cancelled, count.crashes)
  BY <1>2, <1>3, MessagesMoved
<1> QED
  BY <1>4 DEF MessageInv

LEMMA HandoffTurnKeepsAnswers ==
  ASSUME CoworkInv, MessageInv, NEW a \in Agents, NEW k \in DOMAIN drains[a],
         NEW finished \in BOOLEAN, NEW blank \in BOOLEAN,
         EndHandoffTurn(a, k, finished, blank)
  PROVE  MessageInv'
<1> DEFINE c == drains[a][k].cur
           d == [drains[a][k] EXCEPT !.stage = "handoffSettle", !.ok = finished /\ ~blank]
           settled == Set(a, k, d)
<1>1. /\ drains[a][k] \in Drain /\ DOMAIN handoffs = 1 .. Len(handoffs) /\ handoffs \in Seq(Handoff)
      /\ drains[a][k].stage = "handoffTurn" /\ c \in 1 .. Len(handoffs) /\ count.crashes \in Nat
  BY ADrain DEF CoworkInv, TypeOK, EndHandoffTurn, At, DrainOK, Bounded
<1>2. c \in Nat /\ handoffs[c] \in Handoff
  BY <1>1, ElementOfSeq
<1>3. d \in Drain /\ d.stage \notin MessageStages
  BY <1>1 DEF Drain, Stage, MessageStages
<1> HIDE DEF c, d
<1>4. MessageHeld(a, d, mail, cancelled, count.crashes)
  BY <1>3 DEF MessageHeld
<1>5. /\ settled \in [Agents -> Seq(Drain)]
      /\ \A b \in Agents : DOMAIN settled[b] = DOMAIN drains[b]
      /\ MessagesOK(mail, settled, cancelled, count.crashes)
  BY <1>1, <1>3, <1>4, MessagesMoved
<1>6. \A b \in Agents \ busy : DOMAIN settled[b] = {}
  BY <1>5, IdleHasNoDrain
<1>7. UNCHANGED <<cancelled, count>>
  BY DEF EndHandoffTurn
<1> HIDE DEF settled
<1>8. CASE finished /\ handoffs[c].from # Human
  <2> DEFINE row == HandoffResult(c)
  <2>1. Deliver(row, settled)
    BY <1>8 DEF EndHandoffTurn, c, d, settled
  <2>2. row \in Message /\ row.from \in Agents /\ row.replyTo = 0 /\ row.status = "pending"
    BY <1>2, HandoffResultIs
  <2>3. row.from # Human
    BY <2>2, HumanAssumption
  <2> HIDE DEF row
  <2>4. MessagesOK(mail', drains', cancelled, count.crashes)
    BY <1>1, <1>5, <1>6, <2>1, <2>2, <2>3, MessagesDelivered
  <2> QED BY <1>7, <2>4 DEF MessageInv
<1>9. CASE ~(finished /\ handoffs[c].from # Human)
  <2>1. drains' = settled /\ mail' = mail
    BY <1>9 DEF EndHandoffTurn, c, d, settled
  <2> QED BY <1>5, <1>7, <2>1 DEF MessageInv
<1> QED
  BY <1>8, <1>9

LEMMA EndRoundKeepsAnswers ==
  ASSUME CoworkInv, MessageInv, NEW a \in Agents, NEW k \in DOMAIN drains[a], EndRound(a, k)
  PROVE  MessageInv'
<1> DEFINE next == drains[a][k].round + 1
<1>1. /\ drains[a][k] \in Drain /\ mail \in Seq(Message) /\ DOMAIN mail = 1 .. Len(mail)
      /\ Len(mail) \in Nat /\ Len(handoffs) \in Nat /\ DOMAIN drains[a] = {k}
      /\ drains \in [Agents -> Seq(Drain)] /\ drains[a][k].stage = "handoffs"
  BY ADrain, LensAreNat DEF CoworkInv, EndRound, At
<1>2. mail' = mail /\ UNCHANGED <<cancelled, count>>
      /\ MessagesOK(mail, drains, cancelled, count.crashes)
  BY DEF EndRound, store, MessageInv
<1>3. CASE next < RoundLimit /\ HasWork(mail, handoffs, a)
  <2> DEFINE d == Drained(a, Pending(mail, a), next)
  <2>1. d \in Drain
    <3>1. next \in Nat /\ Pending(mail, a) \subseteq 1 .. Len(mail)
      BY <1>1 DEF Drain, Pending
    <3>2. DrainOK(d, Len(mail), Len(handoffs))
      BY <1>1, <3>1, DrainedOK
    <3> QED BY <3>2 DEF DrainOK
  <2>2. MessageHeld(a, d, mail, cancelled, count.crashes)
    <3>1. \A j \in DOMAIN drains[a] : drains[a][j].stage # "messageSettle"
      BY <1>1
    <3> QED BY <1>1, <1>2, <3>1, IdleHasNoDrain, PendingHeld
  <2>3. drains' = Set(a, k, d)
    BY <1>3 DEF EndRound
  <2> HIDE DEF d
  <2>4. MessagesOK(mail, drains', cancelled, count.crashes)
    BY <1>1, <2>1, <2>2, <2>3, MessagesMoved
  <2> QED BY <1>2, <2>4 DEF MessageInv
<1>4. CASE ~(next < RoundLimit /\ HasWork(mail, handoffs, a))
  <2>1. drains' = [drains EXCEPT ![a] = RemoveAt(@, k)]
    BY <1>4 DEF EndRound
  <2>2. DOMAIN drains'[a] = {} /\ \A b \in Agents \ {a} : drains'[b] = drains[b]
    <3>1. RemoveAt(drains[a], k) = <<>>
      BY LastDrainRemoved
    <3> QED BY <1>1, <2>1, <3>1
  <2>3. \A b \in Agents : \A j \in DOMAIN drains'[b] :
          MessageHeld(b, drains'[b][j], mail, cancelled, count.crashes)
    BY <1>2, <2>2 DEF MessagesOK
  <2>4. \A q : Settling(q, drains) => Settling(q, drains')
    BY <1>1, <2>2 DEF Settling
  <2>5. MessagesOK(mail, drains', cancelled, count.crashes)
    BY <1>2, <2>3, <2>4, MessagesOfDrains
  <2> QED BY <1>2, <2>5 DEF MessageInv
<1> QED
  BY <1>3, <1>4

(* The process dies: the answers of its life count for the next one.        *)
LEMMA CrashKeepsAnswers ==
  ASSUME CoworkInv, MessageInv, Crash
  PROVE  MessageInv'
<1>1. /\ mail' = mail /\ cancelled' = cancelled /\ \A a \in Agents : DOMAIN drains'[a] = {}
      /\ count.crashes \in Nat /\ count'.crashes = count.crashes + 1 /\ mail \in Seq(Message)
  BY DEF Crash, store, Within, CoworkInv, TypeOK, Bounded
<1>2. PICK lives \in Nat : lives = count'.crashes /\ lives = count.crashes + 1
  BY <1>1
<1>3. ASSUME NEW q \in DOMAIN mail PROVE AnswersCounted(q, mail, drains', lives)
  <2>1. AnswersCounted(q, mail, drains, count.crashes)
    BY DEF MessageInv, MessagesOK
  <2>2. Cardinality(AnswersTo(mail, q)) \in Nat
    BY <1>1, AnswersAreRows
  <2>3. Cardinality(AnswersTo(mail, q)) <= lives
    BY <1>1, <1>2, <2>1, <2>2 DEF AnswersCounted
  <2>4. Cardinality(AnswersTo(mail, q)) <= 1 + lives
    BY <2>2, <2>3
  <2> QED BY <2>3, <2>4 DEF AnswersCounted
<1>4. MessagesOK(mail, drains', cancelled, lives)
  BY <1>1, <1>3 DEF MessageInv, MessagesOK
<1> QED
  BY <1>1, <1>2, <1>4 DEF MessageInv

LEMMA SendKeepsAnswers ==
  ASSUME CoworkInv, MessageInv, NEW from \in Addresses, NEW to \in Agents, to \in roster,
         NEW thread \in Threads \cup {NoThread},
         Within("sends"), cancelled' = cancelled,
         Deliver(NewMessage(from, to, thread, LastHopsInThread(mail, thread) + 1), drains)
  PROVE  MessageInv'
<1>1. /\ mail \in Seq(Message) /\ drains \in [Agents -> Seq(Drain)] /\ count.crashes \in Nat
      /\ count'.crashes = count.crashes
  BY DEF CoworkInv, TypeOK, Within, Bounded
<1>2. PICK hops \in Nat : hops = LastHopsInThread(mail, thread) + 1
  <2>1. LastHopsInThread(mail, thread) \in Nat
    BY <1>1, LastHopsType
  <2> QED BY <2>1
<1> DEFINE row == NewMessage(from, to, thread, hops)
<1>3. row \in Message /\ row.replyTo = 0 /\ row.status = "pending" /\ row.to = to
  BY NewMessageType DEF Addresses
<1>4. Deliver(row, drains)
  BY <1>2
<1> HIDE DEF row
<1>5. MessagesOK(mail', drains', cancelled, count.crashes)
  <2>1. MessagesOK(mail, drains, cancelled, count.crashes)
    BY DEF MessageInv
  <2> QED BY <1>1, <1>3, <1>4, <2>1, IdleHasNoDrain, MessagesDelivered
<1> QED
  BY <1>1, <1>5 DEF MessageInv

LEMMA MessageInvInit == Init => MessageInv
<1> SUFFICES ASSUME Init PROVE MessageInv
  OBVIOUS
<1>1. DOMAIN mail = {} /\ \A a \in Agents : DOMAIN drains[a] = {}
  BY DEF Init
<1> QED
  BY <1>1 DEF MessageInv, MessagesOK

LEMMA MessageInvNext == CoworkInv /\ MessageInv /\ [Next]_vars => MessageInv'
<1> SUFFICES ASSUME CoworkInv, MessageInv, [Next]_vars PROVE MessageInv'
  OBVIOUS
<1>1. /\ drains \in [Agents -> Seq(Drain)] /\ mail \in Seq(Message) /\ roster \subseteq Agents
      /\ DOMAIN handoffs = 1 .. Len(handoffs) /\ count \in [Bounded -> Nat]
  BY LensAreNat DEF CoworkInv, TypeOK
<1>2. ASSUME NEW a \in Agents, NEW k \in DOMAIN drains[a], ClaimHandoffs(a, k) PROVE MessageInv'
  <2>1. Offers(handoffs, a) \subseteq 1 .. Len(handoffs)
    BY <1>1 DEF Offers
  <2> QED BY <1>2, <2>1, ClaimKeepsAnswers DEF ClaimHandoffs, At
<1>3. ASSUME NEW a \in Agents, NEW k \in DOMAIN drains[a], SettleHandoff(a, k) PROVE MessageInv'
  <2>1. drains[a][k].stage = "handoffSettle" /\ drains[a][k].queue \subseteq 1 .. Len(handoffs)
    BY <1>3, ADrain DEF SettleHandoff, At, DrainOK
  <2> QED BY <1>3, <2>1, ClaimKeepsAnswers DEF SettleHandoff
<1>4. ASSUME NEW a \in Agents, NEW k \in DOMAIN drains[a], DrainStep(a, k) PROVE MessageInv'
  BY <1>2, <1>3, <1>4, MessageTurnKeepsAnswers, SettleMessageKeepsAnswers,
     HandoffTurnKeepsAnswers, EndRoundKeepsAnswers DEF DrainStep
<1>5. CASE Tick
  <2>1. StartDrains(mail, handoffs, drains) /\ UNCHANGED <<mail, cancelled, count>>
    BY <1>5 DEF Tick, store
  <2>2. MessagesOK(mail, drains, cancelled, count.crashes)
    BY DEF MessageInv
  <2>3. MessagesOK(mail, drains', cancelled, count.crashes)
    BY <1>1, <2>1, <2>2, IdleHasNoDrain, MessagesWoken
  <2> QED BY <2>1, <2>3 DEF MessageInv
<1>6. ASSUME NEW thread \in Threads, TakeReplies(thread) PROVE MessageInv'
  <2>1. /\ mail' = UpdateStatus(mail, Unread(thread), "read") /\ UNCHANGED <<drains, cancelled, count>>
        /\ MessagesOK(mail, drains, cancelled, count.crashes)
    BY <1>6 DEF TakeReplies, runtime, MessageInv
  <2>2. \A i \in Unread(thread) : mail[i].to \notin Agents
    BY HumanAssumption DEF Unread, Pending
  <2>3. "read" \in MessageStatus
    BY DEF MessageStatus
  <2>4. MessagesOK(mail', drains, cancelled, count.crashes)
    BY <1>1, <2>1, <2>2, <2>3, MessagesSettled
  <2> QED BY <2>1, <2>4 DEF MessageInv
<1>7. ASSUME NEW a \in Agents, RemoveTeammate(a) PROVE MessageInv'
  <2>1. /\ mail' = UpdateStatus(mail, Pending(mail, a), "rejected") /\ drains' = drains
        /\ cancelled' = cancelled \cup Pending(mail, a) /\ count'.crashes = count.crashes
        /\ MessagesOK(mail, drains, cancelled, count.crashes)
    BY <1>1, <1>7 DEF RemoveTeammate, runtime, MessageInv, Within, Bounded
  <2>2. "rejected" \in MessageStatus
    BY DEF MessageStatus
  <2>3. MessagesOK(mail', drains, cancelled', count.crashes)
    BY <1>1, <2>1, <2>2, MessagesSettled
  <2> QED BY <2>1, <2>3 DEF MessageInv
<1>8. ASSUME UNCHANGED <<mail, drains, cancelled>>, count'.crashes = count.crashes PROVE MessageInv'
  <2>1. MessagesOK(mail, drains, cancelled, count.crashes)
    BY DEF MessageInv
  <2>2. MessageInv' = MessagesOK(mail', drains', cancelled', count'.crashes)
    BY DEF MessageInv
  <2> QED BY <1>8, <2>1 DEF MessageInv
<1>9. ASSUME NEW a \in Agents, CreateTeammate(a) PROVE MessageInv'
  BY <1>1, <1>8, <1>9 DEF CreateTeammate, runtime, Within, Bounded
<1>10. ASSUME NEW from \in Addresses, NEW to \in Agents, NEW thread \in Threads \cup {NoThread},
              Initiate(from, to, thread)
       PROVE  MessageInv'
  BY <1>1, <1>8, <1>10 DEF Initiate, runtime, Within, Bounded
<1>11. ASSUME NEW to \in Agents, NEW thread \in Threads \cup {NoThread},
              UserMessage(to, thread) \/ \E from \in Addresses : CoworkSend(from, to, thread)
       PROVE  MessageInv'
  BY <1>11, SendKeepsAnswers DEF UserMessage, CoworkSend, Addresses
<1>12. CASE Outside
  BY <1>6, <1>7, <1>9, <1>10, <1>11, <1>12, CrashKeepsAnswers DEF Outside
<1>13. CASE UNCHANGED vars
  BY <1>8, <1>13 DEF vars
<1> QED
  BY <1>4, <1>5, <1>12, <1>13 DEF Next

LEMMA MessageInvariant == Spec => [](CoworkInv /\ MessageInv)
  BY CoworkInvInit, CoworkInvNext, MessageInvInit, MessageInvNext, PTL DEF Spec

LEMMA MessagesImply ==
  CoworkInv /\ MessageInv => AnsweredOncePerLife /\ TranscriptShowsOutcome
<1> SUFFICES ASSUME CoworkInv, MessageInv PROVE AnsweredOncePerLife /\ TranscriptShowsOutcome
  OBVIOUS
<1>1. mail \in Seq(Message) /\ DOMAIN mail = 1 .. Len(mail) /\ Len(mail) \in Nat
  BY LensAreNat DEF CoworkInv, TypeOK
<1>2. \A q \in DOMAIN mail : /\ AnswersCounted(q, mail, drains, count.crashes)
                             /\ OutcomeShown(q, mail, cancelled) /\ AnswerFits(q, mail)
  BY DEF MessageInv, MessagesOK
<1>3. AnsweredOncePerLife
  BY <1>2 DEF AnswersCounted, AnswersTo, AnsweredOncePerLife
<1>4. ASSUME NEW thread \in Threads, NEW q \in ByThread(mail, thread), mail[q].from = Human
      PROVE  LET shown == WithHumanReplies(mail, ByThread(mail, thread))[q]
             IN  /\ mail[q].status = "processed" => shown # 0 /\ ~mail[shown].failed
                 /\ mail[q].status = "rejected" /\ q \notin cancelled =>
                      shown # 0 /\ mail[shown].failed
  <2> DEFINE rows == ByThread(mail, thread)
             shown == WithHumanReplies(mail, rows)[q]
             last == Max(AnswersTo(mail, q))
  <2>1. rows \subseteq DOMAIN mail /\ \A r \in rows : mail[r].thread = thread
    BY DEF ByThread
  <2>2. ASSUME NEW p \in rows PROVE Answers(mail, rows, p) = AnswersTo(mail, p)
    <3>1. p # 0 /\ mail[p].thread = thread
      BY <1>1, <2>1, <2>2
    <3>2. \A r \in DOMAIN mail : mail[r].replyTo = p => r \in rows
      BY <1>2, <3>1 DEF AnswerFits, ByThread
    <3> QED BY <2>1, <3>2 DEF Answers, AnswersTo
  <2>3. q \notin Folded(mail, rows)
    <3>1. SUFFICES ASSUME NEW p \in rows, Answers(mail, rows, p) # {}, q = Max(Answers(mail, rows, p))
                   PROVE  FALSE
      BY DEF Folded, Answered
    <3>2. q \in AnswersTo(mail, p)
      BY <1>1, <2>2, <3>1, AnswersAreRows
    <3>3. mail[q].replyTo # 0 /\ q \in DOMAIN mail
      BY <1>1, <2>1, <3>1, <3>2 DEF AnswersTo, Answers
    <3> QED BY <1>2, <1>4, <3>3 DEF AnswerFits
  <2>4. AnswersTo(mail, q) # {} => shown = last /\ last # 0
    <3>1. AnswersTo(mail, q) # {} => last \in 1 .. Len(mail)
      BY <1>1, AnswersAreRows
    <3> HIDE DEF last, rows
    <3>2. Answers(mail, rows, q) = AnswersTo(mail, q) /\ q \in rows
      BY <2>2 DEF rows
    <3>3. AnswersTo(mail, q) # {} => shown = last
      BY <2>3, <3>2 DEF WithHumanReplies, Answered, last
    <3> QED BY <3>1, <3>3
  <2>5. OutcomeShown(q, mail, cancelled)
    BY <1>2, <2>1
  <2> HIDE DEF shown, last
  <2>6. /\ mail[q].status = "processed" => shown # 0 /\ ~mail[shown].failed
        /\ mail[q].status = "rejected" /\ q \notin cancelled => shown # 0 /\ mail[shown].failed
    BY <1>4, <2>4, <2>5 DEF OutcomeShown, LastSays, last
  <2> QED BY <2>6 DEF shown, rows
<1>5. TranscriptShowsOutcome
  BY <1>4 DEF TranscriptShowsOutcome
<1> QED
  BY <1>3, <1>5

(* A question of the person is answered at most once in the life of a       *)
(* process, however sends, ticks, removals and re-creations fall between    *)
(* the stored answer and the recorded status: each crash can ask it once    *)
(* more, and nothing else can (runtime.ts #onMessage, worker-loop.ts        *)
(* #drainMessages).                                                         *)
THEOREM OneAnswerPerLife == Spec => []AnsweredOncePerLife
  BY MessageInvariant, MessagesImply, PTL

(* A reopened chat draws a processed question with its answer and a         *)
(* rejected one with the reason, unless it was cancelled with its teammate: *)
(* the status #drainMessages records is that of the last row #keepForHuman  *)
(* stored, and withHumanReplies folds exactly that row.                     *)
THEOREM TranscriptTellsTheOutcome == Spec => []TranscriptShowsOutcome
  BY MessageInvariant, MessagesImply, PTL

-----------------------------------------------------------------------------
(***************************************************************************)
(* The contract of the team, for a roster nobody comes back to.  Each step  *)
(* of Cowork is described by what it does to one message and to one handoff *)
(* (MessageMoves, TaskMoves): what a drain takes was waiting, what it lets  *)
(* go of has its outcome on its row, and what nobody holds keeps its own.   *)
(***************************************************************************)
TurnStages == {"messageTurn", "messageSettle"}

HeldIn(running, stages, i) ==
  \E a \in Agents : \E k \in DOMAIN running[a] :
    running[a][k].stage \in stages /\ running[a][k].cur = i

MessageMoves(i, rows, running, rows2, running2) ==
  LET was == HeldIn(running, TurnStages, i)
      is  == HeldIn(running2, TurnStages, i)
  IN  /\ i \in DOMAIN rows => i \in DOMAIN rows2
      /\ was => i \in DOMAIN rows
      /\ ~was /\ is /\ i \in DOMAIN rows => rows[i].status = "pending"
      /\ was /\ ~is => rows2[i].status # "pending"
      /\ ~was /\ i \in DOMAIN rows /\ rows[i].status # "pending" => rows2[i].status # "pending"
      /\ i \in DOMAIN rows2 /\ i \notin DOMAIN rows => rows2[i].status = "pending"

TaskMoves(h, offered, running, offered2, running2) ==
  LET was == HeldIn(running, HandoffStages, h)
      is  == HeldIn(running2, HandoffStages, h)
  IN  /\ h \in DOMAIN offered => h \in DOMAIN offered2
      /\ was => h \in DOMAIN offered
      /\ ~was /\ is => h \in DOMAIN offered /\ offered[h].status = "initiated"
      /\ was /\ ~is => offered2[h].status \in {"completed", "failed"}
      /\ ~was /\ ~is /\ h \in DOMAIN offered => offered2[h].status = offered[h].status
      /\ h \in DOMAIN offered2 /\ h \notin DOMAIN offered => offered2[h].status = "initiated"

AllMove == /\ \A i : MessageMoves(i, mail, drains, mail', drains')
           /\ \A h : TaskMoves(h, handoffs, drains, handoffs', drains')

(* The contract allows what AllMove describes.                              *)
LEMMA StatesOfWork ==
  /\ DOMAIN WorkState = Contract!Work
  /\ \A w \in Contract!Work : WorkState[w] \in Contract!State
  /\ WorkState \in [Contract!Work -> Contract!State]
  /\ \A w \in {"message"} \X MessageIds : WorkState[w] = MessageState(w[2])
  /\ \A w \in {"task"} \X TaskIds : WorkState[w] = TaskState(w[2])
<1>1. Contract!Work = ({"message"} \X MessageIds) \cup ({"task"} \X TaskIds)
  BY DEF Contract!Work
<1>2. \A i : MessageState(i) \in Contract!State /\ TaskState(i) \in Contract!State
  BY DEF MessageState, TaskState, Contract!State
<1>3. \A w \in {"message"} \X MessageIds : WorkState[w] = MessageState(w[2])
  BY DEF WorkState
<1>4. \A w \in {"task"} \X TaskIds : WorkState[w] = TaskState(w[2])
  BY DEF WorkState
<1>5. WorkState \in [Contract!Work -> Contract!State]
  BY <1>1, <1>2 DEF WorkState
<1> QED
  BY <1>1, <1>3, <1>4, <1>5

LEMMA MessageStateMoves ==
  ASSUME NEW i, MessageMoves(i, mail, drains, mail', drains')
  PROVE  \/ MessageState(i)' = MessageState(i)
         \/ <<MessageState(i), MessageState(i)'>> \in
              {<<"absent", "waiting">>, <<"absent", "held">>, <<"waiting", "held">>,
               <<"held", "closed">>, <<"waiting", "closed">>}
<1>1. /\ Holds({"messageTurn", "messageSettle"}, i) = HeldIn(drains, TurnStages, i)
      /\ Holds({"messageTurn", "messageSettle"}, i)' = HeldIn(drains', TurnStages, i)
  BY DEF Holds, HeldIn, TurnStages
<1> DEFINE was == HeldIn(drains, TurnStages, i)
           is == HeldIn(drains', TurnStages, i)
<1>2. MessageState(i) = IF i \notin DOMAIN mail THEN "absent" ELSE IF was THEN "held"
                        ELSE IF mail[i].status = "pending" THEN "waiting" ELSE "closed"
  BY <1>1 DEF MessageState
<1>3. MessageState(i)' = IF i \notin DOMAIN mail' THEN "absent" ELSE IF is THEN "held"
                         ELSE IF mail'[i].status = "pending" THEN "waiting" ELSE "closed"
  BY <1>1 DEF MessageState
<1> QED
  BY <1>2, <1>3 DEF MessageMoves

LEMMA TaskStateMoves ==
  ASSUME NEW h, TaskMoves(h, handoffs, drains, handoffs', drains')
  PROVE  \/ TaskState(h)' = TaskState(h)
         \/ <<TaskState(h), TaskState(h)'>> \in
              {<<"absent", "waiting">>, <<"waiting", "held">>, <<"held", "closed">>}
<1>1. /\ Holds({"handoffTurn", "handoffSettle"}, h) = HeldIn(drains, HandoffStages, h)
      /\ Holds({"handoffTurn", "handoffSettle"}, h)' = HeldIn(drains', HandoffStages, h)
  BY DEF Holds, HeldIn, HandoffStages
<1> DEFINE was == HeldIn(drains, HandoffStages, h)
           is == HeldIn(drains', HandoffStages, h)
<1>2. TaskState(h) = IF h \notin DOMAIN handoffs THEN "absent" ELSE IF was THEN "held"
                     ELSE IF handoffs[h].status = "initiated" THEN "waiting"
                     ELSE IF handoffs[h].status = "accepted" THEN "stranded" ELSE "closed"
  BY <1>1 DEF TaskState
<1>3. TaskState(h)' = IF h \notin DOMAIN handoffs' THEN "absent" ELSE IF is THEN "held"
                      ELSE IF handoffs'[h].status = "initiated" THEN "waiting"
                      ELSE IF handoffs'[h].status = "accepted" THEN "stranded" ELSE "closed"
  BY <1>1 DEF TaskState
<1> QED
  BY <1>2, <1>3 DEF TaskMoves

LEMMA MovesProceed == AllMove => Contract!Next
<1> SUFFICES ASSUME AllMove PROVE Contract!Next
  OBVIOUS
<1>1. WorkState' \in [Contract!Work -> Contract!State]
  <2>1. \A i : MessageState(i)' \in Contract!State /\ TaskState(i)' \in Contract!State
    BY DEF MessageState, TaskState, Contract!State
  <2>2. Contract!Work = ({"message"} \X MessageIds) \cup ({"task"} \X TaskIds)
    BY DEF Contract!Work
  <2> QED BY <2>1, <2>2 DEF WorkState
<1>2. ASSUME NEW w \in Contract!Work
      PROVE  Contract!Stays(w) \/ <<WorkState[w], WorkState'[w]>> \in Contract!Moves(w)
  <2>1. CASE w \in {"message"} \X MessageIds
    <3>1. WorkState[w] = MessageState(w[2])
      BY <2>1, StatesOfWork
    <3>2. WorkState'[w] = MessageState(w[2])'
      BY <2>1 DEF WorkState
    <3>3. MessageMoves(w[2], mail, drains, mail', drains')
      BY DEF AllMove
    <3> QED
      BY <2>1, <3>1, <3>2, <3>3, MessageStateMoves
      DEF Contract!Stays, Contract!Moves, Contract!Submitted, Contract!Taken, Contract!Closed,
          Contract!Withdrawn
  <2>2. CASE w \in {"task"} \X TaskIds
    <3>1. WorkState[w] = TaskState(w[2])
      BY <2>2, StatesOfWork
    <3>2. WorkState'[w] = TaskState(w[2])'
      BY <2>2 DEF WorkState
    <3>3. TaskMoves(w[2], handoffs, drains, handoffs', drains')
      BY DEF AllMove
    <3> QED
      BY <2>2, <3>1, <3>2, <3>3, TaskStateMoves
      DEF Contract!Stays, Contract!Moves, Contract!Submitted, Contract!Taken, Contract!Closed
  <2> QED BY <2>1, <2>2 DEF Contract!Work
<1> QED
  BY <1>1, <1>2 DEF Contract!Next, Contract!Proceed

(* The process dies: what was held goes back to waiting, or stays closed, or *)
(* is stranded, and nothing else moves.                                     *)
LEMMA CrashDies ==
  ASSUME CoworkInv, HandoffInv, MessageInv, Crash
  PROVE  Contract!Next
<1>1. mail' = mail /\ handoffs' = handoffs /\ \A a \in Agents : DOMAIN drains'[a] = {}
  BY DEF Crash, store
<1>2. \A stages : \A i : ~Holds(stages, i)'
  BY <1>1 DEF Holds
<1>3. WorkState' \in [Contract!Work -> Contract!State]
  <2>1. \A i : MessageState(i)' \in Contract!State /\ TaskState(i)' \in Contract!State
    BY DEF MessageState, TaskState, Contract!State
  <2>2. Contract!Work = ({"message"} \X MessageIds) \cup ({"task"} \X TaskIds)
    BY DEF Contract!Work
  <2> QED BY <2>1, <2>2 DEF WorkState
<1>4. ASSUME NEW w \in {"message"} \X MessageIds
      PROVE  IF WorkState[w] = "held" THEN WorkState'[w] \in {"waiting", "closed"}
             ELSE WorkState'[w] = WorkState[w]
  <2>1. WorkState[w] = MessageState(w[2]) /\ WorkState'[w] = MessageState(w[2])'
    BY DEF WorkState
  <2>2. MessageState(w[2])' = IF w[2] \notin DOMAIN mail THEN "absent"
                              ELSE IF mail[w[2]].status = "pending" THEN "waiting" ELSE "closed"
    BY <1>1, <1>2 DEF MessageState
  <2> QED BY <2>1, <2>2 DEF MessageState
<1>5. ASSUME NEW h, Holds({"handoffTurn", "handoffSettle"}, h)
      PROVE  h \in DOMAIN handoffs /\ handoffs[h].status = "accepted"
  BY <1>5 DEF Holds, HandoffInv, OffersOK, OfferHeld, HandoffStages
<1>6. ASSUME NEW w \in {"task"} \X TaskIds
      PROVE  IF WorkState[w] = "held" THEN WorkState'[w] = "stranded"
             ELSE WorkState'[w] = WorkState[w]
  <2>1. WorkState[w] = TaskState(w[2]) /\ WorkState'[w] = TaskState(w[2])'
    BY DEF WorkState
  <2>2. TaskState(w[2])' = IF w[2] \notin DOMAIN handoffs THEN "absent"
                           ELSE IF handoffs[w[2]].status = "initiated" THEN "waiting"
                           ELSE IF handoffs[w[2]].status = "accepted" THEN "stranded" ELSE "closed"
    BY <1>1, <1>2 DEF TaskState
  <2> QED BY <1>5, <2>1, <2>2 DEF TaskState
<1>7. Contract!Die
  <2>1. ASSUME NEW w \in Contract!Work
        PROVE  IF WorkState[w] = "held"
                 THEN WorkState'[w] \in IF w \in {"task"} \X TaskIds THEN {"stranded"}
                                        ELSE {"waiting", "closed"}
                 ELSE Contract!Stays(w)
    <3>1. CASE w \in {"message"} \X MessageIds
      <4>1. w \notin {"task"} \X TaskIds
        BY <3>1
      <4> QED BY <1>4, <3>1, <4>1 DEF Contract!Stays
    <3>2. CASE w \in {"task"} \X TaskIds
      BY <1>6, <3>2 DEF Contract!Stays
    <3> QED BY <3>1, <3>2 DEF Contract!Work
  <2> QED BY <2>1 DEF Contract!Die
<1> QED
  BY <1>3, <1>7 DEF Contract!Next

LEMMA NothingYet == Init => Contract!Init
<1> SUFFICES ASSUME Init PROVE Contract!Init
  OBVIOUS
<1>1. DOMAIN mail = {} /\ DOMAIN handoffs = {}
  BY DEF Init
<1>2. \A i : MessageState(i) = "absent" /\ TaskState(i) = "absent"
  BY <1>1 DEF MessageState, TaskState
<1>3. Contract!Work = ({"message"} \X MessageIds) \cup ({"task"} \X TaskIds)
  BY DEF Contract!Work
<1> QED
  BY <1>2, <1>3 DEF Contract!Init, WorkState

(* What is held exists.                                                     *)
LEMMA HeldExists ==
  ASSUME CoworkInv, HandoffInv, MessageInv
  PROVE  /\ \A i : HeldIn(drains, TurnStages, i) => i \in DOMAIN mail
         /\ \A h : HeldIn(drains, HandoffStages, h) =>
                     h \in DOMAIN handoffs /\ handoffs[h].status = "accepted"
<1>1. ASSUME NEW i, HeldIn(drains, TurnStages, i) PROVE i \in DOMAIN mail
  BY <1>1 DEF HeldIn, TurnStages, MessageInv, MessagesOK, MessageHeld, MessageStages
<1>2. ASSUME NEW h, HeldIn(drains, HandoffStages, h)
      PROVE  h \in DOMAIN handoffs /\ handoffs[h].status = "accepted"
  BY <1>2 DEF HeldIn, HandoffInv, OffersOK, OfferHeld
<1> QED BY <1>1, <1>2

(* The rows change, the drains do not.                                      *)
LEMMA RowsMove ==
  ASSUME CoworkInv, HandoffInv, MessageInv, drains' = drains,
         \A i \in DOMAIN mail : i \in DOMAIN mail'
                                /\ (mail[i].status # "pending" => mail'[i].status # "pending"),
         \A i \in DOMAIN mail' : i \in DOMAIN mail,
         \A h \in DOMAIN handoffs : h \in DOMAIN handoffs' /\ handoffs'[h] = handoffs[h],
         \A h \in DOMAIN handoffs' : h \in DOMAIN handoffs \/ handoffs'[h].status = "initiated"
  PROVE  AllMove
<1>1. ASSUME NEW i PROVE MessageMoves(i, mail, drains, mail', drains')
  BY HeldExists DEF MessageMoves
<1>2. ASSUME NEW h PROVE TaskMoves(h, handoffs, drains, handoffs', drains')
  BY HeldExists DEF TaskMoves
<1> QED BY <1>1, <1>2 DEF AllMove

(* A wake, after a row may have been added and a drain may have gone on     *)
(* with what it holds.                                                      *)
LEMMA WakeMoves ==
  ASSUME CoworkInv, HandoffInv, MessageInv,
         NEW running \in [Agents -> Seq(Drain)], \A a \in Agents \ busy : DOMAIN running[a] = {},
         \A i : HeldIn(running, TurnStages, i) <=> HeldIn(drains, TurnStages, i),
         \A h : HeldIn(running, HandoffStages, h) <=> HeldIn(drains, HandoffStages, h),
         mail' \in Seq(Message),
         \A i \in DOMAIN mail : i \in DOMAIN mail' /\ mail'[i] = mail[i],
         \A i \in DOMAIN mail' : i \in DOMAIN mail \/ mail'[i].status = "pending",
         handoffs' = handoffs,
         StartDrains(mail', handoffs, running)
  PROVE  AllMove
<1>0. DOMAIN mail' = 1 .. Len(mail') /\ Len(mail') \in Nat
  BY LenProperties
<1>1. \A a \in Agents :
        /\ a \notin Woken(mail', handoffs) => drains'[a] = running[a]
        /\ a \in Woken(mail', handoffs) => DOMAIN running[a] = {}
        /\ \A k \in DOMAIN drains'[a] :
             \/ k \in DOMAIN running[a] /\ drains'[a][k] = running[a][k]
             \/ drains'[a][k] = Drained(a, Pending(mail', a), 0)
  BY StartedDrains DEF Woken
<1>2. ASSUME NEW stages, NEW i, HeldIn(running, stages, i) PROVE HeldIn(drains', stages, i)
  BY <1>1, <1>2 DEF HeldIn
<1>3. ASSUME NEW i, HeldIn(drains', TurnStages, i)
      PROVE  HeldIn(running, TurnStages, i) \/ (i \in DOMAIN mail' /\ mail'[i].status = "pending")
  <2>1. PICK a \in Agents : \E k \in DOMAIN drains'[a] :
               drains'[a][k].stage \in TurnStages /\ drains'[a][k].cur = i
    BY <1>3 DEF HeldIn
  <2>2. PICK k \in DOMAIN drains'[a] : drains'[a][k].stage \in TurnStages /\ drains'[a][k].cur = i
    BY <2>1
  <2>3. CASE k \in DOMAIN running[a] /\ drains'[a][k] = running[a][k]
    BY <2>2, <2>3 DEF HeldIn
  <2>4. CASE drains'[a][k] = Drained(a, Pending(mail', a), 0)
    <3> DEFINE queue == Pending(mail', a)
    <3>1. queue \subseteq 1 .. Len(mail')
      BY <1>0 DEF Pending
    <3>2. queue # {} /\ i = Max(queue)
      BY <2>2, <2>4 DEF Drained, TurnStages
    <3>3. i \in queue
      BY <1>0, <3>1, <3>2, MaxOfRows
    <3> QED BY <3>3 DEF Pending
  <2> QED BY <1>1, <2>2, <2>3, <2>4
<1>4. ASSUME NEW h, HeldIn(drains', HandoffStages, h) PROVE HeldIn(running, HandoffStages, h)
  <2>1. \A a : Drained(a, Pending(mail', a), 0).stage \notin HandoffStages
    BY DrainedStages DEF HandoffStages
  <2> QED BY <1>1, <1>4, <2>1 DEF HeldIn
<1>5. ASSUME NEW i PROVE MessageMoves(i, mail, drains, mail', drains')
  BY <1>2, <1>3, HeldExists DEF MessageMoves
<1>6. ASSUME NEW h PROVE TaskMoves(h, handoffs, drains, handoffs', drains')
  BY <1>2, <1>4, HeldExists DEF TaskMoves
<1> QED BY <1>5, <1>6 DEF AllMove

(* What the other teammates hold.                                           *)
HeldByOthers(a, stages, i) ==
  \E b \in Agents \ {a} : \E k \in DOMAIN drains[b] :
    drains[b][k].stage \in stages /\ drains[b][k].cur = i

LEMMA HeldNow ==
  ASSUME CoworkInv, NEW a \in Agents, NEW k \in DOMAIN drains[a], NEW stages, NEW i
  PROVE  HeldIn(drains, stages, i) <=> \/ drains[a][k].stage \in stages /\ drains[a][k].cur = i
                                       \/ HeldByOthers(a, stages, i)
<1>1. DOMAIN drains[a] = {k}
  BY ADrain
<1> QED BY <1>1 DEF HeldIn, HeldByOthers

LEMMA HeldNext ==
  ASSUME CoworkInv, NEW a \in Agents, NEW k \in DOMAIN drains[a], NEW d \in Drain, NEW stages, NEW i
  PROVE  HeldIn(Set(a, k, d), stages, i) <=> \/ d.stage \in stages /\ d.cur = i
                                             \/ HeldByOthers(a, stages, i)
<1> DEFINE new == Set(a, k, d)
<1>1. drains \in [Agents -> Seq(Drain)]
  BY ADrain
<1>2. /\ new \in [Agents -> Seq(Drain)]
      /\ \A b \in Agents :
           /\ DOMAIN new[b] = DOMAIN drains[b]
           /\ \A j \in DOMAIN drains[b] : new[b][j] = IF b = a /\ j = k THEN d ELSE drains[b][j]
  BY <1>1, SetIs
<1> HIDE DEF new
<1>3. DOMAIN new[a] = {k} /\ new[a][k] = d
  BY <1>2, ADrain
<1>4. \A b \in Agents \ {a} : /\ DOMAIN new[b] = DOMAIN drains[b]
                             /\ \A j \in DOMAIN drains[b] : new[b][j] = drains[b][j]
  BY <1>2
<1>5. HeldIn(new, stages, i) <=> \/ d.stage \in stages /\ d.cur = i
                                 \/ HeldByOthers(a, stages, i)
  BY <1>3, <1>4 DEF HeldIn, HeldByOthers
<1> QED BY <1>5 DEF new

(* The teammate of a cancelled message is not on the roster.                *)
GoneInv == \A i \in cancelled : i \in DOMAIN mail /\ mail[i].to \notin roster

(* What the loop takes from a snapshot next was waiting.                    *)
LEMMA TakenWaits ==
  ASSUME GoneInv, NEW a, NEW m \in Nat, NEW queue, queue \subseteq 1 .. m, NEW round, NEW i,
         Drained(a, queue, round).stage \in TurnStages, Drained(a, queue, round).cur = i,
         \A q \in queue : mail[q].to = a
                          /\ (mail[q].status = "pending" \/ q \in cancelled)
  PROVE  i \in queue /\ mail[i].status = "pending"
<1>1. queue # {} /\ i = Max(queue) /\ a \in roster
  BY DEF Drained, TurnStages
<1>2. i \in queue
  BY <1>1, MaxOfRows
<1> QED BY <1>1, <1>2 DEF GoneInv

LEMMA SettleMessageMoves ==
  ASSUME CoworkInv, HandoffInv, MessageInv, GoneInv,
         NEW a \in Agents, NEW k \in DOMAIN drains[a], SettleMessage(a, k)
  PROVE  AllMove
<1> DEFINE e == drains[a][k]
           i == e.cur
           status == StatusAfter(e.ok)
           d == Drained(a, e.queue, e.round)
<1>1. /\ e \in Drain /\ mail \in Seq(Message) /\ DOMAIN mail = 1 .. Len(mail) /\ Len(mail) \in Nat
      /\ Len(handoffs) \in Nat /\ e.queue \subseteq 1 .. Len(mail)
      /\ e.stage \in {"messageSettle", "messageRefused"} /\ i \in 1 .. Len(mail)
  BY ADrain, LensAreNat DEF CoworkInv, SettleMessage, At, DrainOK
<1>2. d \in Drain
  <2>1. e.round \in Nat
    BY <1>1 DEF Drain
  <2>2. DrainOK(d, Len(mail), Len(handoffs))
    BY <1>1, <2>1, DrainedOK
  <2> QED BY <2>2 DEF DrainOK
<1>3. /\ mail' = UpdateStatus(mail, {i}, status) /\ drains' = Set(a, k, d) /\ handoffs' = handoffs
  BY DEF SettleMessage
<1>4. status \in MessageStatus /\ status # "pending"
  BY DEF StatusAfter, MessageStatus
<1>5. MessageHeld(a, e, mail, cancelled, count.crashes)
  BY DEF MessageInv, MessagesOK
<1> HIDE DEF e, status
<1>6. \A q \in e.queue : /\ q \in DOMAIN mail /\ mail[q].to = a
                         /\ mail[q].status = "pending" \/ q \in cancelled
  BY <1>1, <1>5 DEF MessageHeld, MessageStages
<1>7. /\ DOMAIN mail' = DOMAIN mail
      /\ \A q \in DOMAIN mail : mail'[q].status = IF q \in {i} THEN status ELSE mail[q].status
  <2> DEFINE new == UpdateStatus(mail, {i}, status)
  <2>1. /\ DOMAIN new = DOMAIN mail
        /\ \A q \in DOMAIN mail : new[q].status = IF q \in {i} THEN status ELSE mail[q].status
    BY <1>1, <1>4, StatusKeepsAnswers
  <2>2. mail' = new
    BY <1>3
  <2> HIDE DEF new
  <2> QED BY <2>1, <2>2
<1> HIDE DEF d
<1>8. \A stages : \A q : HeldIn(drains, stages, q) <=>
          \/ e.stage \in stages /\ i = q
          \/ HeldByOthers(a, stages, q)
  BY HeldNow DEF e
<1>9. \A stages : \A q : HeldIn(drains', stages, q) <=>
          \/ d.stage \in stages /\ d.cur = q
          \/ HeldByOthers(a, stages, q)
  BY <1>2, <1>3, HeldNext
<1> HIDE DEF i
<1>10. ASSUME NEW q, d.stage \in TurnStages, d.cur = q PROVE mail[q].status = "pending"
  BY <1>1, <1>6, <1>10, TakenWaits DEF d
<1>11. e.stage \notin HandoffStages /\ d.stage \notin HandoffStages
  BY <1>1, DrainedStages DEF HandoffStages, d
<1>12. ASSUME NEW q PROVE MessageMoves(q, mail, drains, mail', drains')
  BY <1>4, <1>7, <1>8, <1>9, <1>10, HeldExists DEF MessageMoves
<1>13. ASSUME NEW h PROVE TaskMoves(h, handoffs, drains, handoffs', drains')
  BY <1>3, <1>8, <1>9, <1>11, HeldExists DEF TaskMoves
<1> QED BY <1>12, <1>13 DEF AllMove

LEMMA EndRoundMoves ==
  ASSUME CoworkInv, HandoffInv, MessageInv, GoneInv,
         NEW a \in Agents, NEW k \in DOMAIN drains[a], EndRound(a, k)
  PROVE  AllMove
<1> DEFINE next == drains[a][k].round + 1
           d == Drained(a, Pending(mail, a), next)
<1>1. /\ drains[a][k] \in Drain /\ DOMAIN mail = 1 .. Len(mail) /\ Len(mail) \in Nat
      /\ Len(handoffs) \in Nat /\ drains[a][k].stage = "handoffs"
      /\ drains \in [Agents -> Seq(Drain)]
  BY ADrain, LensAreNat DEF CoworkInv, EndRound, At
<1>2. mail' = mail /\ handoffs' = handoffs
  BY DEF EndRound, store
<1>3. \A stages : \A q :
        "handoffs" \notin stages => (HeldIn(drains, stages, q) <=> HeldByOthers(a, stages, q))
  BY <1>1, HeldNow
<1>4. "handoffs" \notin TurnStages /\ "handoffs" \notin HandoffStages
  BY DEF TurnStages, HandoffStages
<1>5. CASE next < RoundLimit /\ HasWork(mail, handoffs, a)
  <2>1. Pending(mail, a) \subseteq 1 .. Len(mail) /\ next \in Nat
    BY <1>1 DEF Pending, Drain
  <2>2. d \in Drain
    <3>1. DrainOK(d, Len(mail), Len(handoffs))
      BY <1>1, <2>1, DrainedOK
    <3> QED BY <3>1 DEF DrainOK
  <2>3. drains' = Set(a, k, d)
    BY <1>5 DEF EndRound
  <2>4. \A q \in Pending(mail, a) : mail[q].to = a /\ mail[q].status = "pending"
    BY DEF Pending
  <2>5. ASSUME NEW q, d.stage \in TurnStages, d.cur = q PROVE mail[q].status = "pending"
    <3>1. \A p \in Pending(mail, a) : mail[p].to = a
                                       /\ (mail[p].status = "pending" \/ p \in cancelled)
      BY <2>4
    <3> QED BY <1>1, <2>1, <2>5, <3>1, TakenWaits
  <2>6. d.stage \notin HandoffStages
    BY DrainedStages DEF HandoffStages
  <2> HIDE DEF d
  <2>7. \A stages : \A q : HeldIn(drains', stages, q) <=>
          \/ d.stage \in stages /\ d.cur = q
          \/ HeldByOthers(a, stages, q)
    BY <2>2, <2>3, HeldNext
  <2>8. ASSUME NEW q PROVE MessageMoves(q, mail, drains, mail', drains')
    BY <1>2, <1>3, <1>4, <2>5, <2>7, HeldExists DEF MessageMoves
  <2>9. ASSUME NEW h PROVE TaskMoves(h, handoffs, drains, handoffs', drains')
    BY <1>2, <1>3, <1>4, <2>6, <2>7, HeldExists DEF TaskMoves
  <2> QED BY <2>8, <2>9 DEF AllMove
<1>6. CASE ~(next < RoundLimit /\ HasWork(mail, handoffs, a))
  <2>1. drains' = [drains EXCEPT ![a] = RemoveAt(@, k)]
    BY <1>6 DEF EndRound
  <2>2. DOMAIN drains'[a] = {} /\ \A b \in Agents \ {a} : drains'[b] = drains[b]
    <3>1. RemoveAt(drains[a], k) = <<>>
      BY LastDrainRemoved
    <3> QED BY <1>1, <2>1, <3>1
  <2>3. \A stages : \A q : HeldIn(drains', stages, q) <=> HeldByOthers(a, stages, q)
    BY <2>2 DEF HeldIn, HeldByOthers
  <2>4. ASSUME NEW q PROVE MessageMoves(q, mail, drains, mail', drains')
    BY <1>2, <1>3, <1>4, <2>3, HeldExists DEF MessageMoves
  <2>5. ASSUME NEW h PROVE TaskMoves(h, handoffs, drains, handoffs', drains')
    BY <1>2, <1>3, <1>4, <2>3, HeldExists DEF TaskMoves
  <2> QED BY <2>4, <2>5 DEF AllMove
<1> QED BY <1>5, <1>6

(* The loop over the offers: the one that is settled gets its outcome, and  *)
(* the one that is taken was open.                                          *)
LEMMA ClaimMoves ==
  ASSUME CoworkInv, HandoffInv, MessageInv, NEW a \in Agents, NEW k \in DOMAIN drains[a],
         drains[a][k].stage \in {"messages", "handoffSettle"},
         NEW offered \in Seq(Handoff), DOMAIN offered = DOMAIN handoffs,
         \A q \in DOMAIN handoffs :
           \/ offered[q] = handoffs[q]
           \/ /\ drains[a][k].stage = "handoffSettle" /\ q = drains[a][k].cur
              /\ offered[q].status \in {"completed", "failed"},
         drains[a][k].stage = "handoffSettle" =>
           offered[drains[a][k].cur].status \in {"completed", "failed"},
         NEW queue, queue \subseteq Offers(handoffs, a),
         Claim(a, k, queue, offered), mail' = mail
  PROVE  AllMove
<1> DEFINE e == drains[a][k]
<1>1. /\ e \in Drain /\ Len(handoffs) \in Nat /\ DOMAIN handoffs = 1 .. Len(handoffs)
  BY ADrain, LensAreNat DEF CoworkInv
<1>2. queue \subseteq 1 .. Len(handoffs)
  BY <1>1 DEF Offers
<1>3. \E d \in Drain :
        /\ drains' = Set(a, k, d) /\ d.stage \notin TurnStages
        /\ \/ d.stage \notin HandoffStages /\ handoffs' = offered
           \/ /\ d.stage \in HandoffStages /\ d.cur \in queue
              /\ handoffs' = [offered EXCEPT ![d.cur].status = "accepted"]
  <2>1. CASE queue = {}
    <3> DEFINE d == [e EXCEPT !.stage = "handoffs", !.queue = {}]
    <3>1. d \in Drain /\ d.stage \notin TurnStages /\ d.stage \notin HandoffStages
      BY <1>1 DEF Drain, Stage, TurnStages, HandoffStages
    <3>2. drains' = Set(a, k, d) /\ handoffs' = offered
      BY <2>1 DEF Claim
    <3> QED BY <3>1, <3>2
  <2>2. CASE queue # {}
    <3> DEFINE h == Max(queue)
               stage == IF a \in roster THEN "handoffTurn" ELSE "handoffSettle"
               d == [e EXCEPT !.stage = stage, !.queue = queue \ {h}, !.cur = h, !.ok = FALSE]
    <3>1. h \in queue
      BY <1>1, <1>2, <2>2, MaxOfRows
    <3>2. stage \in Stage /\ stage \notin TurnStages /\ stage \in HandoffStages
      BY DEF Stage, TurnStages, HandoffStages
    <3>3. drains' = Set(a, k, d) /\ handoffs' = [offered EXCEPT ![h].status = "accepted"]
      BY <2>2 DEF Claim
    <3> HIDE DEF h, stage, e
    <3>4. h \in Nat /\ queue \ {h} \in SUBSET Nat
      BY <1>2, <3>1
    <3>5. d \in Drain /\ d.stage = stage /\ d.cur = h
      BY <1>1, <3>2, <3>4 DEF Drain
    <3> QED BY <3>1, <3>2, <3>3, <3>5
  <2> QED BY <2>1, <2>2
<1>4. PICK d \in Drain :
        /\ drains' = Set(a, k, d) /\ d.stage \notin TurnStages
        /\ \/ d.stage \notin HandoffStages /\ handoffs' = offered
           \/ /\ d.stage \in HandoffStages /\ d.cur \in queue
              /\ handoffs' = [offered EXCEPT ![d.cur].status = "accepted"]
  BY <1>3
<1>5. /\ DOMAIN handoffs' = DOMAIN handoffs
      /\ \A q \in DOMAIN handoffs :
           (d.stage \in HandoffStages /\ d.cur = q) \/ handoffs'[q] = offered[q]
  <2>1. CASE d.stage \notin HandoffStages
    BY <1>4, <2>1
  <2>2. CASE d.stage \in HandoffStages
    BY <1>4, <2>2
  <2> QED BY <2>1, <2>2
<1>6. \A q \in queue : q \in DOMAIN handoffs /\ handoffs[q].status = "initiated"
  BY DEF Offers
<1>7. \A stages : \A q : HeldIn(drains, stages, q) <=>
          \/ e.stage \in stages /\ e.cur = q
          \/ HeldByOthers(a, stages, q)
  BY HeldNow
<1>8. \A stages : \A q : HeldIn(drains', stages, q) <=>
          \/ d.stage \in stages /\ d.cur = q
          \/ HeldByOthers(a, stages, q)
  BY <1>4, HeldNext
<1>9. e.stage \notin TurnStages /\ (e.stage \in HandoffStages <=> e.stage = "handoffSettle")
  BY DEF TurnStages, HandoffStages
<1>10. ASSUME NEW q PROVE MessageMoves(q, mail, drains, mail', drains')
  BY <1>4, <1>7, <1>8, <1>9, HeldExists DEF MessageMoves
<1>11. ASSUME NEW h PROVE TaskMoves(h, handoffs, drains, handoffs', drains')
  <2> DEFINE was == HeldIn(drains, HandoffStages, h)
             is == HeldIn(drains', HandoffStages, h)
  <2>1. was => h \in DOMAIN handoffs
    BY HeldExists
  <2>2. ~was /\ is => h \in DOMAIN handoffs /\ handoffs[h].status = "initiated"
    BY <1>4, <1>6, <1>7, <1>8
  <2>3. was /\ ~is => handoffs'[h].status \in {"completed", "failed"}
    BY <1>5, <1>7, <1>8, <1>9, <2>1
  <2>4. ~was /\ ~is /\ h \in DOMAIN handoffs => handoffs'[h].status = handoffs[h].status
    BY <1>5, <1>7, <1>8, <1>9
  <2> HIDE DEF was, is
  <2> QED BY <1>5, <2>1, <2>2, <2>3, <2>4 DEF TaskMoves, was, is
<1> QED BY <1>10, <1>11 DEF AllMove

LEMMA HandoffsClaimedMove ==
  ASSUME CoworkInv, HandoffInv, MessageInv, NEW a \in Agents, NEW k \in DOMAIN drains[a],
         ClaimHandoffs(a, k) \/ SettleHandoff(a, k)
  PROVE  AllMove
<1>1. handoffs \in Seq(Handoff)
  BY ADrain
<1>2. CASE ClaimHandoffs(a, k)
  <2>1. /\ drains[a][k].stage = "messages" /\ mail' = mail
        /\ Claim(a, k, Offers(handoffs, a), handoffs)
    BY <1>2 DEF ClaimHandoffs, At
  <2> QED BY <1>1, <2>1, ClaimMoves
<1>3. CASE SettleHandoff(a, k)
  <2> DEFINE status == IF drains[a][k].ok THEN "completed" ELSE "failed"
             c == drains[a][k].cur
             queue == drains[a][k].queue
             offered == [handoffs EXCEPT ![c].status = status]
  <2>1. /\ Claim(a, k, queue, offered) /\ mail' = mail /\ drains[a][k].stage = "handoffSettle"
        /\ status \in {"completed", "failed"} /\ status \in HandoffStatus
    BY <1>3 DEF SettleHandoff, At, HandoffStatus
  <2>2. queue \subseteq Offers(handoffs, a) /\ c \in DOMAIN handoffs
    BY <2>1 DEF HandoffInv, OffersOK, OfferHeld, HandoffStages
  <2> HIDE DEF status
  <2>3. /\ offered \in Seq(Handoff) /\ DOMAIN offered = DOMAIN handoffs
        /\ \A h \in DOMAIN handoffs : h # c => offered[h] = handoffs[h]
        /\ offered[c].to = handoffs[c].to /\ offered[c].from = handoffs[c].from
        /\ offered[c].status = status
    BY <1>1, <2>1, <2>2, StatusOfOne
  <2> HIDE DEF offered, queue
  <2> QED BY <2>1, <2>2, <2>3, ClaimMoves
<1> QED BY <1>2, <1>3

(* A turn that ends: its work is still held.                                *)
LEMMA SettledHolds ==
  ASSUME CoworkInv, NEW a \in Agents, NEW k \in DOMAIN drains[a], NEW d \in Drain,
         d.cur = drains[a][k].cur,
         d.stage \in TurnStages <=> drains[a][k].stage \in TurnStages,
         d.stage \in HandoffStages <=> drains[a][k].stage \in HandoffStages
  PROVE  /\ Set(a, k, d) \in [Agents -> Seq(Drain)]
         /\ \A b \in Agents \ busy : DOMAIN Set(a, k, d)[b] = {}
         /\ \A i : HeldIn(Set(a, k, d), TurnStages, i) <=> HeldIn(drains, TurnStages, i)
         /\ \A h : HeldIn(Set(a, k, d), HandoffStages, h) <=> HeldIn(drains, HandoffStages, h)
<1>1. drains \in [Agents -> Seq(Drain)]
  BY ADrain
<1> DEFINE new == Set(a, k, d)
<1>2. /\ new \in [Agents -> Seq(Drain)]
      /\ \A b \in Agents :
           /\ DOMAIN new[b] = DOMAIN drains[b]
           /\ \A j \in DOMAIN drains[b] : new[b][j] = IF b = a /\ j = k THEN d ELSE drains[b][j]
  BY <1>1, SetIs
<1>3. \A stages : \A i : HeldIn(new, stages, i) <=>
        \/ d.stage \in stages /\ d.cur = i
        \/ HeldByOthers(a, stages, i)
  BY HeldNext
<1> HIDE DEF new
<1>4. \A stages : \A i : HeldIn(drains, stages, i) <=>
        \/ drains[a][k].stage \in stages /\ drains[a][k].cur = i
        \/ HeldByOthers(a, stages, i)
  BY HeldNow
<1>5. \A b \in Agents \ busy : DOMAIN new[b] = {}
  BY <1>2, IdleHasNoDrain
<1>6. /\ \A i : HeldIn(new, TurnStages, i) <=> HeldIn(drains, TurnStages, i)
      /\ \A h : HeldIn(new, HandoffStages, h) <=> HeldIn(drains, HandoffStages, h)
  BY <1>3, <1>4
<1> QED BY <1>2, <1>5, <1>6 DEF new

LEMMA DeliverMoves ==
  ASSUME CoworkInv, HandoffInv, MessageInv, NEW row \in Message, row.status = "pending",
         NEW running \in [Agents -> Seq(Drain)], \A a \in Agents \ busy : DOMAIN running[a] = {},
         \A i : HeldIn(running, TurnStages, i) <=> HeldIn(drains, TurnStages, i),
         \A h : HeldIn(running, HandoffStages, h) <=> HeldIn(drains, HandoffStages, h),
         handoffs' = handoffs, Deliver(row, running)
  PROVE  AllMove
<1>1. mail \in Seq(Message) /\ DOMAIN mail = 1 .. Len(mail) /\ Len(mail) \in Nat
  BY LensAreNat DEF CoworkInv, TypeOK
<1>2. mail' = Append(mail, row) /\ StartDrains(mail', handoffs, running)
  BY DEF Deliver
<1>3. /\ mail' \in Seq(Message) /\ DOMAIN mail' = 1 .. Len(mail) + 1
      /\ \A i \in DOMAIN mail : mail'[i] = mail[i]
      /\ mail'[Len(mail) + 1] = row
  BY <1>1, <1>2, AppendProperties, LenProperties
<1>4. /\ \A i \in DOMAIN mail : i \in DOMAIN mail' /\ mail'[i] = mail[i]
      /\ \A i \in DOMAIN mail' : i \in DOMAIN mail \/ mail'[i].status = "pending"
  BY <1>1, <1>3
<1> QED BY <1>2, <1>3, <1>4, WakeMoves

(* A drain goes on with what it holds and nothing else moves.               *)
LEMMA StillHeldMoves ==
  ASSUME CoworkInv, HandoffInv, MessageInv, UNCHANGED <<mail, handoffs>>,
         \A i : HeldIn(drains', TurnStages, i) <=> HeldIn(drains, TurnStages, i),
         \A h : HeldIn(drains', HandoffStages, h) <=> HeldIn(drains, HandoffStages, h)
  PROVE  AllMove
<1>1. ASSUME NEW i PROVE MessageMoves(i, mail, drains, mail', drains')
  BY HeldExists DEF MessageMoves
<1>2. ASSUME NEW h PROVE TaskMoves(h, handoffs, drains, handoffs', drains')
  BY HeldExists DEF TaskMoves
<1> QED BY <1>1, <1>2 DEF AllMove

LEMMA MessageTurnMoves ==
  ASSUME CoworkInv, HandoffInv, MessageInv, NEW a \in Agents, NEW k \in DOMAIN drains[a],
         NEW finished \in BOOLEAN, EndMessageTurn(a, k, finished)
  PROVE  AllMove
<1> DEFINE e == drains[a][k]
           i == e.cur
           d == [e EXCEPT !.stage = "messageSettle", !.ok = finished]
           settled == Set(a, k, d)
<1>1. /\ e \in Drain /\ e.stage = "messageTurn" /\ mail \in Seq(Message)
      /\ DOMAIN mail = 1 .. Len(mail)
  BY ADrain DEF EndMessageTurn, At
<1>2. i \in DOMAIN mail /\ i \in Nat
  BY <1>1 DEF MessageInv, MessagesOK, MessageHeld, MessageStages, Drain
<1>3. mail[i] \in Message
  BY <1>1, <1>2, ElementOfSeq
<1>4. d \in Drain /\ d.cur = e.cur /\ d.stage = "messageSettle"
  BY <1>1 DEF Drain, Stage
<1>5. /\ settled \in [Agents -> Seq(Drain)]
      /\ \A b \in Agents \ busy : DOMAIN settled[b] = {}
      /\ \A q : HeldIn(settled, TurnStages, q) <=> HeldIn(drains, TurnStages, q)
      /\ \A h : HeldIn(settled, HandoffStages, h) <=> HeldIn(drains, HandoffStages, h)
  <2>1. /\ d.stage \in TurnStages <=> drains[a][k].stage \in TurnStages
        /\ d.stage \in HandoffStages <=> drains[a][k].stage \in HandoffStages
    BY <1>1, <1>4 DEF TurnStages, HandoffStages
  <2>2. d.cur = drains[a][k].cur
    BY <1>4
  <2> HIDE DEF d, e
  <2> QED BY <1>4, <2>1, <2>2, SettledHolds
<1>6. /\ handoffs' = handoffs
      /\ \/ mail[i].from = Human /\ Deliver(HumanReply(a, i, finished), settled)
         \/ mail[i].from # Human /\ Deliver(TeammateReply(a, i), settled)
         \/ drains' = settled /\ mail' = mail
  BY DEF EndMessageTurn
<1> HIDE DEF settled, d, i, e
<1>7. CASE Deliver(HumanReply(a, i, finished), settled)
  <2>1. HumanReply(a, i, finished) \in Message /\ HumanReply(a, i, finished).status = "pending"
    BY <1>2, <1>3, HumanReplyIs
  <2> QED BY <1>5, <1>6, <1>7, <2>1, DeliverMoves
<1>8. CASE Deliver(TeammateReply(a, i), settled)
  <2>1. TeammateReply(a, i) \in Message /\ TeammateReply(a, i).status = "pending"
    BY <1>3, TeammateReplyIs
  <2> QED BY <1>5, <1>6, <1>8, <2>1, DeliverMoves
<1>9. CASE drains' = settled /\ mail' = mail
  BY <1>5, <1>6, <1>9, StillHeldMoves
<1> QED BY <1>6, <1>7, <1>8, <1>9

LEMMA HandoffTurnMoves ==
  ASSUME CoworkInv, HandoffInv, MessageInv, NEW a \in Agents, NEW k \in DOMAIN drains[a],
         NEW finished \in BOOLEAN, NEW blank \in BOOLEAN, EndHandoffTurn(a, k, finished, blank)
  PROVE  AllMove
<1> DEFINE e == drains[a][k]
           h == e.cur
           d == [e EXCEPT !.stage = "handoffSettle", !.ok = finished /\ ~blank]
           settled == Set(a, k, d)
<1>1. /\ e \in Drain /\ e.stage = "handoffTurn" /\ handoffs \in Seq(Handoff)
      /\ DOMAIN handoffs = 1 .. Len(handoffs)
  BY ADrain DEF EndHandoffTurn, At
<1>2. h \in DOMAIN handoffs /\ h \in Nat
  BY <1>1 DEF HandoffInv, OffersOK, OfferHeld, HandoffStages, Drain
<1>3. handoffs[h] \in Handoff
  BY <1>1, <1>2, ElementOfSeq
<1>4. d \in Drain /\ d.cur = e.cur /\ d.stage = "handoffSettle"
  <2>1. (finished /\ ~blank) \in BOOLEAN
    OBVIOUS
  <2> QED BY <1>1, <2>1 DEF Drain, Stage
<1>5. /\ settled \in [Agents -> Seq(Drain)]
      /\ \A b \in Agents \ busy : DOMAIN settled[b] = {}
      /\ \A q : HeldIn(settled, TurnStages, q) <=> HeldIn(drains, TurnStages, q)
      /\ \A q : HeldIn(settled, HandoffStages, q) <=> HeldIn(drains, HandoffStages, q)
  <2>1. /\ d.stage \in TurnStages <=> drains[a][k].stage \in TurnStages
        /\ d.stage \in HandoffStages <=> drains[a][k].stage \in HandoffStages
    BY <1>1, <1>4 DEF TurnStages, HandoffStages
  <2>2. d.cur = drains[a][k].cur
    BY <1>4
  <2> HIDE DEF d, e
  <2> QED BY <1>4, <2>1, <2>2, SettledHolds
<1>6. /\ handoffs' = handoffs
      /\ \/ Deliver(HandoffResult(h), settled)
         \/ drains' = settled /\ mail' = mail
  BY DEF EndHandoffTurn
<1> HIDE DEF settled, d, h, e
<1>7. CASE Deliver(HandoffResult(h), settled)
  <2>1. HandoffResult(h) \in Message /\ HandoffResult(h).status = "pending"
    BY <1>2, <1>3, HandoffResultIs
  <2> QED BY <1>5, <1>6, <1>7, <2>1, DeliverMoves
<1>8. CASE drains' = settled /\ mail' = mail
  BY <1>5, <1>6, <1>8, StillHeldMoves
<1> QED BY <1>6, <1>7, <1>8

(* What happens outside the drains.                                         *)
LEMMA SendMoves ==
  ASSUME CoworkInv, HandoffInv, MessageInv, NEW from \in Addresses, NEW to \in Agents,
         NEW thread \in Threads \cup {NoThread}, handoffs' = handoffs,
         Deliver(NewMessage(from, to, thread, LastHopsInThread(mail, thread) + 1), drains)
  PROVE  AllMove
<1>1. mail \in Seq(Message) /\ drains \in [Agents -> Seq(Drain)]
  BY DEF CoworkInv, TypeOK
<1>2. PICK hops \in Nat : hops = LastHopsInThread(mail, thread) + 1
  <2>1. LastHopsInThread(mail, thread) \in Nat
    BY <1>1, LastHopsType
  <2> QED BY <2>1
<1> DEFINE row == NewMessage(from, to, thread, hops)
<1>3. row \in Message /\ row.status = "pending"
  BY NewMessageType DEF Addresses
<1>4. Deliver(row, drains)
  BY <1>2
<1> HIDE DEF row
<1> QED BY <1>1, <1>3, <1>4, IdleHasNoDrain, DeliverMoves

LEMMA TickMoves ==
  ASSUME CoworkInv, HandoffInv, MessageInv, Tick
  PROVE  AllMove
<1>1. mail \in Seq(Message) /\ drains \in [Agents -> Seq(Drain)]
  BY DEF CoworkInv, TypeOK
<1>2. mail' = mail /\ handoffs' = handoffs /\ StartDrains(mail', handoffs, drains)
  BY DEF Tick, store
<1> QED BY <1>1, <1>2, IdleHasNoDrain, WakeMoves

LEMMA StatusMoves ==
  ASSUME CoworkInv, HandoffInv, MessageInv, NEW ids, NEW status \in MessageStatus \ {"pending"},
         mail' = UpdateStatus(mail, ids, status), UNCHANGED <<handoffs, drains>>
  PROVE  AllMove
<1>1. mail \in Seq(Message)
  BY DEF CoworkInv, TypeOK
<1> DEFINE new == UpdateStatus(mail, ids, status)
<1>2. /\ DOMAIN new = DOMAIN mail
      /\ \A q \in DOMAIN mail : new[q].status = IF q \in ids THEN status ELSE mail[q].status
  BY <1>1, StatusKeepsAnswers
<1>3. mail' = new
  OBVIOUS
<1> HIDE DEF new
<1>4. /\ \A i \in DOMAIN mail : i \in DOMAIN mail'
                                /\ (mail[i].status # "pending" => mail'[i].status # "pending")
      /\ \A i \in DOMAIN mail' : i \in DOMAIN mail
  BY <1>2, <1>3
<1> QED BY <1>4, RowsMove

LEMMA InitiateMoves ==
  ASSUME CoworkInv, HandoffInv, MessageInv, NEW from \in Addresses, NEW to \in Agents,
         NEW thread \in Threads \cup {NoThread}, Initiate(from, to, thread)
  PROVE  AllMove
<1> DEFINE row == [from |-> from, to |-> to, thread |-> thread, status |-> "initiated"]
<1>1. /\ handoffs \in Seq(Handoff) /\ DOMAIN handoffs = 1 .. Len(handoffs)
      /\ Len(handoffs) \in Nat
  BY LensAreNat DEF CoworkInv, TypeOK
<1>2. row \in Handoff /\ row.status = "initiated"
  BY DEF Handoff, HandoffStatus
<1>3. handoffs' = Append(handoffs, row) /\ mail' = mail /\ drains' = drains
  BY DEF Initiate, runtime
<1> HIDE DEF row
<1>4. /\ DOMAIN handoffs' = 1 .. Len(handoffs) + 1
      /\ \A h \in DOMAIN handoffs : handoffs'[h] = handoffs[h]
      /\ handoffs'[Len(handoffs) + 1] = row
  BY <1>1, <1>2, <1>3, AppendProperties, LenProperties
<1>5. /\ \A h \in DOMAIN handoffs : h \in DOMAIN handoffs' /\ handoffs'[h] = handoffs[h]
      /\ \A h \in DOMAIN handoffs' : h \in DOMAIN handoffs \/ handoffs'[h].status = "initiated"
  BY <1>1, <1>2, <1>4
<1> QED BY <1>3, <1>5, RowsMove

(* A teammate that is created is not one whose messages a removal cancelled. *)
NamesAreNotReused ==
  \A a \in Agents : CreateTeammate(a) => \A i \in cancelled : mail[i].to # a

LEMMA NobodyReturns ==
  ASSUME CoworkInv, MaxCreations = 0
  PROVE  NamesAreNotReused
<1>1. count["creations"] \in Nat
  BY DEF CoworkInv, TypeOK, Bounded
<1>2. ~(count["creations"] < 0)
  BY <1>1
<1> QED BY <1>2 DEF NamesAreNotReused, CreateTeammate, Within, Bound

(* The teammate of a cancelled message stays away.                          *)
LEMMA GoneKept ==
  ASSUME GoneInv,
         \A i \in DOMAIN mail : i \in DOMAIN mail' /\ mail'[i].to = mail[i].to,
         \A a \in roster' : a \in roster \/ \A i \in cancelled : mail[i].to # a,
         \A i \in cancelled' : i \in cancelled \/ (i \in DOMAIN mail /\ mail[i].to \notin roster')
  PROVE  GoneInv'
BY DEF GoneInv

LEMMA RowsKeepReceiver ==
  ASSUME mail \in Seq(Message),
         \/ mail' = mail
         \/ \E row \in Message : mail' = Append(mail, row)
         \/ \E ids : \E status \in MessageStatus : mail' = UpdateStatus(mail, ids, status)
  PROVE  \A i \in DOMAIN mail : i \in DOMAIN mail' /\ mail'[i].to = mail[i].to
<1>1. DOMAIN mail = 1 .. Len(mail) /\ Len(mail) \in Nat
  BY LenProperties
<1>2. ASSUME NEW row \in Message, mail' = Append(mail, row)
      PROVE  \A i \in DOMAIN mail : i \in DOMAIN mail' /\ mail'[i].to = mail[i].to
  <2>1. mail' \in Seq(Message) /\ Len(mail') = Len(mail) + 1
    BY <1>2, AppendProperties
  <2>2. DOMAIN mail' = 1 .. Len(mail) + 1
    BY <2>1, LenProperties
  <2>3. \A i \in 1 .. Len(mail) : mail'[i] = mail[i]
    BY <1>2, AppendProperties
  <2> QED BY <1>1, <2>2, <2>3
<1>3. ASSUME NEW ids, NEW status \in MessageStatus, mail' = UpdateStatus(mail, ids, status)
      PROVE  \A i \in DOMAIN mail : i \in DOMAIN mail' /\ mail'[i].to = mail[i].to
  <2> DEFINE new == UpdateStatus(mail, ids, status)
  <2>1. DOMAIN new = DOMAIN mail /\ \A q \in DOMAIN mail : new[q].to = mail[q].to
    BY StatusKeepsAnswers
  <2>2. mail' = new
    BY <1>3
  <2> HIDE DEF new
  <2> QED BY <2>1, <2>2
<1> QED BY <1>2, <1>3

LEMMA GoneInvInit == Init => GoneInv
BY DEF Init, GoneInv

LEMMA GoneInvNext ==
  CoworkInv /\ HandoffInv /\ MessageInv /\ GoneInv
    /\ [Next]_vars /\ [NamesAreNotReused]_vars => GoneInv'
<1> SUFFICES ASSUME CoworkInv, HandoffInv, MessageInv, GoneInv,
                    [Next]_vars, [NamesAreNotReused]_vars
             PROVE  GoneInv'
  OBVIOUS
<1>1. /\ mail \in Seq(Message) /\ DOMAIN mail = 1 .. Len(mail)
      /\ handoffs \in Seq(Handoff) /\ DOMAIN handoffs = 1 .. Len(handoffs)
  BY LensAreNat DEF CoworkInv, TypeOK
<1>2. ASSUME \/ mail' = mail
             \/ \E row \in Message : mail' = Append(mail, row)
             \/ \E ids : \E status \in MessageStatus : mail' = UpdateStatus(mail, ids, status),
             roster' = roster, cancelled' = cancelled
      PROVE  GoneInv'
  BY <1>1, <1>2, RowsKeepReceiver, GoneKept
<1>3. ASSUME NEW a \in Agents, NEW k \in DOMAIN drains[a], NEW finished \in BOOLEAN,
             EndMessageTurn(a, k, finished)
      PROVE  GoneInv'
  <2> DEFINE i == drains[a][k].cur
  <2>1. drains[a][k].stage = "messageTurn" /\ drains[a][k] \in Drain
    BY <1>3, ADrain DEF EndMessageTurn, At
  <2>2. i \in DOMAIN mail /\ i \in Nat
    BY <2>1 DEF MessageInv, MessagesOK, MessageHeld, MessageStages, Drain
  <2>3. mail[i] \in Message
    BY <1>1, <2>2, ElementOfSeq
  <2>4. HumanReply(a, i, finished) \in Message /\ TeammateReply(a, i) \in Message
    BY <2>2, <2>3, HumanReplyIs, TeammateReplyIs
  <2>5. /\ roster' = roster /\ cancelled' = cancelled
        /\ \/ mail' = mail
           \/ mail' = Append(mail, HumanReply(a, i, finished))
           \/ mail' = Append(mail, TeammateReply(a, i))
    BY <1>3 DEF EndMessageTurn, Deliver
  <2> QED BY <1>2, <2>4, <2>5
<1>4. ASSUME NEW a \in Agents, NEW k \in DOMAIN drains[a], SettleMessage(a, k) PROVE GoneInv'
  <2>1. StatusAfter(drains[a][k].ok) \in MessageStatus
    BY DEF StatusAfter, MessageStatus
  <2> QED BY <1>2, <1>4, <2>1 DEF SettleMessage
<1>5. ASSUME NEW a \in Agents, NEW k \in DOMAIN drains[a],
             ClaimHandoffs(a, k) \/ SettleHandoff(a, k) \/ EndRound(a, k)
      PROVE  GoneInv'
  BY <1>2, <1>5 DEF ClaimHandoffs, SettleHandoff, EndRound, store
<1>6. ASSUME NEW a \in Agents, NEW k \in DOMAIN drains[a], NEW finished \in BOOLEAN,
             NEW blank \in BOOLEAN, EndHandoffTurn(a, k, finished, blank)
      PROVE  GoneInv'
  <2> DEFINE h == drains[a][k].cur
  <2>1. drains[a][k].stage = "handoffTurn" /\ drains[a][k] \in Drain
    BY <1>6, ADrain DEF EndHandoffTurn, At
  <2>2. h \in DOMAIN handoffs /\ h \in Nat
    BY <2>1 DEF HandoffInv, OffersOK, OfferHeld, HandoffStages, Drain
  <2>3. HandoffResult(h) \in Message
    BY <1>1, <2>2, ElementOfSeq, HandoffResultIs
  <2>4. /\ roster' = roster /\ cancelled' = cancelled
        /\ mail' = mail \/ mail' = Append(mail, HandoffResult(h))
    BY <1>6 DEF EndHandoffTurn, Deliver
  <2> QED BY <1>2, <2>3, <2>4
<1>7. ASSUME NEW a \in Agents, NEW k \in DOMAIN drains[a], DrainStep(a, k) PROVE GoneInv'
  BY <1>3, <1>4, <1>5, <1>6, <1>7 DEF DrainStep
<1>8. ASSUME NEW from \in Addresses, NEW to \in Agents, NEW thread \in Threads \cup {NoThread},
             Deliver(NewMessage(from, to, thread, LastHopsInThread(mail, thread) + 1), drains),
             roster' = roster, cancelled' = cancelled
      PROVE  GoneInv'
  <2>1. PICK hops \in Nat : hops = LastHopsInThread(mail, thread) + 1
    <3>1. LastHopsInThread(mail, thread) \in Nat
      BY <1>1, LastHopsType
    <3> QED BY <3>1
  <2>2. NewMessage(from, to, thread, hops) \in Message
    BY NewMessageType DEF Addresses
  <2>3. mail' = Append(mail, NewMessage(from, to, thread, hops))
    BY <1>8, <2>1 DEF Deliver
  <2> QED BY <1>2, <1>8, <2>2, <2>3
<1>9. ASSUME NEW to \in Agents, NEW thread \in Threads \cup {NoThread},
             UserMessage(to, thread) \/ \E from \in Addresses : CoworkSend(from, to, thread)
      PROVE  GoneInv'
  BY <1>8, <1>9 DEF UserMessage, CoworkSend, Addresses
<1>10. ASSUME NEW thread \in Threads, TakeReplies(thread) PROVE GoneInv'
  <2>1. "read" \in MessageStatus
    BY DEF MessageStatus
  <2> QED BY <1>2, <1>10, <2>1 DEF TakeReplies
<1>11. ASSUME NEW a \in Agents, RemoveTeammate(a) PROVE GoneInv'
  <2>1. "rejected" \in MessageStatus
    BY DEF MessageStatus
  <2>2. \A i \in DOMAIN mail : i \in DOMAIN mail' /\ mail'[i].to = mail[i].to
    BY <1>1, <1>11, <2>1, RowsKeepReceiver DEF RemoveTeammate
  <2>3. roster' = roster \ {a} /\ cancelled' = cancelled \cup Pending(mail, a)
    BY <1>11 DEF RemoveTeammate
  <2>4. \A i \in Pending(mail, a) : i \in DOMAIN mail /\ mail[i].to \notin roster'
    BY <2>3 DEF Pending
  <2> QED BY <2>2, <2>3, <2>4, GoneKept
<1>12. CASE Outside
  <2>1. ASSUME Crash PROVE GoneInv'
    BY <1>2, <2>1 DEF Crash, store
  <2>2. ASSUME NEW from \in Addresses, NEW to \in Agents, NEW thread \in Threads \cup {NoThread},
               Initiate(from, to, thread)
        PROVE  GoneInv'
    BY <1>2, <2>2 DEF Initiate
  <2>3. ASSUME NEW a \in Agents, CreateTeammate(a) PROVE GoneInv'
    <3>1. /\ roster' = roster \cup {a} /\ mail' = mail /\ cancelled' = cancelled
          /\ a \notin roster
      BY <2>3 DEF CreateTeammate
    <3>2. vars' # vars
      BY <3>1 DEF vars
    <3>3. \A i \in cancelled : mail[i].to # a
      BY <2>3, <3>2 DEF NamesAreNotReused
    <3> QED BY <3>1, <3>3, GoneKept
  <2> QED BY <1>9, <1>10, <1>11, <1>12, <2>1, <2>2, <2>3 DEF Outside
<1>13. CASE Tick
  BY <1>2, <1>13 DEF Tick, store
<1>14. CASE UNCHANGED vars
  BY <1>2, <1>14 DEF vars
<1> QED BY <1>7, <1>12, <1>13, <1>14 DEF Next

(* Every step of the team is a step of the contract, or none of its own.    *)
LEMMA StepsMove ==
  CoworkInv /\ HandoffInv /\ MessageInv /\ GoneInv /\ [Next]_vars =>
    [Contract!Next]_WorkState
<1> SUFFICES ASSUME CoworkInv, HandoffInv, MessageInv, GoneInv, [Next]_vars
             PROVE  [Contract!Next]_WorkState
  OBVIOUS
<1>1. ASSUME NEW a \in Agents, NEW k \in DOMAIN drains[a], DrainStep(a, k) PROVE AllMove
  BY <1>1, MessageTurnMoves, SettleMessageMoves, HandoffsClaimedMove, HandoffTurnMoves,
     EndRoundMoves DEF DrainStep
<1>2. ASSUME NEW to \in Agents, NEW thread \in Threads \cup {NoThread},
             UserMessage(to, thread) \/ \E from \in Addresses : CoworkSend(from, to, thread)
      PROVE  AllMove
  BY <1>2, SendMoves DEF UserMessage, CoworkSend, Addresses
<1>3. ASSUME NEW thread \in Threads, TakeReplies(thread) PROVE AllMove
  <2>1. "read" \in MessageStatus \ {"pending"}
    BY DEF MessageStatus
  <2> QED BY <1>3, <2>1, StatusMoves DEF TakeReplies, runtime
<1>4. ASSUME NEW a \in Agents, RemoveTeammate(a) PROVE AllMove
  <2>1. "rejected" \in MessageStatus \ {"pending"}
    BY DEF MessageStatus
  <2> QED BY <1>4, <2>1, StatusMoves DEF RemoveTeammate, runtime
<1>5. CASE Outside
  <2>1. ASSUME NEW a \in Agents, CreateTeammate(a) PROVE AllMove
    BY <2>1, RowsMove DEF CreateTeammate, runtime
  <2> QED BY <1>2, <1>3, <1>4, <1>5, <2>1, InitiateMoves, CrashDies, MovesProceed DEF Outside
<1>6. CASE UNCHANGED vars
  <2>1. WorkState' = WorkState
    BY <1>6 DEF vars, WorkState, MessageState, TaskState, Holds
  <2> QED BY <2>1
<1> QED BY <1>1, <1>5, <1>6, TickMoves, MovesProceed DEF Next

(* The team keeps its contract, however many teammates, messages, crashes,  *)
(* rounds and removals there are: a message is done at least once and a     *)
(* handoff at most once, nothing is held by two drains, nothing closed      *)
(* comes back (worker-loop.ts #drainMessages and #claimAndRunHandoffs).     *)
(* The hypothesis is that nobody is created under the id of a teammate that *)
(* was removed with messages waiting.  The code does not keep the promise   *)
(* then: the loop goes on from a snapshot that holds what the removal       *)
(* cancelled, and runs it (see CancelledNeverRuns).                         *)
THEOREM TeamKeepsContract == Spec /\ [][NamesAreNotReused]_vars => KeepsContract
<1>1. Init => Contract!Init /\ CoworkInv /\ HandoffInv /\ MessageInv /\ GoneInv
  BY NothingYet, CoworkInvInit, HandoffInvInit, MessageInvInit, GoneInvInit
<1>2. CoworkInv /\ HandoffInv /\ MessageInv /\ GoneInv
        /\ [Next]_vars /\ [NamesAreNotReused]_vars =>
        (CoworkInv /\ HandoffInv /\ MessageInv /\ GoneInv)'
  BY CoworkInvNext, HandoffInvNext, MessageInvNext, GoneInvNext
<1>3. CoworkInv /\ HandoffInv /\ MessageInv /\ GoneInv /\ [Next]_vars => [Contract!Next]_WorkState
  BY StepsMove
<1> QED BY <1>1, <1>2, <1>3, PTL DEF Spec, KeepsContract, Contract!Spec

(* In particular a team nobody joins keeps it, whoever leaves               *)
(* (removeTeammate without cowork_create_teammate).                         *)
COROLLARY ClosedTeamKeepsContract == MaxCreations = 0 => (Spec => KeepsContract)
<1> SUFFICES ASSUME MaxCreations = 0 PROVE Spec => KeepsContract
  OBVIOUS
<1>1. CoworkInv => [NamesAreNotReused]_vars
  BY NobodyReturns
<1> QED BY <1>1, CoworkInvariant, TeamKeepsContract, PTL

-----------------------------------------------------------------------------
(***************************************************************************)
(* What a removal cancelled.  A turn starts in one place, where a drain     *)
(* takes the next row of its snapshot, and there the teammate is on the     *)
(* roster; so where GoneInv holds, no turn starts on a cancelled row.       *)
(***************************************************************************)
InItsTurn(a, i) ==
  \E l \in DOMAIN drains[a] : drains[a][l].stage = "messageTurn" /\ drains[a][l].cur = i

TurnsAreHome(running) ==
  \A a \in Agents : \A k \in DOMAIN running[a] :
    running[a][k].stage = "messageTurn" => a \in roster \/ InItsTurn(a, running[a][k].cur)

LEMMA DrainedIsHome ==
  \A a : \A queue : \A round : Drained(a, queue, round).stage = "messageTurn" => a \in roster
BY DEF Drained

LEMMA SameTurnsAreHome == TurnsAreHome(drains)
BY DEF TurnsAreHome, InItsTurn

LEMMA SetIsHome ==
  ASSUME CoworkInv, NEW a \in Agents, NEW k \in DOMAIN drains[a], NEW d \in Drain,
         d.stage = "messageTurn" => a \in roster
  PROVE  TurnsAreHome(Set(a, k, d))
<1> DEFINE new == Set(a, k, d)
<1>1. drains \in [Agents -> Seq(Drain)]
  BY ADrain
<1>2. /\ new \in [Agents -> Seq(Drain)]
      /\ \A b \in Agents :
           /\ DOMAIN new[b] = DOMAIN drains[b]
           /\ \A j \in DOMAIN drains[b] : new[b][j] = IF b = a /\ j = k THEN d ELSE drains[b][j]
  BY <1>1, SetIs
<1> HIDE DEF new
<1>3. TurnsAreHome(new)
  BY <1>2 DEF TurnsAreHome, InItsTurn
<1> QED BY <1>3 DEF new

LEMMA WakeIsHome ==
  ASSUME NEW running \in [Agents -> Seq(Drain)], \A a \in Agents \ busy : DOMAIN running[a] = {},
         TurnsAreHome(running), NEW rows, NEW offered, StartDrains(rows, offered, running)
  PROVE  TurnsAreHome(drains')
<1>1. \A a \in Agents :
        \A k \in DOMAIN drains'[a] :
          \/ k \in DOMAIN running[a] /\ drains'[a][k] = running[a][k]
          \/ drains'[a][k] = Drained(a, Pending(rows, a), 0)
  BY StartedDrains DEF Woken
<1> QED BY <1>1, DrainedIsHome DEF TurnsAreHome

(* The drain that has made a turn delivers or not, and others may be woken. *)
LEMMA SettledIsHome ==
  ASSUME CoworkInv, NEW a \in Agents, NEW k \in DOMAIN drains[a], NEW stage \in Stage,
         stage # "messageTurn", NEW ok \in BOOLEAN,
         LET settled == Set(a, k, [drains[a][k] EXCEPT !.stage = stage, !.ok = ok])
         IN  drains' = settled \/ \E row : Deliver(row, settled)
  PROVE  TurnsAreHome(drains')
<1> DEFINE d == [drains[a][k] EXCEPT !.stage = stage, !.ok = ok]
           settled == Set(a, k, d)
<1>1. drains \in [Agents -> Seq(Drain)] /\ drains[a][k] \in Drain
  BY ADrain
<1>2. d \in Drain /\ d.stage = stage
  BY <1>1 DEF Drain
<1>3. drains' = settled \/ \E rows : StartDrains(rows, handoffs, settled)
  BY DEF Deliver
<1> HIDE DEF d
<1>4. TurnsAreHome(settled)
  BY <1>2, SetIsHome
<1>5. /\ settled \in [Agents -> Seq(Drain)]
      /\ \A b \in Agents : DOMAIN settled[b] = DOMAIN drains[b]
  BY <1>1, <1>2, SetIs
<1>6. \A b \in Agents \ busy : DOMAIN settled[b] = {}
  BY <1>5, IdleHasNoDrain
<1> HIDE DEF settled
<1> QED BY <1>3, <1>4, <1>5, <1>6, WakeIsHome

LEMMA TurnsStartAtHome == CoworkInv /\ [Next]_vars => TurnsAreHome(drains')
<1> SUFFICES ASSUME CoworkInv, [Next]_vars PROVE TurnsAreHome(drains')
  OBVIOUS
<1>1. drains \in [Agents -> Seq(Drain)]
  BY DEF CoworkInv, TypeOK
<1>2. /\ "messageSettle" \in Stage /\ "handoffSettle" \in Stage /\ "handoffTurn" \in Stage
      /\ "messageTurn" \notin {"messageSettle", "handoffSettle", "handoffTurn", "handoffs"}
  BY DEF Stage
<1>3. ASSUME drains' = drains PROVE TurnsAreHome(drains')
  BY <1>3, SameTurnsAreHome
<1>4. ASSUME NEW a \in Agents, NEW k \in DOMAIN drains[a], NEW finished \in BOOLEAN,
             EndMessageTurn(a, k, finished)
      PROVE  TurnsAreHome(drains')
  <2> DEFINE settled == Set(a, k, [drains[a][k] EXCEPT !.stage = "messageSettle", !.ok = finished])
  <2>1. drains' = settled \/ \E row : Deliver(row, settled)
    BY <1>4 DEF EndMessageTurn
  <2> QED BY <1>2, <2>1, SettledIsHome
<1>5. ASSUME NEW a \in Agents, NEW k \in DOMAIN drains[a], NEW finished \in BOOLEAN,
             NEW blank \in BOOLEAN, EndHandoffTurn(a, k, finished, blank)
      PROVE  TurnsAreHome(drains')
  <2> DEFINE ok == finished /\ ~blank
             settled == Set(a, k, [drains[a][k] EXCEPT !.stage = "handoffSettle", !.ok = ok])
  <2>1. drains' = settled \/ \E row : Deliver(row, settled)
    BY <1>5 DEF EndHandoffTurn
  <2>2. ok \in BOOLEAN
    OBVIOUS
  <2> HIDE DEF ok
  <2> QED BY <1>2, <2>1, <2>2, SettledIsHome
<1>6. ASSUME NEW a \in Agents, NEW k \in DOMAIN drains[a], SettleMessage(a, k)
      PROVE  TurnsAreHome(drains')
  <2> DEFINE d == Drained(a, drains[a][k].queue, drains[a][k].round)
  <2>1. /\ drains[a][k] \in Drain /\ Len(mail) \in Nat /\ Len(handoffs) \in Nat
        /\ drains[a][k].queue \subseteq 1 .. Len(mail)
    BY <1>6, ADrain, LensAreNat DEF CoworkInv, SettleMessage, At, DrainOK
  <2>2. d \in Drain
    <3>1. drains[a][k].round \in Nat
      BY <2>1 DEF Drain
    <3>2. DrainOK(d, Len(mail), Len(handoffs))
      BY <2>1, <3>1, DrainedOK
    <3> QED BY <3>2 DEF DrainOK
  <2>3. drains' = Set(a, k, d) /\ (d.stage = "messageTurn" => a \in roster)
    BY <1>6, DrainedIsHome DEF SettleMessage
  <2> HIDE DEF d
  <2> QED BY <2>2, <2>3, SetIsHome
<1>7. ASSUME NEW a \in Agents, NEW k \in DOMAIN drains[a], NEW queue, NEW offered,
             queue \subseteq Nat, queue # {} => Max(queue) \in Nat, Claim(a, k, queue, offered)
      PROVE  TurnsAreHome(drains')
  <2>1. drains[a][k] \in Drain
    BY ADrain
  <2>2. \E d \in Drain : drains' = Set(a, k, d) /\ d.stage # "messageTurn"
    <3>1. CASE queue = {}
      <4> DEFINE d == [drains[a][k] EXCEPT !.stage = "handoffs", !.queue = {}]
      <4>1. d \in Drain /\ d.stage # "messageTurn" /\ drains' = Set(a, k, d)
        BY <1>7, <2>1, <3>1 DEF Drain, Stage, Claim
      <4> QED BY <4>1
    <3>2. CASE queue # {}
      <4> DEFINE stage == IF a \in roster THEN "handoffTurn" ELSE "handoffSettle"
                 h == Max(queue)
                 d == [drains[a][k] EXCEPT !.stage = stage, !.queue = queue \ {h}, !.cur = h,
                                           !.ok = FALSE]
      <4>1. stage \in Stage /\ stage # "messageTurn"
        BY DEF Stage
      <4>2. drains' = Set(a, k, d)
        BY <1>7, <3>2 DEF Claim
      <4>3. h \in Nat /\ queue \ {h} \in SUBSET Nat
        BY <1>7, <3>2
      <4> HIDE DEF stage, h
      <4>4. d \in Drain /\ d.stage = stage
        BY <2>1, <4>1, <4>3 DEF Drain
      <4> QED BY <4>1, <4>2, <4>4
    <3> QED BY <3>1, <3>2
  <2> QED BY <2>2, SetIsHome
<1>8. ASSUME NEW a \in Agents, NEW k \in DOMAIN drains[a], ClaimHandoffs(a, k) \/ SettleHandoff(a, k)
      PROVE  TurnsAreHome(drains')
  <2>1. Len(handoffs) \in Nat /\ DOMAIN handoffs = 1 .. Len(handoffs)
    BY LensAreNat DEF CoworkInv
  <2>2. \A queue : queue \subseteq 1 .. Len(handoffs) =>
          queue \subseteq Nat /\ (queue # {} => Max(queue) \in Nat)
    <3> SUFFICES ASSUME NEW queue, queue \subseteq 1 .. Len(handoffs)
                 PROVE  queue \subseteq Nat /\ (queue # {} => Max(queue) \in Nat)
      OBVIOUS
    <3>1. queue # {} => Max(queue) \in queue
      BY <2>1, MaxOfRows
    <3>2. 1 .. Len(handoffs) \subseteq Nat
      OBVIOUS
    <3>3. queue # {} => Max(queue) \in Nat
      BY <3>1, <3>2
    <3> QED BY <3>2, <3>3
  <2>3. CASE ClaimHandoffs(a, k)
    <3>1. Offers(handoffs, a) \subseteq 1 .. Len(handoffs)
      BY <2>1 DEF Offers
    <3>2. Claim(a, k, Offers(handoffs, a), handoffs)
      BY <2>3 DEF ClaimHandoffs
    <3> QED BY <1>7, <2>2, <3>1, <3>2
  <2>4. CASE SettleHandoff(a, k)
    <3>1. drains[a][k].queue \subseteq 1 .. Len(handoffs)
      BY <2>4, ADrain DEF SettleHandoff, At, DrainOK
    <3>2. \E offered : Claim(a, k, drains[a][k].queue, offered)
      BY <2>4 DEF SettleHandoff
    <3> QED BY <1>7, <2>2, <3>1, <3>2
  <2> QED BY <1>8, <2>3, <2>4
<1>9. ASSUME NEW a \in Agents, NEW k \in DOMAIN drains[a], EndRound(a, k)
      PROVE  TurnsAreHome(drains')
  <2> DEFINE next == drains[a][k].round + 1
             d == Drained(a, Pending(mail, a), next)
  <2>1. CASE next < RoundLimit /\ HasWork(mail, handoffs, a)
    <3>1. /\ Len(mail) \in Nat /\ Len(handoffs) \in Nat /\ DOMAIN mail = 1 .. Len(mail)
          /\ drains[a][k] \in Drain
      BY ADrain, LensAreNat DEF CoworkInv
    <3>2. Pending(mail, a) \subseteq 1 .. Len(mail) /\ next \in Nat
      BY <3>1 DEF Pending, Drain
    <3>3. d \in Drain
      <4>1. DrainOK(d, Len(mail), Len(handoffs))
        BY <3>1, <3>2, DrainedOK
      <4> QED BY <4>1 DEF DrainOK
    <3>4. drains' = Set(a, k, d) /\ (d.stage = "messageTurn" => a \in roster)
      BY <1>9, <2>1, DrainedIsHome DEF EndRound
    <3> HIDE DEF d
    <3> QED BY <3>3, <3>4, SetIsHome
  <2>2. CASE ~(next < RoundLimit /\ HasWork(mail, handoffs, a))
    <3>1. drains' = [drains EXCEPT ![a] = RemoveAt(@, k)]
      BY <1>9, <2>2 DEF EndRound
    <3>2. DOMAIN drains'[a] = {} /\ \A b \in Agents \ {a} : drains'[b] = drains[b]
      <4>1. RemoveAt(drains[a], k) = <<>>
        BY LastDrainRemoved
      <4> QED BY <1>1, <3>1, <4>1
    <3> QED BY <3>2, SameTurnsAreHome DEF TurnsAreHome
  <2> QED BY <2>1, <2>2
<1>10. ASSUME NEW a \in Agents, NEW k \in DOMAIN drains[a], DrainStep(a, k)
       PROVE  TurnsAreHome(drains')
  BY <1>4, <1>5, <1>6, <1>8, <1>9, <1>10 DEF DrainStep
<1>11. ASSUME NEW rows, StartDrains(rows, handoffs, drains) PROVE TurnsAreHome(drains')
  BY <1>1, <1>11, IdleHasNoDrain, SameTurnsAreHome, WakeIsHome
<1>12. ASSUME NEW to \in Agents, NEW thread \in Threads \cup {NoThread},
              UserMessage(to, thread) \/ \E from \in Addresses : CoworkSend(from, to, thread)
       PROVE  TurnsAreHome(drains')
  BY <1>11, <1>12 DEF UserMessage, CoworkSend, Deliver
<1>13. CASE Outside
  <2>1. Crash => TurnsAreHome(drains')
    BY DEF Crash, TurnsAreHome
  <2>2. ASSUME NEW a \in Agents, RemoveTeammate(a) \/ CreateTeammate(a) PROVE drains' = drains
    BY <2>2 DEF RemoveTeammate, CreateTeammate, runtime
  <2>3. ASSUME NEW thread \in Threads, TakeReplies(thread) PROVE drains' = drains
    BY <2>3 DEF TakeReplies, runtime
  <2>4. ASSUME NEW from \in Addresses, NEW to \in Agents, NEW thread \in Threads \cup {NoThread},
               Initiate(from, to, thread)
        PROVE  drains' = drains
    BY <2>4 DEF Initiate, runtime
  <2> QED BY <1>3, <1>12, <1>13, <2>1, <2>2, <2>3, <2>4 DEF Outside
<1> QED BY <1>3, <1>10, <1>11, <1>13 DEF Next, Tick, vars

(* A step changes the roster or the drains, never both, and what was        *)
(* cancelled stays cancelled.                                               *)
LEMMA OneThingAtATime ==
  [Next]_vars => (drains' = drains \/ roster' = roster) /\ cancelled \subseteq cancelled'
<1>1. ASSUME NEW a \in Agents, NEW k \in DOMAIN drains[a], DrainStep(a, k)
      PROVE  roster' = roster /\ cancelled' = cancelled
  BY <1>1 DEF DrainStep, EndMessageTurn, SettleMessage, ClaimHandoffs, EndHandoffTurn,
              SettleHandoff, EndRound, store
<1>2. ASSUME NEW to \in Agents, NEW thread \in Threads \cup {NoThread},
             \/ UserMessage(to, thread)
             \/ \E from \in Addresses : CoworkSend(from, to, thread)
             \/ \E from \in Addresses : Initiate(from, to, thread)
      PROVE  roster' = roster /\ cancelled' = cancelled
  BY <1>2 DEF UserMessage, CoworkSend, Initiate
<1>3. ASSUME NEW a \in Agents, RemoveTeammate(a) \/ CreateTeammate(a)
      PROVE  drains' = drains /\ cancelled \subseteq cancelled'
  BY <1>3 DEF RemoveTeammate, CreateTeammate, runtime
<1>4. Outside => (drains' = drains \/ roster' = roster) /\ cancelled \subseteq cancelled'
  BY <1>2, <1>3 DEF Outside, TakeReplies, Crash, store
<1> QED BY <1>1, <1>4 DEF Next, Tick, store, vars

(* What removeTeammate cancelled is never run, as long as nobody is created *)
(* under the id of the teammate it was for: whatever snapshots the drains   *)
(* had taken before, #drainMessages asks the roster for the receiver of     *)
(* each row when it comes to it.                                            *)
THEOREM CancelledStaysUnrun == Spec /\ [][NamesAreNotReused]_vars => CancelledNeverRuns
<1>1. Init => CoworkInv /\ HandoffInv /\ MessageInv /\ GoneInv
  BY CoworkInvInit, HandoffInvInit, MessageInvInit, GoneInvInit
<1>2. CoworkInv /\ HandoffInv /\ MessageInv /\ GoneInv
        /\ [Next]_vars /\ [NamesAreNotReused]_vars =>
        (CoworkInv /\ HandoffInv /\ MessageInv /\ GoneInv)'
  BY CoworkInvNext, HandoffInvNext, MessageInvNext, GoneInvNext
<1>3. CoworkInv /\ [Next]_vars /\ MessageInv' /\ GoneInv' =>
        [\A i \in cancelled : ~StartsTurn(i)]_vars
  <2> SUFFICES ASSUME CoworkInv, [Next]_vars, MessageInv', GoneInv',
                      NEW i \in cancelled, StartsTurn(i)
               PROVE  FALSE
    OBVIOUS
  <2>1. PICK a \in Agents : \E k \in DOMAIN drains'[a] :
          /\ drains'[a][k].stage = "messageTurn" /\ drains'[a][k].cur = i
          /\ ~InItsTurn(a, i)
    BY DEF StartsTurn, InItsTurn
  <2>2. PICK k \in DOMAIN drains'[a] :
          /\ drains'[a][k].stage = "messageTurn" /\ drains'[a][k].cur = i
          /\ ~InItsTurn(a, i)
    BY <2>1
  <2>3. a \in roster
    BY <2>2, TurnsStartAtHome DEF TurnsAreHome
  <2>4. drains' # drains
    BY <2>2 DEF InItsTurn
  <2>5. roster' = roster /\ i \in cancelled'
    BY <2>4, OneThingAtATime
  <2>6. MessageHeld(a, drains'[a][k], mail', cancelled', count'.crashes)
    BY <2>2 DEF MessageInv, MessagesOK
  <2>7. mail'[i].to = a
    BY <2>2, <2>6 DEF MessageHeld, MessageStages
  <2> QED BY <2>3, <2>5, <2>7 DEF GoneInv
<1> QED BY <1>1, <1>2, <1>3, PTL DEF Spec, CancelledNeverRuns
=============================================================================
