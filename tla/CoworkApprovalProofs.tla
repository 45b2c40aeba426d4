------------------------- MODULE CoworkApprovalProofs -------------------------
(***************************************************************************)
(* Proofs about the approval gate, for any number of teammates, requests,   *)
(* conversations, crashes and faults: its type, what a person is offered,   *)
(* that a held call runs only on a yes, that the gate keeps the contract of *)
(* ApprovalContract, and that the screen shows one verdict for a request.   *)
(***************************************************************************)
EXTENDS CoworkApproval, SequenceTheorems, FiniteSetTheorems, TLAPS

(***************************************************************************)
(* The inductive invariant.  PendingIsLive and RunsOnlyOnYes are not        *)
(* inductive alone: the timer could fire for a request that has no row, and *)
(* a call could be in hand before it was asked about.                       *)
(***************************************************************************)
TimersAreWaiters == timers = waiters

CallsHaveRows == \A r \in Requests : r \in DOMAIN rows <=> calls[r] # "none"

GateInv == /\ TypeOK
           /\ TimersAreWaiters
           /\ CallsHaveRows
           /\ PendingIsLive
           /\ RunsOnlyOnYes

-----------------------------------------------------------------------------
LEMMA RowsAreRequests == TypeOK => DOMAIN rows \subseteq Requests
<1> SUFFICES ASSUME TypeOK PROVE DOMAIN rows \subseteq Requests
  OBVIOUS
<1>1. DOMAIN rows = 1 .. Len(rows) /\ Len(rows) \in Nat /\ Len(rows) <= MaxRequests
  BY LenProperties DEF TypeOK
<1> QED
  BY <1>1, BoundAssumption DEF Requests

(* resolve(): rewriting a status keeps the table and its other rows.        *)
LEMMA ResolveKeepsRows ==
  ASSUME TypeOK, NEW r \in DOMAIN rows, NEW status \in RowStatus, Resolve(r, status)
  PROVE  /\ rows' \in Seq(Row)
         /\ DOMAIN rows' = DOMAIN rows /\ Len(rows') = Len(rows)
         /\ \A q \in DOMAIN rows : q # r => rows'[q] = rows[q]
         /\ rows'[r].status = IF rows[r].status = "pending" THEN status ELSE rows[r].status
<1> DEFINE new == [rows[r] EXCEPT !.status = IF @ = "pending" THEN status ELSE @]
<1>1. r \in 1 .. Len(rows) /\ DOMAIN rows = 1 .. Len(rows) /\ rows[r] \in Row
  BY LenProperties, ElementOfSeq DEF TypeOK
<1>2. new \in Row /\ new.status = IF rows[r].status = "pending" THEN status ELSE rows[r].status
  BY <1>1 DEF Row
<1>3. rows' = [rows EXCEPT ![r] = new]
  BY DEF Resolve
<1> HIDE DEF new
<1>4. rows' \in Seq(Row) /\ Len(rows') = Len(rows)
  BY <1>1, <1>2, <1>3, ExceptSeq DEF TypeOK
<1>5. DOMAIN rows' = DOMAIN rows
  BY <1>3
<1> QED
  BY <1>1, <1>2, <1>3, <1>4, <1>5

(* The insert of gate(): the new row is pending and the others are as before. *)
LEMMA AppendKeepsRows ==
  ASSUME TypeOK, NEW a \in Agents, NEW r, r = Len(rows) + 1,
         rows' = Append(rows, [agent |-> a, status |-> "pending"])
  PROVE  /\ rows' \in Seq(Row)
         /\ DOMAIN rows' = DOMAIN rows \cup {r} /\ r \notin DOMAIN rows
         /\ Len(rows') = r /\ rows'[r].status = "pending"
         /\ \A q \in DOMAIN rows : rows'[q] = rows[q]
<1>1. [agent |-> a, status |-> "pending"] \in Row
  BY DEF Row, RowStatus
<1> QED
  BY <1>1 DEF TypeOK

-----------------------------------------------------------------------------
LEMMA GateInvInit == Init => GateInv
<1> SUFFICES ASSUME Init PROVE GateInv
  OBVIOUS
<1>1. rows \in Seq(Row) /\ events \in Seq(Event) /\ Len(rows) = 0 /\ DOMAIN rows = {}
  BY EmptySeq DEF Init
<1>2. TypeOK
  BY <1>1, BoundAssumption DEF Init, TypeOK, CallState
<1> QED
  BY <1>1, <1>2 DEF Init, GateInv, TimersAreWaiters, CallsHaveRows, PendingIsLive, RunsOnlyOnYes

LEMMA GateInvNext == GateInv /\ [Next]_vars => GateInv'
<1> SUFFICES ASSUME GateInv, [Next]_vars PROVE GateInv'
  OBVIOUS
<1> USE DEF GateInv
<1>1. ASSUME NEW a \in Agents, Gate(a) PROVE GateInv'
  <2> DEFINE r == Len(rows) + 1
  <2>1. /\ rows' \in Seq(Row) /\ Len(rows') <= MaxRequests /\ r \in Requests
        /\ DOMAIN rows' = DOMAIN rows \cup {r} /\ r \notin DOMAIN rows
        /\ rows'[r].status = "pending"
        /\ \A q \in DOMAIN rows : rows'[q] = rows[q]
    BY <1>1, AppendKeepsRows, BoundAssumption DEF Gate, Requests
  <2>2. /\ waiters' = waiters \cup {r} /\ timers' = timers \cup {r}
        /\ calls' = [calls EXCEPT ![r] = "waiting"]
        /\ threads' = [threads EXCEPT ![r] = working[a]]
        /\ events' = Append(events, [request |-> r, kind |-> "requested", thread |-> working[a]])
        /\ working[a] # NoTurn
        /\ UNCHANGED <<working, unasked, crashes>>
    BY <1>1 DEF Gate, Emit
  <2> HIDE DEF r
  <2>3. TypeOK'
    <3>1. working[a] \in Threads \cup {NoThread}
      BY <2>2 DEF TypeOK
    <3>2. [request |-> r, kind |-> "requested", thread |-> working[a]] \in Event
      BY <3>1, <2>1 DEF Event
    <3>3. events' \in Seq(Event)
      BY <2>2, <3>2 DEF TypeOK
    <3> QED
      BY <2>1, <2>2, <3>1, <3>3 DEF TypeOK, CallState, InHand
  <2>4. CallsHaveRows' /\ TimersAreWaiters'
    BY <2>1, <2>2 DEF CallsHaveRows, TimersAreWaiters, TypeOK
  <2>5. PendingIsLive'
    BY <2>1, <2>2 DEF PendingIsLive, CallsHaveRows, TypeOK
  <2>6. RunsOnlyOnYes'
    BY <2>1, <2>2 DEF RunsOnlyOnYes, CallsHaveRows, TypeOK, Requests
  <2> QED
    BY <2>3, <2>4, <2>5, <2>6
<1>2. ASSUME NEW r \in Requests, NEW decision \in {"approved", "denied"}, Answer(r, decision)
      PROVE GateInv'
  <2>1. /\ r \in DOMAIN rows /\ rows[r].status = "pending"
        /\ waiters' = waiters \ {r} /\ timers' = timers \ {r}
        /\ calls' = [calls EXCEPT ![r] = IF r \in waiters /\ @ = "waiting" THEN decision ELSE @]
        /\ threads' = [threads EXCEPT ![r] = NoThread]
        /\ events' = Append(events, [request |-> r, kind |-> decision, thread |-> threads[r]])
        /\ UNCHANGED <<working, unasked, crashes>>
    BY <1>2 DEF Answer, Emit, Forget, Decide, TypeOK
  <2>2. /\ rows' \in Seq(Row) /\ DOMAIN rows' = DOMAIN rows /\ Len(rows') = Len(rows)
        /\ \A q \in DOMAIN rows : q # r => rows'[q] = rows[q]
        /\ rows'[r].status = decision
    BY <1>2, <2>1, ResolveKeepsRows DEF Answer, RowStatus, Decision
  <2>3. TypeOK'
    <3>1. [request |-> r, kind |-> decision, thread |-> threads[r]] \in Event
      BY DEF Event, Decision, TypeOK
    <3>2. events' \in Seq(Event)
      BY <2>1, <3>1 DEF TypeOK
    <3> QED
      BY <2>1, <2>2, <3>2 DEF TypeOK, CallState, InHand, Decision
  <2>4. CallsHaveRows' /\ TimersAreWaiters' /\ PendingIsLive'
    BY <2>1, <2>2 DEF CallsHaveRows, TimersAreWaiters, PendingIsLive, TypeOK
  <2>5. RunsOnlyOnYes'
    BY <2>1, <2>2 DEF RunsOnlyOnYes, PendingIsLive, TypeOK
  <2> QED
    BY <2>3, <2>4, <2>5
<1>3. ASSUME NEW r \in Requests, Expire(r) PROVE GateInv'
  <2>1. /\ r \in DOMAIN rows /\ rows[r].status = "pending" /\ calls[r] = "waiting"
        /\ waiters' = waiters \ {r} /\ timers' = timers \ {r}
        /\ calls' = [calls EXCEPT ![r] = "expired"]
        /\ threads' = [threads EXCEPT ![r] = NoThread]
        /\ events' = Append(events, [request |-> r, kind |-> "expired", thread |-> threads[r]])
        /\ UNCHANGED <<working, unasked, crashes>>
    BY <1>3 DEF Expire, Emit, Forget, Decide, TypeOK, TimersAreWaiters, PendingIsLive
  <2>2. /\ rows' \in Seq(Row) /\ DOMAIN rows' = DOMAIN rows /\ Len(rows') = Len(rows)
        /\ \A q \in DOMAIN rows : q # r => rows'[q] = rows[q]
        /\ rows'[r].status = "expired"
    BY <1>3, <2>1, ResolveKeepsRows DEF Expire, RowStatus, Decision
  <2>3. TypeOK'
    <3>1. [request |-> r, kind |-> "expired", thread |-> threads[r]] \in Event
      BY DEF Event, Decision, TypeOK
    <3>2. events' \in Seq(Event)
      BY <2>1, <3>1 DEF TypeOK
    <3> QED
      BY <2>1, <2>2, <3>2 DEF TypeOK, CallState, InHand, Decision
  <2>4. CallsHaveRows' /\ TimersAreWaiters' /\ PendingIsLive'
    BY <2>1, <2>2 DEF CallsHaveRows, TimersAreWaiters, PendingIsLive, TypeOK
  <2>5. RunsOnlyOnYes'
    BY <2>1, <2>2 DEF RunsOnlyOnYes, TypeOK
  <2> QED
    BY <2>3, <2>4, <2>5
<1>4. ASSUME NEW r \in Requests, Resume(r) PROVE GateInv'
  <2>1. /\ calls[r] \in Decision
        /\ calls' = [calls EXCEPT ![r] = IF @ = "approved" THEN "ran" ELSE "blocked"]
        /\ UNCHANGED <<rows, waiters, timers, threads, working, events, unasked, crashes>>
    BY <1>4 DEF Resume
  <2>2. TypeOK' /\ TimersAreWaiters'
    BY <2>1 DEF TypeOK, CallState, TimersAreWaiters
  <2>3. CallsHaveRows' /\ PendingIsLive'
    BY <2>1 DEF CallsHaveRows, PendingIsLive, TypeOK, Decision
  <2>4. RunsOnlyOnYes'
    BY <2>1 DEF RunsOnlyOnYes, TypeOK, Decision
  <2> QED
    BY <2>2, <2>3, <2>4
<1>5. CASE Crash
  <2>1. /\ waiters' = {} /\ timers' = {}
        /\ threads' = [r \in Requests |-> NoThread]
        /\ calls' = [r \in Requests |-> IF calls[r] \in InHand THEN "lost" ELSE calls[r]]
        /\ working' = [a \in Agents |-> NoTurn]
        /\ crashes' = crashes + 1
        /\ UNCHANGED <<rows, events, unasked>>
    BY <1>5 DEF Crash
  <2>2. TypeOK' /\ TimersAreWaiters'
    BY <2>1 DEF TypeOK, CallState, TimersAreWaiters
  <2>3. CallsHaveRows' /\ PendingIsLive'
    BY <2>1 DEF CallsHaveRows, PendingIsLive, TypeOK, InHand, Decision
  <2>4. RunsOnlyOnYes'
    <3>1. ASSUME NEW r \in DOMAIN rows
          PROVE  r \in Requests /\ (calls'[r] = calls[r] \/ calls'[r] = "lost")
      BY <2>1, <3>1, RowsAreRequests
    <3> QED
      BY <2>1, <3>1 DEF RunsOnlyOnYes
  <2> QED
    BY <2>2, <2>3, <2>4
<1>6. ASSUME NEW a \in Agents,
             \/ GateFails(a) \/ EndTurn(a)
             \/ \E thread \in Threads \cup {NoThread} : BeginTurn(a, thread)
      PROVE  GateInv'
  <2>1. /\ UNCHANGED <<rows, waiters, timers, threads, calls, events, crashes>>
        /\ unasked' \in Nat
        /\ working' \in [Agents -> Threads \cup {NoThread, NoTurn}]
    BY <1>6 DEF GateFails, EndTurn, BeginTurn, TypeOK, process
  <2> QED
    BY <2>1 DEF TypeOK, TimersAreWaiters, CallsHaveRows, PendingIsLive, RunsOnlyOnYes
<1>7. CASE UNCHANGED vars
  BY <1>7 DEF vars, TypeOK, TimersAreWaiters, CallsHaveRows, PendingIsLive, RunsOnlyOnYes
<1> QED
  BY <1>1, <1>2, <1>3, <1>4, <1>5, <1>6, <1>7 DEF Next

LEMMA GateInvariant == Spec => []GateInv
  BY GateInvInit, GateInvNext, PTL DEF Spec

(* Every reachable state of the gate has its type.                          *)
THEOREM GateType == Spec => []TypeOK
  BY GateInvariant, PTL DEF GateInv

(* The requests a person is offered are exactly those of the blocked calls, *)
(* and each of them can still be decided (pending).                         *)
THEOREM OfferedIsLive == Spec => []PendingIsLive
  BY GateInvariant, PTL DEF GateInv

(* A call that was asked about runs only on a yes, whichever of the answer, *)
(* the timer, the continuation and a crash comes first (gate).              *)
THEOREM ActsOnlyOnYes == Spec => []RunsOnlyOnYes
  BY GateInvariant, PTL DEF GateInv

-----------------------------------------------------------------------------
(***************************************************************************)
(* The gate implements the contract.  Each step of the gate changes the     *)
(* phase of one request by one move of the contract, of none, or, when the  *)
(* process dies, of every request whose call is in hand.                    *)
(***************************************************************************)
LEMMA PhaseChangesAlone ==
  ASSUME NEW r \in Requests, NEW next,
         PhaseOf(r)' = next,
         \A q \in Requests : q # r => PhaseOf(q)' = PhaseOf(q)
  PROVE  Phases' = [Phases EXCEPT ![r] = next]
  BY DEF Phases

LEMMA PhaseInit == Init => Contract!Init
<1> SUFFICES ASSUME Init PROVE Contract!Init
  OBVIOUS
<1>1. \A r \in Requests : PhaseOf(r) = "none"
  BY EmptySeq DEF Init, PhaseOf
<1> QED
  BY <1>1 DEF Contract!Init, Phases

LEMMA PhaseNext == GateInv /\ [Next]_vars => [Contract!Next]_Phases
<1> SUFFICES ASSUME GateInv, [Next]_vars PROVE [Contract!Next]_Phases
  OBVIOUS
<1> USE DEF GateInv
<1>0. DOMAIN rows \subseteq Requests
  BY RowsAreRequests
<1>1. ASSUME NEW a \in Agents, Gate(a) PROVE \E r \in Requests : Contract!Ask(r)
  <2>0. PICK r : r = Len(rows) + 1
    OBVIOUS
  <2>1. /\ r \in Requests /\ r \notin DOMAIN rows
        /\ DOMAIN rows' = DOMAIN rows \cup {r}
        /\ rows'[r].status = "pending"
        /\ \A q \in DOMAIN rows : rows'[q] = rows[q]
        /\ calls' = [calls EXCEPT ![r] = "waiting"]
    BY <1>1, <2>0, AppendKeepsRows DEF Gate
  <2>2. PhaseOf(r) = "none" /\ PhaseOf(r)' = "asked"
    BY <2>1 DEF PhaseOf, TypeOK
  <2>3. \A q \in Requests : q # r => PhaseOf(q)' = PhaseOf(q)
    BY <2>1 DEF PhaseOf, TypeOK
  <2>4. Phases' = [Phases EXCEPT ![r] = "asked"]
    BY <2>1, <2>2, <2>3, PhaseChangesAlone
  <2> QED
    BY <2>1, <2>2, <2>4 DEF Contract!Ask, Contract!Becomes, Phases
<1>2. ASSUME NEW r \in Requests, NEW decision \in {"approved", "denied"}, Answer(r, decision)
      PROVE  Contract!Settle(r) \/ UNCHANGED Phases
  <2>1. /\ r \in DOMAIN rows /\ rows[r].status = "pending"
        /\ calls' = [calls EXCEPT ![r] = IF r \in waiters /\ @ = "waiting" THEN decision ELSE @]
    BY <1>2 DEF Answer, Decide, TypeOK
  <2>2. /\ DOMAIN rows' = DOMAIN rows
        /\ \A q \in DOMAIN rows : q # r => rows'[q] = rows[q]
        /\ rows'[r].status = decision
    BY <1>2, <2>1, ResolveKeepsRows DEF Answer, RowStatus, Decision
  <2>3. \A q \in Requests : q # r => PhaseOf(q)' = PhaseOf(q)
    BY <2>1, <2>2 DEF PhaseOf, TypeOK
  <2>4. CASE r \in waiters
    <3>1. /\ PhaseOf(r) = "asked"
          /\ PhaseOf(r)' = IF decision = "approved" THEN "granted" ELSE "refused"
      BY <2>1, <2>2, <2>4 DEF PhaseOf, PendingIsLive, TypeOK
    <3> QED
      BY <2>3, <3>1, PhaseChangesAlone DEF Contract!Settle, Contract!Becomes, Phases
  <2>5. CASE r \notin waiters
    <3>1. calls[r] = "lost"
      BY <2>1, <2>5, <1>0 DEF PendingIsLive, RunsOnlyOnYes, CallsHaveRows, TypeOK,
                              CallState, InHand, Decision
    <3>2. PhaseOf(r)' = PhaseOf(r)
      BY <2>1, <2>2, <3>1 DEF PhaseOf, TypeOK
    <3> QED
      BY <2>3, <3>2 DEF Phases
  <2> QED
    BY <2>4, <2>5
<1>3. ASSUME NEW r \in Requests, Expire(r) PROVE Contract!Settle(r)
  <2>1. /\ r \in DOMAIN rows /\ rows[r].status = "pending" /\ calls[r] = "waiting"
        /\ calls' = [calls EXCEPT ![r] = "expired"]
    BY <1>3 DEF Expire, Decide, TypeOK, TimersAreWaiters, PendingIsLive
  <2>2. /\ DOMAIN rows' = DOMAIN rows
        /\ \A q \in DOMAIN rows : q # r => rows'[q] = rows[q]
        /\ rows'[r].status = "expired"
    BY <1>3, <2>1, ResolveKeepsRows DEF Expire, RowStatus, Decision
  <2>3. \A q \in Requests : q # r => PhaseOf(q)' = PhaseOf(q)
    BY <2>1, <2>2 DEF PhaseOf, TypeOK
  <2>4. PhaseOf(r) = "asked" /\ PhaseOf(r)' = "refused"
    BY <2>1, <2>2 DEF PhaseOf, TypeOK
  <2> QED
    BY <2>3, <2>4, PhaseChangesAlone DEF Contract!Settle, Contract!Becomes, Phases
<1>4. ASSUME NEW r \in Requests, Resume(r) PROVE Contract!Act(r) \/ UNCHANGED Phases
  <2>1. /\ calls[r] \in Decision /\ UNCHANGED rows
        /\ calls' = [calls EXCEPT ![r] = IF @ = "approved" THEN "ran" ELSE "blocked"]
    BY <1>4 DEF Resume
  <2>2. r \in DOMAIN rows
    BY <2>1 DEF CallsHaveRows, Decision
  <2>3. \A q \in Requests : q # r => PhaseOf(q)' = PhaseOf(q)
    BY <2>1 DEF PhaseOf, TypeOK
  <2>4. CASE calls[r] = "approved"
    <3>1. PhaseOf(r) = "granted" /\ PhaseOf(r)' = "acted"
      BY <2>1, <2>2, <2>4 DEF PhaseOf, RunsOnlyOnYes, TypeOK
    <3> QED
      BY <2>3, <3>1, PhaseChangesAlone DEF Contract!Act, Contract!Becomes, Phases
  <2>5. CASE calls[r] # "approved"
    <3>1. PhaseOf(r)' = PhaseOf(r)
      BY <2>1, <2>2, <2>5 DEF PhaseOf, Decision, TypeOK
    <3> QED
      BY <2>3, <3>1 DEF Phases
  <2> QED
    BY <2>4, <2>5
<1>5. ASSUME Crash PROVE (\E held \in SUBSET Requests : Contract!Drop(held)) \/ UNCHANGED Phases
  <2> DEFINE held == {r \in Requests : calls[r] \in InHand}
  <2>1. /\ UNCHANGED rows
        /\ calls' = [r \in Requests |-> IF calls[r] \in InHand THEN "lost" ELSE calls[r]]
    BY <1>5 DEF Crash
  <2>2. \A r \in held : PhaseOf(r) \in {"asked", "granted", "refused"} /\ PhaseOf(r)' = "dropped"
    BY <2>1 DEF PhaseOf, CallsHaveRows, InHand, Decision
  <2>3. \A r \in Requests \ held : PhaseOf(r)' = PhaseOf(r)
    BY <2>1 DEF PhaseOf
  <2>4. ASSUME NEW r \in Requests \ held PROVE PhaseOf(r) \notin {"asked", "granted"}
    <3>1. calls[r] \in {"none", "ran", "blocked", "lost"}
      BY DEF TypeOK, CallState
    <3> QED
      BY <3>1 DEF PhaseOf, CallsHaveRows, RunsOnlyOnYes
  <2>5. Phases' = [r \in Requests |-> IF r \in held THEN "dropped" ELSE Phases[r]]
    BY <2>2, <2>3 DEF Phases
  <2>6. CASE held = {}
    BY <2>5, <2>6 DEF Phases
  <2>7. CASE held # {}
    BY <2>2, <2>4, <2>5, <2>7 DEF Contract!Drop, Phases
  <2> QED
    BY <2>6, <2>7
<1>6. ASSUME NEW a \in Agents,
             \/ GateFails(a) \/ EndTurn(a)
             \/ \E thread \in Threads \cup {NoThread} : BeginTurn(a, thread)
      PROVE  UNCHANGED Phases
  BY <1>6 DEF GateFails, EndTurn, BeginTurn, process, Phases, PhaseOf
<1>7. CASE UNCHANGED vars
  BY <1>7 DEF vars, Phases, PhaseOf
<1> QED
  BY <1>1, <1>2, <1>3, <1>4, <1>5, <1>6, <1>7 DEF Next, Contract!Next

(* Row, waiter, timer and call together keep the contract: every request is *)
(* asked about once, settled once and acted on only after a yes, and what a *)
(* dead process held is dropped (gate, resolveExternal and the timer).      *)
THEOREM GateKeepsContract == Spec => KeepsContract
  BY GateInvariant, PhaseInit, PhaseNext, PTL DEF Spec, KeepsContract, Contract!Spec
-----------------------------------------------------------------------------
(***************************************************************************)
(* The screen.  That a request has one verdict on it is inductive with two  *)
(* facts about what was shown before: no event speaks of a request without  *)
(* a row, and a pending request still remembers the conversation it was     *)
(* shown in unless its process died.                                        *)
(***************************************************************************)
EventsHaveRows == \A i \in DOMAIN events : events[i].request \in DOMAIN rows

VerdictsAreOf(r) ==
  IF rows[r].status = "pending" THEN Of(r, Decision) = {}
  ELSE \E v \in DOMAIN events : Of(r, Decision) = {v} /\ events[v].kind = rows[r].status

ShownIn(r, thread) == \A i \in Of(r, {"requested"}) : events[i].thread = thread

ConversationKept ==
  \A r \in DOMAIN rows : calls[r] # "lost" =>
    /\ rows[r].status = "pending" => ShownIn(r, threads[r])
    /\ \A v \in Of(r, Decision) : ShownIn(r, events[v].thread)

ScreenInv == /\ EventsHaveRows
             /\ \A r \in DOMAIN rows : VerdictsAreOf(r)
             /\ ConversationKept

LEMMA ScreenInvInit == Init => ScreenInv
BY EmptySeq DEF Init, ScreenInv, EventsHaveRows, ConversationKept

(* #emit: one event more, and what was shown stays.                         *)
LEMMA EventAdded ==
  ASSUME TypeOK, NEW e \in Event, events' = Append(events, e)
  PROVE  /\ Len(events) + 1 \notin DOMAIN events /\ Len(events) + 1 \in DOMAIN events'
         /\ DOMAIN events' = DOMAIN events \cup {Len(events) + 1}
         /\ events'[Len(events) + 1] = e
         /\ \A i \in DOMAIN events : events'[i] = events[i]
         /\ \A r : \A kinds : e.request # r \/ e.kind \notin kinds =>
              {i \in DOMAIN events' : events'[i].request = r /\ events'[i].kind \in kinds}
                = Of(r, kinds)
         /\ \A r : \A kinds : e.request = r /\ e.kind \in kinds =>
              {i \in DOMAIN events' : events'[i].request = r /\ events'[i].kind \in kinds}
                = Of(r, kinds) \cup {Len(events) + 1}
<1>1. /\ DOMAIN events = 1 .. Len(events) /\ Len(events) \in Nat
      /\ DOMAIN events' = 1 .. Len(events) + 1
      /\ events'[Len(events) + 1] = e /\ \A i \in 1 .. Len(events) : events'[i] = events[i]
  BY DEF TypeOK
<1>2. DOMAIN events' = DOMAIN events \cup {Len(events) + 1} /\ Len(events) + 1 \notin DOMAIN events
  BY <1>1
<1>3. events'[Len(events) + 1] = e /\ \A i \in DOMAIN events : events'[i] = events[i]
  BY <1>1
<1> DEFINE k == Len(events) + 1
<1> HIDE DEF k
<1> QED
  BY <1>2, <1>3 DEF Of, k

(* A decision on a pending request, whoever makes it.                       *)
LEMMA DecisionShown ==
  ASSUME GateInv, ScreenInv, NEW r \in DOMAIN rows, NEW decision \in Decision,
         rows[r].status = "pending", Resolve(r, decision), Emit(r, decision, threads[r]), Forget(r),
         \A q \in Requests : calls'[q] = "lost" <=> calls[q] = "lost"
  PROVE  ScreenInv'
<1> DEFINE e == [request |-> r, kind |-> decision, thread |-> threads[r]]
           k == Len(events) + 1
<1>1. /\ DOMAIN rows' = DOMAIN rows /\ DOMAIN rows \subseteq Requests
      /\ \A q \in DOMAIN rows : q # r => rows'[q] = rows[q]
      /\ rows'[r].status = decision
  BY ResolveKeepsRows, RowsAreRequests DEF GateInv, RowStatus
<1>2. /\ e \in Event /\ events' = Append(events, e) /\ threads \in [Requests -> Threads \cup {NoThread}]
      /\ threads' = [threads EXCEPT ![r] = NoThread]
  BY <1>1 DEF GateInv, TypeOK, Emit, Event, Forget
<1>3. /\ k \notin DOMAIN events /\ k \in DOMAIN events'
      /\ DOMAIN events' = DOMAIN events \cup {k}
      /\ events'[k] = e /\ \A i \in DOMAIN events : events'[i] = events[i]
      /\ \A q \in DOMAIN rows : /\ Of(q, {"requested"})' = Of(q, {"requested"})
                                /\ q # r => Of(q, Decision)' = Of(q, Decision)
      /\ Of(r, Decision)' = Of(r, Decision) \cup {k}
  <2>1. e.request = r /\ e.kind = decision /\ decision \notin {"requested"}
    BY DEF Decision
  <2> HIDE DEF e
  <2> QED BY <1>2, <2>1, EventAdded DEF GateInv, Of, Decision
<1>4. e.request = r /\ e.kind = decision /\ e.thread = threads[r]
  OBVIOUS
<1> HIDE DEF e, k
<1>5. EventsHaveRows'
  BY <1>1, <1>3, <1>4 DEF ScreenInv, EventsHaveRows
<1>6. ASSUME NEW q \in DOMAIN rows PROVE VerdictsAreOf(q)'
  <2>1. CASE q = r
    BY <1>1, <1>3, <1>4, <2>1 DEF ScreenInv, VerdictsAreOf, Decision
  <2>2. CASE q # r
    BY <1>1, <1>3, <2>2 DEF ScreenInv, VerdictsAreOf
  <2> QED BY <2>1, <2>2
<1>7. ConversationKept'
  <2> SUFFICES ASSUME NEW q \in DOMAIN rows, calls[q] # "lost"
               PROVE  /\ rows'[q].status = "pending" => ShownIn(q, threads[q])'
                      /\ \A v \in Of(q, Decision)' : ShownIn(q, events[v].thread)'
    BY <1>1 DEF ConversationKept
  <2>1. Of(q, {"requested"}) \subseteq DOMAIN events /\ Of(q, Decision) \subseteq DOMAIN events
    BY DEF Of
  <2>2. CASE q = r
    BY <1>1, <1>3, <1>4, <2>1, <2>2 DEF ScreenInv, VerdictsAreOf, ConversationKept, ShownIn, Decision
  <2>3. CASE q # r
    BY <1>1, <1>2, <1>3, <2>1, <2>3 DEF ScreenInv, ConversationKept, ShownIn
  <2> QED BY <2>2, <2>3
<1> QED
  BY <1>1, <1>5, <1>6, <1>7 DEF ScreenInv

LEMMA ScreenInvNext == GateInv /\ ScreenInv /\ [Next]_vars => ScreenInv'
<1> SUFFICES ASSUME GateInv, ScreenInv, [Next]_vars PROVE ScreenInv'
  OBVIOUS
<1>1. DOMAIN rows \subseteq Requests /\ calls \in [Requests -> CallState]
  BY RowsAreRequests DEF GateInv, TypeOK
<1>2. ASSUME NEW a \in Agents, Gate(a) PROVE ScreenInv'
  <2>0. PICK r : r = Len(rows) + 1
    OBVIOUS
  <2> DEFINE e == [request |-> r, kind |-> "requested", thread |-> working[a]]
  <2>1. /\ DOMAIN rows' = DOMAIN rows \cup {r} /\ r \notin DOMAIN rows
        /\ rows'[r].status = "pending"
        /\ \A q \in DOMAIN rows : rows'[q] = rows[q]
    BY <1>2, <2>0, AppendKeepsRows DEF Gate, GateInv
  <2>2. /\ e \in Event /\ events' = Append(events, e) /\ r \in Requests
        /\ threads' = [threads EXCEPT ![r] = working[a]]
        /\ calls' = [calls EXCEPT ![r] = "waiting"]
        /\ threads \in [Requests -> Threads \cup {NoThread}]
    BY <1>2, <2>0 DEF GateInv, TypeOK, Gate, Emit, Event
  <2>3. e.request = r /\ e.kind = "requested" /\ e.thread = working[a] /\ e.kind \notin Decision
    BY DEF Decision
  <2>4. Of(r, Decision) = {} /\ Of(r, {"requested"}) = {}
    BY <2>1 DEF Of, ScreenInv, EventsHaveRows
  <2> HIDE DEF e
  <2>5. /\ DOMAIN events' = DOMAIN events \cup {Len(events) + 1}
        /\ events'[Len(events) + 1] = e /\ \A i \in DOMAIN events : events'[i] = events[i]
        /\ \A q : Of(q, Decision)' = Of(q, Decision)
        /\ \A q : q # r => Of(q, {"requested"})' = Of(q, {"requested"})
        /\ Of(r, {"requested"})' = {Len(events) + 1}
    <3>1. /\ DOMAIN events' = DOMAIN events \cup {Len(events) + 1}
          /\ events'[Len(events) + 1] = e /\ \A i \in DOMAIN events : events'[i] = events[i]
      BY <2>2, EventAdded DEF GateInv
    <3>2. \A q : Of(q, Decision)' = Of(q, Decision)
      BY <2>2, <2>3, EventAdded DEF GateInv, Of
    <3>3. \A q : q # r => Of(q, {"requested"})' = Of(q, {"requested"})
      BY <2>2, <2>3, EventAdded DEF GateInv, Of
    <3>4. Of(r, {"requested"})' = Of(r, {"requested"}) \cup {Len(events) + 1}
      BY <2>3, <3>1 DEF Of
    <3> QED BY <2>4, <3>1, <3>2, <3>3, <3>4
  <2>6. EventsHaveRows'
    BY <2>1, <2>3, <2>5 DEF ScreenInv, EventsHaveRows
  <2>7. ASSUME NEW q \in DOMAIN rows' PROVE VerdictsAreOf(q)'
    BY <2>1, <2>4, <2>5 DEF ScreenInv, VerdictsAreOf
  <2>8. ConversationKept'
    <3> SUFFICES ASSUME NEW q \in DOMAIN rows', calls'[q] # "lost"
                 PROVE  /\ rows'[q].status = "pending" => ShownIn(q, threads[q])'
                        /\ \A v \in Of(q, Decision)' : ShownIn(q, events[v].thread)'
      BY DEF ConversationKept
    <3>1. CASE q = r
      <4>1. threads'[q] = working[a] /\ Of(q, {"requested"})' = {Len(events) + 1} /\ Of(q, Decision)' = {}
        BY <2>2, <2>4, <2>5, <3>1
      <4>2. events'[Len(events) + 1].thread = working[a]
        BY <2>3, <2>5
      <4> QED BY <4>1, <4>2 DEF ShownIn
    <3>2. CASE q # r
      <4>1. /\ q \in DOMAIN rows /\ rows'[q] = rows[q] /\ calls[q] # "lost" /\ threads'[q] = threads[q]
        BY <1>1, <2>1, <2>2, <3>2
      <4>2. Of(q, {"requested"}) \subseteq DOMAIN events /\ Of(q, Decision) \subseteq DOMAIN events
        BY DEF Of
      <4> QED BY <2>5, <3>2, <4>1, <4>2 DEF ScreenInv, ConversationKept, ShownIn
    <3> QED BY <3>1, <3>2
  <2> QED BY <2>6, <2>7, <2>8 DEF ScreenInv
<1>3. ASSUME NEW r \in Requests, NEW decision \in {"approved", "denied"}, Answer(r, decision)
      PROVE ScreenInv'
  <2>1. \A q \in Requests : calls'[q] = "lost" <=> calls[q] = "lost"
    BY <1>1, <1>3 DEF Answer, Decide
  <2> QED BY <1>3, <2>1, DecisionShown DEF Answer, Decision
<1>4. ASSUME NEW r \in Requests, Expire(r) PROVE ScreenInv'
  <2>1. r \in DOMAIN rows /\ rows[r].status = "pending"
    BY <1>4 DEF Expire, GateInv, TimersAreWaiters, PendingIsLive
  <2>2. \A q \in Requests : calls'[q] = "lost" <=> calls[q] = "lost"
    BY <1>1, <1>4 DEF Expire, Decide
  <2> QED BY <1>4, <2>1, <2>2, DecisionShown DEF Expire, Decision
<1>5. ASSUME UNCHANGED <<rows, events, threads>>,
             \A q \in Requests : calls'[q] # "lost" => calls[q] # "lost"
      PROVE  ScreenInv'
  BY <1>1, <1>5 DEF ScreenInv, EventsHaveRows, VerdictsAreOf, ConversationKept, ShownIn, Of
<1>6. ASSUME NEW r \in Requests, Resume(r) PROVE ScreenInv'
  <2>1. \A q \in Requests : calls'[q] # "lost" => calls[q] # "lost"
    BY <1>1, <1>6 DEF Resume, Decision
  <2> QED BY <1>5, <1>6, <2>1 DEF Resume
<1>7. CASE \E a \in Agents : \/ GateFails(a) \/ EndTurn(a)
                             \/ \E thread \in Threads \cup {NoThread} : BeginTurn(a, thread)
  BY <1>5, <1>7 DEF GateFails, EndTurn, BeginTurn, process
<1>8. CASE Crash
  <2>1. /\ UNCHANGED <<rows, events>>
        /\ \A q \in Requests : calls'[q] # "lost" => calls[q] # "lost" /\ calls[q] \notin InHand
    BY <1>1, <1>8 DEF Crash
  <2>2. ASSUME NEW q \in DOMAIN rows, calls'[q] # "lost" PROVE rows[q].status # "pending"
    <3>1. calls[q] \in {"ran", "blocked"}
      BY <1>1, <2>1, <2>2 DEF CallState, GateInv, CallsHaveRows
    <3> QED BY <3>1 DEF GateInv, RunsOnlyOnYes
  <2>3. ConversationKept'
    BY <1>1, <2>1, <2>2 DEF ScreenInv, ConversationKept, ShownIn, Of
  <2> QED BY <2>1, <2>3 DEF ScreenInv, EventsHaveRows, VerdictsAreOf, Of
<1>9. CASE UNCHANGED vars
  BY <1>5, <1>9 DEF vars, process
<1> QED
  BY <1>2, <1>3, <1>4, <1>6, <1>7, <1>8, <1>9 DEF Next

LEMMA ScreenShowsOne == ScreenInv => OneVerdict
<1> SUFFICES ASSUME ScreenInv, NEW r \in DOMAIN rows
             PROVE  /\ Cardinality(Of(r, Decision)) = IF rows[r].status = "pending" THEN 0 ELSE 1
                    /\ \A v \in Of(r, Decision) : events[v].kind = rows[r].status
  BY DEF OneVerdict, ScreenInv, ConversationKept, ShownIn
<1>1. CASE rows[r].status = "pending"
  BY <1>1, FS_EmptySet DEF ScreenInv, VerdictsAreOf
<1>2. CASE rows[r].status # "pending"
  <2>1. PICK v \in DOMAIN events : Of(r, Decision) = {v} /\ events[v].kind = rows[r].status
    BY <1>2 DEF ScreenInv, VerdictsAreOf
  <2> QED BY <1>2, <2>1, FS_Singleton
<1> QED BY <1>1, <1>2

(* The screen shows one verdict for a request and it is the one its row     *)
(* holds, in the conversation that showed the request, whatever order the   *)
(* answer, the timer and the continuation come in (#emit and #threads).     *)
THEOREM ScreenShowsOneVerdict == Spec => []OneVerdict
BY GateInvInit, GateInvNext, ScreenInvInit, ScreenInvNext, ScreenShowsOne, PTL DEF Spec
=============================================================================
