--------------------------- MODULE InferenceProofs ---------------------------
(***************************************************************************)
(* Proofs about the model calls of one background task, for any number of   *)
(* calls, any prices, allowance and number of attempts: what providers bill *)
(* stays within the allowance but for what they bill above the holds, and a *)
(* stop of the allowance reaches every call it pays for.  And of tool calls *)
(* that fall back to one another: a chain of tools never comes back.        *)
(***************************************************************************)
EXTENDS Inference, ToolCalls, FiniteSetTheorems, TLAPS

AskRow == [stage : {"idle", "yields", "queues", "sent", "pauses"}, target : Targets,
           try : 0 .. Again, cut : BOOLEAN, link : Askings \cup {NoAsking}, paid : BOOLEAN]

Hold(t) == IF t \in Targets THEN Ceiling[t] ELSE 0

(* The attempts a provider is working on at the allowance's expense.        *)
SentTo(t) == {c \in Askings : asks[c].stage = "sent" /\ asks[c].paid /\ asks[c].target = t}

(***************************************************************************)
(* The inductive invariant.  The property bounds the bill of the past; what *)
(* keeps it is that the bills still to come are held as well (BillIsHeld),  *)
(* and that the holds are exactly those of the attempts under way           *)
(* (HoldsAreSent), so that releasing one cannot go below nothing.  As long  *)
(* as the allowance is not stopped, what it believes spent covers the bill  *)
(* (BillIsKnown); an attempt whose price is unknown ends that, and stops    *)
(* the allowance.                                                           *)
(***************************************************************************)
HoldsAreSent == /\ \A t \in {1, 2} : IsFiniteSet(SentTo(t))
                /\ held = Hold(1) * Cardinality(SentTo(1)) + Hold(2) * Cardinality(SentTo(2))

BillIsKnown == ~stopped => bill <= spent + excess

BillIsHeld == bill + held <= Scope + excess

BillInv == HoldsAreSent /\ BillIsKnown /\ BillIsHeld

InfInv == InfTypeOK /\ BillInv /\ StopReachesEveryCall

-----------------------------------------------------------------------------
LEMMA HoldsAreNumbers == /\ 1 \in Targets /\ Targets \subseteq {1, 2}
                         /\ \A t \in Targets : Hold(t) = Ceiling[t]
                         /\ Hold(1) \in Nat /\ Hold(2) \in Nat
BY InfAssumption DEF Hold

(* Steps that neither send an attempt nor end one leave the sums alone.     *)
LEMMA SentStays ==
  ASSUME \A c \in Askings : /\ asks'[c].stage = "sent" <=> asks[c].stage = "sent"
                            /\ asks[c].stage = "sent" => /\ asks'[c].target = asks[c].target
                                                         /\ asks'[c].paid = asks[c].paid
  PROVE  \A t : SentTo(t)' = SentTo(t)
BY DEF SentTo

LEMMA BillStays ==
  ASSUME BillInv, UNCHANGED money, \A t : SentTo(t)' = SentTo(t)
  PROVE  BillInv'
BY DEF BillInv, money, HoldsAreSent, BillIsKnown, BillIsHeld, Hold

(* An attempt that begins adds its hold to the sum, and one that ends takes *)
(* it away.                                                                 *)
LEMMA AttemptBegins ==
  ASSUME HoldsAreSent, NEW c \in Askings, NEW t \in Targets, c \notin SentTo(t),
         SentTo(t)' = SentTo(t) \cup {c},
         \A u \in {1, 2} : u # t => SentTo(u)' = SentTo(u),
         held' = held + Ceiling[t]
  PROVE  HoldsAreSent'
<1>1. t \in {1, 2} /\ Hold(t) = Ceiling[t] /\ Hold(1) \in Nat /\ Hold(2) \in Nat
  BY HoldsAreNumbers
<1>2. /\ IsFiniteSet(SentTo(t)') /\ Cardinality(SentTo(t)') = Cardinality(SentTo(t)) + 1
  BY <1>1, FS_AddElement DEF HoldsAreSent
<1>3. Cardinality(SentTo(1)) \in Nat /\ Cardinality(SentTo(2)) \in Nat
  BY FS_CardinalityType DEF HoldsAreSent
<1>4. \A u \in {1, 2} : IsFiniteSet(SentTo(u)')
  BY <1>1, <1>2 DEF HoldsAreSent
<1>5. \A x, y \in Nat : x * (y + 1) = x * y + x /\ x * y \in Nat
  OBVIOUS
<1>6. held = Hold(1) * Cardinality(SentTo(1)) + Hold(2) * Cardinality(SentTo(2))
  BY DEF HoldsAreSent
<1> DEFINE before(u) == Hold(u) * Cardinality(SentTo(u))
           after(u)  == Hold(u) * Cardinality(SentTo(u)')
<1>7. /\ after(t) = before(t) + Hold(t) /\ \A u \in {1, 2} : u # t => after(u) = before(u)
      /\ before(1) \in Nat /\ before(2) \in Nat
  BY <1>1, <1>2, <1>3, <1>5
<1>8. held' = after(1) + after(2)
  <2> HIDE DEF before, after
  <2>1. held = before(1) + before(2)
    BY <1>6 DEF before
  <2> QED
    BY <1>1, <1>7, <2>1
<1> QED
  BY <1>4, <1>8 DEF HoldsAreSent, Hold

LEMMA AttemptEnds ==
  ASSUME HoldsAreSent, NEW c \in Askings, NEW t \in Targets, c \in SentTo(t)
  PROVE  /\ held - Ceiling[t] \in Nat
         /\ /\ SentTo(t)' = SentTo(t) \ {c}
            /\ \A u \in {1, 2} : u # t => SentTo(u)' = SentTo(u)
            /\ held' = held - Ceiling[t]
            => HoldsAreSent'
<1>1. t \in {1, 2} /\ Hold(t) = Ceiling[t] /\ Hold(1) \in Nat /\ Hold(2) \in Nat
  BY HoldsAreNumbers
<1>2. /\ IsFiniteSet(SentTo(t) \ {c})
      /\ Cardinality(SentTo(t) \ {c}) = Cardinality(SentTo(t)) - 1
      /\ Cardinality(SentTo(t) \ {c}) \in Nat
  BY <1>1, FS_RemoveElement, FS_CardinalityType DEF HoldsAreSent
<1>3. Cardinality(SentTo(1)) \in Nat /\ Cardinality(SentTo(2)) \in Nat
  BY FS_CardinalityType DEF HoldsAreSent
<1>4. \A x, y \in Nat : x * (y + 1) = x * y + x /\ x * y \in Nat
  OBVIOUS
<1>5. held = Hold(1) * Cardinality(SentTo(1)) + Hold(2) * Cardinality(SentTo(2))
  BY DEF HoldsAreSent
<1> DEFINE rest == Cardinality(SentTo(t) \ {c})
<1>6. /\ Hold(t) * Cardinality(SentTo(t)) = Hold(t) * rest + Hold(t)
      /\ Hold(t) * rest \in Nat
  <2>1. rest \in Nat /\ Cardinality(SentTo(t)) = rest + 1
    BY <1>1, <1>2, <1>3
  <2> QED
    BY <1>1, <1>4, <2>1
<1>7. held - Ceiling[t] \in Nat
  BY <1>1, <1>3, <1>4, <1>5, <1>6
<1>8. ASSUME SentTo(t)' = SentTo(t) \ {c},
             \A u \in {1, 2} : u # t => SentTo(u)' = SentTo(u),
             held' = held - Ceiling[t]
      PROVE  HoldsAreSent'
  <2>1. \A u \in {1, 2} : IsFiniteSet(SentTo(u)')
    BY <1>1, <1>2, <1>8 DEF HoldsAreSent
  <2>2. Cardinality(SentTo(t)') = rest
    BY <1>8
  <2> DEFINE before(u) == Hold(u) * Cardinality(SentTo(u))
             after(u)  == Hold(u) * Cardinality(SentTo(u)')
  <2>3. /\ before(t) = after(t) + Hold(t) /\ \A u \in {1, 2} : u # t => after(u) = before(u)
        /\ after(t) \in Nat /\ before(1) \in Nat /\ before(2) \in Nat
    BY <1>1, <1>3, <1>4, <1>6, <1>8, <2>2
  <2>4. held' = after(1) + after(2)
    <3> HIDE DEF before, after
    <3>1. held = before(1) + before(2)
      BY <1>5 DEF before
    <3> QED
      BY <1>1, <1>8, <2>3, <3>1
  <2> QED
    BY <2>1, <2>4 DEF HoldsAreSent, Hold
<1> QED
  BY <1>7, <1>8

-----------------------------------------------------------------------------
LEMMA AsksAreRows == InfTypeOK <=> /\ asks \in [Askings -> AskRow]
                                   /\ latest \in Askings \cup {NoAsking} /\ window \in Nat
                                   /\ bound \in BOOLEAN /\ spent \in Nat /\ held \in Nat
                                   /\ stopped \in BOOLEAN /\ attempts \in 0 .. MaxAttempts
                                   /\ bill \in Nat /\ excess \in Nat
BY DEF InfTypeOK, AskRow

LEMMA AsksAreRowsNext == InfTypeOK' <=> /\ asks' \in [Askings -> AskRow]
                                        /\ latest' \in Askings \cup {NoAsking} /\ window' \in Nat
                                        /\ bound' \in BOOLEAN /\ spent' \in Nat /\ held' \in Nat
                                        /\ stopped' \in BOOLEAN /\ attempts' \in 0 .. MaxAttempts
                                        /\ bill' \in Nat /\ excess' \in Nat
BY DEF InfTypeOK, AskRow

LEMMA IdleIsRow == Idle \in AskRow /\ Idle.stage = "idle" /\ Idle.target = 1
BY HoldsAreNumbers, InfAssumption DEF Idle, AskRow

(* linkAbort: what is aborted is cut itself.                                *)
LEMMA CutReachesItsOwn ==
  ASSUME NEW S \in SUBSET Askings
  PROVE  S \subseteq CutFrom(S)
BY DEF CutFrom

(* An abort changes nothing of a call but its signal, and takes no abort    *)
(* back.                                                                    *)
SameButCut(new) ==
  \A c \in Askings :
    /\ new[c].stage = asks[c].stage /\ new[c].target = asks[c].target
    /\ new[c].paid = asks[c].paid /\ new[c].link = asks[c].link /\ new[c].try = asks[c].try
    /\ asks[c].cut => new[c].cut

LEMMA CuttingKeepsRows ==
  ASSUME asks \in [Askings -> AskRow], NEW S
  PROVE  /\ Cutting(S) \in [Askings -> AskRow] /\ SameButCut(Cutting(S))
         /\ \A c \in Askings : c \in CutFrom(S) => Cutting(S)[c].cut
<1>1. ASSUME NEW c \in Askings PROVE [asks[c] EXCEPT !.cut = TRUE] \in AskRow
  BY DEF AskRow
<1>2. ASSUME NEW c \in Askings
      PROVE  /\ [asks[c] EXCEPT !.cut = TRUE].stage = asks[c].stage
             /\ [asks[c] EXCEPT !.cut = TRUE].target = asks[c].target
             /\ [asks[c] EXCEPT !.cut = TRUE].paid = asks[c].paid
             /\ [asks[c] EXCEPT !.cut = TRUE].link = asks[c].link
             /\ [asks[c] EXCEPT !.cut = TRUE].try = asks[c].try
             /\ [asks[c] EXCEPT !.cut = TRUE].cut
  BY DEF AskRow
<1> QED
  BY <1>1, <1>2 DEF Cutting, SameButCut

(* Steps that stop no allowance and spend nothing.                          *)
LEMMA QuietStep ==
  ASSUME InfInv, UNCHANGED money, UNCHANGED bound,
         asks' \in [Askings -> AskRow], latest' \in Askings \cup {NoAsking}, window' \in Nat,
         \A c \in Askings :
           /\ asks'[c].stage = "sent" <=> asks[c].stage = "sent"
           /\ asks[c].stage = "sent" => /\ asks'[c].target = asks[c].target
                                        /\ asks'[c].paid = asks[c].paid,
         \A c \in Askings : c \in Payers' /\ stopped => asks'[c].cut
  PROVE  InfInv'
<1>1. InfTypeOK'
  BY AsksAreRows, AsksAreRowsNext DEF money, InfInv
<1>2. BillInv'
  BY SentStays, BillStays DEF InfInv
<1>3. StopReachesEveryCall'
  BY DEF StopReachesEveryCall, money, Payers
<1> QED
  BY <1>1, <1>2, <1>3 DEF InfInv

LEMMA AbortsAreGood ==
  ASSUME InfInv, NEW S, asks' = Cutting(S), UNCHANGED <<latest, window, bound>>, UNCHANGED money
  PROVE  InfInv'
<1>1. asks' \in [Askings -> AskRow] /\ SameButCut(asks')
  BY AsksAreRows, CuttingKeepsRows DEF InfInv
<1>2. Payers' = Payers
  BY <1>1 DEF SameButCut, Payers, Linked
<1>3. \A c \in Askings : c \in Payers' /\ stopped => asks'[c].cut
  BY <1>1, <1>2 DEF InfInv, StopReachesEveryCall, SameButCut
<1> QED
  BY <1>1, <1>3, QuietStep, AsksAreRows DEF SameButCut, InfInv

(* A step of one call that neither sends nor ends an attempt.               *)
LEMMA QuietCall ==
  ASSUME InfInv, UNCHANGED money, UNCHANGED bound, NEW c \in Askings, NEW row \in AskRow,
         asks' = [asks EXCEPT ![c] = row],
         latest' \in Askings \cup {NoAsking}, window' \in Nat,
         asks[c].stage # "sent", row.stage # "sent",
         row.stage \in {"queues", "sent", "pauses"} /\ row.paid /\ stopped => row.cut
  PROVE  InfInv'
<1>1. asks \in [Askings -> AskRow]
  BY AsksAreRows DEF InfInv
<1>2. asks' \in [Askings -> AskRow] /\ asks'[c] = row
      /\ \A k \in Askings : k # c => asks'[k] = asks[k]
  BY <1>1
<1>3. \A k \in Askings : k \in Payers' /\ stopped => asks'[k].cut
  BY <1>2 DEF InfInv, StopReachesEveryCall, Payers, Linked
<1> QED
  BY <1>2, <1>3, QuietStep

(* linkAbort follows what was stopped already.                              *)
LEMMA ProceedIsGood ==
  ASSUME InfInv, NEW c \in Askings, Proceed(c)
  PROVE  InfInv'
<1> DEFINE cut == AbortedAlready(c)
           row == [asks[c] EXCEPT !.stage = "queues", !.link = latest, !.cut = cut]
<1>1. asks[c] \in AskRow /\ asks[c].stage = "yields" /\ asks \in [Askings -> AskRow]
      /\ latest \in Askings \cup {NoAsking} /\ window \in Nat
  BY AsksAreRows DEF InfInv, Proceed
<1>2. cut \in BOOLEAN
  BY DEF AbortedAlready
<1>3. asks[c].paid /\ stopped => cut
  BY DEF AbortedAlready
<1>4. asks' = [asks EXCEPT ![c] = row]
  BY <1>1 DEF Proceed
<1> HIDE DEF cut
<1>5. row \in AskRow /\ row.stage = "queues" /\ row.paid = asks[c].paid /\ row.cut = cut
  BY <1>1, <1>2 DEF AskRow
<1> HIDE DEF row
<1> QED
  BY <1>1, <1>3, <1>4, <1>5, QuietCall DEF Proceed

(* A call whose target failed, or which is over.                            *)
LEMMA TargetFailsIsGood ==
  ASSUME InfInv, NEW c \in Askings, TargetFails(c) \/ Finishes(c),
         asks[c].stage \in {"queues", "pauses"},
         window' \in Nat, UNCHANGED bound, UNCHANGED money
  PROVE  InfInv'
<1>1. asks[c] \in AskRow /\ asks \in [Askings -> AskRow] /\ latest \in Askings \cup {NoAsking}
  BY AsksAreRows DEF InfInv
<1>2. CASE Finishes(c)
  BY <1>1, <1>2, IdleIsRow, QuietCall DEF Finishes
<1>3. CASE /\ 2 \in Targets /\ UNCHANGED latest
           /\ asks' = [asks EXCEPT ![c].stage = "queues", ![c].target = 2, ![c].try = 0]
  <2> DEFINE one == [asks EXCEPT ![c].stage = "queues"]
             two == [one EXCEPT ![c].target = 2]
             row == [[[asks[c] EXCEPT !.stage = "queues"] EXCEPT !.target = 2] EXCEPT !.try = 0]
  <2>1. asks' = [asks EXCEPT ![c] = row]
    <3>1. one = [asks EXCEPT ![c] = [asks[c] EXCEPT !.stage = "queues"]]
      BY <1>1
    <3>2. two = [asks EXCEPT ![c] = [[asks[c] EXCEPT !.stage = "queues"] EXCEPT !.target = 2]]
      BY <1>1, <3>1
    <3>3. asks' = [two EXCEPT ![c].try = 0]
      BY <1>3
    <3> QED
      BY <1>1, <3>2, <3>3
  <2>2. row \in AskRow /\ row.stage = "queues" /\ row.paid = asks[c].paid /\ row.cut = asks[c].cut
    <3>1. 0 \in 0 .. Again /\ 2 \in Targets
      BY <1>3, InfAssumption
    <3> QED
      BY <1>1, <3>1 DEF AskRow
  <2>3. asks[c].paid /\ stopped => asks[c].cut
    BY DEF InfInv, StopReachesEveryCall, Payers, Linked
  <2> HIDE DEF row
  <2> QED
    BY <1>1, <1>3, <2>1, <2>2, <2>3, QuietCall
<1> QED
  BY <1>2, <1>3 DEF TargetFails

LEMMA ResumesIsGood ==
  ASSUME InfInv, NEW c \in Askings, Resumes(c)
  PROVE  InfInv'
<1>1. asks[c] \in AskRow /\ asks \in [Askings -> AskRow] /\ latest \in Askings \cup {NoAsking}
      /\ window' \in Nat /\ asks[c].stage = "pauses"
  BY AsksAreRows DEF InfInv, Resumes
<1>2. CASE TargetFails(c)
  BY <1>1, <1>2, TargetFailsIsGood DEF Resumes
<1>3. CASE asks' = [asks EXCEPT ![c].stage = "queues"] /\ UNCHANGED latest
  <2> DEFINE row == [asks[c] EXCEPT !.stage = "queues"]
  <2>1. asks' = [asks EXCEPT ![c] = row]
    BY <1>1, <1>3
  <2>2. row \in AskRow /\ row.stage = "queues" /\ row.paid = asks[c].paid /\ row.cut = asks[c].cut
    BY <1>1 DEF AskRow
  <2>3. asks[c].paid /\ stopped => asks[c].cut
    BY <1>1 DEF InfInv, StopReachesEveryCall, Payers, Linked
  <2> HIDE DEF row
  <2> QED
    BY <1>1, <1>3, <2>1, <2>2, <2>3, QuietCall DEF Resumes
<1> QED
  BY <1>2, <1>3 DEF Resumes

LEMMA QuietCallsAreGood ==
  ASSUME InfInv, NEW c \in Askings,
         Start(c) \/ Refused(c) \/ GivesUp(c) \/ Denied(c) \/ CallerAborts(c)
  PROVE  InfInv'
<1>1. asks[c] \in AskRow /\ latest \in Askings \cup {NoAsking} /\ window \in Nat /\ bound \in BOOLEAN
  BY AsksAreRows DEF InfInv
<1>2. CASE Start(c)
  <2> DEFINE row == [Idle EXCEPT !.stage = "yields", !.paid = bound]
  <2>1. row \in AskRow /\ row.stage = "yields"
    BY <1>1, IdleIsRow DEF AskRow
  <2> HIDE DEF row
  <2> QED
    BY <1>1, <1>2, <2>1, QuietCall DEF Start, row
<1>3. CASE Refused(c)
  BY <1>1, <1>3, IdleIsRow, QuietCall DEF Refused
<1>4. CASE GivesUp(c)
  BY <1>1, <1>4, TargetFailsIsGood DEF GivesUp
<1>5. CASE Denied(c)
  <2>1. InWindow(c) \in Nat
    BY <1>1 DEF InWindow
  <2> QED
    BY <1>5, <2>1, TargetFailsIsGood DEF Denied
<1>6. CASE CallerAborts(c)
  BY <1>6, AbortsAreGood DEF CallerAborts
<1> QED
  BY <1>2, <1>3, <1>4, <1>5, <1>6

-----------------------------------------------------------------------------
(* An attempt is sent: granted while the allowance stands, its hold is      *)
(* covered by what is neither spent nor held.                               *)
LEMMA SendsIsGood ==
  ASSUME InfInv, NEW c \in Askings, Sends(c)
  PROVE  InfInv'
<1> DEFINE row == [asks[c] EXCEPT !.stage = "sent"]
<1>1. /\ asks \in [Askings -> AskRow] /\ asks[c] \in AskRow /\ window \in Nat
      /\ latest \in Askings \cup {NoAsking} /\ bound \in BOOLEAN /\ attempts \in 0 .. MaxAttempts
      /\ spent \in Nat /\ held \in Nat /\ bill \in Nat /\ excess \in Nat /\ stopped \in BOOLEAN
  BY AsksAreRows DEF InfInv
<1>2. /\ asks[c].stage = "queues" /\ asks' = [asks EXCEPT ![c] = row]
      /\ asks[c].target \in Targets /\ Ceiling[asks[c].target] \in Nat
      /\ UNCHANGED <<latest, bound, spent, stopped, bill, excess>>
  BY <1>1, InfAssumption DEF Sends, AskRow
<1>3. /\ row \in AskRow /\ row.stage = "sent" /\ row.paid = asks[c].paid
      /\ row.target = asks[c].target /\ row.cut = asks[c].cut
  BY <1>1 DEF AskRow
<1> HIDE DEF row
<1>4. asks' \in [Askings -> AskRow] /\ asks'[c] = row /\ \A k \in Askings : k # c => asks'[k] = asks[k]
  BY <1>1, <1>2, <1>3
<1>5. InfTypeOK'
  <2>1. window' \in Nat /\ attempts' \in 0 .. MaxAttempts
    BY <1>1, InfAssumption DEF Sends, InWindow
  <2>2. held' \in Nat
    BY <1>1, <1>2 DEF Sends
  <2> QED
    BY <1>1, <1>2, <1>4, <2>1, <2>2, AsksAreRowsNext
<1>6. BillInv'
  <2>1. CASE asks[c].paid
    <3>1. ~stopped /\ spent + held + Ceiling[asks[c].target] <= Scope
      BY <2>1 DEF Sends, Grants
    <3>2. held' = held + Ceiling[asks[c].target]
      BY <2>1 DEF Sends
    <3>3. PICK t \in Targets : t = asks[c].target
      BY <1>2
    <3>4. /\ c \notin SentTo(t) /\ SentTo(t)' = SentTo(t) \cup {c}
          /\ \A u \in {1, 2} : u # t => SentTo(u)' = SentTo(u)
      BY <1>2, <1>3, <1>4, <2>1, <3>3 DEF SentTo
    <3>5. HoldsAreSent'
      BY <3>2, <3>3, <3>4, AttemptBegins DEF InfInv, BillInv
    <3>6. bill <= spent + excess
      BY <3>1 DEF InfInv, BillInv, BillIsKnown
    <3>7. BillIsKnown' /\ BillIsHeld'
      BY <1>1, <1>2, <3>1, <3>2, <3>6, InfAssumption DEF BillIsKnown, BillIsHeld
    <3> QED
      BY <3>5, <3>7 DEF BillInv
  <2>2. CASE ~asks[c].paid
    <3>1. \A t : SentTo(t)' = SentTo(t)
      BY <1>2, <1>3, <1>4, <2>2 DEF SentTo
    <3>2. held' = held
      BY <2>2 DEF Sends
    <3> QED
      BY <1>2, <3>1, <3>2 DEF InfInv, BillInv, HoldsAreSent, BillIsKnown, BillIsHeld, Hold
  <2> QED
    BY <2>1, <2>2
<1>7. StopReachesEveryCall'
  BY <1>2, <1>3, <1>4 DEF InfInv, StopReachesEveryCall, Payers, Linked
<1> QED
  BY <1>5, <1>6, <1>7 DEF InfInv

(* The stop of an allowance takes effect with the step that used it up.     *)
LEMMA StopsKeepsRows ==
  ASSUME InfInv, NEW next \in [Askings -> AskRow], StopsPayers(next)
  PROVE  /\ asks' \in [Askings -> AskRow]
         /\ \A c \in Askings :
              /\ asks'[c].stage = next[c].stage /\ asks'[c].target = next[c].target
              /\ asks'[c].paid = next[c].paid
              /\ next[c].cut => asks'[c].cut
              /\ stopped' /\ ~stopped /\ c \in Payers /\ next[c].stage # "idle" => asks'[c].cut
<1>1. ASSUME NEW c \in Askings
      PROVE  /\ [next[c] EXCEPT !.cut = TRUE] \in AskRow
             /\ [next[c] EXCEPT !.cut = TRUE].stage = next[c].stage
             /\ [next[c] EXCEPT !.cut = TRUE].target = next[c].target
             /\ [next[c] EXCEPT !.cut = TRUE].paid = next[c].paid
             /\ [next[c] EXCEPT !.cut = TRUE].cut
  BY DEF AskRow
<1>2. Payers \subseteq CutFrom(Payers)
  BY CutReachesItsOwn DEF Payers
<1>3. asks' = [c \in Askings |-> IF stopped' /\ ~stopped /\ c \in CutFrom(Payers) /\ next[c].stage # "idle"
                                 THEN [next[c] EXCEPT !.cut = TRUE] ELSE next[c]]
  BY DEF StopsPayers
<1> QED
  BY <1>1, <1>2, <1>3

(* An attempt ends: its hold is released, and what takes its place covers   *)
(* the bill unless the allowance is stopped.                                *)
LEMMA AttemptOver ==
  ASSUME InfInv, NEW c \in Askings, asks[c].stage = "sent",
         NEW row \in AskRow, row.stage # "sent",
         row.stage # "idle" => row.paid = asks[c].paid /\ row.cut = asks[c].cut,
         StopsPayers([asks EXCEPT ![c] = row]),
         NEW charged \in Nat, NEW billed \in Nat, NEW stops \in BOOLEAN,
         Charge(c, charged, billed, stops),
         stops \/ billed <= charged + Plus(billed - Ceiling[asks[c].target]),
         latest' \in Askings \cup {NoAsking}, window' \in Nat, UNCHANGED <<bound, attempts>>
  PROVE  InfInv'
<1> DEFINE next == [asks EXCEPT ![c] = row]
           hold == Ceiling[asks[c].target]
<1>1. /\ asks \in [Askings -> AskRow] /\ asks[c] \in AskRow /\ bound \in BOOLEAN
      /\ attempts \in 0 .. MaxAttempts /\ spent \in Nat /\ held \in Nat /\ bill \in Nat
      /\ excess \in Nat /\ stopped \in BOOLEAN
  BY AsksAreRows DEF InfInv
<1>2. next \in [Askings -> AskRow] /\ next[c] = row /\ \A k \in Askings : k # c => next[k] = asks[k]
  BY <1>1
<1>3. asks[c].target \in Targets /\ hold \in Nat /\ Scope \in Nat
  BY <1>1, InfAssumption DEF AskRow
<1>4. Plus(billed - hold) \in Nat /\ billed - hold <= Plus(billed - hold)
  BY <1>3 DEF Plus
<1> HIDE DEF next
<1>5. /\ asks' \in [Askings -> AskRow]
      /\ \A k \in Askings :
           /\ asks'[k].stage = next[k].stage /\ asks'[k].target = next[k].target
           /\ asks'[k].paid = next[k].paid
           /\ next[k].cut => asks'[k].cut
           /\ stopped' /\ ~stopped /\ k \in Payers /\ next[k].stage # "idle" => asks'[k].cut
  BY <1>2, StopsKeepsRows DEF next
<1>6. \A t : SentTo(t)' = SentTo(t) \ {c}
  BY <1>2, <1>5 DEF SentTo
<1>9. StopReachesEveryCall'
  <2> SUFFICES ASSUME stopped', NEW k \in Askings, k \in Payers' PROVE asks'[k].cut
    BY DEF StopReachesEveryCall, Payers
  <2>1. next[k].stage \in {"queues", "sent", "pauses"} /\ next[k].paid
    BY <1>5 DEF Payers, Linked
  <2>2. k \in Payers
    BY <1>2, <2>1 DEF Payers, Linked
  <2>3. CASE ~stopped
    BY <1>5, <2>1, <2>2, <2>3
  <2>4. CASE stopped
    <3>1. asks[k].cut
      BY <2>2, <2>4 DEF InfInv, StopReachesEveryCall
    <3>2. next[k].cut
      BY <1>2, <2>1, <3>1
    <3> QED
      BY <1>5, <3>2
  <2> QED
    BY <2>3, <2>4
<1>7. CASE asks[c].paid
  <2>1. /\ held' = Plus(held - hold) /\ spent' = spent + charged
        /\ bill' = bill + billed /\ excess' = excess + Plus(billed - hold)
        /\ stopped' = (stopped \/ stops)
    BY <1>7, Zenon DEF Charge
  <2>2. PICK t \in Targets : t = asks[c].target
    BY <1>3
  <2>3. c \in SentTo(t) /\ \A u \in {1, 2} : u # t => SentTo(u)' = SentTo(u)
    BY <1>6, <1>7, <2>2 DEF SentTo
  <2>4. held - hold \in Nat
    BY <2>2, <2>3, AttemptEnds DEF InfInv, BillInv
  <2>5. held' = held - hold
    BY <2>1, <2>4 DEF Plus
  <2>6. HoldsAreSent'
    BY <1>6, <2>2, <2>3, <2>5, AttemptEnds DEF InfInv, BillInv
  <2> DEFINE over == Plus(billed - hold)
  <2>7. over \in Nat /\ hold \in Nat /\ billed - hold <= over /\ (stops \/ billed <= charged + over)
    BY <1>3, <1>4
  <2>8. excess' = excess + over
    BY <2>1
  <2> HIDE DEF over, hold
  <2>11. BillIsHeld'
    <3>1. bill + held <= Scope + excess
      BY DEF InfInv, BillInv, BillIsHeld
    <3>2. (bill + billed) + (held - hold) <= Scope + (excess + over)
      BY <1>1, <1>3, <2>7, <3>1
    <3> QED
      BY <2>1, <2>5, <2>8, <3>2 DEF BillIsHeld
  <2>12. BillIsKnown'
    <3>1. CASE stopped \/ stops
      BY <2>1, <3>1 DEF BillIsKnown
    <3>2. CASE ~stopped /\ ~stops
      <4>1. bill <= spent + excess
        BY <3>2 DEF InfInv, BillInv, BillIsKnown
      <4>2. bill + billed <= (spent + charged) + (excess + over)
        BY <1>1, <2>7, <3>2, <4>1
      <4> QED
        BY <2>1, <2>8, <4>2 DEF BillIsKnown
    <3> QED
      BY <3>1, <3>2
  <2>9. InfTypeOK'
    <3>1. stopped' \in BOOLEAN
      BY <2>1
    <3>2. spent' \in Nat /\ held' \in Nat /\ bill' \in Nat /\ excess' \in Nat
      BY <1>1, <2>1, <2>4, <2>5, <2>7, <2>8
    <3> QED
      BY <1>1, <1>5, <3>1, <3>2, AsksAreRowsNext
  <2> QED
    BY <1>9, <2>6, <2>9, <2>11, <2>12 DEF BillInv, InfInv
<1>8. CASE ~asks[c].paid
  <2>1. UNCHANGED <<spent, held, stopped, bill, excess>>
    BY <1>8, Zenon DEF Charge
  <2>2. \A t : SentTo(t)' = SentTo(t)
    BY <1>6, <1>8 DEF SentTo
  <2>3. BillInv'
    BY <2>1, <2>2 DEF InfInv, BillInv, HoldsAreSent, BillIsKnown, BillIsHeld, Hold
  <2>4. InfTypeOK'
    BY <1>1, <1>5, <2>1, AsksAreRowsNext
  <2> QED
    BY <1>9, <2>3, <2>4 DEF InfInv
<1> QED
  BY <1>7, <1>8

(* The provider answered: its bill takes the hold's place, or the price is  *)
(* unknown and the allowance stops.                                         *)
LEMMA CompletesIsGood ==
  ASSUME InfInv, NEW c \in Askings, Completes(c)
  PROVE  InfInv'
<1>1. /\ asks[c] \in AskRow /\ asks[c].stage = "sent" /\ latest \in Askings \cup {NoAsking}
      /\ window \in Nat /\ spent \in Nat /\ asks[c].target \in Targets
      /\ Ceiling[asks[c].target] \in Nat /\ Overbill \in Nat /\ Scope \in Nat
  BY AsksAreRows, InfAssumption DEF InfInv, Completes, AskRow
<1>2. PICK billed \in 0 .. Ceiling[asks[c].target] + Overbill, priced \in BOOLEAN :
        Charge(c, IF priced THEN billed ELSE 0, billed, ~priced \/ spent + billed > Scope)
  BY Zenon DEF Completes
<1> DEFINE charged == IF priced THEN billed ELSE 0
           stops   == ~priced \/ spent + billed > Scope
           over    == Plus(billed - Ceiling[asks[c].target])
<1>3. billed \in Nat /\ charged \in Nat /\ stops \in BOOLEAN /\ over \in Nat
  BY <1>1, <1>2 DEF Plus
<1>4. stops \/ billed <= charged + over
  BY <1>1, <1>3
<1>5. /\ StopsPayers([asks EXCEPT ![c] = Idle]) /\ latest' \in Askings \cup {NoAsking}
      /\ window' \in Nat /\ UNCHANGED <<bound, attempts>>
  BY <1>1 DEF Completes
<1>6. Charge(c, charged, billed, stops)
  BY <1>2
<1>7. stops \/ billed <= charged + Plus(billed - Ceiling[asks[c].target])
  BY <1>4
<1> HIDE DEF charged, stops, over
<1> QED
  BY <1>1, <1>3, <1>5, <1>6, <1>7, IdleIsRow, AttemptOver

(* The attempt failed: all of its hold counts as spent, which is no less    *)
(* than what it can have cost.                                              *)
LEMMA BreaksIsGood ==
  ASSUME InfInv, NEW c \in Askings, Breaks(c)
  PROVE  InfInv'
<1> DEFINE hold  == Ceiling[asks[c].target]
           stops == hold > 0 /\ spent + hold >= Scope
           over(billed) == Plus(billed - hold)
<1>1. /\ asks \in [Askings -> AskRow] /\ asks[c] \in AskRow /\ asks[c].stage = "sent"
      /\ latest \in Askings \cup {NoAsking} /\ asks[c].try \in 0 .. Again
      /\ window \in Nat /\ spent \in Nat /\ asks[c].target \in Targets
      /\ hold \in Nat /\ Scope \in Nat /\ Again \in Nat
  BY AsksAreRows, InfAssumption DEF InfInv, Breaks, AskRow
<1>2. PICK billed \in 0 .. hold : Charge(c, hold, billed, stops)
  BY Zenon DEF Breaks, CommitMaximum
<1>3. billed \in Nat /\ stops \in BOOLEAN /\ over(billed) \in Nat
  BY <1>1, <1>2 DEF Plus
<1>4. billed <= hold + over(billed)
  <2>1. billed <= hold /\ billed \in Nat
    BY <1>1, <1>2
  <2> HIDE DEF hold, over
  <2> QED
    BY <1>1, <1>3, <2>1
<1>5. stops \/ billed <= hold + Plus(billed - Ceiling[asks[c].target])
  BY <1>4
<1>6. window' \in Nat /\ latest' \in Askings \cup {NoAsking} /\ UNCHANGED <<bound, attempts>>
  BY <1>1 DEF Breaks, InWindow
<1> HIDE DEF stops, over
<1>7. CASE /\ asks[c].try < Again
           /\ StopsPayers([asks EXCEPT ![c].stage = "pauses", ![c].try = @ + 1])
  <2> DEFINE row == [[asks[c] EXCEPT !.stage = "pauses"] EXCEPT !.try = asks[c].try + 1]
             one == [asks EXCEPT ![c].stage = "pauses"]
  <2>1. [asks EXCEPT ![c].stage = "pauses", ![c].try = @ + 1] = [asks EXCEPT ![c] = row]
    <3>1. one = [asks EXCEPT ![c] = [asks[c] EXCEPT !.stage = "pauses"]]
      BY <1>1
    <3>2. one[c].try = asks[c].try
      BY <1>1, <3>1 DEF AskRow
    <3>3. [asks EXCEPT ![c].stage = "pauses", ![c].try = @ + 1] = [one EXCEPT ![c].try = asks[c].try + 1]
      BY <3>2
    <3> QED
      BY <1>1, <3>1, <3>3
  <2>2. row \in AskRow /\ row.stage = "pauses" /\ row.paid = asks[c].paid /\ row.cut = asks[c].cut
    <3>1. asks[c].try + 1 \in 0 .. Again
      BY <1>1, <1>7
    <3> QED
      BY <1>1, <3>1 DEF AskRow
  <2> HIDE DEF row, hold
  <2>3. StopsPayers([asks EXCEPT ![c] = row])
    BY <1>7, <2>1, Zenon
  <2>4. row.stage # "sent" /\ (row.stage # "idle" => row.paid = asks[c].paid /\ row.cut = asks[c].cut)
    BY <2>2
  <2> QED
    BY <1>1, <1>2, <1>3, <1>5, <1>6, <2>2, <2>3, <2>4, AttemptOver
<1>8. CASE StopsPayers([asks EXCEPT ![c] = Idle])
  <2> HIDE DEF hold
  <2> QED
    BY <1>1, <1>2, <1>3, <1>5, <1>6, <1>8, IdleIsRow, AttemptOver
<1>9. CASE /\ 2 \in Targets
           /\ StopsPayers([asks EXCEPT ![c].stage = "queues", ![c].target = 2, ![c].try = 0])
  <2> DEFINE row == [[[asks[c] EXCEPT !.stage = "queues"] EXCEPT !.target = 2] EXCEPT !.try = 0]
             one == [asks EXCEPT ![c].stage = "queues"]
             two == [one EXCEPT ![c].target = 2]
  <2>1. [asks EXCEPT ![c].stage = "queues", ![c].target = 2, ![c].try = 0] = [asks EXCEPT ![c] = row]
    <3>1. one = [asks EXCEPT ![c] = [asks[c] EXCEPT !.stage = "queues"]]
      BY <1>1
    <3>2. two = [asks EXCEPT ![c] = [[asks[c] EXCEPT !.stage = "queues"] EXCEPT !.target = 2]]
      BY <1>1, <3>1
    <3>3. [asks EXCEPT ![c].stage = "queues", ![c].target = 2, ![c].try = 0] = [two EXCEPT ![c].try = 0]
      OBVIOUS
    <3> QED
      BY <1>1, <3>2, <3>3
  <2>2. row \in AskRow /\ row.stage = "queues" /\ row.paid = asks[c].paid /\ row.cut = asks[c].cut
    <3>1. 0 \in 0 .. Again
      BY <1>1
    <3> QED
      BY <1>1, <1>9, <3>1 DEF AskRow
  <2> HIDE DEF row, hold
  <2>3. StopsPayers([asks EXCEPT ![c] = row])
    BY <1>9, <2>1, Zenon
  <2>4. row.stage # "sent" /\ (row.stage # "idle" => row.paid = asks[c].paid /\ row.cut = asks[c].cut)
    BY <2>2
  <2> QED
    BY <1>1, <1>2, <1>3, <1>5, <1>6, <2>2, <2>3, <2>4, AttemptOver
<1>10. Targets = {1} \/ 2 \in Targets
  BY InfAssumption
<1> QED
  BY <1>7, <1>8, <1>9, <1>10, Zenon DEF Breaks

-----------------------------------------------------------------------------
(* The task is over: its allowance stops, and so do the calls it pays for.  *)
LEMMA CloseScopeIsGood ==
  ASSUME InfInv, CloseScope
  PROVE  InfInv'
<1>1. /\ asks' = Cutting(Payers) /\ stopped' = TRUE /\ bound' = FALSE
      /\ UNCHANGED <<latest, window, spent, held, attempts, bill, excess>>
  BY DEF CloseScope
<1>2. /\ asks' \in [Askings -> AskRow] /\ SameButCut(asks')
      /\ \A c \in Askings : c \in CutFrom(Payers) => asks'[c].cut
  BY <1>1, AsksAreRows, CuttingKeepsRows DEF InfInv
<1>3. Payers' = Payers /\ Payers \subseteq CutFrom(Payers)
  BY <1>2, CutReachesItsOwn DEF SameButCut, Payers, Linked
<1>4. InfTypeOK'
  BY <1>1, <1>2, AsksAreRows, AsksAreRowsNext DEF InfInv
<1>5. BillInv'
  <2>1. \A t : SentTo(t)' = SentTo(t)
    BY <1>2, SentStays DEF SameButCut
  <2> QED
    BY <1>1, <2>1 DEF InfInv, BillInv, HoldsAreSent, BillIsKnown, BillIsHeld, Hold
<1>6. StopReachesEveryCall'
  BY <1>2, <1>3 DEF StopReachesEveryCall, Payers
<1> QED
  BY <1>4, <1>5, <1>6 DEF InfInv

LEMMA WindowMovesIsGood ==
  ASSUME InfInv, WindowMoves
  PROVE  InfInv'
<1>1. /\ asks \in [Askings -> AskRow] /\ latest \in Askings \cup {NoAsking} /\ window \in Nat
  BY AsksAreRows DEF InfInv
<1>2. window' \in Nat
  BY <1>1 DEF WindowMoves
<1>3. \A c \in Askings : c \in Payers' /\ stopped => asks'[c].cut
  BY DEF WindowMoves, InfInv, StopReachesEveryCall, Payers, Linked
<1> QED
  BY <1>1, <1>2, <1>3, QuietStep DEF WindowMoves

LEMMA NothingHappens ==
  ASSUME InfInv, UNCHANGED infVars
  PROVE  InfInv'
<1>1. UNCHANGED money /\ UNCHANGED bound
  BY DEF infVars, money
<1>2. asks' = asks /\ latest' = latest /\ window' = window
  BY DEF infVars
<1>3. /\ asks \in [Askings -> AskRow] /\ latest \in Askings \cup {NoAsking} /\ window \in Nat
  BY AsksAreRows DEF InfInv
<1>4. \A c \in Askings : c \in Payers' /\ stopped => asks'[c].cut
  BY <1>2 DEF InfInv, StopReachesEveryCall, Payers, Linked
<1> QED
  BY <1>1, <1>2, <1>3, <1>4, QuietStep

LEMMA InfInvInit == InfInit => InfInv
<1> SUFFICES ASSUME InfInit PROVE InfInv
  OBVIOUS
<1>1. asks = [c \in Askings |-> Idle] /\ \A c \in Askings : asks[c] = Idle
  BY DEF InfInit
<1>2. asks \in [Askings -> AskRow]
  BY <1>1, IdleIsRow
<1>3. InfTypeOK
  <2>1. 0 \in 0 .. MaxAttempts
    BY InfAssumption
  <2> QED
    BY <1>2, <2>1, AsksAreRows DEF InfInit
<1>4. \A t \in {1, 2} : SentTo(t) = {}
  BY <1>1, IdleIsRow DEF SentTo
<1>5. HoldsAreSent
  <2>1. IsFiniteSet({}) /\ Cardinality({}) = 0
    BY FS_EmptySet
  <2>2. held = 0 /\ Hold(1) * 0 = 0 /\ Hold(2) * 0 = 0
    BY HoldsAreNumbers DEF InfInit
  <2>3. \A t \in {1, 2} : IsFiniteSet(SentTo(t)) /\ Cardinality(SentTo(t)) = 0
    BY <1>4, <2>1
  <2> QED
    BY <2>2, <2>3 DEF HoldsAreSent
<1>6. BillIsKnown /\ BillIsHeld /\ StopReachesEveryCall
  BY InfAssumption DEF InfInit, BillIsKnown, BillIsHeld, StopReachesEveryCall
<1> QED
  BY <1>3, <1>5, <1>6 DEF InfInv, BillInv

LEMMA InfInvNext == InfInv /\ [InfNext]_infVars => InfInv'
<1> SUFFICES ASSUME InfInv, [InfNext]_infVars PROVE InfInv'
  OBVIOUS
<1>1. ASSUME NEW c \in Askings,
             Start(c) \/ Refused(c) \/ GivesUp(c) \/ Denied(c) \/ CallerAborts(c)
      PROVE  InfInv'
  BY <1>1, QuietCallsAreGood
<1>2. ASSUME NEW c \in Askings,
             Proceed(c) \/ Sends(c) \/ Completes(c) \/ Breaks(c) \/ Resumes(c)
      PROVE  InfInv'
  BY <1>2, ProceedIsGood, SendsIsGood, CompletesIsGood, BreaksIsGood, ResumesIsGood
<1>3. CASE AbortSession
  BY <1>3, AbortsAreGood DEF AbortSession
<1>4. CASE CloseScope \/ WindowMoves
  BY <1>4, CloseScopeIsGood, WindowMovesIsGood
<1>5. CASE UNCHANGED infVars
  BY <1>5, NothingHappens
<1> QED
  BY <1>1, <1>2, <1>3, <1>4, <1>5 DEF InfNext

LEMMA InfInvAlways == InfSpec => []InfInv
BY InfInvInit, InfInvNext, PTL DEF InfSpec

-----------------------------------------------------------------------------
(* Every call's record, the allowance and the counters keep their types:    *)
(* in particular a release never takes more than is held.                   *)
THEOREM InferenceType == InfSpec => []InfTypeOK
<1>1. InfInv => InfTypeOK
  BY DEF InfInv
<1> QED
  BY <1>1, InfInvAlways, PTL

(* However the calls of a task overlap, retry, fall back, fail and are      *)
(* stopped, its providers bill it no more than its allowance and what they  *)
(* charge above the highest price that was held (reserve, settle and        *)
(* commitMaximum, inference-spend-authority.ts).                            *)
THEOREM BillStaysCovered == InfSpec => []BillIsCovered
<1>1. InfInv => BillIsCovered
  <2> SUFFICES ASSUME InfInv PROVE bill <= Scope + excess
    BY DEF BillIsCovered
  <2>1. bill \in Nat /\ held \in Nat /\ excess \in Nat /\ Scope \in Nat
    BY InfAssumption DEF InfInv, InfTypeOK
  <2>2. bill + held <= Scope + excess
    BY DEF InfInv, BillInv, BillIsHeld
  <2> QED
    BY <2>1, <2>2
<1> QED
  BY <1>1, InfInvAlways, PTL

(* A stopped allowance has cut every call it pays for, those included that  *)
(* linked themselves to it only after it had stopped (linkAbort,            *)
(* inference-router.ts).                                                    *)
THEOREM StopsReachAll == InfSpec => []StopReachesEveryCall
<1>1. InfInv => StopReachesEveryCall
  BY DEF InfInv
<1> QED
  BY <1>1, InfInvAlways, PTL

-----------------------------------------------------------------------------
(***************************************************************************)
(* The calls of tools.  A call counts its tries of the tool it is at; that  *)
(* this bounds the tries of every tool needs that a chain never comes back: *)
(* a tool is untried until the chain comes to it, and the tools the chain   *)
(* has left are not come to again.                                          *)
(***************************************************************************)
ChainIsFresh(c) ==
  call[c].stage # "idle" =>
    /\ call[c].tool \in Tools
    /\ \A t \in Tools \ (call[c].chain \cup {call[c].tool}) : tries[c][t] = 0
    /\ call[c].stage = "gate" => tries[c][call[c].tool] = 0
    /\ call[c].stage \in {"waiting", "backoff"} => tries[c][call[c].tool] = call[c].attempt
    /\ call[c].stage = "backoff" => call[c].attempt < Attempts

ToolInv == ToolTypeOK /\ TriesAreBounded /\ \A c \in Calls : ChainIsFresh(c)

LEMMA ToolBounds ==
  Attempts \in Nat /\ 1 <= Attempts /\ MaxExecs \in Nat /\ NoTool \notin Tools
BY ToolAssumption

(* What a call's row may be rewritten to.                                   *)
LEMMA CallsKeepTypes ==
  ASSUME NEW r \in Call
  PROVE  /\ \A cut \in BOOLEAN : [r EXCEPT !.cut = cut] \in Call
         /\ \A stage \in {"settle", "backoff"} :
              /\ [r EXCEPT !.stage = stage] \in Call
              /\ [r EXCEPT !.stage = stage, !.exec = 0] \in Call
              /\ \A on \in BOOLEAN : [r EXCEPT !.stage = stage, !.exec = 0, !.handOn = on] \in Call
<1>1. 0 \in 0 .. MaxExecs
  BY ToolBounds
<1> QED
  BY <1>1 DEF Call

LEMMA CallsStart ==
  /\ NoCall \in Call /\ NoCall.stage = "idle"
  /\ \A t \in Tools, chain \in SUBSET Tools :
       /\ [NoCall EXCEPT !.stage = "gate", !.tool = t, !.chain = chain] \in Call
       /\ [NoCall EXCEPT !.stage = "gate", !.tool = t] \in Call
<1>1. 0 \in 0 .. MaxExecs /\ 0 \in 0 .. Attempts
  BY ToolBounds
<1> QED
  BY <1>1 DEF NoCall, Call

LEMMA BreakerTypes ==
  ASSUME NEW b \in Breaker
  PROVE  Checked(b) \in Breaker /\ \A outcome : Told(b, outcome) \in Breaker
<1>1. Checked(b) \in Breaker
  BY DEF Checked, Breaker
<1>2. Succeeded(b) \in Breaker
  BY DEF Succeeded, Breaker
<1>3. Failed(b) \in Breaker
  <2> DEFINE counted == [b EXCEPT !.fails = @ + 1]
  <2>1. counted \in Breaker
    BY DEF Breaker
  <2>2. [counted EXCEPT !.state = "open", !.cooled = FALSE, !.probing = FALSE] \in Breaker
    BY <2>1 DEF Breaker
  <2>3. [counted EXCEPT !.state = "open", !.cooled = FALSE] \in Breaker
    BY <2>1 DEF Breaker
  <2> QED BY <2>1, <2>2, <2>3 DEF Failed
<1>4. \A outcome : Told(b, outcome) \in Breaker
  BY <1>2, <1>3 DEF Told
<1> QED
  BY <1>1, <1>4

(* A try of its tool keeps the count of a call.                             *)
LEMMA ExecuteKeeps ==
  ASSUME ToolInv, NEW c \in Calls, call[c].stage # "idle", NEW attempt \in 1 .. Attempts,
         NEW probe \in BOOLEAN, Execute(c, attempt, probe), breaker' \in [Tools -> Breaker],
         tries[c][call[c].tool] + 1 = attempt
  PROVE  ToolInv'
<1> DEFINE t == call[c].tool
           new == [call[c] EXCEPT !.stage = "waiting", !.exec = made + 1, !.attempt = attempt]
<1>1. /\ made < MaxExecs /\ made' = made + 1
      /\ execs' = execs \cup {[n |-> made + 1, tool |-> t, probe |-> probe]}
      /\ call' = [call EXCEPT ![c].stage = "waiting", ![c].exec = made + 1, ![c].attempt = attempt]
      /\ tries' = [tries EXCEPT ![c][t] = @ + 1]
  BY DEF Execute
<1>2. /\ call[c] \in Call /\ t \in Tools /\ tries[c] \in [Tools -> Nat] /\ call \in [Calls -> Call]
      /\ tries \in [Calls -> [Tools -> Nat]] /\ ChainIsFresh(c)
  BY DEF ToolInv, ToolTypeOK, ChainIsFresh
<1>3. made + 1 \in 1 .. MaxExecs /\ made + 1 \in 0 .. MaxExecs /\ attempt \in 0 .. Attempts
  BY <1>1, ToolBounds DEF ToolInv, ToolTypeOK
<1>4. /\ new \in Call /\ new.stage = "waiting" /\ new.tool = t /\ new.attempt = attempt
      /\ new.chain = call[c].chain
  BY <1>2, <1>3 DEF Call
<1>5. call' = [call EXCEPT ![c] = new]
  BY <1>1
<1>6. tries' = [tries EXCEPT ![c] = [tries[c] EXCEPT ![t] = attempt]]
  BY <1>1
<1> HIDE DEF new
<1>7. /\ tries' \in [Calls -> [Tools -> Nat]] /\ tries'[c][t] = attempt
      /\ \A u \in Tools \ {t} : tries'[c][u] = tries[c][u]
      /\ \A d \in Calls \ {c} : tries'[d] = tries[d]
  BY <1>2, <1>3, <1>6
<1>8. call'[c] = new /\ call' \in [Calls -> Call] /\ \A d \in Calls \ {c} : call'[d] = call[d]
  BY <1>2, <1>4, <1>5
<1>9. ToolTypeOK'
  <2>1. [n |-> made + 1, tool |-> t, probe |-> probe] \in Exec
    BY <1>2, <1>3 DEF Exec
  <2> QED BY <1>1, <1>3, <1>7, <1>8, <2>1 DEF ToolInv, ToolTypeOK
<1>10. TriesAreBounded'
  <2>1. attempt <= Attempts
    BY ToolBounds
  <2> QED BY <1>7, <2>1 DEF ToolInv, TriesAreBounded
<1>11. \A d \in Calls : ChainIsFresh(d)'
  <2>1. ChainIsFresh(c)'
    BY <1>2, <1>4, <1>7, <1>8 DEF ChainIsFresh
  <2>2. \A d \in Calls \ {c} : ChainIsFresh(d)'
    BY <1>7, <1>8 DEF ToolInv, ChainIsFresh
  <2> QED BY <2>1, <2>2
<1> QED
  BY <1>9, <1>10, <1>11 DEF ToolInv

(* What a call turns into keeps the count, if it tries nothing.             *)
LEMMA CallMoves ==
  ASSUME ToolInv, NEW c \in Calls, NEW new \in Call, call' = [call EXCEPT ![c] = new],
         breaker' \in [Tools -> Breaker], execs' \subseteq Exec, made' = made,
         \/ tries' = tries
         \/ tries' = [tries EXCEPT ![c] = NeverTried],
         \/ new.stage = "idle"
         \/ /\ new.stage = "gate" /\ tries'[c] = NeverTried /\ new.tool \in Tools
         \/ /\ new.stage = call[c].stage \/ new.stage = "settle"
            /\ new.tool = call[c].tool /\ new.chain = call[c].chain /\ new.attempt = call[c].attempt
            /\ call[c].stage # "idle" /\ tries' = tries
         \/ /\ new.stage = "backoff" /\ call[c].stage = "waiting" /\ new.attempt < Attempts
            /\ new.tool = call[c].tool /\ new.chain = call[c].chain /\ new.attempt = call[c].attempt
            /\ tries' = tries
         \/ /\ new.stage = "gate" /\ call[c].stage = "settle" /\ tries' = tries
            /\ new.chain = call[c].chain \cup {call[c].tool} /\ new.tool \in Tools \ new.chain
  PROVE  ToolInv'
<1>1. /\ call[c] \in Call /\ call \in [Calls -> Call] /\ tries \in [Calls -> [Tools -> Nat]]
      /\ ChainIsFresh(c)
  BY DEF ToolInv, ToolTypeOK
<1>2. call'[c] = new /\ call' \in [Calls -> Call] /\ \A d \in Calls \ {c} : call'[d] = call[d]
  BY <1>1
<1>3. NeverTried \in [Tools -> Nat] /\ \A t \in Tools : NeverTried[t] = 0
  BY DEF NeverTried
<1>4. /\ tries' \in [Calls -> [Tools -> Nat]] /\ \A d \in Calls \ {c} : tries'[d] = tries[d]
      /\ tries'[c] = tries[c] \/ tries'[c] = NeverTried
  BY <1>1, <1>3
<1>5. ToolTypeOK'
  BY <1>2, <1>4 DEF ToolInv, ToolTypeOK
<1>6. TriesAreBounded'
  BY <1>3, <1>4, ToolBounds DEF ToolInv, TriesAreBounded
<1>7. ChainIsFresh(c)'
  BY <1>1, <1>2, <1>3, <1>4 DEF ChainIsFresh
<1>8. \A d \in Calls \ {c} : ChainIsFresh(d)'
  BY <1>2, <1>4 DEF ToolInv, ChainIsFresh
<1> QED
  BY <1>5, <1>6, <1>7, <1>8 DEF ToolInv

LEMMA AdmitKeeps ==
  ASSUME ToolInv, NEW c \in Calls, Admit(c)
  PROVE  ToolInv'
<1> DEFINE t == call[c].tool
<1>1. /\ call[c].stage = "gate" /\ breaker' = [breaker EXCEPT ![t] = Checked(@)]
      /\ IF call[c].cut
         THEN /\ call' = [call EXCEPT ![c].stage = "settle"]
              /\ UNCHANGED <<execs, made, tries>>
         ELSE Execute(c, 1, breaker[t].state # "closed")
  BY DEF Admit
<1>2. call[c] \in Call /\ t \in Tools /\ tries[c][t] = 0
  BY <1>1 DEF ToolInv, ToolTypeOK, ChainIsFresh
<1>3. breaker' \in [Tools -> Breaker]
  BY <1>1, <1>2, BreakerTypes DEF ToolInv, ToolTypeOK
<1>4. CASE call[c].cut
  <2> DEFINE new == [call[c] EXCEPT !.stage = "settle"]
  <2>1. /\ new \in Call /\ new.stage = "settle" /\ new.tool = t /\ new.chain = call[c].chain
        /\ new.attempt = call[c].attempt
    BY <1>2 DEF Call
  <2>2. call' = [call EXCEPT ![c] = new] /\ execs' \subseteq Exec /\ made' = made /\ tries' = tries
    BY <1>1, <1>4 DEF ToolInv, ToolTypeOK
  <2> HIDE DEF new
  <2> QED BY <1>1, <1>3, <2>1, <2>2, CallMoves
<1>5. CASE ~call[c].cut
  <2>1. Execute(c, 1, breaker[t].state # "closed") /\ 1 \in 1 .. Attempts /\ tries[c][t] + 1 = 1
    BY <1>1, <1>2, <1>5, ToolBounds
  <2>2. (breaker[t].state # "closed") \in BOOLEAN
    OBVIOUS
  <2> QED BY <1>1, <1>3, <2>1, <2>2, ExecuteKeeps
<1> QED
  BY <1>4, <1>5

LEMMA RetryKeeps ==
  ASSUME ToolInv, NEW c \in Calls, Retry(c)
  PROVE  ToolInv'
<1>1. /\ call[c].stage = "backoff" /\ Execute(c, call[c].attempt + 1, FALSE) /\ breaker' = breaker
  BY DEF Retry
<1>2. /\ call[c].attempt \in 0 .. Attempts /\ call[c].attempt < Attempts
      /\ tries[c][call[c].tool] = call[c].attempt
  BY <1>1 DEF ToolInv, ToolTypeOK, ChainIsFresh, Call
<1>3. call[c].attempt + 1 \in 1 .. Attempts /\ breaker' \in [Tools -> Breaker]
  BY <1>1, <1>2, ToolBounds DEF ToolInv, ToolTypeOK
<1> QED
  BY <1>1, <1>2, <1>3, ExecuteKeeps

(* An execution that ends may bring its call back for another try, as long  *)
(* as there is one left.                                                    *)
LEMMA EndsKeeps ==
  ASSUME ToolInv, NEW e \in execs, NEW outcome, Ends(e, outcome)
  PROVE  ToolInv'
<1>1. /\ execs' \subseteq execs /\ breaker' = [breaker EXCEPT ![e.tool] = Told(@, outcome)]
      /\ UNCHANGED <<made, tries>>
  BY DEF Ends
<1>2. /\ call' = [c \in Calls |-> call'[c]]
      /\ \A c \in Calls :
           \/ call'[c] = call[c]
           \/ /\ call[c].stage = "waiting"
              /\ \/ MayRetry(c) /\ call'[c] = [call[c] EXCEPT !.stage = "backoff", !.exec = 0]
                 \/ call'[c] = [call[c] EXCEPT !.stage = "settle", !.exec = 0, !.handOn = outcome # "ok"]
  BY DEF Ends
<1>3. breaker' \in [Tools -> Breaker]
  BY <1>1, BreakerTypes DEF ToolInv, ToolTypeOK
<1>4. \A c \in Calls : call'[c] \in Call /\ ChainIsFresh(c)'
  <2> SUFFICES ASSUME NEW c \in Calls PROVE call'[c] \in Call /\ ChainIsFresh(c)'
    OBVIOUS
  <2>1. call[c] \in Call /\ ChainIsFresh(c)
    BY DEF ToolInv, ToolTypeOK
  <2>2. CASE call'[c] = call[c]
    BY <1>1, <2>1, <2>2 DEF ChainIsFresh
  <2>3. CASE /\ call[c].stage = "waiting" /\ MayRetry(c)
             /\ call'[c] = [call[c] EXCEPT !.stage = "backoff", !.exec = 0]
    <3>1. /\ call'[c] \in Call /\ call'[c].stage = "backoff" /\ call'[c].tool = call[c].tool
          /\ call'[c].chain = call[c].chain /\ call'[c].attempt = call[c].attempt
      <4>1. call'[c] \in Call
        BY <2>1, <2>3, CallsKeepTypes
      <4> QED BY <2>1, <2>3, <4>1 DEF Call
    <3> QED BY <1>1, <2>1, <2>3, <3>1 DEF ChainIsFresh, MayRetry
  <2>4. CASE /\ call[c].stage = "waiting"
             /\ call'[c] = [call[c] EXCEPT !.stage = "settle", !.exec = 0, !.handOn = outcome # "ok"]
    <3>1. /\ call'[c] \in Call /\ call'[c].stage = "settle" /\ call'[c].tool = call[c].tool
          /\ call'[c].chain = call[c].chain /\ call'[c].attempt = call[c].attempt
      <4>1. (outcome # "ok") \in BOOLEAN
        OBVIOUS
      <4>2. call'[c] \in Call
        BY <2>1, <2>4, <4>1, CallsKeepTypes
      <4> QED BY <2>1, <2>4, <4>2 DEF Call
    <3> QED BY <1>1, <2>1, <2>4, <3>1 DEF ChainIsFresh
  <2> QED BY <1>2, <2>2, <2>3, <2>4
<1>5. ToolTypeOK'
  BY <1>1, <1>2, <1>3, <1>4 DEF ToolInv, ToolTypeOK
<1> QED
  BY <1>1, <1>4, <1>5 DEF ToolInv, TriesAreBounded

LEMMA SettleKeeps ==
  ASSUME ToolInv, NEW c \in Calls, Settle(c)
  PROVE  ToolInv'
<1> DEFINE fb    == Fallback[call[c].tool]
           chain == call[c].chain \cup {call[c].tool}
           new   == [NoCall EXCEPT !.stage = "gate", !.tool = fb, !.chain = chain]
<1>1. /\ call[c].stage = "settle" /\ UNCHANGED <<breaker, execs, made, tries>>
      /\ \/ fb # NoTool /\ fb \notin chain /\ call' = [call EXCEPT ![c] = new]
         \/ call' = [call EXCEPT ![c] = NoCall]
  BY DEF Settle, Return
<1>2. /\ call[c].tool \in Tools /\ call[c].chain \subseteq Tools
      /\ breaker' \in [Tools -> Breaker] /\ execs' \subseteq Exec
  BY <1>1 DEF ToolInv, ToolTypeOK, ChainIsFresh, Call
<1>3. NoCall \in Call /\ NoCall.stage = "idle"
  BY ToolBounds DEF NoCall, Call
<1>4. CASE fb # NoTool /\ fb \notin chain /\ call' = [call EXCEPT ![c] = new]
  <2>1. fb \in Tools
    BY <1>2, <1>4, ToolAssumption
  <2>2. new \in Call /\ new.stage = "gate" /\ new.tool = fb /\ new.chain = chain
    BY <1>2, <2>1, CallsStart DEF NoCall
  <2> HIDE DEF new
  <2> QED BY <1>1, <1>2, <1>4, <2>1, <2>2, CallMoves
<1>5. CASE call' = [call EXCEPT ![c] = NoCall]
  BY <1>1, <1>2, <1>3, <1>5, CallMoves
<1> QED
  BY <1>1, <1>4, <1>5

(* Beginning, returning, being stopped, timing out and giving up between    *)
(* two tries.                                                               *)
LEMMA OtherMovesKeep ==
  ASSUME ToolInv, NEW c \in Calls,
         \/ \E t \in Tools : Begin(c, t)
         \/ Blocked(c) \/ ShortCircuit(c) \/ Stop(c) \/ TimeOut(c) \/ Abandon(c)
  PROVE  ToolInv'
<1>1. /\ breaker' = breaker /\ execs' = execs /\ made' = made
      /\ breaker' \in [Tools -> Breaker] /\ execs' \subseteq Exec
  BY DEF Begin, Blocked, ShortCircuit, Stop, TimeOut, Cut, Abandon, ToolInv, ToolTypeOK
<1>2. call[c] \in Call /\ tries \in [Calls -> [Tools -> Nat]]
  BY DEF ToolInv, ToolTypeOK
<1>3. ASSUME NEW t \in Tools, Begin(c, t) PROVE ToolInv'
  <2> DEFINE new == [NoCall EXCEPT !.stage = "gate", !.tool = t]
  <2>1. call' = [call EXCEPT ![c] = new] /\ tries' = [tries EXCEPT ![c] = NeverTried]
    BY <1>3 DEF Begin
  <2>2. new \in Call /\ new.stage = "gate" /\ new.tool = t
    BY CallsStart DEF NoCall
  <2>3. tries'[c] = NeverTried
    BY <1>2, <2>1
  <2> HIDE DEF new
  <2> QED BY <1>1, <2>1, <2>2, <2>3, CallMoves
<1>4. CASE Blocked(c) \/ ShortCircuit(c)
  <2>1. call' = [call EXCEPT ![c] = NoCall] /\ tries' = tries
    BY <1>4 DEF Blocked, ShortCircuit, Return
  <2>2. NoCall \in Call /\ NoCall.stage = "idle"
    BY ToolBounds DEF NoCall, Call
  <2> QED BY <1>1, <2>1, <2>2, CallMoves
<1>5. CASE Stop(c) \/ TimeOut(c) \/ Abandon(c)
  <2>1. /\ call[c].stage # "idle" /\ tries' = tries
        /\ \/ call' = [call EXCEPT ![c].stage = "settle", ![c].exec = 0]
           \/ call' = [call EXCEPT ![c].stage = "settle"]
           \/ call' = [call EXCEPT ![c].cut = TRUE]
    BY <1>5 DEF Stop, TimeOut, Cut, Abandon
  <2>2. PICK new : /\ call' = [call EXCEPT ![c] = new]
                   /\ new \in {[call[c] EXCEPT !.stage = "settle", !.exec = 0],
                               [call[c] EXCEPT !.stage = "settle"], [call[c] EXCEPT !.cut = TRUE]}
    BY <2>1
  <2>3. /\ new \in Call /\ new.stage \in {call[c].stage, "settle"} /\ new.tool = call[c].tool
        /\ new.chain = call[c].chain /\ new.attempt = call[c].attempt
    <3>1. CASE new = [call[c] EXCEPT !.stage = "settle", !.exec = 0]
      <4>1. new \in Call
        BY <1>2, <3>1, CallsKeepTypes
      <4> QED BY <1>2, <3>1, <4>1 DEF Call
    <3>2. CASE new = [call[c] EXCEPT !.stage = "settle"]
      <4>1. new \in Call
        BY <1>2, <3>2, CallsKeepTypes
      <4> QED BY <1>2, <3>2, <4>1 DEF Call
    <3>3. CASE new = [call[c] EXCEPT !.cut = TRUE]
      <4>1. new \in Call
        BY <1>2, <3>3, CallsKeepTypes
      <4> QED BY <1>2, <3>3, <4>1 DEF Call
    <3> QED BY <2>2, <3>1, <3>2, <3>3
  <2> QED BY <1>1, <2>1, <2>2, <2>3, CallMoves
<1> QED
  BY <1>3, <1>4, <1>5

LEMMA TimeKeepsTries ==
  ASSUME ToolInv, NEW t \in Tools, Window(t) \/ Cool(t)
  PROVE  ToolInv'
<1>1. /\ UNCHANGED <<call, execs, made, tries>>
      /\ \/ \E left \in 0 .. breaker[t].fails - 1 : breaker' = [breaker EXCEPT ![t].fails = left]
         \/ breaker' = [breaker EXCEPT ![t].cooled = TRUE]
  BY DEF Window, Cool
<1>2. breaker \in [Tools -> Breaker] /\ breaker[t].fails \in Nat
  BY DEF ToolInv, ToolTypeOK, Breaker
<1>3. breaker' \in [Tools -> Breaker]
  <2>1. CASE breaker' = [breaker EXCEPT ![t].cooled = TRUE]
    <3>1. [breaker[t] EXCEPT !.cooled = TRUE] \in Breaker
      BY <1>2 DEF Breaker
    <3> QED BY <1>2, <2>1, <3>1
  <2>2. ASSUME NEW left \in 0 .. breaker[t].fails - 1, breaker' = [breaker EXCEPT ![t].fails = left]
        PROVE  breaker' \in [Tools -> Breaker]
    <3>1. left \in Nat
      BY <1>2
    <3>2. [breaker[t] EXCEPT !.fails = left] \in Breaker
      BY <1>2, <3>1 DEF Breaker
    <3> QED BY <1>2, <2>2, <3>2
  <2> QED BY <1>1, <2>1, <2>2
<1> QED
  BY <1>1, <1>3 DEF ToolInv, ToolTypeOK, TriesAreBounded, ChainIsFresh

LEMMA ToolInvInit == ToolInit => ToolInv
<1> SUFFICES ASSUME ToolInit PROVE ToolInv
  OBVIOUS
<1>1. NoCall \in Call /\ NoCall.stage = "idle"
  BY ToolBounds DEF NoCall, Call
<1>2. ToolTypeOK
  BY <1>1, ToolBounds DEF ToolInit, ToolTypeOK, Breaker, NeverTried
<1>3. TriesAreBounded
  BY ToolBounds DEF ToolInit, TriesAreBounded, NeverTried
<1>4. \A c \in Calls : ChainIsFresh(c)
  BY <1>1 DEF ToolInit, ChainIsFresh
<1> QED
  BY <1>2, <1>3, <1>4 DEF ToolInv

LEMMA ToolInvNext == ToolInv /\ [ToolNext]_toolVars => ToolInv'
<1> SUFFICES ASSUME ToolInv, [ToolNext]_toolVars PROVE ToolInv'
  OBVIOUS
<1>1. ASSUME NEW c \in Calls,
             \/ \E t \in Tools : Begin(c, t)
             \/ Blocked(c) \/ ShortCircuit(c) \/ Stop(c) \/ TimeOut(c) \/ Abandon(c)
      PROVE  ToolInv'
  BY <1>1, OtherMovesKeep
<1>2. ASSUME NEW c \in Calls, Admit(c) \/ Retry(c) \/ Settle(c) PROVE ToolInv'
  BY <1>2, AdmitKeeps, RetryKeeps, SettleKeeps
<1>3. ASSUME NEW e \in execs, NEW outcome, Ends(e, outcome) PROVE ToolInv'
  BY <1>3, EndsKeeps
<1>4. ASSUME NEW t \in Tools, Window(t) \/ Cool(t) PROVE ToolInv'
  BY <1>4, TimeKeepsTries
<1>5. CASE UNCHANGED toolVars
  BY <1>5 DEF toolVars, ToolInv, ToolTypeOK, TriesAreBounded, ChainIsFresh
<1> QED
  BY <1>1, <1>2, <1>3, <1>4, <1>5 DEF ToolNext

(* However calls overlap, are stopped, time out, retry and are handed on    *)
(* through fallbacks that may lead back, a call tries no tool more often    *)
(* than its policy says: the chain of the tools that failed travels with    *)
(* the call (ToolRegistry.#settle, tools/registry.ts), and every try is     *)
(* counted against the tool it is of.                                       *)
THEOREM TriesStayBounded == ToolSpec => []TriesAreBounded
<1>1. ToolInv => TriesAreBounded
  BY DEF ToolInv
<1> QED
  BY <1>1, ToolInvInit, ToolInvNext, PTL DEF ToolSpec
=============================================================================
