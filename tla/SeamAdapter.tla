----------------------------- MODULE SeamAdapter -----------------------------
(***************************************************************************)
(* The hosts behind one seam (SeamAdapter in CinderpawAgent/src/rsi/        *)
(* l4-modules/seam-adapter.ts, over the host handle of                      *)
(* module-host-client.ts).  A request reads which module serves the seam    *)
(* and then awaits, in turn, a host of that module and its answer, while a  *)
(* promotion repoints the seam, hosts die and other requests want other     *)
(* hosts.  A spawn is known by its number; `hostModuleId' and               *)
(* `spawningModuleId' are written together with `host' and `spawning' and   *)
(* are read off the spawn.                                                  *)
(***************************************************************************)
EXTENDS Naturals, FiniteSets, Sequences

CONSTANTS
  SeamMods,      \* modules that may serve the seam
  NoModule,      \* the builtin serves
  Askers,        \* requests that can be under way at a time
  SeamStrikes,   \* failures in the window that quarantine, maxStrikes
  MaxSpawns,     \* bound: spawns
  MaxRepoints    \* bound: decisions that repoint the seam

ASSUME SeamAssumption == /\ NoModule \notin SeamMods /\ SeamStrikes \in Nat \ {0}
                         /\ MaxSpawns \in Nat /\ MaxRepoints \in Nat

VARIABLES
  active,      \* registry.activeFor(seam)
  spawns,      \* the module of each spawn so far, in order
  opening,     \* spawns that have not resolved
  running,     \* hosts that are alive, by their spawn
  host,        \* the adapter's host, 0 for none
  spawning,    \* the spawn the adapter knows to be under way, 0 for none
  behind,      \* the requests that wait for each spawn to be over, oldest first
  ask,         \* each request
  failures,    \* strikes in the window
  cellDown,    \* there was no cell, and the minute is not over
  repoints

seamVars == <<active, spawns, opening, running, host, spawning, behind, ask, failures, cellDown,
              repoints>>

Numbers == 0 .. MaxSpawns
NoAsk == [stage |-> "idle", of |-> NoModule, spawn |-> 0]

Behind(s, n) == ask[s].stage = "behind" /\ ask[s].spawn = n

SeamTypeOK ==
  /\ active \in SeamMods \cup {NoModule}
  /\ spawns \in Seq(SeamMods) /\ Len(spawns) \in Numbers
  /\ opening \subseteq 1 .. Len(spawns) /\ running \subseteq 1 .. Len(spawns) \ opening
  /\ host \in 0 .. Len(spawns) \ opening /\ spawning \in opening \cup {0}
  /\ ask \in [Askers -> [stage : {"idle", "behind", "joined", "sent"},
                         of : SeamMods \cup {NoModule}, spawn : Numbers]]
  /\ behind \in [1 .. MaxSpawns -> Seq(Askers)]
  /\ \A n \in 1 .. MaxSpawns :
       {behind[n][i] : i \in 1 .. Len(behind[n])} = {s \in Askers : Behind(s, n)}
  /\ failures \in 0 .. SeamStrikes - 1 /\ cellDown \in BOOLEAN /\ repoints \in 0 .. MaxRepoints

SeamInit ==
  /\ active = NoModule /\ spawns = <<>> /\ opening = {} /\ running = {}
  /\ host = 0 /\ spawning = 0 /\ behind = [n \in 1 .. MaxSpawns |-> <<>>] /\ ask = [s \in Askers |-> NoAsk]
  /\ failures = 0 /\ cellDown = FALSE /\ repoints = 0

-----------------------------------------------------------------------------
(* strike() `n' times, with what else the step did to the adapter's host.   *)
StrikeTimes(n, h, up) ==
  IF failures + n >= SeamStrikes
  THEN /\ failures' = (failures + n) % SeamStrikes
       /\ host' = 0 /\ running' = up \ {h} /\ active' = NoModule
  ELSE failures' = failures + n /\ host' = h /\ running' = up /\ UNCHANGED active

-----------------------------------------------------------------------------
(* invoke().                                                                *)

Serves(m) == host \in running /\ spawns[host] = m
JoinsAny(m) == spawning # 0   \* mutant of Joins: any spawn under way is joined
Joins(m)  == spawning # 0 /\ spawns[spawning] = m

(* A spawn is left for whoever still waits.                                 *)
Room == Len(spawns) + Cardinality({s \in Askers : ask[s].stage = "behind"}) < MaxSpawns

StopsHost == host' = 0 /\ running' = running \ {host}

Invoke(s) ==
  /\ ask[s].stage = "idle" /\ Room
  /\ \/ /\ active = NoModule
        /\ StopsHost /\ UNCHANGED <<spawns, opening, spawning, behind, ask>>
     \/ /\ active # NoModule /\ ~cellDown /\ Serves(active)
        /\ ask' = [ask EXCEPT ![s] = [stage |-> "sent", of |-> active, spawn |-> host]]
        /\ UNCHANGED <<spawns, opening, running, host, spawning, behind>>
     \/ /\ active # NoModule /\ ~cellDown /\ ~Serves(active)
        /\ StopsHost
        /\ \/ /\ Joins(active)
              /\ ask' = [ask EXCEPT ![s] = [stage |-> "joined", of |-> active, spawn |-> spawning]]
              /\ UNCHANGED <<spawns, opening, spawning, behind>>
           \/ /\ ~Joins(active) /\ spawning # 0
              /\ ask' = [ask EXCEPT ![s] = [stage |-> "behind", of |-> active, spawn |-> spawning]]
              /\ behind' = [behind EXCEPT ![spawning] = Append(@, s)]
              /\ UNCHANGED <<spawns, opening, spawning>>
           \/ /\ spawning = 0
              /\ spawns' = Append(spawns, active)
              /\ opening' = opening \cup {Len(spawns')} /\ spawning' = Len(spawns')
              /\ ask' = [ask EXCEPT ![s] = [stage |-> "joined", of |-> active, spawn |-> Len(spawns')]]
              /\ UNCHANGED behind
  /\ UNCHANGED <<active, failures, cellDown, repoints>>

(* A spawn resolves.  Every request that awaits it goes on before anything  *)
(* else happens: those that joined it take its host, or the builtin and a   *)
(* strike, and then those that waited for it to be over stop the host and   *)
(* each start a spawn of their own.                                         *)
SpawnResolves(n, outcome) ==
  LET joined  == {s \in Askers : ask[s].stage = "joined" /\ ask[s].spawn = n}
      after   == behind[n]
      mine(s) == Len(spawns) + (CHOOSE i \in 1 .. Len(after) : after[i] = s)
      left    == IF outcome = "ok" THEN running \cup {n} ELSE running
      taken   == IF outcome = "ok" THEN n ELSE host
  IN /\ n \in opening
     /\ spawns' = spawns \o [i \in 1 .. Len(after) |-> ask[after[i]].of]
     /\ opening' = (opening \ {n}) \cup Len(spawns) + 1 .. Len(spawns')
     /\ spawning' = IF after = <<>> THEN 0 ELSE Len(spawns')
     /\ behind' = [behind EXCEPT ![n] = <<>>]
     /\ ask' = [s \in Askers |->
          CASE s \in joined /\ outcome = "ok" -> [ask[s] EXCEPT !.stage = "sent"]
            [] s \in joined /\ outcome # "ok" -> NoAsk
            [] Behind(s, n)                   -> [ask[s] EXCEPT !.stage = "joined", !.spawn = mine(s)]
            [] OTHER                          -> ask[s]]
     /\ cellDown' = (cellDown \/ outcome = "no cell")
     /\ LET blamed == IF outcome = "refused" /\ ~cellDown THEN Cardinality(joined) ELSE 0
        IN IF after = <<>> THEN StrikeTimes(blamed, taken, left) ELSE StrikeTimes(blamed, 0, left \ {taken})
     /\ UNCHANGED repoints

(* The host answers, or the request fails: an error, its timeout, or a host *)
(* that is gone.                                                            *)
Replied(s) ==
  /\ ask[s].stage = "sent" /\ ask[s].spawn \in running
  /\ ask' = [ask EXCEPT ![s] = NoAsk]
  /\ UNCHANGED <<active, spawns, opening, running, host, spawning, behind, failures, cellDown, repoints>>

Fail(s) ==
  /\ ask[s].stage = "sent"
  /\ ask' = [ask EXCEPT ![s] = NoAsk]
  /\ StrikeTimes(1, host, running)
  /\ UNCHANGED <<spawns, opening, spawning, behind, cellDown, repoints>>

(* A host exits, or is killed for its timeouts or its memory.               *)
HostDies(n) ==
  /\ n \in running /\ running' = running \ {n}
  /\ UNCHANGED <<active, spawns, opening, host, spawning, behind, ask, failures, cellDown, repoints>>

-----------------------------------------------------------------------------
Repoint(m) ==
  /\ repoints < MaxRepoints /\ repoints' = repoints + 1
  /\ active' = m
  /\ UNCHANGED <<spawns, opening, running, host, spawning, behind, ask, failures, cellDown>>

SeamTimePasses ==
  /\ \/ failures > 0 /\ failures' = failures - 1 /\ UNCHANGED cellDown
     \/ cellDown /\ cellDown' = FALSE /\ UNCHANGED failures
  /\ UNCHANGED <<active, spawns, opening, running, host, spawning, behind, ask, repoints>>

SeamNext ==
  \/ \E s \in Askers : Invoke(s) \/ Replied(s) \/ Fail(s)
  \/ \E n \in 1 .. MaxSpawns : HostDies(n)
                               \/ \E o \in {"ok", "refused", "no cell"} : SpawnResolves(n, o)
  \/ \E m \in SeamMods \cup {NoModule} : Repoint(m)
  \/ SeamTimePasses

SeamSpec == SeamInit /\ [][SeamNext]_seamVars

-----------------------------------------------------------------------------
(* Properties.                                                              *)

(* A request is only ever served by the module it resolved, however the     *)
(* seam was repointed while it waited (seam-adapter.ts:120-125: a promotion *)
(* "appeared to happen and did not"); so the check after the spawn, "belt   *)
(* and braces", never has to discard a host.                                *)
ServedByItsModule ==
  \A s \in Askers : ask[s].stage \in {"joined", "sent"} => spawns[ask[s].spawn] = ask[s].of

(* "Starts one module host per active/evaluating module" (module-host-      *)
(* client.ts:4): no two hosts of one module are alive for the seam.         *)
OneHostPerModule == \A n, k \in running : spawns[n] = spawns[k] => n = k
=============================================================================
