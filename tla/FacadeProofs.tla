---------------------------- MODULE FacadeProofs ----------------------------
(***************************************************************************)
(* For any number of sessions, generations and windows.  The registry:     *)
(* resources are released once, are held exactly while their generation is *)
(* live, and the registry implements the leases.  The facade over it keeps *)
(* these promises, its snapshot is true, and the host's two tables of      *)
(* windows agree.                                                          *)
(***************************************************************************)
EXTENDS Facade, FiniteSetTheorems, TLAPS

\* Numbers not issued yet are unused, and no two sessions share a generation.
Numbering ==
  /\ \A s \in Sessions : sessions[s].generation < nextGeneration
  /\ \A s \in Sessions : s >= nextSession => sessions[s] = Absent
  /\ \A s, t \in Sessions :
       sessions[s].generation = sessions[t].generation /\ s # t
         => sessions[s].generation = 0
  /\ \A g \in Generations : g >= nextGeneration => acquired[g] = 0 /\ released[g] = 0

\* A session is cleaned when it leaves the live states, and only then.
CleanedWhenNotLive ==
  \A s \in Sessions : sessions[s].cleaned <=> sessions[s].state \notin Live

\* The two directions of HeldWhileLive, the first as an equation.
LiveHolds ==
  \A s \in Sessions :
    sessions[s].state \in Live =>
      acquired[sessions[s].generation] = 1 /\ released[sessions[s].generation] = 0

HeldBySession ==
  \A g \in Generations :
    released[g] < acquired[g] => \E s \in Sessions : Holds(s, g)

RegistryInv ==
  TypeOK /\ Numbering /\ CleanedWhenNotLive /\ ReleasedOnce /\ LiveHolds /\ HeldBySession

\* The registry starts empty.
LEMMA RegistryInit == Init => RegistryInv
<1> SUFFICES ASSUME Init PROVE RegistryInv
  OBVIOUS
<1> USE DEF Init
<1>1. TypeOK
  <2>1. sessions \in [Sessions -> Entry \cup {Absent}]
    BY DEF Absent
  <2>2. nextSession \in 1 .. LastSession /\ nextGeneration \in 1 .. LastGeneration
    BY IdentityAssumption
  <2> QED
    BY <2>1, <2>2 DEF TypeOK
<1>2. Numbering
  BY DEF Numbering, Absent, Sessions, Generations
<1>3. CleanedWhenNotLive /\ LiveHolds
  BY DEF CleanedWhenNotLive, LiveHolds, Live, Absent
<1>4. ReleasedOnce /\ HeldBySession
  BY DEF ReleasedOnce, HeldBySession
<1> QED
  BY <1>1, <1>2, <1>3, <1>4 DEF RegistryInv

\* A new generation is put in the place of an entry that holds nothing.
LEMMA InstallStep ==
  ASSUME NEW s \in Sessions, RegistryInv, CanIssue,
         sessions' = [sessions EXCEPT ![s] = Prepared(nextGeneration)],
         nextGeneration' = nextGeneration + 1,
         nextSession' \in 1 .. LastSession,
         nextSession' >= nextSession, s < nextSession',
         acquired' = [acquired EXCEPT ![nextGeneration] = @ + 1],
         UNCHANGED dropped,
         ended' \subseteq Generations, closed' \subseteq Generations,
         \/ /\ sessions[s].state \notin Live
            /\ UNCHANGED released
         \/ /\ sessions[s].state \in Live
            /\ released' = [released EXCEPT ![sessions[s].generation] = @ + 1]
  PROVE  RegistryInv'
<1> USE DEF RegistryInv
<1> DEFINE g == nextGeneration
           old == sessions[s].generation
<1>1. /\ g \in Generations /\ nextGeneration' \in 1 .. LastGeneration
      /\ Prepared(g) \in Entry
      /\ Prepared(g).generation = g /\ Prepared(g).state = "WaitingForRenderer"
      /\ Prepared(g).cleaned = FALSE
  BY IdentityAssumption DEF CanIssue, Generations, TypeOK, Prepared, Entry, State, EndpointStatus
<1>2. \A t \in Sessions : /\ t # s => sessions'[t] = sessions[t]
                          /\ sessions'[s] = Prepared(g)
  BY DEF TypeOK
<1>3. /\ \A h \in Generations : h # g => acquired'[h] = acquired[h]
      /\ acquired'[g] = 1 /\ acquired[g] = 0 /\ released[g] = 0
  BY <1>1 DEF TypeOK, Numbering
<1>4. /\ \A t \in Sessions : sessions[t].state \in Live => sessions[t].generation \in Generations
      /\ \A t \in Sessions : sessions[t].generation \in Nat /\ sessions[t].generation < g
  BY DEF TypeOK, Entry, Absent, Live, Numbering, Generations
<1>5. /\ \A h \in Generations : h # old => released'[h] = released[h]
      /\ sessions[s].state \in Live => released'[old] = 1 /\ acquired[old] = 1
      /\ sessions[s].state \notin Live => released' = released
  BY <1>4 DEF TypeOK, LiveHolds
<1>6. TypeOK'
  <2>1. sessions' \in [Sessions -> Entry \cup {Absent}]
    BY <1>1 DEF TypeOK
  <2>2. acquired' \in [Generations -> Nat]
    BY <1>1 DEF TypeOK
  <2>3. CASE sessions[s].state \in Live
    <3>1. released' = [released EXCEPT ![old] = @ + 1] /\ old \in Generations
      BY <2>3, <1>4
    <3>2. released' \in [Generations -> Nat]
      BY <3>1 DEF TypeOK
    <3> QED
      BY <1>1, <2>1, <2>2, <3>2 DEF TypeOK
  <2>4. CASE sessions[s].state \notin Live
    BY <1>1, <1>5, <2>1, <2>2, <2>4 DEF TypeOK
  <2> QED
    BY <2>3, <2>4
<1>7. Numbering'
  <2>1. \A t \in Sessions : sessions'[t].generation < nextGeneration'
    BY <1>1, <1>2, <1>4 DEF TypeOK
  <2>2. \A t \in Sessions : t >= nextSession' => sessions'[t] = Absent
    BY <1>2 DEF Numbering, TypeOK, Sessions
  <2>3. \A t, u \in Sessions :
          sessions'[t].generation = sessions'[u].generation /\ t # u
            => sessions'[t].generation = 0
    BY <1>1, <1>2, <1>4 DEF Numbering
  <2>4. \A h \in Generations : h >= nextGeneration' => acquired'[h] = 0 /\ released'[h] = 0
    BY <1>1, <1>3, <1>4, <1>5 DEF Numbering, TypeOK, Generations
  <2> QED
    BY <2>1, <2>2, <2>3, <2>4 DEF Numbering
<1>8. CleanedWhenNotLive'
  BY <1>1, <1>2 DEF CleanedWhenNotLive, Live
<1>9. ReleasedOnce'
  BY <1>1, <1>3, <1>4, <1>5 DEF ReleasedOnce, TypeOK
<1>10. LiveHolds'
  <2> SUFFICES ASSUME NEW t \in Sessions, sessions'[t].state \in Live
               PROVE  /\ acquired'[sessions'[t].generation] = 1
                      /\ released'[sessions'[t].generation] = 0
    BY DEF LiveHolds
  <2>1. CASE t = s
    BY <2>1, <1>1, <1>2, <1>3, <1>4, <1>5
  <2>2. CASE t # s
    <3>1. /\ sessions'[t] = sessions[t] /\ sessions[t].generation \in Generations
          /\ sessions[t].generation # g /\ sessions[t].generation # old
      BY <2>2, <1>2, <1>4 DEF Numbering, Generations
    <3> QED
      BY <3>1, <1>3, <1>5 DEF LiveHolds
  <2> QED
    BY <2>1, <2>2
<1>11. HeldBySession'
  <2> SUFFICES ASSUME NEW h \in Generations, released'[h] < acquired'[h]
               PROVE  \E t \in Sessions : sessions'[t].generation = h /\ sessions'[t].state \in Live
    BY DEF HeldBySession, Holds
  <2>1. CASE h = g
    BY <2>1, <1>1, <1>2 DEF Live
  <2>2. CASE h # g
    <3>1. acquired'[h] = acquired[h] /\ acquired[h] \in Nat /\ released[h] \in Nat
      BY <2>2, <1>3 DEF TypeOK
    <3>2. ~(sessions[s].state \in Live /\ h = old)
      BY <3>1, <1>5
    <3>3. released[h] < acquired[h]
      BY <3>1, <3>2, <1>5
    <3>4. PICK t \in Sessions : Holds(t, h)
      BY <3>3 DEF HeldBySession
    <3>5. t # s
      BY <3>2, <3>4 DEF Holds
    <3> QED
      BY <3>4, <3>5, <1>2 DEF Holds
  <2> QED
    BY <2>1, <2>2
<1> QED
  BY <1>6, <1>7, <1>8, <1>9, <1>10, <1>11

\* An entry ends, or stays ended; a number may be spent on a failed preparation.
LEMMA EndStep ==
  ASSUME NEW s \in Sessions, NEW e \in Entry \cup {Absent}, NEW settled, RegistryInv,
         e.generation = sessions[s].generation, e.cleaned, e.state \notin Live,
         sessions' = [sessions EXCEPT ![s] = e],
         \/ /\ sessions[s].state \notin Live
            /\ settled = released
         \/ /\ sessions[s].state \in Live
            /\ settled = [released EXCEPT ![sessions[s].generation] = @ + 1],
         \/ /\ UNCHANGED <<nextGeneration, acquired>>
            /\ released' = settled
         \/ /\ CanIssue
            /\ nextGeneration' = nextGeneration + 1
            /\ acquired' = [acquired EXCEPT ![nextGeneration] = @ + 1]
            /\ released' = [settled EXCEPT ![nextGeneration] = @ + 1],
         nextSession' \in 1 .. LastSession,
         nextSession' >= nextSession,
         UNCHANGED dropped,
         ended' \subseteq Generations, closed' \subseteq Generations
  PROVE  RegistryInv'
<1> USE DEF RegistryInv
<1> DEFINE g == nextGeneration
           old == sessions[s].generation
<1>1. \A t \in Sessions : /\ t # s => sessions'[t] = sessions[t]
                          /\ sessions'[s] = e
  BY DEF TypeOK
<1>2. /\ \A t \in Sessions : sessions[t].state \in Live => sessions[t].generation \in Generations
      /\ \A t \in Sessions : sessions[t].generation \in Nat /\ sessions[t].generation < g
  BY DEF TypeOK, Entry, Absent, Live, Numbering, Generations
<1>3. /\ settled \in [Generations -> Nat]
      /\ \A h \in Generations : h # old => settled[h] = released[h]
      /\ sessions[s].state \in Live => settled[old] = 1 /\ acquired[old] = 1
      /\ sessions[s].state \notin Live => settled = released
  <2>1. CASE sessions[s].state \in Live
    <3>1. settled = [released EXCEPT ![old] = @ + 1] /\ old \in Generations
      BY <2>1, <1>2
    <3>2. released[old] = 0 /\ acquired[old] = 1
      BY <2>1 DEF LiveHolds
    <3> QED
      BY <2>1, <3>1, <3>2 DEF TypeOK
  <2>2. CASE sessions[s].state \notin Live
    BY <2>2 DEF TypeOK
  <2> QED
    BY <2>1, <2>2
<1>4. /\ nextGeneration' \in 1 .. LastGeneration /\ nextGeneration' >= nextGeneration
      /\ acquired' \in [Generations -> Nat] /\ released' \in [Generations -> Nat]
      /\ \A h \in Generations : acquired'[h] - acquired[h] = released'[h] - settled[h]
      /\ \A h \in Generations : h # g => acquired'[h] = acquired[h] /\ released'[h] = settled[h]
      /\ g \in Generations /\ nextGeneration' = g => acquired'[g] = 0 /\ released'[g] = 0
      /\ g \in Generations => acquired'[g] = released'[g] /\ acquired'[g] <= 1
  <2>1. g \in Generations => acquired[g] = 0 /\ settled[g] = 0
    BY <1>2, <1>3 DEF Numbering, TypeOK
  <2>2. CASE UNCHANGED <<nextGeneration, acquired>> /\ released' = settled
    BY <2>1, <2>2, <1>3 DEF TypeOK
  <2>3. CASE /\ CanIssue
             /\ nextGeneration' = nextGeneration + 1
             /\ acquired' = [acquired EXCEPT ![nextGeneration] = @ + 1]
             /\ released' = [settled EXCEPT ![nextGeneration] = @ + 1]
    <3>1. g \in Generations /\ nextGeneration' \in 1 .. LastGeneration
      BY <2>3, IdentityAssumption DEF CanIssue, Generations, TypeOK
    <3> QED
      BY <2>1, <2>3, <3>1, <1>3 DEF TypeOK
  <2> QED
    BY <2>2, <2>3
<1>5. TypeOK'
  <2>1. sessions' \in [Sessions -> Entry \cup {Absent}]
    BY DEF TypeOK
  <2> QED
    BY <1>4, <2>1 DEF TypeOK
<1>6. Numbering'
  <2>1. \A t \in Sessions : sessions'[t].generation < nextGeneration'
    BY <1>1, <1>2, <1>4 DEF TypeOK
  <2>2. sessions[s] = Absent => e = Absent
    BY DEF Entry, Absent, Generations
  <2>3. \A t \in Sessions : t >= nextSession' => sessions'[t] = Absent
    BY <1>1, <2>2 DEF Numbering, TypeOK, Sessions
  <2>4. \A t, u \in Sessions :
          sessions'[t].generation = sessions'[u].generation /\ t # u
            => sessions'[t].generation = 0
    BY <1>1 DEF Numbering
  <2>5. \A h \in Generations : h >= nextGeneration' => acquired'[h] = 0 /\ released'[h] = 0
    <3> SUFFICES ASSUME NEW h \in Generations, h >= nextGeneration'
                 PROVE  acquired'[h] = 0 /\ released'[h] = 0
      OBVIOUS
    <3>1. CASE h = g
      BY <3>1, <1>4 DEF TypeOK
    <3>2. CASE h # g
      <4>1. h >= g /\ h # old
        BY <3>2, <1>2, <1>4 DEF TypeOK, Generations
      <4>2. acquired'[h] = acquired[h] /\ released'[h] = settled[h]
        BY <3>2, <1>4
      <4>3. settled[h] = released[h]
        BY <4>1, <1>3
      <4> QED
        BY <4>1, <4>2, <4>3 DEF Numbering
    <3> QED
      BY <3>1, <3>2
  <2> QED
    BY <2>1, <2>3, <2>4, <2>5 DEF Numbering
<1>7. CleanedWhenNotLive'
  BY <1>1 DEF CleanedWhenNotLive
<1>8. ReleasedOnce'
  <2> SUFFICES ASSUME NEW h \in Generations
               PROVE  acquired'[h] <= 1 /\ released'[h] <= acquired'[h]
    BY DEF ReleasedOnce
  <2>1. CASE h = g
    BY <2>1, <1>4
  <2>2. CASE h # g
    <3>1. acquired'[h] = acquired[h] /\ released'[h] = settled[h]
      BY <2>2, <1>4
    <3>2. settled[h] <= acquired[h]
      BY <1>3 DEF ReleasedOnce
    <3> QED
      BY <3>1, <3>2 DEF ReleasedOnce
  <2> QED
    BY <2>1, <2>2
<1>9. LiveHolds'
  <2> SUFFICES ASSUME NEW t \in Sessions, sessions'[t].state \in Live
               PROVE  /\ acquired'[sessions'[t].generation] = 1
                      /\ released'[sessions'[t].generation] = 0
    BY DEF LiveHolds
  <2>1. t # s /\ sessions'[t] = sessions[t] /\ sessions[t].generation \in Generations
    BY <1>1, <1>2
  <2>2. sessions[t].generation # g /\ sessions[t].generation # old
    BY <2>1, <1>2 DEF Numbering, Generations, TypeOK
  <2>3. /\ acquired'[sessions[t].generation] = acquired[sessions[t].generation]
        /\ released'[sessions[t].generation] = released[sessions[t].generation]
    BY <2>1, <2>2, <1>3, <1>4
  <2> QED
    BY <2>1, <2>3 DEF LiveHolds
<1>10. HeldBySession'
  <2> SUFFICES ASSUME NEW h \in Generations, released'[h] < acquired'[h]
               PROVE  \E t \in Sessions : sessions'[t].generation = h /\ sessions'[t].state \in Live
    BY DEF HeldBySession, Holds
  <2>1. h # g /\ acquired'[h] = acquired[h] /\ released'[h] = settled[h]
    BY <1>4
  <2>2. ~(sessions[s].state \in Live /\ h = old)
    BY <2>1, <1>3
  <2>3. released[h] < acquired[h]
    BY <2>1, <2>2, <1>3
  <2>4. PICK t \in Sessions : Holds(t, h)
    BY <2>3 DEF HeldBySession
  <2>5. t # s
    BY <2>2, <2>4 DEF Holds
  <2> QED
    BY <2>4, <2>5, <1>1 DEF Holds
<1> QED
  BY <1>5, <1>6, <1>7, <1>8, <1>9, <1>10

\* An endpoint attaches or the handshake completes: the entry stays live.
LEMMA ProgressStep ==
  ASSUME NEW s \in Sessions, NEW e \in Entry, RegistryInv,
         e.generation = sessions[s].generation, e.cleaned = sessions[s].cleaned,
         sessions[s].state \in Live, e.state \in Live,
         sessions' = [sessions EXCEPT ![s] = e],
         UNCHANGED <<nextSession, nextGeneration, dropped, history>>
  PROVE  RegistryInv'
<1> USE DEF RegistryInv, history
<1>1. \A t \in Sessions : /\ t # s => sessions'[t] = sessions[t]
                          /\ sessions'[s] = e
  BY DEF TypeOK
<1>2. TypeOK'
  BY DEF TypeOK
<1>3. Numbering'
  <2>1. sessions[s] # Absent
    BY DEF Absent, Live
  <2> QED
    BY <1>1, <2>1 DEF Numbering
<1>4. CleanedWhenNotLive' /\ ReleasedOnce' /\ LiveHolds'
  BY <1>1 DEF CleanedWhenNotLive, ReleasedOnce, LiveHolds
<1>5. HeldBySession'
  BY <1>1 DEF HeldBySession, Holds
<1> QED
  BY <1>2, <1>3, <1>4, <1>5

\* The runtime is dropped, with every resource it still holds.
LEMMA DropStep == RegistryInv /\ DropRuntime => RegistryInv'
<1> SUFFICES ASSUME RegistryInv, DropRuntime PROVE RegistryInv'
  OBVIOUS
<1> USE DEF RegistryInv, DropRuntime
<1>1. \A s \in Sessions : sessions'[s] = Absent
  OBVIOUS
<1>2. /\ acquired' = acquired /\ nextGeneration' = nextGeneration /\ nextSession' = nextSession
      /\ \A g \in Generations : acquired[g] \in Nat /\ released[g] \in Nat
      /\ nextGeneration \in Nat
  BY DEF TypeOK
<1>3. ASSUME NEW g \in Generations
      PROVE  /\ released'[g] \in Nat /\ released'[g] = acquired[g]
             /\ g >= nextGeneration => released'[g] = 0
  <2>1. CASE \E s \in Sessions : sessions[s].generation = g /\ ~sessions[s].cleaned
    <3>1. PICK s \in Sessions : sessions[s].generation = g /\ ~sessions[s].cleaned
      BY <2>1
    <3>2. acquired[g] = 1 /\ released[g] = 0 /\ g < nextGeneration
      BY <3>1 DEF CleanedWhenNotLive, LiveHolds, Numbering
    <3>3. released'[g] = released[g] + 1
      BY <2>1
    <3> QED
      BY <3>2, <3>3, <1>2 DEF Generations
  <2>2. CASE ~\E s \in Sessions : sessions[s].generation = g /\ ~sessions[s].cleaned
    <3>1. released'[g] = released[g]
      BY <2>2, <1>2
    <3>2. ~\E s \in Sessions : Holds(s, g)
      BY <2>2 DEF CleanedWhenNotLive, Holds
    <3>3. released[g] = acquired[g]
      BY <3>2, <1>2 DEF HeldBySession, ReleasedOnce
    <3> QED
      BY <3>1, <3>3, <1>2 DEF Numbering
  <2> QED
    BY <2>1, <2>2
<1>4. TypeOK'
  <2>1. released' \in [Generations -> Nat]
    BY <1>3
  <2>2. ended' \subseteq Generations
    BY DEF TypeOK
  <2> QED
    BY <2>1, <2>2 DEF TypeOK
<1>5. Numbering'
  <2>1. nextGeneration > 0
    BY DEF TypeOK
  <2> QED
    BY <1>1, <1>2, <1>3, <2>1 DEF Numbering, Absent
<1>6. CleanedWhenNotLive' /\ LiveHolds'
  BY <1>1 DEF CleanedWhenNotLive, LiveHolds, Absent, Live
<1>7. ReleasedOnce' /\ HeldBySession'
  BY <1>2, <1>3 DEF ReleasedOnce, HeldBySession
<1> QED
  BY <1>4, <1>5, <1>6, <1>7

\* Adding no release changes nothing.
LEMMA NothingReleased ==
  ASSUME NEW f \in [Generations -> Nat], NEW g
  PROVE  [f EXCEPT ![g] = @ + 0] = f
<1>1. \A h \in Generations : [f EXCEPT ![g] = @ + 0][h] = f[h]
  OBVIOUS
<1> QED
  BY <1>1

\* What Cleaned and ReleasedWith make of an entry.
LEMMA CleanedEntry ==
  ASSUME NEW s \in Sessions, NEW next \in State, next \notin Live, RegistryInv,
         sessions[s].generation \in Generations
  PROVE  /\ Cleaned(sessions[s], next) \in Entry
         /\ Cleaned(sessions[s], next).generation = sessions[s].generation
         /\ Cleaned(sessions[s], next).state = next
         /\ Cleaned(sessions[s], next).cleaned
         /\ Releases(Cleaned(sessions[s], next)) = 0
         /\ \/ /\ sessions[s].state \notin Live
               /\ ReleasedWith(sessions[s]) = released
            \/ /\ sessions[s].state \in Live
               /\ ReleasedWith(sessions[s])
                    = [released EXCEPT ![sessions[s].generation] = @ + 1]
<1>1. sessions[s] \in Entry
  BY DEF RegistryInv, TypeOK, Absent, Generations
<1>2. released \in [Generations -> Nat]
  BY DEF RegistryInv, TypeOK
<1>3. sessions[s].cleaned <=> sessions[s].state \notin Live
  BY DEF RegistryInv, CleanedWhenNotLive
<1>4. \/ /\ sessions[s].state \notin Live
         /\ ReleasedWith(sessions[s]) = released
      \/ /\ sessions[s].state \in Live
         /\ ReleasedWith(sessions[s]) = [released EXCEPT ![sessions[s].generation] = @ + 1]
  <2>1. CASE sessions[s].state \in Live
    <3>1. Releases(sessions[s]) = 1
      BY <2>1, <1>3 DEF Releases
    <3> QED
      BY <2>1, <3>1 DEF ReleasedWith
  <2>2. CASE sessions[s].state \notin Live
    <3>1. Releases(sessions[s]) = 0
      BY <2>2, <1>3 DEF Releases
    <3> QED
      BY <2>2, <3>1, <1>2, NothingReleased DEF ReleasedWith
  <2> QED
    BY <2>1, <2>2
<1> QED
  BY <1>1, <1>4 DEF Cleaned, Entry, EndpointStatus, Releases

\* replace_session, in the place of an entry that has ended.
LEMMA ReplaceStep ==
  ASSUME NEW s \in Sessions, NEW e \in Entry, NEW settled, NEW own, RegistryInv,
         own \subseteq Generations,
         e.generation = sessions[s].generation, e.cleaned, e.state \notin Live,
         \/ /\ sessions[s].state \notin Live
            /\ settled = released
         \/ /\ sessions[s].state \in Live
            /\ settled = [released EXCEPT ![sessions[s].generation] = @ + 1],
         ReplaceSession(s, e, settled, own),
         UNCHANGED <<nextSession, dropped, closed>>
  PROVE  RegistryInv'
<1>1. /\ nextSession \in 1 .. LastSession /\ closed \subseteq Generations
      /\ sessions[s].generation \in Generations
      /\ released \in [Generations -> Nat]
      /\ sessions \in [Sessions -> Entry \cup {Absent}]
  BY DEF RegistryInv, TypeOK, Entry
<1>2. s < nextSession
  <2>1. sessions[s] # Absent
    BY <1>1 DEF Absent, Generations
  <2> QED
    BY <1>1, <2>1 DEF RegistryInv, Numbering, Sessions
<1>3. settled \in [Generations -> Nat]
  BY <1>1
<1>4. [settled EXCEPT ![e.generation] = @ + Releases(e)] = settled
  <2>1. Releases(e) = 0
    BY DEF Releases
  <2>2. [settled EXCEPT ![e.generation] = @ + 0] = settled
    BY <1>3, NothingReleased
  <2> QED
    BY <2>1, <2>2
<1>5. CASE /\ CanIssue
           /\ sessions' = [sessions EXCEPT ![s] = Prepared(nextGeneration)]
           /\ nextGeneration' = nextGeneration + 1
           /\ acquired' = [acquired EXCEPT ![nextGeneration] = @ + 1]
           /\ released' = [settled EXCEPT ![e.generation] = @ + Releases(e)]
           /\ ended' = own
  <2>1. released' = settled
    BY <1>4, <1>5
  <2>2. /\ nextSession' \in 1 .. LastSession /\ nextSession' >= nextSession
        /\ s < nextSession' /\ UNCHANGED dropped
        /\ ended' \subseteq Generations /\ closed' \subseteq Generations
    BY <1>1, <1>2, <1>5
  <2>3. \/ sessions[s].state \notin Live /\ UNCHANGED released
        \/ /\ sessions[s].state \in Live
           /\ released' = [released EXCEPT ![sessions[s].generation] = @ + 1]
    BY <2>1
  <2> QED
    BY <1>5, <2>2, <2>3, InstallStep
<1>6. CASE /\ CanIssue
           /\ sessions' = [sessions EXCEPT ![s] = e]
           /\ nextGeneration' = GenerationAfterIssue
           /\ acquired' = [acquired EXCEPT ![nextGeneration] = @ + 1]
           /\ released' = [settled EXCEPT ![nextGeneration] = @ + 1]
           /\ ended' = own \cup {nextGeneration}
  <2>1. nextGeneration \in Generations
    BY <1>6, IdentityAssumption DEF CanIssue, Generations, RegistryInv, TypeOK
  <2>2. /\ nextSession' \in 1 .. LastSession /\ nextSession' >= nextSession
        /\ UNCHANGED dropped
        /\ ended' \subseteq Generations /\ closed' \subseteq Generations
    BY <1>1, <1>6, <2>1
  <2>3. /\ CanIssue
        /\ nextGeneration' = nextGeneration + 1
        /\ acquired' = [acquired EXCEPT ![nextGeneration] = @ + 1]
        /\ released' = [settled EXCEPT ![nextGeneration] = @ + 1]
    BY <1>6 DEF GenerationAfterIssue
  <2>4. sessions' = [sessions EXCEPT ![s] = e]
    BY <1>6
  <2> QED
    BY <2>2, <2>3, <2>4, EndStep
<1>7. CASE /\ ~CanIssue
           /\ sessions' = [sessions EXCEPT ![s] = e]
           /\ released' = settled
           /\ ended' = own
           /\ UNCHANGED <<nextGeneration, acquired>>
  <2>1. /\ nextSession' \in 1 .. LastSession /\ nextSession' >= nextSession
        /\ UNCHANGED dropped
        /\ ended' \subseteq Generations /\ closed' \subseteq Generations
    BY <1>1, <1>7
  <2>2. UNCHANGED <<nextGeneration, acquired>> /\ released' = settled
    BY <1>7
  <2>3. sessions' = [sessions EXCEPT ![s] = e]
    BY <1>7
  <2> QED
    BY <2>1, <2>2, <2>3, EndStep
<1> QED
  BY <1>5, <1>6, <1>7 DEF ReplaceSession, GenerationAfterIssue

\* A session is cleaned up and stays in the registry.
LEMMA EndedEntry ==
  ASSUME NEW s \in Sessions, NEW next \in State, next \notin Live, RegistryInv,
         sessions[s].generation \in Generations,
         sessions' = [sessions EXCEPT ![s] = Cleaned(sessions[s], next)],
         released' = ReleasedWith(sessions[s]),
         UNCHANGED <<nextSession, nextGeneration, dropped, acquired>>,
         ended' \subseteq Generations, closed' \subseteq Generations
  PROVE  RegistryInv'
<1>1. nextSession' \in 1 .. LastSession /\ nextSession' >= nextSession /\ UNCHANGED dropped
  BY DEF RegistryInv, TypeOK
<1>2. UNCHANGED <<nextGeneration, acquired>> /\ released' = ReleasedWith(sessions[s])
  OBVIOUS
<1>3. /\ Cleaned(sessions[s], next) \in Entry
      /\ Cleaned(sessions[s], next).generation = sessions[s].generation
      /\ Cleaned(sessions[s], next).state = next
      /\ Cleaned(sessions[s], next).cleaned
      /\ \/ /\ sessions[s].state \notin Live
            /\ ReleasedWith(sessions[s]) = released
         \/ /\ sessions[s].state \in Live
            /\ ReleasedWith(sessions[s])
                 = [released EXCEPT ![sessions[s].generation] = @ + 1]
  BY CleanedEntry
<1> QED
  BY <1>1, <1>2, <1>3, EndStep

\* Every step of the registry, one case per operation.
LEMMA RegistryStep == RegistryInv /\ [Next]_vars => RegistryInv'
<1> SUFFICES ASSUME RegistryInv, [Next]_vars PROVE RegistryInv'
  OBVIOUS
<1>1. /\ nextSession \in 1 .. LastSession /\ nextGeneration \in 1 .. LastGeneration
      /\ released \in [Generations -> Nat] /\ acquired \in [Generations -> Nat]
      /\ sessions \in [Sessions -> Entry \cup {Absent}]
      /\ ended \subseteq Generations /\ closed \subseteq Generations
      /\ \A s \in Sessions, g \in Generations :
           sessions[s].generation = g => sessions[s] \in Entry
  BY DEF RegistryInv, TypeOK, Absent, Generations
<1>2. CanIssue => nextGeneration \in Generations
  BY <1>1, IdentityAssumption DEF CanIssue, Generations
<1>3. nextSession < LastSession =>
        /\ nextSession \in Sessions /\ sessions[nextSession] = Absent
        /\ Absent.state \notin Live /\ Absent.cleaned
        /\ nextSession + 1 \in 1 .. LastSession
  <2>1. Absent.state \notin Live /\ Absent.cleaned
    BY DEF Absent, Live
  <2>2. nextSession < LastSession =>
          nextSession \in Sessions /\ nextSession + 1 \in 1 .. LastSession
    BY <1>1, IdentityAssumption DEF Sessions
  <2>3. nextSession \in Sessions => sessions[nextSession] = Absent
    BY <1>1 DEF RegistryInv, Numbering
  <2> QED
    BY <2>1, <2>2, <2>3
<1>4. nextSession < LastSession => sessions = [sessions EXCEPT ![nextSession] = Absent]
  BY <1>1, <1>3
<1>5. CASE CreateSession
  <2>1. /\ nextSession' \in 1 .. LastSession /\ nextSession' >= nextSession
        /\ nextSession < nextSession' /\ UNCHANGED dropped
        /\ ended' \subseteq Generations /\ closed' \subseteq Generations
    BY <1>1, <1>3, <1>5 DEF CreateSession
  <2> QED
    BY <1>3, <1>5, <2>1, InstallStep DEF CreateSession, GenerationAfterIssue
<1>6. CASE CreateFails
  <2>1. /\ nextSession' \in 1 .. LastSession /\ nextSession' >= nextSession
        /\ UNCHANGED dropped
        /\ ended' \subseteq Generations /\ closed' \subseteq Generations
    BY <1>1, <1>2, <1>3, <1>6 DEF CreateFails
  <2>2. sessions' = [sessions EXCEPT ![nextSession] = Absent]
    BY <1>4, <1>6 DEF CreateFails
  <2> QED
    BY <1>3, <1>6, <2>1, <2>2, EndStep DEF CreateFails, GenerationAfterIssue
<1>7. CASE CreateExhausted
  <2>1. /\ nextSession' \in 1 .. LastSession /\ nextSession' >= nextSession
        /\ UNCHANGED dropped
        /\ ended' \subseteq Generations /\ closed' \subseteq Generations
    BY <1>1, <1>3, <1>7 DEF CreateExhausted, history
  <2>2. sessions' = [sessions EXCEPT ![nextSession] = Absent]
    BY <1>4, <1>7 DEF CreateExhausted
  <2>3. UNCHANGED <<nextGeneration, acquired>> /\ released' = released
    BY <1>7 DEF CreateExhausted, history
  <2> QED
    BY <1>3, <1>7, <2>1, <2>2, <2>3, EndStep DEF CreateExhausted
<1>8. CASE DropRuntime
  BY <1>8, DropStep
<1>9. ASSUME NEW s \in Sessions, Replace(s)
      PROVE  RegistryInv'
  <2>1. sessions[s] \in Entry /\ sessions[s].state \notin Live
    BY <1>1, <1>9 DEF Replace, Absent, Replaceable, Terminal, Live
  <2>2. sessions[s].cleaned
    BY <2>1 DEF RegistryInv, CleanedWhenNotLive
  <2>3. ReplaceSession(s, sessions[s], released, ended) /\ UNCHANGED <<nextSession, dropped, closed>>
    BY <1>9 DEF Replace
  <2> QED
    BY <1>1, <2>1, <2>2, <2>3, ReplaceStep
<1>10. ASSUME NEW s \in Sessions, NEW g \in Generations, Route(s, g)
       PROVE  RegistryInv'
  <2>1. CASE RendererAttached(s, g)
    <3>1. PICK next \in State :
            /\ Moves(sessions[s].state, "RendererReady", next)
            /\ Progress(s, g, [sessions[s] EXCEPT !.state = next, !.renderer = "Attached"])
      BY <2>1 DEF RendererAttached
    <3> DEFINE e == [sessions[s] EXCEPT !.state = next, !.renderer = "Attached"]
    <3>2. sessions[s].state = "WaitingForRenderer" /\ next = "WaitingForPeer"
      BY <3>1 DEF Moves, Transitions
    <3>3. sessions[s] \in Entry
      BY <1>1, <3>1 DEF Progress, Active
    <3>4. /\ e \in Entry /\ e.generation = sessions[s].generation
          /\ e.cleaned = sessions[s].cleaned /\ e.state = next
      BY <3>3 DEF Entry, EndpointStatus
    <3> QED
      BY <3>1, <3>2, <3>4, ProgressStep DEF Progress, Live
  <2>2. CASE PeerAttached(s, g)
    <3>1. PICK next \in State :
            /\ Moves(sessions[s].state, "PeerReady", next)
            /\ Progress(s, g, [sessions[s] EXCEPT !.state = next, !.peer = "Attached"])
      BY <2>2 DEF PeerAttached
    <3> DEFINE e == [sessions[s] EXCEPT !.state = next, !.peer = "Attached"]
    <3>2. sessions[s].state = "WaitingForPeer" /\ next = "Handshaking"
      BY <3>1 DEF Moves, Transitions
    <3>3. sessions[s] \in Entry
      BY <1>1, <3>1 DEF Progress, Active
    <3>4. /\ e \in Entry /\ e.generation = sessions[s].generation
          /\ e.cleaned = sessions[s].cleaned /\ e.state = next
      BY <3>3 DEF Entry, EndpointStatus
    <3> QED
      BY <3>1, <3>2, <3>4, ProgressStep DEF Progress, Live
  <2>3. CASE HandshakeCompleted(s, g)
    <3>1. PICK next \in State :
            /\ Moves(sessions[s].state, "HandshakeComplete", next)
            /\ Progress(s, g, [sessions[s] EXCEPT !.state = next])
      BY <2>3 DEF HandshakeCompleted
    <3> DEFINE e == [sessions[s] EXCEPT !.state = next]
    <3>2. sessions[s].state = "Handshaking" /\ next = "Open"
      BY <3>1 DEF Moves, Transitions
    <3>3. sessions[s] \in Entry
      BY <1>1, <3>1 DEF Progress, Active
    <3>4. /\ e \in Entry /\ e.generation = sessions[s].generation
          /\ e.cleaned = sessions[s].cleaned /\ e.state = next
      BY <3>3 DEF Entry
    <3> QED
      BY <3>1, <3>2, <3>4, ProgressStep DEF Progress, Live
  <2>4. ASSUME NEW event \in {"Disconnect", "Fail"}, NEW next \in State,
               Moves(sessions[s].state, event, next)
        PROVE  next \notin Live
    BY <2>4 DEF Moves, Transitions, Live
  <2>5. ASSUME NEW event \in {"Disconnect", "Fail"}, Invalidate(s, g, event)
        PROVE  RegistryInv'
    <3>1. sessions[s].generation = g
      BY <2>5 DEF Invalidate, Active
    <3>2. PICK next \in State :
            /\ Moves(sessions[s].state, event, next)
            /\ ReplaceSession(s, Cleaned(sessions[s], next), ReleasedWith(sessions[s]),
                              ended \cup {g})
      BY <2>5 DEF Invalidate
    <3>3. next \notin Live
      BY <2>4, <3>2
    <3>4. ended \cup {g} \subseteq Generations
      BY <1>1
    <3>5. UNCHANGED <<nextSession, dropped, closed>>
      BY <2>5 DEF Invalidate
    <3>6. /\ Cleaned(sessions[s], next) \in Entry
          /\ Cleaned(sessions[s], next).generation = sessions[s].generation
          /\ Cleaned(sessions[s], next).state = next
          /\ Cleaned(sessions[s], next).cleaned
          /\ \/ /\ sessions[s].state \notin Live
                /\ ReleasedWith(sessions[s]) = released
             \/ /\ sessions[s].state \in Live
                /\ ReleasedWith(sessions[s])
                     = [released EXCEPT ![sessions[s].generation] = @ + 1]
      BY <3>1, <3>3, CleanedEntry
    <3> QED
      BY <3>2, <3>3, <3>4, <3>5, <3>6, ReplaceStep
  <2>6. ASSUME NEW event \in {"Disconnect", "Fail"}, InvalidateFails(s, g, event)
        PROVE  RegistryInv'
    <3>1. sessions[s].generation = g
      BY <2>6 DEF InvalidateFails, Active
    <3>2. PICK next \in State :
            /\ Moves(sessions[s].state, event, next)
            /\ sessions' = [sessions EXCEPT ![s] = Cleaned(sessions[s], next)]
      BY <2>6 DEF InvalidateFails
    <3>3. next \notin Live
      BY <2>4, <3>2
    <3> QED
      BY <1>1, <2>6, <3>1, <3>2, <3>3, EndedEntry DEF InvalidateFails
  <2> QED
    BY <1>10, <2>1, <2>2, <2>3, <2>5, <2>6 DEF Route
<1>11. ASSUME NEW s \in Sessions, NEW g \in Generations, Close(s, g)
       PROVE  RegistryInv'
  <2> DEFINE next == IF sessions[s].state \in Drains THEN "Closed" ELSE "Failed"
  <2>1. next \in State \ Live /\ sessions[s].generation = g
    BY <1>11 DEF State, Live, Close, Active
  <2>2. sessions' = [sessions EXCEPT ![s] = Cleaned(sessions[s], next)]
    BY <1>11 DEF Close
  <2> QED
    BY <1>1, <1>11, <2>1, <2>2, EndedEntry DEF Close
<1>12. ASSUME NEW s \in Sessions, NEW g \in Generations, CloseFails(s, g)
       PROVE  RegistryInv'
  <2> DEFINE next == IF sessions[s].state \in Drains THEN "Draining" ELSE "Failed"
  <2>1. next \in State \ Live /\ sessions[s].generation = g
    BY <1>12 DEF State, Live, CloseFails, Active
  <2>2. sessions' = [sessions EXCEPT ![s] = Cleaned(sessions[s], next)]
    BY <1>12 DEF CloseFails
  <2> QED
    BY <1>1, <1>12, <2>1, <2>2, EndedEntry DEF CloseFails
<1>13. ASSUME NEW s \in Sessions, NEW g \in Generations, CloseAgain(s, g)
       PROVE  RegistryInv'
  BY <1>1, <1>13 DEF CloseAgain, RegistryInv, TypeOK, Numbering, CleanedWhenNotLive,
                     ReleasedOnce, LiveHolds, HeldBySession, Holds
<1>14. CASE UNCHANGED vars
  BY <1>14 DEF vars, history, RegistryInv, TypeOK, Numbering, CleanedWhenNotLive,
               ReleasedOnce, LiveHolds, HeldBySession, Holds
<1> QED
  BY <1>5, <1>6, <1>7, <1>8, <1>9, <1>10, <1>11, <1>12, <1>13, <1>14 DEF Next

\* The registry invariant holds in every reachable state.
THEOREM RegistryInvariant == Spec => []RegistryInv
<1>1. Init => RegistryInv
  BY RegistryInit
<1>2. RegistryInv /\ [Next]_vars => RegistryInv'
  BY RegistryStep
<1> QED
  BY <1>1, <1>2, PTL DEF Spec

\* The registry's variables stay in their types.
THEOREM RuntimeTypeOK == Spec => []TypeOK
<1>1. RegistryInv => TypeOK
  BY DEF RegistryInv
<1> QED
  BY <1>1, RegistryInvariant, PTL

\* PreparedResources releases every resource exactly once, and no generation
\* number is prepared twice, for any number of sessions and generations.
THEOREM RuntimeReleasedOnce == Spec => []ReleasedOnce
<1>1. RegistryInv => ReleasedOnce
  BY DEF RegistryInv
<1> QED
  BY <1>1, RegistryInvariant, PTL

\* Resources are held exactly for the active generations that are live.
THEOREM RuntimeHeldWhileLive == Spec => []HeldWhileLive
<1>1. ASSUME RegistryInv PROVE HeldWhileLive
  <2> SUFFICES ASSUME NEW g \in Generations
               PROVE  released[g] < acquired[g] <=> \E s \in Sessions : Holds(s, g)
    BY DEF HeldWhileLive
  <2>1. ASSUME NEW s \in Sessions, Holds(s, g) PROVE released[g] < acquired[g]
    BY <1>1, <2>1 DEF Holds, RegistryInv, LiveHolds
  <2> QED
    BY <1>1, <2>1 DEF RegistryInv, HeldBySession
<1> QED
  BY <1>1, RegistryInvariant, PTL

\* No resource goes except by an event, a close, a failed preparation or a drop
\* under the very generation that acquired it.
THEOREM RuntimeEndedByOwnEvent == Spec => []EndedByOwnEvent
<1> DEFINE Inv == RegistryInv /\ EndedByOwnEvent
<1>1. Init => EndedByOwnEvent
  BY DEF Init, EndedByOwnEvent
<1>2. ASSUME RegistryInv, EndedByOwnEvent, [Next]_vars PROVE EndedByOwnEvent'
  <2>1. released \in [Generations -> Nat] /\ sessions \in [Sessions -> Entry \cup {Absent}]
    BY <1>2 DEF RegistryInv, TypeOK
  <2>2. ASSUME NEW s \in Sessions, sessions[s].state \notin Live
        PROVE  Releases(sessions[s]) = 0
    BY <1>2, <2>2 DEF RegistryInv, CleanedWhenNotLive, Releases
  <2>3. ASSUME NEW s \in Sessions, NEW g \in Generations, sessions[s].generation = g
        PROVE  /\ ReleasedWith(sessions[s]) \in [Generations -> Nat]
               /\ \A h \in Generations : h # g => ReleasedWith(sessions[s])[h] = released[h]
    BY <2>1, <2>3 DEF ReleasedWith, Releases
  <2>4. ASSUME NEW s \in Sessions, NEW e, NEW settled \in [Generations -> Nat], NEW own,
               ReplaceSession(s, e, settled, own), Releases(e) = 0,
               \A h \in Generations : settled[h] > 0 => h \in own
        PROVE  EndedByOwnEvent'
    <3>1. CASE /\ CanIssue
               /\ released' = [settled EXCEPT ![e.generation] = @ + Releases(e)]
               /\ ended' = own
      <4>1. released' = settled
        <5>1. [settled EXCEPT ![e.generation] = @ + 0] = settled
          BY NothingReleased
        <5> QED
          BY <2>4, <3>1, <5>1
      <4> QED
        BY <2>4, <3>1, <4>1 DEF EndedByOwnEvent
    <3>2. CASE /\ released' = [settled EXCEPT ![nextGeneration] = @ + 1]
               /\ ended' = own \cup {nextGeneration}
      BY <2>4, <3>2 DEF EndedByOwnEvent
    <3>3. CASE released' = settled /\ ended' = own
      BY <2>4, <3>3 DEF EndedByOwnEvent
    <3> QED
      BY <2>4, <3>1, <3>2, <3>3 DEF ReplaceSession
  <2>5. CASE CreateSession \/ CreateExhausted \/ UNCHANGED vars
    BY <1>2, <2>5 DEF EndedByOwnEvent, CreateSession, CreateExhausted, vars, history
  <2>6. CASE CreateFails
    BY <1>2, <2>1, <2>6 DEF EndedByOwnEvent, CreateFails
  <2>7. CASE DropRuntime
    <3> SUFFICES ASSUME NEW g \in Generations, released'[g] > 0 PROVE g \in ended'
      BY DEF EndedByOwnEvent
    <3>1. released[g] > 0 \/ \E s \in Sessions : sessions[s].generation = g
      BY <2>1, <2>7 DEF DropRuntime
    <3> QED
      BY <1>2, <2>7, <3>1 DEF DropRuntime, EndedByOwnEvent
  <2>8. ASSUME NEW s \in Sessions, Replace(s) PROVE EndedByOwnEvent'
    <3>1. Releases(sessions[s]) = 0
      BY <2>2, <2>8 DEF Replace, Replaceable, Terminal, Live
    <3>2. ReplaceSession(s, sessions[s], released, ended)
      BY <2>8 DEF Replace
    <3> QED
      BY <1>2, <2>1, <2>4, <3>1, <3>2 DEF EndedByOwnEvent
  <2>9. ASSUME NEW s \in Sessions, NEW g \in Generations, Route(s, g) PROVE EndedByOwnEvent'
    <3>1. CASE RendererAttached(s, g) \/ PeerAttached(s, g) \/ HandshakeCompleted(s, g)
      BY <1>2, <3>1 DEF RendererAttached, PeerAttached, HandshakeCompleted, Progress,
                        history, EndedByOwnEvent
    <3>2. ASSUME NEW event, Invalidate(s, g, event) PROVE EndedByOwnEvent'
      <4>1. sessions[s].generation = g
        BY <3>2 DEF Invalidate, Active
      <4>2. PICK next \in State :
              ReplaceSession(s, Cleaned(sessions[s], next), ReleasedWith(sessions[s]),
                             ended \cup {g})
        BY <3>2 DEF Invalidate
      <4>3. Releases(Cleaned(sessions[s], next)) = 0
        <5>1. sessions[s] \in Entry
          BY <2>1, <4>1 DEF Absent, Generations
        <5> QED
          BY <5>1 DEF Releases, Cleaned, Entry
      <4>4. \A h \in Generations : ReleasedWith(sessions[s])[h] > 0 => h \in ended \cup {g}
        BY <1>2, <2>3, <4>1 DEF EndedByOwnEvent
      <4> QED
        BY <2>3, <2>4, <4>1, <4>2, <4>3, <4>4
    <3>3. ASSUME NEW event, InvalidateFails(s, g, event) PROVE EndedByOwnEvent'
      BY <1>2, <2>3, <3>3 DEF InvalidateFails, Active, EndedByOwnEvent
    <3> QED
      BY <2>9, <3>1, <3>2, <3>3 DEF Route
  <2>10. ASSUME NEW s \in Sessions, NEW g \in Generations, Close(s, g) \/ CloseFails(s, g)
         PROVE  EndedByOwnEvent'
    BY <1>2, <2>3, <2>10 DEF Close, CloseFails, Active, EndedByOwnEvent
  <2>11. ASSUME NEW s \in Sessions, NEW g \in Generations, CloseAgain(s, g)
         PROVE  EndedByOwnEvent'
    BY <1>2, <2>11 DEF CloseAgain, EndedByOwnEvent
  <2> QED
    BY <1>2, <2>5, <2>6, <2>7, <2>8, <2>9, <2>10, <2>11 DEF Next
<1> QED
  BY <1>1, <1>2, RegistryInvariant, PTL DEF Spec

-----------------------------------------------------------------------------
\* The lease an entry stands for.
LeaseOf(entry) == IF entry.state \in Live THEN entry.generation ELSE 0

LeaseNow == [s \in Sessions |-> LeaseOf(sessions[s])]

\* A step of the leases, or none.
LeaseStep == Leases!Next \/ UNCHANGED Leases!vars

\* An entry that is replaced by a prepared one is granted the new generation.
LEMMA GrantStep ==
  ASSUME NEW s \in Sessions, RegistryInv,
         sessions' = [sessions EXCEPT ![s] = Prepared(nextGeneration)],
         nextGeneration' = nextGeneration + 1
  PROVE  LeaseStep
<1>1. LeaseNow' = [LeaseNow EXCEPT ![s] = nextGeneration]
  <2>1. Prepared(nextGeneration).state \in Live
    BY DEF Prepared, Live
  <2>2. LeaseOf(Prepared(nextGeneration)) = nextGeneration
    BY <2>1 DEF LeaseOf, Prepared
  <2>3. \A t \in Sessions : sessions'[t] = IF t = s THEN Prepared(nextGeneration) ELSE sessions[t]
    BY DEF RegistryInv, TypeOK
  <2>4. LeaseNow' = [t \in Sessions |-> LeaseOf(sessions'[t])]
    BY DEF LeaseNow, LeaseOf
  <2>5. LeaseNow' = [t \in Sessions |-> IF t = s THEN nextGeneration ELSE LeaseOf(sessions[t])]
    BY <2>2, <2>3, <2>4
  <2> QED
    BY <2>5 DEF LeaseNow
<1>2. /\ LeaseNow'[s] = nextGeneration
      /\ LeaseNow' = [LeaseNow EXCEPT ![s] = LeaseNow'[s]]
      /\ nextGeneration > nextGeneration - 1
      /\ nextGeneration' - 1 = nextGeneration
  <2>1. nextGeneration \in Int
    BY IdentityAssumption DEF RegistryInv, TypeOK
  <2>2. LeaseNow'[s] = nextGeneration
    BY <1>1 DEF LeaseNow
  <2>3. LeaseNow' = [LeaseNow EXCEPT ![s] = LeaseNow'[s]]
    BY <1>1, <2>2
  <2> QED
    BY <2>1, <2>2, <2>3
<1>3. Leases!Grant(s)
  BY <1>2 DEF Leases!Grant, LeaseNow, LeaseOf
<1> QED
  BY <1>3 DEF LeaseStep, Leases!Next

\* An entry that ends, or stays ended, gives its lease back; numbers may be spent.
LEMMA RevokeStep ==
  ASSUME NEW s \in Sessions, NEW e, RegistryInv, e.state \notin Live,
         sessions' = [sessions EXCEPT ![s] = e],
         nextGeneration' \in {nextGeneration, nextGeneration + 1}
  PROVE  LeaseStep
<1>1. LeaseNow' = [LeaseNow EXCEPT ![s] = 0]
  <2>1. \A t \in Sessions : sessions'[t] = IF t = s THEN e ELSE sessions[t]
    BY DEF RegistryInv, TypeOK
  <2>2. LeaseNow' = [t \in Sessions |-> LeaseOf(sessions'[t])]
    BY DEF LeaseNow, LeaseOf
  <2>3. LeaseOf(e) = 0
    BY DEF LeaseOf
  <2>4. LeaseNow' = [t \in Sessions |-> IF t = s THEN 0 ELSE LeaseOf(sessions[t])]
    BY <2>1, <2>2, <2>3
  <2> QED
    BY <2>4 DEF LeaseNow
<1>2. nextGeneration \in Nat /\ nextGeneration' - 1 >= nextGeneration - 1
  <2>1. nextGeneration \in 1 .. LastGeneration
    BY DEF RegistryInv, TypeOK
  <2>2. nextGeneration \in Nat
    BY <2>1
  <2>3. CASE nextGeneration' = nextGeneration
    BY <2>2, <2>3
  <2>4. CASE nextGeneration' = nextGeneration + 1
    BY <2>2, <2>4
  <2> QED
    BY <2>2, <2>3, <2>4
<1>3. CASE LeaseNow[s] # 0
  <2>1. Leases!Revoke(s)
    BY <1>1, <1>2, <1>3 DEF Leases!Revoke, LeaseNow, LeaseOf
  <2> QED
    BY <2>1 DEF LeaseStep, Leases!Next
<1>4. CASE LeaseNow[s] = 0
  <2>1. LeaseNow' = LeaseNow
    BY <1>1, <1>4 DEF LeaseNow
  <2>2. CASE nextGeneration' = nextGeneration
    BY <2>1, <2>2 DEF LeaseStep, Leases!vars, LeaseNow, LeaseOf
  <2>3. CASE nextGeneration' = nextGeneration + 1
    <3>1. nextGeneration' - 1 > nextGeneration - 1
      BY <1>2, <2>3
    <3>2. Leases!Waste
      BY <2>1, <3>1 DEF Leases!Waste, LeaseNow, LeaseOf
    <3> QED
      BY <3>2 DEF LeaseStep, Leases!Next
  <2> QED
    BY <2>2, <2>3
<1> QED
  BY <1>3, <1>4

\* What replace_session does to the leases.
LEMMA ReplaceLease ==
  ASSUME NEW s \in Sessions, NEW e, NEW settled, NEW own, RegistryInv,
         e.state \notin Live, ReplaceSession(s, e, settled, own)
  PROVE  LeaseStep
<1>1. CASE /\ sessions' = [sessions EXCEPT ![s] = Prepared(nextGeneration)]
           /\ nextGeneration' = nextGeneration + 1
  BY <1>1, GrantStep
<1>2. CASE /\ sessions' = [sessions EXCEPT ![s] = e]
           /\ nextGeneration' \in {nextGeneration, nextGeneration + 1}
  BY <1>2, RevokeStep
<1> QED
  BY <1>1, <1>2 DEF ReplaceSession, GenerationAfterIssue

\* Every step of the registry is a step of the leases, or changes none.
LEMMA RegistryLeaseStep == RegistryInv /\ [Next]_vars => LeaseStep
<1> SUFFICES ASSUME RegistryInv, [Next]_vars PROVE LeaseStep
  OBVIOUS
<1>1. /\ sessions \in [Sessions -> Entry \cup {Absent}]
      /\ nextSession \in 1 .. LastSession /\ nextGeneration \in 1 .. LastGeneration
  BY DEF RegistryInv, TypeOK
<1>2. ASSUME sessions' = sessions, nextGeneration' = nextGeneration PROVE LeaseStep
  BY <1>2 DEF LeaseStep, Leases!vars
<1>3. ASSUME NEW s \in Sessions, NEW next \in State \ Live PROVE Cleaned(sessions[s], next).state \notin Live
  <2>1. sessions[s] \in Entry \/ sessions[s] = Absent
    BY <1>1
  <2> QED
    BY <2>1 DEF Cleaned, Entry, Absent
<1>4. CASE CreateSession
  <2>1. nextSession \in Sessions
    BY <1>1, <1>4, IdentityAssumption DEF CreateSession, Sessions
  <2> QED
    BY <1>4, <2>1, GrantStep DEF CreateSession, GenerationAfterIssue
<1>5. CASE CreateFails
  <2>1. /\ nextSession \in Sessions /\ sessions[nextSession] = Absent
        /\ Absent.state \notin Live
    <3>1. nextSession \in Sessions
      BY <1>1, <1>5, IdentityAssumption DEF CreateFails, Sessions
    <3>2. Absent.state \notin Live
      BY DEF Absent, Live
    <3> QED
      BY <1>1, <3>1, <3>2 DEF RegistryInv, Numbering
  <2>2. sessions' = [sessions EXCEPT ![nextSession] = Absent]
    BY <1>1, <1>5, <2>1 DEF CreateFails
  <2>3. nextGeneration' \in {nextGeneration, nextGeneration + 1}
    BY <1>5 DEF CreateFails, GenerationAfterIssue
  <2> QED
    BY <2>1, <2>2, <2>3, RevokeStep
<1>6. CASE CreateExhausted
  BY <1>2, <1>6 DEF CreateExhausted
<1>7. CASE DropRuntime
  <2>1. LeaseNow' = [s \in Sessions |-> 0]
    BY <1>7 DEF DropRuntime, LeaseNow, LeaseOf, Absent, Live
  <2>2. Leases!RevokeAll
    BY <1>7, <2>1 DEF DropRuntime, Leases!RevokeAll, LeaseNow, LeaseOf
  <2> QED
    BY <2>2 DEF LeaseStep, Leases!Next
<1>8. ASSUME NEW s \in Sessions, Replace(s) PROVE LeaseStep
  <2>1. sessions[s].state \notin Live
    BY <1>8 DEF Replace, Replaceable, Terminal, Live
  <2> QED
    BY <1>8, <2>1, ReplaceLease DEF Replace
<1>9. ASSUME NEW s \in Sessions, NEW g \in Generations, Route(s, g) PROVE LeaseStep
  <2>1. ASSUME NEW e, e.generation = sessions[s].generation,
               sessions[s].state \in Live, e.state \in Live,
               Progress(s, g, e)
        PROVE  LeaseStep
    <3>1. \A t \in Sessions : sessions'[t] = IF t = s THEN e ELSE sessions[t]
      BY <1>1, <2>1 DEF Progress
    <3>2. LeaseNow' = LeaseNow
      BY <2>1, <3>1 DEF LeaseNow, LeaseOf
    <3> QED
      BY <2>1, <3>2 DEF LeaseStep, Leases!vars, LeaseNow, LeaseOf, Progress
  <2>2. sessions[s] \in Entry \/ sessions[s] = Absent
    BY <1>1
  <2>3. CASE RendererAttached(s, g)
    <3>1. PICK next \in State :
            /\ Moves(sessions[s].state, "RendererReady", next)
            /\ Progress(s, g, [sessions[s] EXCEPT !.state = next, !.renderer = "Attached"])
      BY <2>3 DEF RendererAttached
    <3>2. sessions[s].state = "WaitingForRenderer" /\ next = "WaitingForPeer"
      BY <3>1 DEF Moves, Transitions
    <3> DEFINE e == [sessions[s] EXCEPT !.state = next, !.renderer = "Attached"]
    <3>3. e.generation = sessions[s].generation /\ e.state = next
      BY <2>2 DEF Entry, Absent
    <3> QED
      BY <2>1, <3>1, <3>2, <3>3 DEF Live
  <2>4. CASE PeerAttached(s, g)
    <3>1. PICK next \in State :
            /\ Moves(sessions[s].state, "PeerReady", next)
            /\ Progress(s, g, [sessions[s] EXCEPT !.state = next, !.peer = "Attached"])
      BY <2>4 DEF PeerAttached
    <3>2. sessions[s].state = "WaitingForPeer" /\ next = "Handshaking"
      BY <3>1 DEF Moves, Transitions
    <3> DEFINE e == [sessions[s] EXCEPT !.state = next, !.peer = "Attached"]
    <3>3. e.generation = sessions[s].generation /\ e.state = next
      BY <2>2 DEF Entry, Absent
    <3> QED
      BY <2>1, <3>1, <3>2, <3>3 DEF Live
  <2>5. CASE HandshakeCompleted(s, g)
    <3>1. PICK next \in State :
            /\ Moves(sessions[s].state, "HandshakeComplete", next)
            /\ Progress(s, g, [sessions[s] EXCEPT !.state = next])
      BY <2>5 DEF HandshakeCompleted
    <3>2. sessions[s].state = "Handshaking" /\ next = "Open"
      BY <3>1 DEF Moves, Transitions
    <3> DEFINE e == [sessions[s] EXCEPT !.state = next]
    <3>3. e.generation = sessions[s].generation /\ e.state = next
      BY <2>2 DEF Entry, Absent
    <3> QED
      BY <2>1, <3>1, <3>2, <3>3 DEF Live
  <2>6. ASSUME NEW event \in {"Disconnect", "Fail"}, NEW next \in State,
               Moves(sessions[s].state, event, next)
        PROVE  Cleaned(sessions[s], next).state \notin Live
    BY <1>3, <2>6 DEF Moves, Transitions, Live
  <2>7. ASSUME NEW event \in {"Disconnect", "Fail"}, Invalidate(s, g, event)
        PROVE  LeaseStep
    BY <2>6, <2>7, ReplaceLease DEF Invalidate
  <2>8. ASSUME NEW event \in {"Disconnect", "Fail"}, InvalidateFails(s, g, event)
        PROVE  LeaseStep
    BY <2>6, <2>8, RevokeStep DEF InvalidateFails
  <2> QED
    BY <1>9, <2>3, <2>4, <2>5, <2>7, <2>8 DEF Route
<1>10. ASSUME NEW s \in Sessions, NEW g \in Generations, Close(s, g) \/ CloseFails(s, g)
       PROVE  LeaseStep
  <2>1. PICK next \in {"Closed", "Failed", "Draining"} :
          sessions' = [sessions EXCEPT ![s] = Cleaned(sessions[s], next)]
    BY <1>10 DEF Close, CloseFails
  <2>2. Cleaned(sessions[s], next).state \notin Live
    BY <1>3, <2>1 DEF State, Live
  <2> QED
    BY <1>10, <2>1, <2>2, RevokeStep DEF Close, CloseFails
<1>11. ASSUME NEW s \in Sessions, NEW g \in Generations, CloseAgain(s, g) PROVE LeaseStep
  BY <1>2, <1>11 DEF CloseAgain
<1> QED
  BY <1>2, <1>4, <1>5, <1>6, <1>7, <1>8, <1>9, <1>10, <1>11 DEF Next, vars

\* The registry implements the leases: one generation per session at a time,
\* each newer than every number handed out or wasted before.
THEOREM RuntimeImplementsLease == Spec => ImplementsLease
<1>1. Init => Leases!Init
  <2> SUFFICES ASSUME Init PROVE Leases!Init
    OBVIOUS
  <2>1. Absent.state \notin Live
    BY DEF Absent, Live
  <2> QED
    BY <2>1 DEF Init, Leases!Init
<1>2. RegistryInv /\ [Next]_vars => [Leases!Next]_(Leases!vars)
  BY RegistryLeaseStep DEF LeaseStep
<1> QED
  BY <1>1, <1>2, RegistryInvariant, PTL DEF Spec, ImplementsLease, Leases!Spec

-----------------------------------------------------------------------------
\* A generation whose close returned Ok was issued, and stays terminal for as
\* long as its session holds it.
ClosedInv ==
  /\ \A g \in closed : g < nextGeneration
  /\ \A s \in Sessions : sessions[s].generation \in closed => sessions[s].state \in Terminal

\* Session s is given another generation than the closed one it had.
Revived(s) ==
  sessions[s].generation \in closed /\ sessions'[s].generation \notin {0, sessions[s].generation}

\* A generation is prepared in the place of s.
LEMMA ClosedInstall ==
  ASSUME NEW s \in Sessions, RegistryInv, ClosedInv,
         sessions' = [sessions EXCEPT ![s] = Prepared(nextGeneration)],
         nextGeneration' = nextGeneration + 1, UNCHANGED closed
  PROVE  ClosedInv' /\ \A t \in Sessions : Revived(t) => t = s
<1>1. \A t \in Sessions : sessions'[t] = IF t = s THEN Prepared(nextGeneration) ELSE sessions[t]
  BY DEF RegistryInv, TypeOK
<1>2. nextGeneration \notin closed /\ \A g \in closed : g < nextGeneration'
  <2>1. nextGeneration \in 1 .. LastGeneration /\ closed \subseteq Generations
    BY DEF RegistryInv, TypeOK
  <2> QED
    BY <2>1, IdentityAssumption DEF ClosedInv, Generations
<1>3. Prepared(nextGeneration).generation = nextGeneration
  BY DEF Prepared
<1> QED
  BY <1>1, <1>2, <1>3 DEF ClosedInv, Revived

\* s keeps its generation, in a terminal state if that is closed.
LEMMA ClosedKeep ==
  ASSUME NEW s \in Sessions, NEW e, RegistryInv, ClosedInv,
         sessions' = [sessions EXCEPT ![s] = e],
         e.generation = sessions[s].generation,
         e.generation \in closed' => e.state \in Terminal,
         nextGeneration' \in {nextGeneration, nextGeneration + 1},
         closed' \subseteq closed \cup {e.generation}, closed' \subseteq Generations
  PROVE  ClosedInv' /\ \A t \in Sessions : ~Revived(t)
<1>1. \A t \in Sessions : sessions'[t] = IF t = s THEN e ELSE sessions[t]
  BY DEF RegistryInv, TypeOK
<1>2. \A g \in closed' : g < nextGeneration'
  <2>1. nextGeneration \in 1 .. LastGeneration /\ closed \subseteq Generations
    BY DEF RegistryInv, TypeOK
  <2>2. sessions[s].generation < nextGeneration
    BY DEF RegistryInv, Numbering
  <2>3. sessions[s].generation \in Nat
    BY DEF RegistryInv, TypeOK, Entry, Absent, Generations
  <2>4. CASE nextGeneration' = nextGeneration
    BY <2>2, <2>4 DEF ClosedInv
  <2>5. CASE nextGeneration' = nextGeneration + 1
    BY <2>1, <2>2, <2>3, <2>5, IdentityAssumption DEF ClosedInv, Generations
  <2> QED
    BY <2>4, <2>5
<1>3. \A t \in Sessions : t # s /\ sessions[t].generation = sessions[s].generation
                          => sessions[t].generation = 0
  BY DEF RegistryInv, Numbering
<1>4. 0 \notin closed'
  BY DEF Generations
<1>5. \A t \in Sessions : sessions'[t].generation \in closed' => sessions'[t].state \in Terminal
  <2> SUFFICES ASSUME NEW t \in Sessions, t # s, sessions[t].generation \in closed'
               PROVE  sessions[t].state \in Terminal
    BY <1>1
  <2>1. CASE sessions[t].generation \in closed
    BY <2>1 DEF ClosedInv
  <2>2. CASE sessions[t].generation = sessions[s].generation
    <3>1. sessions[t].generation = 0 /\ sessions[s].generation = 0
      BY <1>3, <2>2
    <3> QED
      BY <3>1, <1>4
  <2> QED
    BY <2>1, <2>2
<1> QED
  BY <1>1, <1>2, <1>5 DEF ClosedInv, Revived

\* replace_session keeps or replaces s, and nothing else.
LEMMA ClosedReplace ==
  ASSUME NEW s \in Sessions, NEW e, NEW settled, NEW own, RegistryInv, ClosedInv,
         e.generation = sessions[s].generation,
         e.generation \in closed => e.state \in Terminal,
         ReplaceSession(s, e, settled, own), UNCHANGED closed
  PROVE  ClosedInv' /\ \A t \in Sessions : Revived(t) => t = s
<1>1. closed' \subseteq closed \cup {e.generation} /\ closed' \subseteq Generations
  BY DEF RegistryInv, TypeOK
<1>2. CASE /\ sessions' = [sessions EXCEPT ![s] = Prepared(nextGeneration)]
           /\ nextGeneration' = nextGeneration + 1
  BY <1>2, ClosedInstall
<1>3. CASE /\ sessions' = [sessions EXCEPT ![s] = e]
           /\ nextGeneration' \in {nextGeneration, nextGeneration + 1}
  BY <1>1, <1>3, ClosedKeep
<1> QED
  BY <1>2, <1>3 DEF ReplaceSession, GenerationAfterIssue

\* Every step: only Replace gives a closed session another generation.
LEMMA ClosedStep ==
  ASSUME RegistryInv, ClosedInv, [Next]_vars
  PROVE  ClosedInv' /\ \A t \in Sessions : Revived(t) => Replace(t)
<1>1. /\ sessions \in [Sessions -> Entry \cup {Absent}]
      /\ \A s \in Sessions : sessions[s] \in Entry \/ sessions[s] = Absent
      /\ closed \subseteq Generations /\ 0 \notin closed
      /\ nextSession \in 1 .. LastSession
  BY DEF RegistryInv, TypeOK, Generations
<1>2. ASSUME sessions' = sessions, closed' = closed,
             nextGeneration' \in {nextGeneration, nextGeneration + 1}
      PROVE  ClosedInv' /\ \A t \in Sessions : ~Revived(t)
  <2>1. nextGeneration \in 1 .. LastGeneration /\ closed \subseteq Generations
    BY DEF RegistryInv, TypeOK
  <2>2. \A g \in closed' : g < nextGeneration'
    <3>1. CASE nextGeneration' = nextGeneration
      BY <1>2, <3>1 DEF ClosedInv
    <3>2. CASE nextGeneration' = nextGeneration + 1
      BY <1>2, <2>1, <3>2, IdentityAssumption DEF ClosedInv, Generations
    <3> QED
      BY <1>2, <3>1, <3>2
  <2> QED
    BY <1>2, <2>2 DEF ClosedInv, Revived
<1>3. ASSUME NEW s \in Sessions, NEW next
      PROVE  /\ Cleaned(sessions[s], next).generation = sessions[s].generation
             /\ Cleaned(sessions[s], next).state = next
  <2>1. sessions[s] \in Entry \/ sessions[s] = Absent
    BY <1>1
  <2> QED
    BY <2>1 DEF Cleaned, Entry, Absent
<1>4. CASE CreateSession
  <2>1. nextSession \in Sessions
    BY <1>1, <1>4, IdentityAssumption DEF CreateSession, Sessions
  <2>2. ~Revived(nextSession)
    <3>1. sessions[nextSession] = Absent
      BY <1>1, <2>1 DEF RegistryInv, Numbering
    <3> QED
      BY <1>1, <3>1 DEF Revived, Absent
  <2> QED
    BY <1>4, <2>1, <2>2, ClosedInstall DEF CreateSession, GenerationAfterIssue
<1>5. CASE CreateFails \/ CreateExhausted
  BY <1>2, <1>5 DEF CreateFails, CreateExhausted, GenerationAfterIssue, history
<1>6. CASE DropRuntime
  BY <1>1, <1>6 DEF DropRuntime, ClosedInv, Revived, Absent
<1>7. ASSUME NEW s \in Sessions, Replace(s)
      PROVE  ClosedInv' /\ \A t \in Sessions : Revived(t) => Replace(t)
  <2>1. ReplaceSession(s, sessions[s], released, ended) /\ UNCHANGED closed
    BY <1>7 DEF Replace
  <2>2. sessions[s].generation \in closed => sessions[s].state \in Terminal
    BY DEF ClosedInv
  <2> QED
    BY <1>7, <2>1, <2>2, ClosedReplace
<1>8. ASSUME NEW s \in Sessions, NEW g \in Generations, Route(s, g)
      PROVE  ClosedInv' /\ \A t \in Sessions : ~Revived(t)
  <2>1. ASSUME NEW e, e.generation = sessions[s].generation,
               sessions[s].state \notin Terminal, Progress(s, g, e)
        PROVE  ClosedInv' /\ \A t \in Sessions : ~Revived(t)
    <3>1. e.generation \notin closed
      BY <2>1 DEF ClosedInv
    <3>2. closed' = closed /\ nextGeneration' = nextGeneration
      BY <2>1 DEF Progress, history
    <3>3. sessions' = [sessions EXCEPT ![s] = e]
      BY <2>1 DEF Progress
    <3> QED
      BY <1>1, <2>1, <3>1, <3>2, <3>3, ClosedKeep
  <2>2. CASE RendererAttached(s, g) \/ PeerAttached(s, g) \/ HandshakeCompleted(s, g)
    <3>1. PICK e :
            /\ e.generation = sessions[s].generation
            /\ Progress(s, g, e)
      <4>1. \A next \in State :
              /\ [sessions[s] EXCEPT !.state = next, !.renderer = "Attached"].generation
                   = sessions[s].generation
              /\ [sessions[s] EXCEPT !.state = next, !.peer = "Attached"].generation
                   = sessions[s].generation
              /\ [sessions[s] EXCEPT !.state = next].generation = sessions[s].generation
        <5>1. sessions[s] \in Entry \/ sessions[s] = Absent
          BY <1>1
        <5> QED
          BY <5>1 DEF Entry, Absent
      <4>2. CASE RendererAttached(s, g)
        BY <4>1, <4>2 DEF RendererAttached
      <4>3. CASE PeerAttached(s, g)
        BY <4>1, <4>3 DEF PeerAttached
      <4>4. CASE HandshakeCompleted(s, g)
        BY <4>1, <4>4 DEF HandshakeCompleted
      <4> QED
        BY <2>2, <4>2, <4>3, <4>4
    <3>2. sessions[s].state \notin Terminal
      BY <2>2 DEF RendererAttached, PeerAttached, HandshakeCompleted, Moves, Transitions, Terminal
    <3> QED
      BY <2>1, <3>1, <3>2
  <2>3. ASSUME NEW event, Invalidate(s, g, event)
        PROVE  ClosedInv' /\ \A t \in Sessions : ~Revived(t)
    <3>1. sessions[s].generation \notin closed
      BY <2>3 DEF Invalidate, ClosedInv
    <3>2. PICK next \in State :
            ReplaceSession(s, Cleaned(sessions[s], next), ReleasedWith(sessions[s]),
                           ended \cup {g})
      BY <2>3 DEF Invalidate
    <3>3. UNCHANGED closed
      BY <2>3 DEF Invalidate
    <3>4. ~Revived(s)
      BY <3>1 DEF Revived
    <3> QED
      BY <1>3, <3>1, <3>2, <3>3, <3>4, ClosedReplace
  <2>4. ASSUME NEW event, InvalidateFails(s, g, event)
        PROVE  ClosedInv' /\ \A t \in Sessions : ~Revived(t)
    <3>1. sessions[s].generation \notin closed
      BY <2>4 DEF InvalidateFails, ClosedInv
    <3>2. PICK next \in State : sessions' = [sessions EXCEPT ![s] = Cleaned(sessions[s], next)]
      BY <2>4 DEF InvalidateFails
    <3>3. closed' = closed /\ nextGeneration' = nextGeneration
      BY <2>4 DEF InvalidateFails
    <3> QED
      BY <1>1, <1>3, <3>1, <3>2, <3>3, ClosedKeep
  <2> QED
    BY <1>8, <2>2, <2>3, <2>4 DEF Route
<1>9. ASSUME NEW s \in Sessions, NEW g \in Generations, Close(s, g)
      PROVE  ClosedInv' /\ \A t \in Sessions : ~Revived(t)
  <2>1. PICK next \in Terminal : sessions' = [sessions EXCEPT ![s] = Cleaned(sessions[s], next)]
    BY <1>9 DEF Close, Terminal
  <2>2. /\ closed' = closed \cup {g} /\ sessions[s].generation = g
        /\ nextGeneration' = nextGeneration
    BY <1>9 DEF Close, Active
  <2>3. /\ Cleaned(sessions[s], next).generation = g
        /\ Cleaned(sessions[s], next).state \in Terminal
    BY <1>3, <2>2
  <2>4. closed' \subseteq closed \cup {g} /\ closed' \subseteq Generations
    BY <1>1, <2>2
  <2>5. nextGeneration' \in {nextGeneration, nextGeneration + 1}
    BY <2>2
  <2> QED
    BY <2>1, <2>2, <2>3, <2>4, <2>5, ClosedKeep
<1>10. ASSUME NEW s \in Sessions, NEW g \in Generations, CloseFails(s, g)
       PROVE  ClosedInv' /\ \A t \in Sessions : ~Revived(t)
  <2>1. PICK next \in State : sessions' = [sessions EXCEPT ![s] = Cleaned(sessions[s], next)]
    BY <1>10 DEF CloseFails, State
  <2>2. sessions[s].generation \notin closed
    BY <1>10 DEF CloseFails, ClosedInv
  <2>3. closed' = closed /\ nextGeneration' = nextGeneration
    BY <1>10 DEF CloseFails
  <2> QED
    BY <1>1, <1>3, <2>1, <2>2, <2>3, ClosedKeep
<1>11. ASSUME NEW s \in Sessions, NEW g \in Generations, CloseAgain(s, g)
       PROVE  ClosedInv' /\ \A t \in Sessions : ~Revived(t)
  <2>1. sessions' = [sessions EXCEPT ![s] = sessions[s]]
    BY <1>1, <1>11 DEF CloseAgain
  <2>2. /\ closed' = closed \cup {g} /\ sessions[s].generation = g
        /\ nextGeneration' = nextGeneration /\ sessions[s].state \in Terminal
    BY <1>11 DEF CloseAgain, Active
  <2> QED
    BY <1>1, <2>1, <2>2, ClosedKeep
<1>12. CASE UNCHANGED vars
  BY <1>2, <1>12 DEF vars, history
<1> QED
  BY <1>2, <1>4, <1>5, <1>6, <1>7, <1>8, <1>9, <1>10, <1>11, <1>12 DEF Next

\* Once close has returned Ok, only the host's own replace brings a session back.
THEOREM RuntimeCloseIsFinal == Spec => CloseIsFinal
<1>1. Init => ClosedInv
  BY DEF Init, ClosedInv
<1>2. RegistryInv /\ ClosedInv /\ [Next]_vars => ClosedInv'
  BY ClosedStep
<1>3. RegistryInv /\ ClosedInv /\ [Next]_vars
        => [\A s \in Sessions :
              /\ sessions[s].generation \in closed
              /\ sessions'[s].generation \notin {0, sessions[s].generation}
              => Replace(s)]_vars
  BY ClosedStep DEF Revived
<1> QED
  BY <1>1, <1>2, <1>3, RegistryInvariant, PTL DEF Spec, CloseIsFinal

-----------------------------------------------------------------------------
\* The facade and the host over the registry.

\* The types of the host's tables; a mapped window has a session to map to.
HostTypeOK ==
  /\ hosted \in [Sessions -> [generation : Nat, state : State]]
  /\ windows \in [Windows -> [session : Sessions \cup {0}, generation : Nat]]
  /\ \A w \in Mapped : windows[w].session \in Sessions /\ windows[w].generation > 0

\* An observation is of an issued generation. Until the facade is dropped, only
\* an active generation is recorded as live, and only one that holds nothing as
\* cleaned up. A process without a facade observes nothing.
Recorded ==
  /\ embedder = "runtime" => \A g \in Generations : observed[g] = Unobserved
  /\ \A g \in Generations :
       observed[g] # Unobserved =>
         /\ g < nextGeneration /\ owner[g] \in Sessions
         /\ ~dropped /\ observed[g].state \in Live => sessions[owner[g]].generation = g
         /\ ~dropped /\ observed[g].cleanup = "Complete" => released[g] = acquired[g]

FacadeInv ==
  RegistryInv /\ FacadeTypeOK /\ Recorded /\ HostTypeOK /\ OneWindowPerSession

-----------------------------------------------------------------------------
LEMMA OpenedStep ==
  ASSUME RegistryInv, NEW s \in Sessions, NEW g \in Generations, Opened(s, g)
  PROVE  RegistryInv' /\ sessions'[s].generation = g /\ sessions[s].generation = g
<1> DEFINE attached == [sessions[s] EXCEPT !.state = "Open"]
           both == [attached EXCEPT !.renderer = "Attached"]
           e == [both EXCEPT !.peer = "Attached"]
<1>1. sessions[s] \in Entry /\ sessions[s].generation = g /\ sessions[s].state \in Live
  BY DEF Opened, Active, RegistryInv, TypeOK, Absent, Generations, Live
<1>2. sessions' = [sessions EXCEPT ![s] = e]
  BY DEF Opened, RegistryInv, TypeOK
<1>3. attached \in Entry /\ attached.generation = g /\ attached.cleaned = sessions[s].cleaned
      /\ attached.state = "Open"
  BY <1>1 DEF Entry, State
<1> HIDE DEF attached
<1>4. both \in Entry /\ both.generation = g /\ both.cleaned = sessions[s].cleaned
      /\ both.state = "Open"
  BY <1>3 DEF Entry, EndpointStatus
<1> HIDE DEF both
<1>5. e \in Entry /\ e.generation = g /\ e.cleaned = sessions[s].cleaned /\ e.state = "Open"
  BY <1>4 DEF Entry, EndpointStatus
<1> HIDE DEF e
<1>6. UNCHANGED <<nextSession, nextGeneration, dropped, history>>
  BY DEF Opened
<1>7. sessions'[s] = e
  BY <1>2 DEF RegistryInv, TypeOK
<1>8. RegistryInv'
  BY <1>1, <1>2, <1>5, <1>6, ProgressStep DEF Live
<1> QED
  BY <1>1, <1>5, <1>7, <1>8

\* A call of the facade is one of the registry's, three at once, or none.
LEMMA CallOfRegistry ==
  ASSUME FacadeTypeOK, [FacadeNext]_allVars
  PROVE  \/ [Next]_vars
         \/ \E s \in Sessions, g \in Generations : Opened(s, g)
<1>1. ASSUME NEW g \in Generations, owner[g] # 0, HandleCall(owner[g], g)
      PROVE  \/ [Next]_vars
             \/ \E s \in Sessions, h \in Generations : Opened(s, h)
  <2>1. owner[g] \in Sessions
    BY <1>1 DEF FacadeTypeOK
  <2>2. CASE OpenRenderer(owner[g], g) \/ ObserveExternalConnection(owner[g], g)
    BY <2>1, <2>2 DEF OpenRenderer, ObserveExternalConnection, OpenedTooLate
  <2>3. CASE ReplaceRenderer(owner[g], g)
    BY <2>1, <2>3 DEF ReplaceRenderer, Next, Route
  <2>4. CASE FacadeClose(owner[g], g)
    BY <2>1, <2>4 DEF FacadeClose, Next
  <2>5. CASE \/ ObserveExternalFailure(owner[g], g) \/ FacadeCloseStale(owner[g], g)
             \/ WriteBootstrap(g)
    BY <2>5 DEF ObserveExternalFailure, FacadeCloseStale, WriteBootstrap
  <2> QED
    BY <1>1, <2>2, <2>3, <2>4, <2>5 DEF HandleCall
<1>2. CASE FacadeCreate \/ FacadeCreateFails \/ FacadeDrop
  BY <1>2 DEF FacadeCreate, FacadeCreateFails, FacadeDrop, Next
<1>3. CASE UNCHANGED vars
  BY <1>3
<1>4. CASE Next
  BY <1>4
<1>5. CASE FacadeStep
  BY <1>5, <1>1, <1>2 DEF FacadeStep
<1>6. CASE HandleIssue
  BY <1>6, <1>1, <1>2 DEF HandleIssue, HandleCall
<1> QED
  BY <1>3, <1>4, <1>5, <1>6 DEF FacadeNext, allVars

\* After a step, what a generation acquired is released if the one session that
\* may have it is over.
LEMMA NothingHeldLater ==
  ASSUME RegistryInv', NEW g \in Generations, NEW s \in Sessions,
         sessions'[s].generation = g => sessions'[s].state \notin Live,
         \A t \in Sessions : t # s => sessions'[t].generation # g
  PROVE  released'[g] = acquired'[g]
<1>1. \A t \in Sessions : ~(sessions'[t].generation = g /\ sessions'[t].state \in Live)
  OBVIOUS
<1> QED
  BY <1>1 DEF RegistryInv, TypeOK, ReleasedOnce, HeldBySession, Holds

-----------------------------------------------------------------------------
\* The host's tables.
LEMMA HostPart ==
  ASSUME HostTypeOK, OneWindowPerSession, RegistryInv, FacadeTypeOK, [FacadeNext]_allVars
  PROVE  HostTypeOK' /\ OneWindowPerSession'
<1>1. CASE UNCHANGED hostVars
  BY <1>1 DEF hostVars, HostTypeOK, OneWindowPerSession, Mapped
<1>2. ASSUME NEW w \in Windows, NEW g \in Generations, owner[g] # 0, Register(w, owner[g], g)
      PROVE  HostTypeOK' /\ OneWindowPerSession'
  <2> DEFINE s == owner[g]
             entry == [session |-> s, generation |-> g]
  <2>1. s \in Sessions /\ g \in Nat /\ g > 0 /\ s > 0
    BY <1>2 DEF FacadeTypeOK, Sessions, Generations
  <2>2. /\ windows[w] = Unmapped /\ hosted[s] = Unhosted
        /\ hosted' = [hosted EXCEPT ![s] = Awaited(g)]
        /\ windows' = [windows EXCEPT ![w] = entry]
    BY <1>2 DEF Register, Accepts
  <2>3. /\ Awaited(g) \in [generation : Nat, state : State] /\ Awaited(g).generation = g
        /\ entry \in [session : Sessions \cup {0}, generation : Nat] /\ entry # Unmapped
        /\ entry.session = s /\ entry.generation = g
    BY <2>1 DEF Awaited, State, Unmapped
  <2> HIDE DEF s, entry
  <2>4. /\ hosted' \in [Sessions -> [generation : Nat, state : State]]
        /\ windows' \in [Windows -> [session : Sessions \cup {0}, generation : Nat]]
        /\ hosted'[s] = Awaited(g) /\ windows'[w] = entry
        /\ \A t \in Sessions : t # s => hosted'[t] = hosted[t]
        /\ \A v \in Windows : v # w => windows'[v] = windows[v]
    BY <2>1, <2>2, <2>3 DEF HostTypeOK
  <2>5. \A v \in Mapped : windows[v].session # s
    BY <2>2 DEF HostTypeOK, OneWindowPerSession, Unhosted
  <2>6. Mapped' = Mapped \cup {w} /\ w \notin Mapped
    BY <2>2, <2>3, <2>4 DEF Mapped
  <2>7. HostTypeOK'
    BY <2>1, <2>3, <2>4, <2>6 DEF HostTypeOK, Mapped
  <2>8. \A v \in Mapped' : hosted'[windows'[v].session].generation = windows'[v].generation
    BY <2>3, <2>4, <2>5, <2>6 DEF HostTypeOK, OneWindowPerSession, Mapped
  <2>9. \A u, v \in Mapped' : windows'[u].session = windows'[v].session => u = v
    BY <2>3, <2>4, <2>5, <2>6 DEF OneWindowPerSession, Mapped
  <2>10. \A t \in DOMAIN hosted' : hosted'[t] # Unhosted => \E v \in Mapped' : windows'[v].session = t
    BY <2>3, <2>4, <2>6 DEF HostTypeOK, OneWindowPerSession, Mapped
  <2> QED
    BY <2>7, <2>8, <2>9, <2>10 DEF OneWindowPerSession
<1>3. ASSUME NEW w \in Windows, Attached(w)
      PROVE  HostTypeOK' /\ OneWindowPerSession'
  <2> DEFINE s == windows[w].session
  <2>1. PICK next \in State : hosted' = [hosted EXCEPT ![s].state = next]
    BY <1>3 DEF Attached
  <2>2. w \in Mapped /\ s \in Sessions /\ windows' = windows
    BY <1>3 DEF Attached, HostTypeOK, Mapped
  <2> HIDE DEF s
  <2>3. /\ hosted' \in [Sessions -> [generation : Nat, state : State]]
        /\ \A t \in Sessions : hosted'[t].generation = hosted[t].generation
        /\ \A t \in Sessions : t # s => hosted'[t] = hosted[t]
    BY <2>1, <2>2 DEF HostTypeOK
  <2>4. HostTypeOK'
    BY <2>2, <2>3 DEF HostTypeOK, Mapped
  <2> QED
    BY <2>2, <2>3, <2>4 DEF HostTypeOK, OneWindowPerSession, Mapped, s
<1>4. ASSUME NEW w \in Windows, Terminated(w)
      PROVE  HostTypeOK' /\ OneWindowPerSession'
  <2> DEFINE s == windows[w].session
             g == windows[w].generation + 1
  <2>1. /\ w \in Mapped /\ s \in Sessions /\ g \in Nat /\ g > 0
        /\ hosted[s].generation = windows[w].generation
    BY <1>4 DEF Terminated, HostTypeOK, Mapped, OneWindowPerSession
  <2>2. /\ hosted' = [hosted EXCEPT ![s] = Awaited(g)]
        /\ windows' = [windows EXCEPT ![w].generation = g]
    BY <1>4, <2>1 DEF Terminated, WindowFollows, HostTypeOK
  <2>3. Awaited(g) \in [generation : Nat, state : State] /\ Awaited(g).generation = g
    BY <2>1 DEF Awaited, State
  <2>4. windows'[w].session = s /\ windows'[w].generation = g
    BY <2>2 DEF HostTypeOK
  <2> HIDE DEF s, g
  <2>5. /\ hosted' \in [Sessions -> [generation : Nat, state : State]]
        /\ windows' \in [Windows -> [session : Sessions \cup {0}, generation : Nat]]
        /\ hosted'[s] = Awaited(g)
        /\ \A t \in Sessions : t # s => hosted'[t] = hosted[t]
        /\ \A v \in Windows : v # w => windows'[v] = windows[v]
        /\ \A v \in Windows : windows'[v].session = windows[v].session
    BY <2>1, <2>2, <2>3 DEF HostTypeOK
  <2>6. Mapped' = Mapped
    BY <2>1, <2>4, <2>5 DEF Mapped, Unmapped
  <2>7. HostTypeOK'
    BY <2>1, <2>4, <2>5, <2>6 DEF HostTypeOK, Mapped
  <2>8. \A v \in Mapped : v # w => windows[v].session # s
    BY <2>1 DEF OneWindowPerSession, s
  <2>9. \A v \in Mapped : hosted'[windows'[v].session].generation = windows'[v].generation
    BY <2>3, <2>4, <2>5, <2>8 DEF HostTypeOK, OneWindowPerSession, Mapped
  <2>10. \A t \in DOMAIN hosted' : hosted'[t] # Unhosted => \E v \in Mapped : windows'[v].session = t
    BY <2>1, <2>4, <2>5 DEF HostTypeOK, OneWindowPerSession, Mapped
  <2> QED
    BY <2>5, <2>6, <2>7, <2>9, <2>10 DEF OneWindowPerSession, Mapped
<1>5. ASSUME NEW w \in Windows, Remove(w)
      PROVE  HostTypeOK' /\ OneWindowPerSession'
  <2> DEFINE s == windows[w].session
  <2>1. /\ w \in Mapped /\ s \in Sessions
        /\ hosted' = [hosted EXCEPT ![s] = Unhosted]
        /\ windows' = [windows EXCEPT ![w] = Unmapped]
    BY <1>5 DEF Remove, HostTypeOK, Mapped
  <2>2. /\ Unhosted \in [generation : Nat, state : State]
        /\ Unmapped \in [session : Sessions \cup {0}, generation : Nat]
    BY DEF Unhosted, Unmapped, State
  <2> HIDE DEF s
  <2>3. /\ hosted' \in [Sessions -> [generation : Nat, state : State]]
        /\ windows' \in [Windows -> [session : Sessions \cup {0}, generation : Nat]]
        /\ hosted'[s] = Unhosted /\ windows'[w] = Unmapped
        /\ \A t \in Sessions : t # s => hosted'[t] = hosted[t]
        /\ \A v \in Windows : v # w => windows'[v] = windows[v]
    BY <2>1, <2>2 DEF HostTypeOK
  <2>4. Mapped' = Mapped \ {w}
    BY <2>3 DEF Mapped
  <2>5. \A v \in Mapped : v # w => windows[v].session # s
    BY <2>1 DEF OneWindowPerSession, s
  <2>6. HostTypeOK'
    BY <2>3, <2>4 DEF HostTypeOK, Mapped
  <2>7. \A v \in Mapped' : hosted'[windows'[v].session].generation = windows'[v].generation
    BY <2>3, <2>4, <2>5 DEF HostTypeOK, OneWindowPerSession, Mapped
  <2>8. \A t \in DOMAIN hosted' : hosted'[t] # Unhosted => \E v \in Mapped' : windows'[v].session = t
    <3> SUFFICES ASSUME NEW t \in Sessions, t # s, hosted[t] # Unhosted
                 PROVE  \E v \in Mapped' : windows'[v].session = t
      BY <2>3
    <3>1. PICK v \in Mapped : windows[v].session = t
      BY DEF HostTypeOK, OneWindowPerSession
    <3>2. v # w
      BY <3>1 DEF s
    <3> QED
      BY <3>1, <3>2, <2>3, <2>4 DEF Mapped
  <2> QED
    BY <2>3, <2>4, <2>6, <2>7, <2>8 DEF OneWindowPerSession, Mapped
<1>6. ASSUME NEW w \in Windows, Exhausted(w)
      PROVE  HostTypeOK' /\ OneWindowPerSession'
  <2> DEFINE s == windows[w].session
  <2>1. w \in Mapped /\ s \in Sessions /\ windows' = windows
    BY <1>6 DEF Exhausted, HostTypeOK, Mapped
  <2>2. hosted' = [hosted EXCEPT ![s].state = "Closed"] /\ "Closed" \in State
    BY <1>6 DEF Exhausted, State
  <2> HIDE DEF s
  <2>3. /\ hosted' \in [Sessions -> [generation : Nat, state : State]]
        /\ \A t \in Sessions : hosted'[t].generation = hosted[t].generation
        /\ \A t \in Sessions : t # s => hosted'[t] = hosted[t]
    BY <2>1, <2>2 DEF HostTypeOK
  <2>4. HostTypeOK'
    BY <2>1, <2>3 DEF HostTypeOK, Mapped
  <2> QED
    BY <2>1, <2>3, <2>4 DEF HostTypeOK, OneWindowPerSession, Mapped, s
<1> QED
  BY <1>1, <1>2, <1>3, <1>4, <1>5, <1>6 DEF FacadeNext, allVars, HostCall, HostStep

-----------------------------------------------------------------------------
\* A handle is issued only for the next generation, to a session.
LEMMA IssuedStep ==
  ASSUME FacadeTypeOK, NEW s \in Sessions, NEW g \in Generations, Issued(s, g)
  PROVE  /\ owner' \in [Generations -> Sessions \cup {0}] /\ envelopes' \subseteq Generations
         /\ owner'[g] = s
         /\ \A h \in Generations : h # g => owner'[h] = owner[h]
BY DEF FacadeTypeOK, Issued

\* What an insertion leaves of what was observed.
LEMMA InsertedStep ==
  ASSUME NEW s, NEW g \in Generations,
         NEW seen \in [Generations -> [state : State, cleanup : Cleanup]]
  PROVE  /\ Inserted(s, g, seen) \in [Generations -> [state : State, cleanup : Cleanup]]
         /\ Inserted(s, g, seen)[g] = Fresh
         /\ \A h \in Generations :
              h # g => Inserted(s, g, seen)[h] = seen[h] \/ Inserted(s, g, seen)[h] = Unobserved
<1>1. /\ Fresh \in [state : State, cleanup : Cleanup]
      /\ Unobserved \in [state : State, cleanup : Cleanup]
  BY DEF Fresh, Unobserved, State, Cleanup
<1> QED
  BY <1>1 DEF Inserted

\* What an update leaves of what was observed.
LEMMA UpdatedStep ==
  ASSUME FacadeTypeOK, NEW g \in Generations, NEW state \in State, NEW cleanup \in Cleanup
  PROVE  /\ Updated(g, state, cleanup) \in [Generations -> [state : State, cleanup : Cleanup]]
         /\ \A h \in Generations : h # g => Updated(g, state, cleanup)[h] = observed[h]
         /\ IF observed[g] = Unobserved THEN Updated(g, state, cleanup)[g] = Unobserved
            ELSE Updated(g, state, cleanup)[g] = [state |-> state, cleanup |-> cleanup]
BY DEF FacadeTypeOK, Updated

LEMMA CleanupFailedStep ==
  ASSUME FacadeTypeOK, NEW g \in Generations
  PROVE  /\ CleanupFailed(g) \in [Generations -> [state : State, cleanup : Cleanup]]
         /\ \A h \in Generations : h # g => CleanupFailed(g)[h] = observed[h]
         /\ IF observed[g] = Unobserved THEN CleanupFailed(g)[g] = Unobserved
            ELSE /\ CleanupFailed(g)[g].state = observed[g].state
                 /\ CleanupFailed(g)[g].cleanup = "Failed"
BY DEF FacadeTypeOK, CleanupFailed, Cleanup

\* The recorded observations, when only that of g may have changed, and what the
\* other generations acquired and released has not.
LEMMA RecordedStep ==
  ASSUME Recorded, RegistryInv, FacadeTypeOK, NEW g \in Generations, embedder # "runtime",
         UNCHANGED <<embedder, owner>>, nextGeneration' >= nextGeneration,
         nextGeneration' \in Nat, ~dropped' => ~dropped,
         \A h \in Generations : h # g => observed'[h] = observed[h],
         ~dropped' =>
           /\ \A s \in Sessions : sessions'[s].generation = sessions[s].generation
           /\ \A h \in Generations : h # g /\ h < nextGeneration =>
                acquired'[h] = acquired[h] /\ released'[h] = released[h],
         observed'[g] # Unobserved =>
           /\ observed[g] # Unobserved
           /\ ~dropped' /\ observed'[g].state \in Live => sessions'[owner[g]].generation = g
           /\ ~dropped' /\ observed'[g].cleanup = "Complete" => released'[g] = acquired'[g]
  PROVE  Recorded'
<1>1. nextGeneration \in Nat
  BY DEF RegistryInv, TypeOK
<1> SUFFICES ASSUME NEW h \in Generations, observed'[h] # Unobserved
             PROVE  /\ h < nextGeneration' /\ owner'[h] \in Sessions
                    /\ ~dropped' /\ observed'[h].state \in Live => sessions'[owner'[h]].generation = h
                    /\ ~dropped' /\ observed'[h].cleanup = "Complete" => released'[h] = acquired'[h]
  BY DEF Recorded
<1>2. h \in Nat
  BY DEF Generations
<1>3. CASE h = g
  BY <1>1, <1>2, <1>3 DEF Recorded
<1>4. CASE h # g
  BY <1>1, <1>2, <1>4 DEF Recorded
<1> QED
  BY <1>3, <1>4

\* The snapshot follows every call.
LEMMA RecordedPart ==
  ASSUME FacadeTypeOK, Recorded, RegistryInv, RegistryInv', [FacadeNext]_allVars
  PROVE  FacadeTypeOK' /\ Recorded'
<1>1. /\ nextSession \in 1 .. LastSession /\ nextGeneration \in 1 .. LastGeneration
      /\ nextGeneration \in Nat /\ nextGeneration' \in Nat
      /\ released \in [Generations -> Nat] /\ acquired \in [Generations -> Nat]
      /\ sessions \in [Sessions -> Entry \cup {Absent}]
  BY DEF RegistryInv, TypeOK
<1>2. CASE UNCHANGED <<vars, facadeVars>>
  BY <1>2 DEF FacadeTypeOK, Recorded, vars, facadeVars, history
<1>3. CASE embedder = "runtime" /\ UNCHANGED facadeVars
  BY <1>3 DEF FacadeTypeOK, Recorded, facadeVars
<1>4. ASSUME embedder # "runtime", UNCHANGED embedder, FacadeCreate
      PROVE  FacadeTypeOK' /\ Recorded'
  <2> DEFINE s == nextSession
             g == nextGeneration
  <2>1. /\ s \in Sessions /\ g \in Generations /\ sessions[s] = Absent
        /\ g < nextGeneration' /\ ~dropped
    BY <1>1, <1>4, IdentityAssumption
       DEF FacadeCreate, CreateSession, CanIssue, GenerationAfterIssue, Sessions, Generations,
           RegistryInv, Numbering
  <2>2. /\ owner' \in [Generations -> Sessions \cup {0}] /\ envelopes' \subseteq Generations
        /\ owner'[g] = s
        /\ \A h \in Generations : h # g => owner'[h] = owner[h]
    BY <1>4, <2>1, IssuedStep DEF FacadeCreate
  <2>3. observed \in [Generations -> [state : State, cleanup : Cleanup]]
    BY DEF FacadeTypeOK
  <2>4. /\ observed' \in [Generations -> [state : State, cleanup : Cleanup]]
        /\ observed'[g] = Fresh
        /\ \A h \in Generations : h # g => observed'[h] = observed[h] \/ observed'[h] = Unobserved
    BY <1>4, <2>1, <2>3, InsertedStep DEF FacadeCreate
  <2>5. /\ \A t \in Sessions : t # s => sessions'[t] = sessions[t]
        /\ sessions'[s].generation = g /\ released' = released /\ dropped' = dropped
        /\ \A h \in Generations : h # g => acquired'[h] = acquired[h]
    BY <1>1, <1>4, <2>1 DEF FacadeCreate, CreateSession, Prepared
  <2>6. FacadeTypeOK'
    BY <2>2, <2>4 DEF FacadeTypeOK
  <2>7. ASSUME NEW h \in Generations, observed'[h] # Unobserved
        PROVE  /\ h < nextGeneration' /\ owner'[h] \in Sessions
               /\ ~dropped' /\ observed'[h].state \in Live => sessions'[owner'[h]].generation = h
               /\ ~dropped' /\ observed'[h].cleanup = "Complete" => released'[h] = acquired'[h]
    <3>1. CASE h = g
      BY <2>1, <2>2, <2>4, <2>5, <3>1 DEF Fresh
    <3>2. CASE h # g
      <4>1. /\ observed'[h] = observed[h] /\ owner'[h] = owner[h] /\ owner[h] \in Sessions
            /\ h < nextGeneration
        BY <2>2, <2>4, <2>7, <3>2 DEF Recorded
      <4>2. h < nextGeneration'
        BY <1>1, <2>1, <4>1 DEF Generations
      <4>3. ~dropped' /\ observed'[h].state \in Live => sessions'[owner'[h]].generation = h
        <5> SUFFICES ASSUME ~dropped', observed'[h].state \in Live
                     PROVE  sessions'[owner'[h]].generation = h
          OBVIOUS
        <5>1. sessions[owner[h]].generation = h
          BY <2>5, <2>7, <4>1 DEF Recorded
        <5>2. owner[h] # s
          BY <2>1, <5>1 DEF Absent, Generations
        <5> QED
          BY <2>5, <4>1, <5>1, <5>2
      <4>4. ~dropped' /\ observed'[h].cleanup = "Complete" => released'[h] = acquired'[h]
        BY <2>5, <2>7, <3>2, <4>1 DEF Recorded
      <4> QED
        BY <4>1, <4>2, <4>3, <4>4
    <3> QED
      BY <3>1, <3>2
  <2> QED
    BY <1>4, <2>6, <2>7 DEF Recorded
<1>5. ASSUME embedder # "runtime", UNCHANGED embedder, FacadeCreateFails \/ FacadeDrop
      PROVE  FacadeTypeOK' /\ Recorded'
  <2>1. UNCHANGED <<owner, envelopes, observed>>
    BY <1>5 DEF FacadeCreateFails, FacadeDrop
  <2>2. nextGeneration' >= nextGeneration /\ (~dropped' => ~dropped)
    BY <1>1, <1>5 DEF FacadeCreateFails, FacadeDrop, CreateFails, CreateExhausted, DropRuntime,
                      GenerationAfterIssue
  <2>3. ~dropped' => /\ sessions' = sessions
                     /\ \A h \in Generations : h < nextGeneration =>
                          acquired'[h] = acquired[h] /\ released'[h] = released[h]
    <3>1. CASE FacadeDrop
      BY <3>1 DEF FacadeDrop, DropRuntime
    <3>2. CASE CreateExhausted
      BY <3>2 DEF CreateExhausted, history
    <3>3. CASE CreateFails
      <4>1. \A h \in Generations : h < nextGeneration => h # nextGeneration
        BY DEF Generations
      <4> QED
        BY <1>1, <3>3, <4>1 DEF CreateFails
    <3> QED
      BY <1>5, <3>1, <3>2, <3>3 DEF FacadeCreateFails
  <2>4. FacadeTypeOK'
    BY <2>1 DEF FacadeTypeOK
  <2>5. \A h \in Generations : h \in Nat
    BY DEF Generations
  <2> QED
    BY <1>1, <1>5, <2>1, <2>2, <2>3, <2>4, <2>5 DEF Recorded
<1>6. ASSUME embedder # "runtime", UNCHANGED embedder, NEW g \in Generations,
             owner[g] # 0, ReplaceRenderer(owner[g], g)
      PROVE  FacadeTypeOK' /\ Recorded'
  <2> DEFINE s == owner[g]
             new == nextGeneration
             ending == Updated(g, "Disconnected", "Complete")
  <2>1. s \in Sessions /\ sessions[s].generation = g /\ ~dropped /\ dropped' = dropped
    BY <1>6 DEF FacadeTypeOK, ReplaceRenderer, Invalidate, Active
  <2>2. PICK next \in State :
          /\ Moves(sessions[s].state, "Disconnect", next)
          /\ ReplaceSession(s, Cleaned(sessions[s], next), ReleasedWith(sessions[s]), ended \cup {g})
    BY <1>6 DEF ReplaceRenderer, Invalidate
  <2>3. /\ next \notin Live /\ Cleaned(sessions[s], next).generation = g
        /\ Cleaned(sessions[s], next).state = next
    <3>1. next \notin Live
      BY <2>2 DEF Moves, Transitions, Live
    <3> QED
      BY <2>1, <3>1, CleanedEntry
  <2>4. /\ nextGeneration' >= nextGeneration /\ g < nextGeneration /\ g \in Nat /\ new # g
        /\ CanIssue => new \in Generations
    BY <1>1, <2>1, <2>2, IdentityAssumption
       DEF ReplaceSession, GenerationAfterIssue, RegistryInv, Numbering, Generations, CanIssue
  <2>5. \A t \in Sessions : t # s => sessions'[t] = sessions[t] /\ sessions'[t].generation # g
    BY <1>1, <2>1, <2>2 DEF ReplaceSession, RegistryInv, Numbering, Generations
  <2>6. ReleasedWith(sessions[s]) \in [Generations -> Nat]
        /\ \A h \in Generations : h # g => ReleasedWith(sessions[s])[h] = released[h]
    BY <1>1, <2>1 DEF ReleasedWith, Releases
  <2>7. \A h \in Generations : h # g /\ h < nextGeneration =>
          acquired'[h] = acquired[h] /\ released'[h] = released[h]
    <3> DEFINE settled == ReleasedWith(sessions[s])
               over == Cleaned(sessions[s], next)
    <3>1. ReplaceSession(s, over, settled, ended \cup {g}) /\ over.generation = g
      BY <2>2, <2>3
    <3>2. /\ settled \in [Generations -> Nat]
          /\ \A h \in Generations : h # g => settled[h] = released[h]
      BY <2>6
    <3>3. \A h \in Generations : h < nextGeneration => h # nextGeneration
      BY DEF Generations
    <3> HIDE DEF settled, over
    <3> QED
      BY <1>1, <3>1, <3>2, <3>3 DEF ReplaceSession
  <2>8. sessions'[s].generation = g => sessions'[s].state = next
    BY <1>1, <2>1, <2>2, <2>3, <2>4 DEF ReplaceSession, Prepared
  <2>9. released'[g] = acquired'[g]
    BY <2>1, <2>3, <2>5, <2>8, NothingHeldLater
  <2>10. CASE sessions'[s].generation = g
    <3>1. UNCHANGED <<owner, envelopes, observed>>
      BY <1>6, <2>10 DEF ReplaceRenderer
    <3>2. FacadeTypeOK'
      BY <3>1 DEF FacadeTypeOK
    <3>3. \A t \in Sessions : sessions'[t].generation = sessions[t].generation
      BY <2>1, <2>5, <2>10
    <3>4. Recorded'
      BY <1>1, <1>6, <2>1, <2>4, <2>7, <2>9, <2>10, <3>1, <3>3, RecordedStep
    <3> QED
      BY <3>2, <3>4
  <2>11. CASE sessions'[s].generation # g
    <3>1. CanIssue /\ sessions'[s].generation = new /\ new \in Generations /\ new < nextGeneration'
      BY <1>1, <2>1, <2>2, <2>3, <2>4, <2>11 DEF ReplaceSession, Prepared, GenerationAfterIssue
    <3>2. Issued(s, new) /\ observed' = Inserted(s, new, ending)
      BY <1>6, <2>11 DEF ReplaceRenderer, Replaced
    <3>3. /\ owner' \in [Generations -> Sessions \cup {0}] /\ envelopes' \subseteq Generations
          /\ owner'[new] = s
          /\ \A h \in Generations : h # new => owner'[h] = owner[h]
      BY <2>1, <3>1, <3>2, IssuedStep
    <3>4. /\ ending \in [Generations -> [state : State, cleanup : Cleanup]]
          /\ \A h \in Generations : h # g => ending[h] = observed[h]
          /\ IF observed[g] = Unobserved THEN ending[g] = Unobserved
             ELSE ending[g] = [state |-> "Disconnected", cleanup |-> "Complete"]
      <4>1. "Disconnected" \in State /\ "Complete" \in Cleanup
        BY DEF State, Cleanup
      <4> QED
        BY <4>1, UpdatedStep
    <3> HIDE DEF ending
    <3>5. /\ observed' \in [Generations -> [state : State, cleanup : Cleanup]]
          /\ observed'[new] = Fresh
          /\ \A h \in Generations : h # new => observed'[h] = ending[h] \/ observed'[h] = Unobserved
      BY <3>1, <3>2, <3>4, InsertedStep
    <3>6. FacadeTypeOK'
      BY <3>3, <3>5 DEF FacadeTypeOK
    <3>7. ASSUME NEW h \in Generations, observed'[h] # Unobserved
          PROVE  /\ h < nextGeneration' /\ owner'[h] \in Sessions
                 /\ ~dropped' /\ observed'[h].state \in Live => sessions'[owner'[h]].generation = h
                 /\ ~dropped' /\ observed'[h].cleanup = "Complete" => released'[h] = acquired'[h]
      <4>1. CASE h = new
        BY <2>1, <3>1, <3>3, <3>5, <4>1 DEF Fresh
      <4>2. CASE h = g
        <5>1. /\ observed'[h] = [state |-> "Disconnected", cleanup |-> "Complete"]
              /\ owner'[h] = s
          BY <2>4, <3>3, <3>4, <3>5, <3>7, <4>2
        <5>2. observed'[h].state \notin Live
          BY <5>1 DEF Live
        <5>3. h < nextGeneration'
          BY <1>1, <2>4, <4>2
        <5> QED
          BY <2>1, <2>9, <4>2, <5>1, <5>2, <5>3
      <4>3. CASE h # new /\ h # g
        <5>1. /\ observed'[h] = observed[h] /\ owner'[h] = owner[h] /\ observed[h] # Unobserved
          BY <3>3, <3>4, <3>5, <3>7, <4>3
        <5>2. owner[h] \in Sessions /\ h < nextGeneration /\ h < nextGeneration'
          BY <1>1, <2>4, <5>1 DEF Recorded, Generations
        <5>3. ~dropped' /\ observed'[h].state \in Live => sessions'[owner'[h]].generation = h
          BY <2>1, <2>5, <4>3, <5>1, <5>2 DEF Recorded
        <5>4. ~dropped' /\ observed'[h].cleanup = "Complete" => released'[h] = acquired'[h]
          BY <2>1, <2>7, <4>3, <5>1, <5>2 DEF Recorded
        <5> QED
          BY <5>1, <5>2, <5>3, <5>4
      <4> QED
        BY <4>1, <4>2, <4>3
    <3> QED
      BY <1>6, <3>6, <3>7 DEF Recorded
  <2> QED
    BY <2>10, <2>11
<1>7. ASSUME embedder # "runtime", UNCHANGED embedder, NEW g \in Generations,
             owner[g] # 0, FacadeClose(owner[g], g)
      PROVE  FacadeTypeOK' /\ Recorded'
  <2> DEFINE s == owner[g]
             state == sessions'[s].state
  <2>1. /\ s \in Sessions /\ sessions[s].generation = g /\ ~dropped /\ dropped' = dropped
        /\ nextGeneration' = nextGeneration /\ acquired' = acquired
    BY <1>7 DEF FacadeTypeOK, FacadeClose, Close, CloseAgain, Active
  <2>2. /\ \A t \in Sessions : t # s => sessions'[t] = sessions[t]
        /\ sessions'[s].generation = g /\ state \in Terminal
        /\ \A h \in Generations : h # g => released'[h] = released[h]
    <3>1. CASE CloseAgain(s, g)
      BY <2>1, <3>1 DEF CloseAgain
    <3>2. CASE Close(s, g)
      <4> DEFINE next == IF sessions[s].state \in Drains THEN "Closed" ELSE "Failed"
      <4>1. /\ sessions' = [sessions EXCEPT ![s] = Cleaned(sessions[s], next)]
            /\ released' = ReleasedWith(sessions[s])
        BY <3>2 DEF Close
      <4>2. next \in State /\ next \notin Live /\ next \in Terminal
        BY DEF State, Live, Terminal
      <4> HIDE DEF next
      <4>3. /\ Cleaned(sessions[s], next).generation = g
            /\ Cleaned(sessions[s], next).state = next
        BY <2>1, <4>2, CleanedEntry
      <4> QED
        BY <1>1, <2>1, <4>1, <4>2, <4>3 DEF ReleasedWith
    <3> QED
      BY <1>7, <3>1, <3>2 DEF FacadeClose
  <2>3. released'[g] = acquired'[g]
    <3>1. \A t \in Sessions : t # s => sessions'[t].generation # g
      BY <2>1, <2>2 DEF RegistryInv, Numbering, Generations
    <3>2. sessions'[s].state \notin Live /\ s \in Sessions
      BY <2>1, <2>2 DEF Terminal, Live
    <3> HIDE DEF s
    <3> QED
      BY <3>1, <3>2, NothingHeldLater
  <2>4. observed' = Updated(g, state, "Complete") /\ state \in State /\ "Complete" \in Cleanup
        /\ UNCHANGED <<owner, envelopes>>
    BY <1>7, <2>2 DEF FacadeClose, Terminal, State, Cleanup
  <2> HIDE DEF state, s
  <2>5. /\ observed' \in [Generations -> [state : State, cleanup : Cleanup]]
        /\ \A h \in Generations : h # g => observed'[h] = observed[h]
        /\ observed'[g] # Unobserved => observed[g] # Unobserved
    <3>1. IF observed[g] = Unobserved THEN Updated(g, state, "Complete")[g] = Unobserved
          ELSE Updated(g, state, "Complete")[g] = [state |-> state, cleanup |-> "Complete"]
      BY <2>4, UpdatedStep
    <3>2. Updated(g, state, "Complete") \in [Generations -> [state : State, cleanup : Cleanup]]
      BY <2>4, UpdatedStep, Zenon
    <3>3. \A h \in Generations : h # g => Updated(g, state, "Complete")[h] = observed[h]
      BY DEF Updated, FacadeTypeOK
    <3> QED
      BY <2>4, <3>1, <3>2, <3>3
  <2>6. FacadeTypeOK'
    BY <2>4, <2>5 DEF FacadeTypeOK
  <2>7. \A t \in Sessions : sessions'[t].generation = sessions[t].generation
    BY <2>1, <2>2
  <2>8. Recorded'
    BY <1>1, <1>7, <2>1, <2>2, <2>3, <2>4, <2>5, <2>7, RecordedStep DEF s
  <2> QED
    BY <2>6, <2>8
<1>8. ASSUME embedder # "runtime", UNCHANGED embedder, NEW g \in Generations,
             ObserveExternalFailure(owner[g], g) \/ FacadeCloseStale(owner[g], g)
      PROVE  FacadeTypeOK' /\ Recorded'
  <2>1. observed' = CleanupFailed(g) /\ UNCHANGED <<vars, owner, envelopes>>
    BY <1>8 DEF ObserveExternalFailure, FacadeCloseStale
  <2>2. /\ observed' \in [Generations -> [state : State, cleanup : Cleanup]]
        /\ \A h \in Generations : h # g => observed'[h] = observed[h]
        /\ IF observed[g] = Unobserved THEN observed'[g] = Unobserved
           ELSE observed'[g].state = observed[g].state /\ observed'[g].cleanup = "Failed"
    BY <2>1, CleanupFailedStep
  <2>3. FacadeTypeOK'
    BY <2>1, <2>2 DEF FacadeTypeOK
  <2>4. /\ UNCHANGED <<sessions, nextGeneration, dropped, acquired, released, owner>>
        /\ nextGeneration' >= nextGeneration
    BY <1>1, <2>1 DEF vars, history
  <2>5. observed'[g] # Unobserved =>
          /\ observed[g] # Unobserved
          /\ ~dropped' /\ observed'[g].state \in Live => sessions'[owner[g]].generation = g
          /\ ~dropped' /\ observed'[g].cleanup = "Complete" => released'[g] = acquired'[g]
    BY <2>2, <2>4 DEF Recorded
  <2>6. Recorded'
    BY <1>1, <1>8, <2>2, <2>4, <2>5, RecordedStep
  <2> QED
    BY <2>3, <2>6
<1>9. ASSUME embedder # "runtime", UNCHANGED embedder, NEW g \in Generations,
             owner[g] # 0, OpenRenderer(owner[g], g) \/ ObserveExternalConnection(owner[g], g)
      PROVE  FacadeTypeOK' /\ Recorded'
  <2> DEFINE s == owner[g]
  <2>1. s \in Sessions /\ owner' = owner /\ envelopes' \subseteq Generations
    BY <1>9 DEF FacadeTypeOK, OpenRenderer, ObserveExternalConnection
  <2>2. CASE UNCHANGED <<vars, observed>>
    BY <1>9, <2>1, <2>2 DEF FacadeTypeOK, Recorded, vars, history
  <2>3. CASE /\ Opened(s, g) \/ OpenedTooLate(s, g)
             /\ observed' = Updated(g, "Open", "Pending")
    <3>1. /\ UNCHANGED <<nextGeneration, dropped, acquired, released>>
          /\ sessions[s].generation = g /\ sessions'[s].generation = g
          /\ \A t \in Sessions : t # s => sessions'[t] = sessions[t]
      <4>1. CASE Opened(s, g)
        BY <1>1, <2>1, <4>1, OpenedStep DEF Opened, history
      <4>2. CASE OpenedTooLate(s, g)
        BY <4>2 DEF OpenedTooLate, Active, vars, history
      <4> QED
        BY <2>3, <4>1, <4>2
    <3>2. "Open" \in State /\ "Pending" \in Cleanup
      BY DEF State, Cleanup
    <3>3. /\ observed' \in [Generations -> [state : State, cleanup : Cleanup]]
          /\ \A h \in Generations : h # g => observed'[h] = observed[h]
          /\ observed'[g] # Unobserved =>
               observed[g] # Unobserved /\ observed'[g].cleanup = "Pending"
      <4>1. IF observed[g] = Unobserved THEN Updated(g, "Open", "Pending")[g] = Unobserved
            ELSE Updated(g, "Open", "Pending")[g] = [state |-> "Open", cleanup |-> "Pending"]
        BY <3>2, UpdatedStep
      <4>2. Updated(g, "Open", "Pending") \in [Generations -> [state : State, cleanup : Cleanup]]
        BY <3>2, UpdatedStep, Zenon
      <4>3. \A h \in Generations : h # g => Updated(g, "Open", "Pending")[h] = observed[h]
        BY DEF Updated, FacadeTypeOK
      <4> QED
        BY <2>3, <4>1, <4>2, <4>3
    <3>4. FacadeTypeOK'
      BY <2>1, <3>3 DEF FacadeTypeOK
    <3>5. observed'[g] # Unobserved =>
            /\ observed[g] # Unobserved
            /\ ~dropped' /\ observed'[g].state \in Live => sessions'[owner[g]].generation = g
            /\ ~dropped' /\ observed'[g].cleanup = "Complete" => released'[g] = acquired'[g]
      BY <3>1, <3>3
    <3>6. \A t \in Sessions : sessions'[t].generation = sessions[t].generation
      BY <3>1
    <3>7. nextGeneration' >= nextGeneration
      BY <1>1, <3>1
    <3>8. Recorded'
      BY <1>1, <1>9, <2>1, <3>1, <3>3, <3>5, <3>6, <3>7, RecordedStep
    <3> QED
      BY <3>4, <3>8
  <2> QED
    BY <1>9, <2>2, <2>3 DEF OpenRenderer, ObserveExternalConnection
<1>10. ASSUME embedder # "runtime", UNCHANGED embedder, NEW g \in Generations, WriteBootstrap(g)
       PROVE  FacadeTypeOK' /\ Recorded'
  BY <1>10 DEF WriteBootstrap, FacadeTypeOK, Recorded, vars, history
<1>11. ASSUME embedder # "runtime", UNCHANGED embedder, FacadeStep \/ HandleIssue
       PROVE  FacadeTypeOK' /\ Recorded'
  BY <1>11, <1>4, <1>5, <1>6, <1>7, <1>8, <1>9, <1>10 DEF FacadeStep, HandleIssue, HandleCall
<1> QED
  BY <1>2, <1>3, <1>11 DEF FacadeNext, allVars, facadeVars

-----------------------------------------------------------------------------
\* One invariant for the facade and the host registry beside it.
THEOREM FacadeInvariant == FacadeSpec => []FacadeInv
<1>1. FacadeInit => FacadeInv
  <2> SUFFICES ASSUME FacadeInit PROVE FacadeInv
    OBVIOUS
  <2>1. RegistryInv
    BY RegistryInit DEF FacadeInit
  <2>2. FacadeTypeOK
    BY DEF FacadeInit, FacadeTypeOK, Unobserved, State, Cleanup
  <2>3. Recorded
    BY DEF FacadeInit, Recorded
  <2>4. HostTypeOK /\ OneWindowPerSession
    <3>1. /\ Unhosted \in [generation : Nat, state : State]
          /\ Unmapped \in [session : Sessions \cup {0}, generation : Nat]
      BY DEF Unhosted, Unmapped, State
    <3> QED
      BY <3>1 DEF FacadeInit, HostInit, HostTypeOK, OneWindowPerSession, Mapped
  <2> QED
    BY <2>1, <2>2, <2>3, <2>4 DEF FacadeInv
<1>2. FacadeInv /\ [FacadeNext]_allVars => FacadeInv'
  <2> SUFFICES ASSUME FacadeInv, [FacadeNext]_allVars PROVE FacadeInv'
    OBVIOUS
  <2>1. RegistryInv'
    <3>1. RegistryInv /\ FacadeTypeOK
      BY DEF FacadeInv
    <3> QED
      BY <3>1, CallOfRegistry, RegistryStep, OpenedStep
  <2>2. FacadeTypeOK' /\ Recorded'
    BY <2>1, RecordedPart DEF FacadeInv
  <2>3. HostTypeOK' /\ OneWindowPerSession'
    BY HostPart DEF FacadeInv
  <2> QED
    BY <2>1, <2>2, <2>3 DEF FacadeInv
<1> QED
  BY <1>1, <1>2, PTL DEF FacadeSpec

\* However the runtime is embedded, with every call of the facade, in its own
\* combinations of events, what a generation acquired is released once and
\* its number is prepared once.
THEOREM FacadeReleasedOnce == FacadeSpec => []ReleasedOnce
<1>1. FacadeInv => ReleasedOnce
  BY DEF FacadeInv, RegistryInv
<1> QED
  BY <1>1, FacadeInvariant, PTL

\* No call of the facade leaks a generation's resources or lets a live one go.
THEOREM FacadeHeldWhileLive == FacadeSpec => []HeldWhileLive
<1>1. FacadeInv => HeldWhileLive
  <2> SUFFICES ASSUME RegistryInv, NEW g \in Generations
               PROVE  released[g] < acquired[g] <=> \E s \in Sessions : Holds(s, g)
    BY DEF FacadeInv, HeldWhileLive
  <2>1. released[g] < acquired[g] => \E s \in Sessions : Holds(s, g)
    BY DEF RegistryInv, HeldBySession
  <2>2. (\E s \in Sessions : Holds(s, g)) => released[g] < acquired[g]
    BY DEF RegistryInv, LiveHolds, Holds
  <2> QED
    BY <2>1, <2>2
<1> QED
  BY <1>1, FacadeInvariant, PTL

\* Opening both endpoints at once leaves every lease and every closed session.
LEMMA OpenedKeeps ==
  ASSUME RegistryInv, NEW s \in Sessions, NEW g \in Generations, Opened(s, g)
  PROVE  LeaseStep /\ (ClosedInv => ClosedInv' /\ \A t \in Sessions : ~Revived(t))
<1>1. PICK e : /\ sessions' = [sessions EXCEPT ![s] = e]
               /\ e.generation = sessions[s].generation /\ e.state \in Live
  <2>1. sessions' = [sessions EXCEPT ![s] = sessions'[s]]
    BY DEF Opened, RegistryInv, TypeOK
  <2>2. sessions[s] \in Entry
    BY DEF Opened, Active, RegistryInv, TypeOK, Absent, Generations
  <2>3. sessions'[s].state = "Open"
    BY <2>2 DEF Opened, RegistryInv, TypeOK, Entry
  <2>4. sessions'[s].generation = sessions[s].generation
    BY OpenedStep
  <2> QED
    BY <2>1, <2>3, <2>4 DEF Live
<1>2. /\ sessions[s].state \in Live /\ sessions[s].state \notin Terminal
      /\ UNCHANGED <<nextGeneration, closed>>
  BY DEF Opened, Live, Terminal, history
<1>3. \A t \in Sessions : sessions'[t] = IF t = s THEN e ELSE sessions[t]
  BY <1>1 DEF RegistryInv, TypeOK
<1>4. LeaseStep
  <2>1. LeaseNow' = [t \in Sessions |-> LeaseOf(sessions'[t])]
    BY DEF LeaseNow, LeaseOf
  <2>2. LeaseOf(e) = LeaseOf(sessions[s])
    BY <1>1, <1>2 DEF LeaseOf
  <2>3. LeaseNow' = LeaseNow
    BY <1>3, <2>1, <2>2 DEF LeaseNow
  <2> QED
    BY <1>2, <2>3 DEF LeaseStep, Leases!vars, LeaseNow, LeaseOf
<1>5. ClosedInv => ClosedInv' /\ \A t \in Sessions : ~Revived(t)
  BY <1>1, <1>2, <1>3 DEF ClosedInv, Revived
<1> QED
  BY <1>4, <1>5

\* The facade implements the leases as well: none of its calls, in its own
\* combinations of events, grants a generation twice or two to one session.
THEOREM FacadeImplementsLease == FacadeSpec => ImplementsLease
<1>1. FacadeInit => Leases!Init
  <2> SUFFICES ASSUME Init PROVE Leases!Init
    BY DEF FacadeInit
  <2>1. Absent.state \notin Live
    BY DEF Absent, Live
  <2> QED
    BY <2>1 DEF Init, Leases!Init
<1>2. FacadeInv /\ [FacadeNext]_allVars => [Leases!Next]_(Leases!vars)
  <2> SUFFICES ASSUME FacadeInv, [FacadeNext]_allVars PROVE LeaseStep
    BY DEF LeaseStep
  <2>1. RegistryInv /\ FacadeTypeOK
    BY DEF FacadeInv
  <2> QED
    BY <2>1, CallOfRegistry, RegistryLeaseStep, OpenedKeeps
<1> QED
  BY <1>1, <1>2, FacadeInvariant, PTL DEF FacadeSpec, ImplementsLease, Leases!Spec

\* No call of the facade but replace_renderer brings a closed session back: not
\* a late connection, and not a failure reported under an old handle.
THEOREM FacadeCloseIsFinal == FacadeSpec => CloseIsFinal
<1> DEFINE Final == \A s \in Sessions :
              /\ sessions[s].generation \in closed
              /\ sessions'[s].generation \notin {0, sessions[s].generation}
              => Replace(s)
<1>1. FacadeInit => ClosedInv
  BY DEF FacadeInit, Init, ClosedInv
<1>2. FacadeInv /\ ClosedInv /\ [FacadeNext]_allVars => ClosedInv' /\ [Final]_vars
  <2> SUFFICES ASSUME FacadeInv, ClosedInv, [FacadeNext]_allVars PROVE ClosedInv' /\ Final
    OBVIOUS
  <2>1. RegistryInv /\ FacadeTypeOK
    BY DEF FacadeInv
  <2>2. CASE [Next]_vars
    BY <2>1, <2>2, ClosedStep DEF Revived
  <2>3. ASSUME NEW s \in Sessions, NEW g \in Generations, Opened(s, g)
        PROVE  ClosedInv' /\ Final
    BY <2>1, <2>3, OpenedKeeps DEF Revived
  <2> QED
    BY <2>1, <2>2, <2>3, CallOfRegistry
<1> QED
  BY <1>1, <1>2, FacadeInvariant, PTL DEF FacadeSpec, CloseIsFinal

\* The diagnostics snapshot is true after any sequence of replacements, closes,
\* late attachments and failures, under handles current or replaced.
THEOREM FacadeSnapshotIsTrue == FacadeSpec => []SnapshotIsTrue
<1>1. FacadeInv => SnapshotIsTrue
  <2> SUFFICES ASSUME RegistryInv, Recorded, ~dropped,
                      NEW g \in Generations, observed[g] # Unobserved
               PROVE  /\ Shown(g) \in Live => released[g] < acquired[g]
                      /\ observed[g].cleanup = "Complete" => released[g] = acquired[g]
    BY DEF FacadeInv, SnapshotIsTrue
  <2>1. observed[g].cleanup = "Complete" => released[g] = acquired[g]
    BY DEF Recorded
  <2>2. ASSUME Shown(g) \in Live PROVE Active(owner[g], g)
    BY <2>2 DEF Recorded, Shown, Active
  <2>3. ASSUME Shown(g) \in Live PROVE released[g] < acquired[g]
    <3>1. owner[g] \in Sessions /\ sessions[owner[g]].generation = g
      BY <2>2, <2>3 DEF Recorded, Active
    <3>2. sessions[owner[g]].state \in Live
      BY <2>2, <2>3 DEF Shown
    <3> QED
      BY <3>1, <3>2 DEF RegistryInv, LiveHolds
  <2> QED
    BY <2>1, <2>3
<1> QED
  BY <1>1, FacadeInvariant, PTL

\* The adapter's windows and the host's sessions stay in step, for any number
\* of windows and whatever handles they are registered with.
THEOREM HostOneWindowPerSession == FacadeSpec => []OneWindowPerSession
<1>1. FacadeInv => OneWindowPerSession
  BY DEF FacadeInv
<1> QED
  BY <1>1, FacadeInvariant, PTL

-----------------------------------------------------------------------------
\* What is kept of a session's observations: the newest of what was issued.
Newest(issued) == {g \in issued : Cardinality({l \in issued : l > g}) < Retained}

\* A process without a facade issues no handle; the others only numbers handed out.
IssuedInOrder ==
  \A g \in Generations : owner[g] # 0 => embedder # "runtime" /\ g < nextGeneration

LEMMA NewestStep ==
  ASSUME NEW issued \in SUBSET Generations, NEW g \in Generations,
         \A l \in issued : l < g
  PROVE  Newest(issued \cup {g}) =
           {g} \cup {k \in Newest(issued) :
                       Cardinality({l \in Newest(issued) \cup {g} : l > k}) < Retained}
<1> DEFINE more == issued \cup {g}
           Above(S, k) == {l \in S : l > k}
<1>1. /\ Retained \in Nat \ {0} /\ LastGeneration \in Nat /\ g \in Nat
      /\ \A l \in issued : l \in Nat
  BY RetainedAssumption, IdentityAssumption DEF Generations
<1>2. IsFiniteSet(issued) /\ IsFiniteSet(more)
  <2>1. IsFiniteSet(Generations)
    BY <1>1, FS_Interval DEF Generations
  <2> QED
    BY <2>1, FS_Subset
<1>3. \A k : /\ IsFiniteSet(Above(issued, k)) /\ IsFiniteSet(Above(more, k))
             /\ Cardinality(Above(issued, k)) \in Nat /\ Cardinality(Above(more, k)) \in Nat
  <2> TAKE k
  <2>1. Above(issued, k) \in SUBSET issued /\ Above(more, k) \in SUBSET more
    OBVIOUS
  <2>2. IsFiniteSet(Above(issued, k)) /\ IsFiniteSet(Above(more, k))
    BY <1>2, <2>1, FS_Subset
  <2> HIDE DEF Above, more
  <2> QED
    BY <2>2, FS_CardinalityType
<1>4. ASSUME NEW k \in issued
      PROVE  Cardinality(Above(issued, k)) < Cardinality(Above(more, k))
  <2>1. Above(more, k) = Above(issued, k) \cup {g} /\ g \notin Above(issued, k)
    BY <1>1
  <2>2. IsFiniteSet(Above(issued, k)) /\ Cardinality(Above(issued, k)) \in Nat
    BY <1>3
  <2> HIDE DEF Above, more
  <2>3. Cardinality(Above(more, k)) = Cardinality(Above(issued, k)) + 1
    BY <2>1, <2>2, FS_AddElement
  <2> QED
    BY <2>2, <2>3
<1>5. Above(more, g) = {} /\ Cardinality(Above(more, g)) < Retained
  <2>1. Above(more, g) = {}
    <3>1. \A l \in issued \cup {g} : ~(l > g)
      BY <1>1
    <3> QED
      BY <3>1
  <2> HIDE DEF Above, more
  <2> QED
    BY <1>1, <2>1, FS_EmptySet
<1>6. ASSUME NEW k \in Newest(issued)
      PROVE  Above(Newest(issued) \cup {g}, k) = Above(more, k)
  <2>1. ASSUME NEW l \in issued, l > k PROVE l \in Newest(issued)
    <3>1. Above(issued, l) \in SUBSET Above(issued, k)
      <4>1. k \in Nat /\ l \in Nat
        BY <1>1 DEF Newest
      <4>2. \A m \in issued : m > l => m > k
        BY <1>1, <2>1, <4>1
      <4> QED
        BY <4>2
    <3>2. IsFiniteSet(Above(issued, k)) /\ Cardinality(Above(issued, k)) \in Nat
          /\ Cardinality(Above(issued, l)) \in Nat
      BY <1>3
    <3>3. Cardinality(Above(issued, k)) < Retained
      BY DEF Newest
    <3> HIDE DEF Above
    <3>4. Cardinality(Above(issued, l)) <= Cardinality(Above(issued, k))
      BY <3>1, <3>2, FS_Subset
    <3>5. Cardinality(Above(issued, l)) < Retained
      BY <1>1, <3>2, <3>3, <3>4
    <3> QED
      BY <3>5 DEF Newest, Above
  <2> QED
    BY <2>1 DEF Newest
<1>7. Newest(more) = {k \in more : Cardinality(Above(more, k)) < Retained}
  BY DEF Newest
<1>8. Newest(issued) = {k \in issued : Cardinality(Above(issued, k)) < Retained}
  BY DEF Newest
<1> DEFINE kept == {k \in Newest(issued) : Cardinality(Above(Newest(issued) \cup {g}, k)) < Retained}
<1>9. g \in more /\ \A k : k \in more <=> k = g \/ k \in issued
  OBVIOUS
<1>10. kept = {k \in Newest(issued) : Cardinality(Above(more, k)) < Retained}
  BY <1>6
<1>11. ASSUME NEW k \in issued, Cardinality(Above(more, k)) < Retained
       PROVE  k \in Newest(issued)
  <2>1. Cardinality(Above(issued, k)) < Cardinality(Above(more, k))
    BY <1>4
  <2>2. Cardinality(Above(issued, k)) \in Nat /\ Cardinality(Above(more, k)) \in Nat
    BY <1>3
  <2> HIDE DEF Above
  <2>3. Cardinality(Above(issued, k)) < Retained
    BY <1>1, <1>11, <2>1, <2>2
  <2> QED
    BY <1>8, <2>3
<1> HIDE DEF Above, more
<1>12. Newest(issued) \subseteq issued
  BY <1>8
<1>13. Newest(more) = {g} \cup kept
  BY <1>5, <1>7, <1>9, <1>10, <1>11, <1>12
<1> QED
  BY <1>13 DEF more, Above

\* An issued handle and the insertion that goes with it.
LEMMA LatestStep ==
  ASSUME FacadeTypeOK, LatestAreObserved, IssuedInOrder,
         NEW s \in Sessions, nextGeneration \in Generations, Issued(s, nextGeneration),
         NEW seen \in [Generations -> [state : State, cleanup : Cleanup]],
         \A k \in Generations : seen[k] = Unobserved <=> observed[k] = Unobserved,
         observed' = Inserted(s, nextGeneration, seen)
  PROVE  LatestAreObserved'
<1>1. PICK g \in Generations : g = nextGeneration
  OBVIOUS
<1> DEFINE Handles(t) == {k \in Generations : owner[k] = t}
<1>2. /\ \A k \in Generations : owner[k] # 0 => k < g
      /\ \A k \in Generations : k \in Nat
      /\ owner[g] = 0 /\ s # 0
  BY <1>1 DEF IssuedInOrder, Generations, Sessions
<1>3. /\ owner'[g] = s
      /\ \A k \in Generations : k # g => owner'[k] = owner[k]
  BY <1>1, IssuedStep
<1>4. Fresh # Unobserved
  BY DEF Fresh, Unobserved
<1>5. /\ observed'[g] = Fresh
      /\ \A k \in Generations : k # g =>
           (observed'[k] # Unobserved <=> k \notin Pruned(s, g) /\ observed[k] # Unobserved)
  BY <1>1 DEF Inserted
<1>6. ASSUME NEW t \in Sessions
      PROVE  Observed(t) = Newest(Handles(t))
  BY DEF LatestAreObserved, Newest
<1>7. ASSUME NEW t \in Sessions
      PROVE  Observed(t)' = Newest({k \in Generations : owner'[k] = t})
  <2>1. CASE t = s
    <3>1. {k \in Generations : owner'[k] = t} = Handles(s) \cup {g}
      BY <1>2, <1>3, <2>1
    <3>2. Handles(s) \in SUBSET Generations /\ \A l \in Handles(s) : l < g
      BY <1>2
    <3>3. Observed(s) = Newest(Handles(s))
      BY <1>6
    <3> HIDE DEF Handles
    <3>4. Newest(Handles(s) \cup {g}) =
            {g} \cup {k \in Observed(s) : Cardinality({l \in Observed(s) \cup {g} : l > k}) < Retained}
      BY <3>2, <3>3, NewestStep
    <3>5. \A k \in Observed(s) :
            k \notin Pruned(s, g) <=> Cardinality({l \in Observed(s) \cup {g} : l > k}) < Retained
      <4> SUFFICES ASSUME NEW k \in Observed(s)
                   PROVE  Cardinality({l \in Observed(s) \cup {g} : l > k}) >= Retained
                            <=> ~(Cardinality({l \in Observed(s) \cup {g} : l > k}) < Retained)
        BY DEF Pruned
      <4> DEFINE above == {l \in Observed(s) \cup {g} : l > k}
      <4>1. IsFiniteSet(Generations)
        BY IdentityAssumption, FS_Interval DEF Generations
      <4>2. above \in SUBSET Generations
        BY DEF Observed
      <4> HIDE DEF above
      <4>3. Cardinality(above) \in Nat
        BY <4>1, <4>2, FS_Subset, FS_CardinalityType
      <4>4. Cardinality(above) >= Retained <=> ~(Cardinality(above) < Retained)
        BY <4>3, RetainedAssumption
      <4> QED
        BY <4>4 DEF above
    <3>6. \A k \in Generations : k \in Observed(s) => k # g
      BY <1>2 DEF Observed
    <3>7. Observed(s)' = {k \in Generations : owner'[k] = s /\ observed'[k] # Unobserved}
      BY DEF Observed
    <3>8. \A k \in Generations :
            k \in Observed(s)' <=> k = g \/ (k \in Observed(s) /\ k \notin Pruned(s, g))
      BY <1>3, <1>4, <1>5, <3>6, <3>7 DEF Observed
    <3>9. \A k : k \in Observed(s)' <=> k = g \/ (k \in Observed(s) /\ k \notin Pruned(s, g))
      BY <3>7, <3>8 DEF Observed
    <3>10. \A k : k \in Observed(s)' <=> k \in Newest(Handles(s) \cup {g})
      BY <3>4, <3>5, <3>9
    <3>11. Observed(s)' = Newest(Handles(s) \cup {g})
      <4> DEFINE kept == Observed(s)'
                 newest == Newest(Handles(s) \cup {g})
      <4>1. \A k : k \in kept <=> k \in newest
        BY <3>10
      <4> HIDE DEF kept, newest
      <4>2. kept = newest
        BY <4>1
      <4> QED
        BY <4>2 DEF kept, newest
    <3>12. Observed(t)' = Observed(s)'
      BY <2>1 DEF Observed
    <3> QED
      BY <3>1, <3>11, <3>12
  <2>2. CASE t # s
    <3>1. {k \in Generations : owner'[k] = t} = Handles(t)
      <4>1. t # 0
        BY DEF Sessions
      <4> QED
        BY <1>2, <1>3, <2>2, <4>1
    <3>2. \A k \in Pruned(s, g) : owner[k] = s
      BY DEF Pruned, Observed
    <3>3. Observed(t)' = Observed(t)
      <4>1. Observed(t)' = {k \in Generations : owner'[k] = t /\ observed'[k] # Unobserved}
        BY DEF Observed
      <4> QED
        BY <1>2, <1>3, <1>5, <2>2, <3>1, <3>2, <4>1 DEF Observed
    <3> QED
      BY <1>6, <3>1, <3>3
  <2> QED
    BY <2>1, <2>2
<1> QED
  BY <1>7 DEF LatestAreObserved, Newest

\* The latest generations of a session stay in the snapshot, and only they: no
\* other call of the facade adds or takes away an observation.
THEOREM FacadeLatestAreObserved == FacadeSpec => []LatestAreObserved
<1> DEFINE Inv == IssuedInOrder /\ LatestAreObserved
<1>1. FacadeInit => Inv
  <2> SUFFICES ASSUME FacadeInit PROVE Inv
    OBVIOUS
  <2>1. \A s \in Sessions : s # 0
    BY DEF Sessions
  <2> QED
    BY <2>1 DEF FacadeInit, IssuedInOrder, LatestAreObserved, Observed
<1>2. FacadeInv /\ FacadeInv' /\ Inv /\ [FacadeNext]_allVars => Inv'
  <2> SUFFICES ASSUME FacadeInv, FacadeInv', Inv, [FacadeNext]_allVars PROVE Inv'
    OBVIOUS
  <2>1. /\ nextGeneration \in Nat /\ nextGeneration' \in Nat /\ FacadeTypeOK
        /\ nextSession \in 1 .. LastSession /\ nextGeneration \in 1 .. LastGeneration
        /\ observed \in [Generations -> [state : State, cleanup : Cleanup]]
        /\ \A g \in Generations : g \in Nat
    BY DEF FacadeInv, RegistryInv, TypeOK, FacadeTypeOK, Generations
  \* A step that issues nothing.
  <2>2. ASSUME UNCHANGED <<owner, embedder>>, nextGeneration' >= nextGeneration,
               \A g \in Generations : observed'[g] = Unobserved <=> observed[g] = Unobserved
        PROVE  Inv'
    <3>1. IssuedInOrder'
      BY <2>1, <2>2 DEF IssuedInOrder
    <3>2. \A s \in Sessions : Observed(s)' = Observed(s)
      BY <2>2 DEF Observed
    <3>3. LatestAreObserved'
      BY <2>2, <3>2 DEF LatestAreObserved
    <3> QED
      BY <3>1, <3>3
  \* A step that issues a handle.
  <2>3. ASSUME NEW s \in Sessions, nextGeneration \in Generations, Issued(s, nextGeneration),
               NEW seen \in [Generations -> [state : State, cleanup : Cleanup]],
               \A k \in Generations : seen[k] = Unobserved <=> observed[k] = Unobserved,
               observed' = Inserted(s, nextGeneration, seen),
               embedder' # "runtime", nextGeneration' > nextGeneration
        PROVE  Inv'
    <3>1. LatestAreObserved'
      BY <2>1, <2>3, LatestStep
    <3>2. /\ owner'[nextGeneration] = s
          /\ \A k \in Generations : k # nextGeneration => owner'[k] = owner[k]
      BY <2>1, <2>3, IssuedStep
    <3>3. IssuedInOrder'
      BY <2>1, <2>3, <3>2 DEF IssuedInOrder
    <3> QED
      BY <3>1, <3>3
  <2>4. CASE UNCHANGED facadeVars /\ embedder = "runtime"
    <3>1. \A g \in Generations : owner'[g] = 0
      BY <2>4 DEF IssuedInOrder, facadeVars
    <3>2. \A s \in Sessions : Observed(s)' = Observed(s)
      BY <2>4 DEF Observed, facadeVars
    <3> QED
      BY <2>4, <3>1, <3>2 DEF IssuedInOrder, LatestAreObserved, facadeVars
  <2>5. CASE UNCHANGED <<vars, facadeVars>>
    <3>1. UNCHANGED <<owner, embedder, observed, nextGeneration>>
      BY <2>5 DEF vars, facadeVars
    <3> QED
      BY <2>1, <2>2, <3>1
  <2>6. ASSUME embedder # "runtime", UNCHANGED embedder, FacadeCreate
        PROVE  Inv'
    <3>1. /\ nextSession \in Sessions /\ nextGeneration \in Generations
          /\ nextGeneration' = nextGeneration + 1
      BY <2>1, <2>6, IdentityAssumption
         DEF FacadeCreate, CreateSession, CanIssue, GenerationAfterIssue, Sessions, Generations
    <3>2. /\ Issued(nextSession, nextGeneration)
          /\ observed' = Inserted(nextSession, nextGeneration, observed)
      BY <2>6 DEF FacadeCreate
    <3> QED
      BY <2>1, <2>3, <2>6, <3>1, <3>2
  <2>7. ASSUME embedder # "runtime", UNCHANGED embedder, FacadeCreateFails \/ FacadeDrop
        PROVE  Inv'
    <3>1. UNCHANGED <<owner, observed>>
      BY <2>7 DEF FacadeCreateFails, FacadeDrop
    <3>2. nextGeneration' >= nextGeneration
      BY <2>1, <2>7 DEF FacadeCreateFails, FacadeDrop, CreateFails, CreateExhausted, DropRuntime,
                        GenerationAfterIssue
    <3> QED
      BY <2>2, <2>7, <3>1, <3>2
  \* What Updated and CleanupFailed leave observed.
  <2>8. ASSUME NEW g \in Generations, NEW state \in State, NEW cleanup \in Cleanup,
               state # "Created" \/ cleanup # "Pending"
        PROVE  /\ Updated(g, state, cleanup) \in [Generations -> [state : State, cleanup : Cleanup]]
               /\ \A k \in Generations :
                    Updated(g, state, cleanup)[k] = Unobserved <=> observed[k] = Unobserved
    <3>1. [state |-> state, cleanup |-> cleanup] # Unobserved
      BY <2>8 DEF Unobserved
    <3>2. Updated(g, state, cleanup) \in [Generations -> [state : State, cleanup : Cleanup]]
      BY <2>1, UpdatedStep
    <3>3. \A k \in Generations : k # g => Updated(g, state, cleanup)[k] = observed[k]
      BY <2>1 DEF Updated
    <3>4. IF observed[g] = Unobserved THEN Updated(g, state, cleanup)[g] = Unobserved
          ELSE Updated(g, state, cleanup)[g] = [state |-> state, cleanup |-> cleanup]
      BY <2>1, UpdatedStep
    <3> QED
      BY <3>1, <3>2, <3>3, <3>4
  <2>9. ASSUME UNCHANGED embedder, NEW g \in Generations, embedder # "runtime",
               owner[g] # 0, ReplaceRenderer(owner[g], g)
        PROVE  Inv'
    <3>1. owner[g] \in Sessions
      BY <2>1, <2>9 DEF FacadeTypeOK
    <3>2. PICK next \in State : 
            ReplaceSession(owner[g], Cleaned(sessions[owner[g]], next),
                           ReleasedWith(sessions[owner[g]]), ended \cup {g})
      BY <2>9 DEF ReplaceRenderer, Invalidate
    <3>3. nextGeneration' >= nextGeneration
      BY <2>1, <3>2 DEF ReplaceSession, GenerationAfterIssue
    <3>4. CASE sessions'[owner[g]].generation = g
      <4>1. UNCHANGED <<owner, envelopes, observed>>
        BY <2>9, <3>4 DEF ReplaceRenderer
      <4> QED
        BY <2>2, <2>9, <3>3, <4>1
    <3>5. CASE sessions'[owner[g]].generation # g
      <4>1. /\ Issued(owner[g], nextGeneration)
            /\ observed' = Inserted(owner[g], nextGeneration, Updated(g, "Disconnected", "Complete"))
        BY <2>9, <3>5 DEF ReplaceRenderer, Replaced
      <4>2. nextGeneration \in Generations /\ nextGeneration' > nextGeneration
        <5> DEFINE over == Cleaned(sessions[owner[g]], next)
        <5>1. over.generation = g /\ sessions[owner[g]].generation = g
          <6>1. sessions[owner[g]].generation = g
            BY <2>9 DEF ReplaceRenderer, Invalidate, Active
          <6> QED
            BY <6>1 DEF Cleaned
        <5>2. sessions \in [Sessions -> Entry \cup {Absent}]
          BY DEF FacadeInv, RegistryInv, TypeOK
        <5> HIDE DEF over
        <5>3. CanIssue /\ nextGeneration' = nextGeneration + 1
          BY <2>1, <3>1, <3>2, <3>5, <5>1, <5>2 DEF ReplaceSession, GenerationAfterIssue, over
        <5> QED
          BY <2>1, <5>3, IdentityAssumption DEF CanIssue, Generations
      <4>3. "Disconnected" \in State /\ "Complete" \in Cleanup
        BY DEF State, Cleanup
      <4>4. /\ Updated(g, "Disconnected", "Complete")
                 \in [Generations -> [state : State, cleanup : Cleanup]]
            /\ \A k \in Generations :
                 Updated(g, "Disconnected", "Complete")[k] = Unobserved <=> observed[k] = Unobserved
        BY <2>8, <4>3
      <4> QED
        BY <2>3, <2>9, <3>1, <4>1, <4>2, <4>4
    <3> QED
      BY <3>4, <3>5
  <2>10. ASSUME UNCHANGED embedder, NEW g \in Generations, owner[g] # 0,
                FacadeClose(owner[g], g)
         PROVE  Inv'
    <3>1. owner[g] \in Sessions /\ UNCHANGED <<owner, nextGeneration>>
      BY <2>1, <2>10 DEF FacadeTypeOK, FacadeClose, Close, CloseAgain, vars
    <3>2. observed' = Updated(g, sessions'[owner[g]].state, "Complete")
      BY <2>10 DEF FacadeClose
    <3>3. sessions'[owner[g]].state \in State /\ "Complete" \in Cleanup
      BY <3>1 DEF FacadeInv, RegistryInv, TypeOK, Entry, Absent, State, Cleanup
    <3> QED
      BY <2>1, <2>2, <2>8, <2>10, <3>1, <3>2, <3>3
  <2>11. ASSUME UNCHANGED embedder, NEW g \in Generations,
                ObserveExternalFailure(owner[g], g) \/ FacadeCloseStale(owner[g], g)
         PROVE  Inv'
    <3>1. observed' = CleanupFailed(g) /\ UNCHANGED <<owner, nextGeneration>>
      BY <2>11 DEF ObserveExternalFailure, FacadeCloseStale, vars
    <3>2. \A k \in Generations : CleanupFailed(g)[k] = Unobserved <=> observed[k] = Unobserved
      <4>1. \A k \in Generations : k # g => CleanupFailed(g)[k] = observed[k]
        BY <2>1, CleanupFailedStep
      <4>2. IF observed[g] = Unobserved THEN CleanupFailed(g)[g] = Unobserved
            ELSE CleanupFailed(g)[g].cleanup = "Failed"
        BY <2>1, CleanupFailedStep
      <4> QED
        BY <4>1, <4>2 DEF Unobserved
    <3> QED
      BY <2>1, <2>2, <2>11, <3>1, <3>2
  <2>12. ASSUME UNCHANGED embedder, NEW g \in Generations, owner[g] # 0,
                OpenRenderer(owner[g], g) \/ ObserveExternalConnection(owner[g], g)
         PROVE  Inv'
    <3>1. UNCHANGED <<owner, nextGeneration>>
      BY <2>12 DEF OpenRenderer, ObserveExternalConnection, Opened, OpenedTooLate, vars
    <3>2. CASE observed' = observed
      BY <2>1, <2>2, <2>12, <3>1, <3>2
    <3>3. CASE observed' = Updated(g, "Open", "Pending")
      <4>1. "Open" \in State /\ "Pending" \in Cleanup
        BY DEF State, Cleanup
      <4>2. \A k \in Generations :
              Updated(g, "Open", "Pending")[k] = Unobserved <=> observed[k] = Unobserved
        BY <2>8, <4>1
      <4> QED
        BY <2>1, <2>2, <2>12, <3>1, <3>3, <4>2
    <3> QED
      BY <2>12, <3>2, <3>3 DEF OpenRenderer, ObserveExternalConnection
  <2>13. ASSUME UNCHANGED embedder, NEW g \in Generations, WriteBootstrap(g)
         PROVE  Inv'
    <3>1. UNCHANGED <<owner, nextGeneration, observed>>
      BY <2>13 DEF WriteBootstrap, vars
    <3> QED
      BY <2>1, <2>2, <2>13, <3>1
  <2>14. ASSUME embedder # "runtime", UNCHANGED embedder, FacadeStep \/ HandleIssue
         PROVE  Inv'
    BY <2>14, <2>6, <2>7, <2>9, <2>10, <2>11, <2>12, <2>13
       DEF FacadeStep, HandleIssue, HandleCall
  <2> HIDE DEF Inv
  <2> QED
    BY <2>4, <2>5, <2>14 DEF FacadeNext, allVars, facadeVars
<1>3. FacadeSpec => []FacadeInv
  BY FacadeInvariant
<1>4. Inv => LatestAreObserved
  OBVIOUS
<1> QED
  BY <1>1, <1>2, <1>3, <1>4, PTL DEF FacadeSpec
=============================================================================
