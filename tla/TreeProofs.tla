----------------------------- MODULE TreeProofs -----------------------------
(***************************************************************************)
(* A nested Supervisor, for every number of actors, restarts, crashes and  *)
(* cancellations.                                                          *)
(***************************************************************************)
EXTENDS Tree, TLAPS

Status == {"none", "up", "backoff", "stopping", "ended"}
Holds == {"up", "stopping"}          \* its mailbox is registered
Over == {"none", "ended"}

\* TypeOK, with the facts about the current generation it rests on.
TypeInv ==
    /\ TypeOK
    /\ at \in {"building", "waiting", "closing"} => gen \in Gen

\* Where actors can be as long as no generation was left behind: only in the
\* current one, none when the next may begin, and none that is still ending
\* while it builds or waits.
Freed ==
    /\ \A g \in Gen, l \in Leaf : g > gen => leaf[g][l] = "none"
    /\ at = "building" => \A l \in Leaf : l > built => leaf[gen][l] = "none"
    /\ dropped = {} =>
        /\ \A g \in Gen, l \in Leaf : g < gen => leaf[g][l] \in Over
        /\ (at \in {"new", "backoff"} \/ (at = "done" /\ sweeping)) =>
              \A l \in Leaf : gen \in Gen => leaf[gen][l] \in Over
        /\ at \in {"building", "waiting"} => \A l \in Leaf : leaf[gen][l] # "stopping"
    /\ sweeping => at \in {"closing", "done"}

IInv == TypeInv /\ NoOrphans /\ Freed

-----------------------------------------------------------------------------
LEMMA Basics ==
    /\ \A g \in Gen : g \in Nat /\ g > 0
    /\ \A l \in Leaf : l \in Nat /\ l > 0
    /\ 1 \in Gen
    /\ TypeInv => gen \in Nat /\ built \in Nat
  BY TreeAssumption DEF Gen, Leaf, TypeInv, TypeOK

LEMMA InitIInv == Init => IInv
  <1> SUFFICES ASSUME Init PROVE IInv
    OBVIOUS
  <1>1. TypeInv
    <2>1. /\ leaf \in [Gen -> [Leaf -> Status]]
          /\ \A g \in Gen, l \in Leaf : leaf[g][l] = "none"
      BY DEF Init, Status
    <2>2. /\ built \in 0..Leaves /\ restarts \in 0..MaxRestarts
          /\ crashes \in 0..MaxCrashes /\ cancels \in 0..MaxCancels
      BY TreeAssumption DEF Init
    <2> QED
      BY <2>1, <2>2 DEF Init, TypeInv, TypeOK, Status
  <1>2. \A g \in Gen : Alive(g) = {}
    BY DEF Init, Alive
  <1>3. NoOrphans
    BY <1>2 DEF NoOrphans
  <1>4. Freed
    BY Basics DEF Init, Freed, Over
  <1> QED
    BY <1>1, <1>3, <1>4 DEF IInv

\* An actor's next status in a generation.
LEMMA LeafTo ==
    ASSUME TypeInv, NEW g \in Gen, NEW l \in Leaf, NEW s \in Status,
           leaf' = [leaf EXCEPT ![g][l] = s]
    PROVE  /\ leaf' \in [Gen -> [Leaf -> Status]]
           /\ leaf'[g][l] = s
           /\ \A h \in Gen, m \in Leaf : h # g \/ m # l => leaf'[h][m] = leaf[h][m]
  BY DEF TypeInv, TypeOK, Status

\* What shutdown() does to the actors of generation g.
LEMMA LeafShutdown ==
    ASSUME TypeInv, NEW g \in Gen, leaf' = Shutdown(g)
    PROVE  /\ leaf' \in [Gen -> [Leaf -> Status]]
           /\ \A h \in Gen, m \in Leaf : h # g => leaf'[h][m] = leaf[h][m]
           /\ \A m \in Leaf : leaf'[g][m] \notin {"up", "backoff"}
           /\ \A m \in Leaf : leaf'[g][m] \in Holds <=> leaf[g][m] \in Holds
           /\ \A m \in Leaf : leaf'[g][m] = "none" <=> leaf[g][m] = "none"
  BY DEF TypeInv, TypeOK, Status, Shutdown, Holds

-----------------------------------------------------------------------------
(* Types                                                                   *)

\* No name is held by two generations when an actor that holds one gets it
\* while it is free.
LEMMA HoldsOne ==
    ASSUME TypeInv, NEW g \in Gen, NEW l \in Leaf, NEW s \in Status,
           leaf' = [leaf EXCEPT ![g][l] = s],
           s \in Holds => leaf[g][l] \in Holds \/ ~Taken(l)
    PROVE  /\ leaf' \in [Gen -> [Leaf -> Status]]
           /\ \A m \in Leaf, h, i \in Gen :
                 (leaf'[h][m] \in Holds /\ leaf'[i][m] \in Holds) => h = i
  <1>1. /\ leaf' \in [Gen -> [Leaf -> Status]]
        /\ leaf'[g][l] = s
        /\ \A h \in Gen, m \in Leaf : h # g \/ m # l => leaf'[h][m] = leaf[h][m]
    BY LeafTo
  <1>2. \A m \in Leaf, h, i \in Gen :
            (leaf[h][m] \in Holds /\ leaf[i][m] \in Holds) => h = i
    BY DEF TypeInv, TypeOK, Holds
  <1>3. s \in Holds => \A h \in Gen : leaf[h][l] \in Holds => h = g
    BY <1>2 DEF Taken, Holds
  <1> QED
    BY <1>1, <1>2, <1>3

LEMMA TypeStep == TypeInv /\ [Next]_vars => TypeInv'
  <1> SUFFICES ASSUME TypeInv, [Next]_vars PROVE TypeInv'
    OBVIOUS
  <1> DEFINE Rest ==
        /\ at' \in {"new", "building", "waiting", "backoff", "closing", "done"}
        /\ sweeping' \in BOOLEAN
        /\ gen' \in Gen \union {0} /\ built' \in 0..Leaves
        /\ gaveUp' \subseteq Gen /\ dropped' \subseteq Gen
        /\ restarts' \in 0..MaxRestarts /\ crashes' \in 0..MaxCrashes
        /\ cancels' \in 0..MaxCancels
        /\ at' \in {"building", "waiting", "closing"} => gen' \in Gen
  <1> DEFINE Leafs ==
        /\ leaf' \in [Gen -> [Leaf -> Status]]
        /\ \A m \in Leaf, h, i \in Gen :
              (leaf'[h][m] \in Holds /\ leaf'[i][m] \in Holds) => h = i
  <1>0. Rest /\ Leafs => TypeInv'
    BY DEF TypeInv, TypeOK, Status, Holds
  <1>1. leaf' = leaf => Leafs
    BY DEF TypeInv, TypeOK, Status, Holds
  <1>2. CASE Begin \/ Built \/ Closed \/ Respawn
    <2>1. sweeping' \in BOOLEAN
      BY <1>2 DEF Begin, Built, Closed, Respawn, TypeInv, TypeOK
    <2>2. /\ gen' = gen \/ gen' \in Gen
          /\ built' \in 0..Leaves
          /\ at' \in {"new", "building", "waiting", "done"}
          /\ at' \in {"building", "waiting"} => gen' \in Gen
      BY <1>2, TreeAssumption DEF Begin, Built, Closed, Respawn, TypeInv, TypeOK
    <2>3. UNCHANGED <<leaf, gaveUp, dropped, restarts, crashes, cancels>>
      BY <1>2 DEF Begin, Built, Closed, Respawn
    <2>4. Rest
      BY <2>1, <2>2, <2>3 DEF TypeInv, TypeOK
    <2> QED BY <1>0, <1>1, <2>3, <2>4
  <1>3. CASE BuildRaises \/ GivenUp
    <2>0. HandleChildCrash /\ gen \in Gen
      BY <1>3 DEF BuildRaises, GivenUp, TypeInv
    <2>2. /\ at' \in {"backoff", "done"}
          /\ (restarts < MaxRestarts /\ restarts' = restarts + 1) \/ restarts' = restarts
          /\ dropped' = dropped \/ dropped' = dropped \union {gen}
      BY <2>0 DEF HandleChildCrash
    <2>3. restarts' \in 0..MaxRestarts
      BY <2>2, TreeAssumption DEF TypeInv, TypeOK
    <2>1. Rest /\ leaf' = leaf
      BY <2>0, <2>2, <2>3 DEF HandleChildCrash, TypeInv, TypeOK
    <2> QED BY <1>0, <1>1, <2>1
  <1>4. CASE Spawn
    <2>1. Rest /\ gen \in Gen /\ built + 1 \in Leaf
      BY <1>4, TreeAssumption DEF Spawn, TypeInv, TypeOK, Leaf
    <2>2. leaf' = [leaf EXCEPT ![gen][built + 1] = "up"] /\ ~Taken(built + 1)
      BY <1>4 DEF Spawn
    <2>3. Leafs
      BY <2>1, <2>2, HoldsOne DEF Status
    <2> QED BY <1>0, <2>1, <2>3
  <1>5. ASSUME NEW sweep \in BOOLEAN, Cancel(sweep) PROVE TypeInv'
    <2>1. Rest
      BY <1>5, TreeAssumption DEF Cancel, TypeInv, TypeOK
    <2>2. leaf' = leaf \/ (gen \in Gen /\ leaf' = Shutdown(gen))
      BY <1>5 DEF Cancel, TypeInv
    <2>3. ASSUME gen \in Gen, leaf' = Shutdown(gen) PROVE Leafs
      BY <2>3, LeafShutdown DEF TypeInv, TypeOK, Holds
    <2> QED BY <1>0, <1>1, <2>1, <2>2, <2>3
  <1>6. ASSUME NEW g \in Gen, NEW l \in Leaf, LeafStep(g, l) PROVE TypeInv'
    <2>1. Rest
      BY <1>6, TreeAssumption
         DEF LeafStep, LeafCrash, LeafRestart, LeafGivesUp, LeafStops, TypeInv, TypeOK
    <2>2. \E s \in {"up", "backoff", "ended"} :
             leaf' = [leaf EXCEPT ![g][l] = s] /\ (s = "up" => ~Taken(l))
      BY <1>6 DEF LeafStep, LeafCrash, LeafRestart, LeafGivesUp, LeafStops
    <2>3. Leafs
      BY <2>2, HoldsOne DEF Status, Holds
    <2> QED BY <1>0, <2>1, <2>3
  <1>7. CASE UNCHANGED vars
    BY <1>7 DEF vars, TypeInv, TypeOK
  <1> QED
    BY <1>2, <1>3, <1>4, <1>5, <1>6, <1>7 DEF Next, Own
-----------------------------------------------------------------------------
(* No orphans                                                              *)

\* A generation with an actor alive after a step had one before it, or it is
\* the one that is being built.
LEMMA OrphansStep == IInv /\ [Next]_vars => NoOrphans'
  <1> SUFFICES ASSUME IInv, [Next]_vars, NEW g \in Gen, NEW m \in Leaf,
                      leaf'[g][m] \in {"up", "backoff"}
               PROVE  g \in dropped' \/ (g = gen' /\ at' \in {"building", "waiting"})
    BY DEF NoOrphans, Alive
  <1>0. TypeInv
    BY DEF IInv
  <1>1. leaf[g][m] \in {"up", "backoff"} =>
            g \in dropped \/ (g = gen /\ at \in {"building", "waiting"})
    BY DEF IInv, NoOrphans, Alive
  <1>2. CASE Begin \/ Built \/ Closed \/ Respawn
    BY <1>1, <1>2 DEF Begin, Built, Closed, Respawn
  <1>3. CASE BuildRaises \/ GivenUp
    <2>1. HandleChildCrash /\ leaf' = leaf
      BY <1>3 DEF BuildRaises, GivenUp, HandleChildCrash
    <2>2. g = gen => Alive(gen) # {}
      BY <2>1 DEF Alive
    <2> QED
      BY <1>1, <2>1, <2>2 DEF HandleChildCrash
  <1>4. CASE Spawn
    <2>1. /\ at' = "building" /\ gen' = gen /\ dropped' = dropped
          /\ leaf' = [leaf EXCEPT ![gen][built + 1] = "up"]
      BY <1>4 DEF Spawn
    <2>2. g # gen => leaf'[g][m] = leaf[g][m]
      BY <2>1, <1>0 DEF TypeInv, TypeOK
    <2> QED
      BY <1>1, <2>1, <2>2
  <1>5. ASSUME NEW sweep \in BOOLEAN, Cancel(sweep)
        PROVE  g \in dropped' \/ (g = gen' /\ at' \in {"building", "waiting"})
    <2>1. CASE at \in {"building", "waiting"}
      <3>1. leaf' = Shutdown(gen) /\ gen \in Gen /\ dropped' = dropped
        BY <1>0, <1>5, <2>1 DEF Cancel, TypeInv
      <3>2. g # gen /\ leaf'[g][m] = leaf[g][m]
        BY <1>0, <3>1, LeafShutdown
      <3> QED
        BY <1>1, <3>1, <3>2
    <2>2. CASE at \notin {"building", "waiting"}
      BY <1>1, <1>5, <2>2 DEF Cancel
    <2> QED
      BY <2>1, <2>2
  <1>6. ASSUME NEW h \in Gen, NEW l \in Leaf, LeafStep(h, l)
        PROVE  g \in dropped' \/ (g = gen' /\ at' \in {"building", "waiting"})
    <2>1. UNCHANGED <<at, gen, dropped>>
      BY <1>6 DEF LeafStep, LeafCrash, LeafRestart, LeafGivesUp, LeafStops
    <2>2. \E s \in {"up", "backoff", "ended"} :
             /\ leaf' = [leaf EXCEPT ![h][l] = s]
             /\ s \in {"up", "backoff"} => leaf[h][l] \in {"up", "backoff"}
      BY <1>6 DEF LeafStep, LeafCrash, LeafRestart, LeafGivesUp, LeafStops
    <2>3. leaf[g][m] \in {"up", "backoff"}
      BY <1>0, <2>2 DEF TypeInv, TypeOK
    <2> QED
      BY <1>1, <2>1, <2>3
  <1>7. CASE UNCHANGED vars
    BY <1>1, <1>7 DEF vars
  <1> QED
    BY <1>2, <1>3, <1>4, <1>5, <1>6, <1>7 DEF Next, Own

-----------------------------------------------------------------------------
(* The names are freed                                                     *)

\* An actor that is not there, or gone for good, stays so.
LEMMA LeafFinal ==
    ASSUME TypeInv, NEW h \in Gen, NEW l \in Leaf, LeafStep(h, l)
    PROVE  \A g \in Gen, m \in Leaf :
               /\ leaf[g][m] = "none" => leaf'[g][m] = "none"
               /\ leaf[g][m] \in Over => leaf'[g][m] \in Over
               /\ leaf[g][m] # "stopping" => leaf'[g][m] # "stopping"
  <1>1. \E s \in {"up", "backoff", "ended"} :
            leaf' = [leaf EXCEPT ![h][l] = s] /\ leaf[h][l] \notin Over
    BY DEF LeafStep, LeafCrash, LeafRestart, LeafGivesUp, LeafStops, Over
  <1> QED
    BY <1>1 DEF TypeInv, TypeOK, Over

LEMMA FreedStep == IInv /\ [Next]_vars => Freed'
  <1> SUFFICES ASSUME IInv, [Next]_vars PROVE Freed'
    OBVIOUS
  <1>0. TypeInv /\ Freed /\ NoOrphans
    BY DEF IInv
  <1>1. CASE Begin
    <2>1. /\ at' = "building" /\ at \in {"new", "backoff"} /\ gen' = gen + 1
          /\ built' = 0 /\ gen' \in Gen
          /\ UNCHANGED <<leaf, dropped, sweeping>>
      BY <1>1 DEF Begin
    <2>2. \A g \in Gen : (g > gen' => g > gen) /\ (g < gen' => g < gen \/ g = gen)
      BY <1>0, <2>1, Basics
    <2>3. gen' > gen
      BY <1>0, <2>1, Basics
    <2> QED
      BY <1>0, <2>1, <2>2, <2>3 DEF Freed
  <1>2. CASE Spawn
    <2>1. /\ at = "building" /\ built' = built + 1 /\ UNCHANGED <<at, gen, dropped, sweeping>>
          /\ leaf' = [leaf EXCEPT ![gen][built + 1] = "up"]
      BY <1>2 DEF Spawn
    <2>2. gen \in Gen /\ built + 1 \in Leaf
      BY <1>0, <1>2, TreeAssumption DEF Spawn, TypeInv, TypeOK, Leaf
    <2>3. /\ leaf'[gen][built + 1] = "up"
          /\ \A h \in Gen, m \in Leaf : h # gen \/ m # built + 1 => leaf'[h][m] = leaf[h][m]
      BY <1>0, <2>1, <2>2, LeafTo DEF Status
    <2>4. \A g \in Gen : (g > gen \/ g < gen) => g # gen
      BY <1>0, Basics
    <2>5. \A l \in Leaf : l > built + 1 => l > built /\ l # built + 1
      BY <1>0, Basics
    <2> QED
      BY <1>0, <2>1, <2>2, <2>3, <2>4, <2>5 DEF Freed
  <1>3. CASE Built
    BY <1>0, <1>3 DEF Built, Freed
  <1>4. CASE BuildRaises \/ GivenUp
    <2>1. /\ at \in {"building", "waiting"} /\ HandleChildCrash /\ gen \in Gen
          /\ UNCHANGED <<gen, leaf, sweeping>>
      BY <1>0, <1>4 DEF BuildRaises, GivenUp, HandleChildCrash, TypeInv
    <2>2. at' \in {"backoff", "done"}
      BY <2>1 DEF HandleChildCrash
    <2>3. dropped' = {} => dropped = {} /\ Alive(gen) = {}
      BY <2>1 DEF HandleChildCrash
    <2>4. dropped' = {} => \A l \in Leaf : leaf[gen][l] \in Over
      BY <1>0, <2>1, <2>3 DEF Freed, Alive, Over, TypeInv, TypeOK
    <2> QED
      BY <1>0, <2>1, <2>2, <2>3, <2>4 DEF Freed
  <1>5. ASSUME NEW sweep \in BOOLEAN, Cancel(sweep) PROVE Freed'
    <2>1. CASE at \in {"building", "waiting"}
      <3>1. /\ leaf' = Shutdown(gen) /\ gen \in Gen /\ at' = "closing"
            /\ UNCHANGED <<gen, built, dropped>>
        BY <1>0, <1>5, <2>1 DEF Cancel, TypeInv
      <3>2. \A g \in Gen : (g > gen \/ g < gen) => g # gen
        BY <1>0, Basics
      <3>3. \A h \in Gen, m \in Leaf : h # gen => leaf'[h][m] = leaf[h][m]
        BY <1>0, <3>1, LeafShutdown
      <3> QED
        BY <1>0, <3>1, <3>2, <3>3 DEF Freed
    <2>2. CASE at = "closing"
      BY <1>0, <1>5, <2>2 DEF Cancel, Freed
    <2>3. CASE at \in {"new", "backoff"}
      BY <1>0, <1>5, <2>3 DEF Cancel, Freed
    <2> QED
      BY <1>0, <1>5, <2>1, <2>2, <2>3 DEF Cancel, TypeInv, TypeOK
  <1>6. CASE Closed
    <2>1. /\ at = "closing" /\ at' = "done" /\ Gathered
          /\ UNCHANGED <<gen, built, leaf, dropped, sweeping>>
      BY <1>6 DEF Closed
    <2>2. dropped = {} => \A l \in Leaf : gen \in Gen => leaf[gen][l] \in Over
      BY <1>0, <2>1 DEF Gathered, NoOrphans, Alive, Over, TypeInv, TypeOK
    <2> QED
      BY <1>0, <2>1, <2>2 DEF Freed
  <1>7. CASE Respawn
    BY <1>0, <1>7 DEF Respawn, Freed
  <1>8. ASSUME NEW h \in Gen, NEW l \in Leaf, LeafStep(h, l) PROVE Freed'
    <2>1. UNCHANGED <<at, gen, built, dropped, sweeping>>
      BY <1>8 DEF LeafStep, LeafCrash, LeafRestart, LeafGivesUp, LeafStops
    <2>2. \A g \in Gen, m \in Leaf :
               /\ leaf[g][m] = "none" => leaf'[g][m] = "none"
               /\ leaf[g][m] \in Over => leaf'[g][m] \in Over
               /\ leaf[g][m] # "stopping" => leaf'[g][m] # "stopping"
      BY <1>0, <1>8, LeafFinal
    <2>3. at \in {"building", "waiting"} => gen \in Gen
      BY <1>0 DEF TypeInv
    <2> QED
      BY <1>0, <2>1, <2>2, <2>3 DEF Freed
  <1>9. CASE UNCHANGED vars
    BY <1>0, <1>9 DEF vars, Freed
  <1> QED
    BY <1>1, <1>2, <1>3, <1>4, <1>5, <1>6, <1>7, <1>8, <1>9 DEF Next, Own

-----------------------------------------------------------------------------
LEMMA AlwaysIInv == Spec => []IInv
  <1>1. IInv /\ [Next]_vars => IInv'
    BY TypeStep, OrphansStep, FreedStep DEF IInv
  <1> QED
    BY <1>1, InitIInv, PTL DEF Spec

\* No name is ever held by actors of two generations of a subtree.
THEOREM TreeTypeCorrect == Spec => []TypeOK
  <1>1. IInv => TypeOK
    BY DEF IInv, TypeInv
  <1> QED
    BY <1>1, AlwaysIInv, PTL

\* The actors of a subtree belong to its current generation, or to one that
\* build or a premature give-up left behind: shutdown, sweeps and restarts
\* orphan nothing else, whenever they happen.
THEOREM OrphansTheorem == Spec => []NoOrphans
  <1>1. IInv => NoOrphans
    BY DEF IInv
  <1> QED
    BY <1>1, AlwaysIInv, PTL

\* Until a generation is left behind, every build finds its names free.
THEOREM NamesTheorem == Spec => []NamesAreFreed
  <1>1. IInv => NamesAreFreed
    <2> SUFFICES ASSUME IInv, at = "building", dropped = {},
                        NEW l \in Leaf, l > built, NEW g \in Gen
                 PROVE  leaf[g][l] \notin {"up", "stopping"}
      BY DEF NamesAreFreed, Taken
    <2>1. g > gen \/ g < gen \/ g = gen
      BY Basics DEF IInv
    <2> QED
      BY <2>1 DEF IInv, Freed, Over
  <1> QED
    BY <1>1, AlwaysIInv, PTL

-----------------------------------------------------------------------------
(* The subtree is seen to give up                                          *)

\* A subtree that has been built and has lost all its actors for good has set
\* _given_up, so that _wait_for_give_up returns and its parent hears of it.
GiveUpIsSeen ==
    (at = "waiting" /\ \A l \in Leaf : leaf[gen][l] = "ended") => gen \in gaveUp

\* It is the last of its actors that sets it, also while build is still running:
\* none of them ends in another way before the task is cancelled.
GiveUpInv ==
    at \in {"building", "waiting"} =>
        /\ \A l \in Leaf : leaf[gen][l] # "stopping"
        /\ (\E l \in Leaf : leaf[gen][l] = "ended") /\ (\A l \in Leaf : leaf[gen][l] \in Over)
              => gen \in gaveUp

LEMMA GiveUpStep == IInv /\ GiveUpInv /\ [Next]_vars => GiveUpInv'
  <1> SUFFICES ASSUME IInv, GiveUpInv, [Next]_vars PROVE GiveUpInv'
    OBVIOUS
  <1>0. TypeInv /\ Freed
    BY DEF IInv
  <1>1. CASE Begin
    <2>1. gen' = gen + 1 /\ gen' \in Gen /\ leaf' = leaf
      BY <1>1 DEF Begin
    <2>2. gen' > gen
      BY <1>0, <2>1, Basics
    <2>3. \A l \in Leaf : leaf'[gen'][l] = "none"
      BY <1>0, <2>1, <2>2 DEF Freed
    <2> QED BY <2>3 DEF GiveUpInv
  <1>2. CASE Spawn
    <2>1. /\ gen \in Gen /\ built + 1 \in Leaf /\ UNCHANGED <<at, gen, gaveUp>>
          /\ at \in {"building", "waiting"} /\ leaf' = [leaf EXCEPT ![gen][built + 1] = "up"]
      BY <1>0, <1>2, TreeAssumption DEF Spawn, TypeInv, TypeOK, Leaf
    <2>2. /\ leaf'[gen][built + 1] = "up"
          /\ \A m \in Leaf : m # built + 1 => leaf'[gen][m] = leaf[gen][m]
      BY <1>0, <2>1 DEF TypeInv, TypeOK
    <2>3. \A m \in Leaf : leaf'[gen][m] # "stopping"
      BY <2>1, <2>2 DEF GiveUpInv
    <2> QED BY <2>1, <2>2, <2>3 DEF GiveUpInv, Over
  <1>3. CASE Built
    BY <1>3 DEF Built, GiveUpInv
  <1>4. CASE BuildRaises \/ GivenUp
    BY <1>4 DEF BuildRaises, GivenUp, HandleChildCrash, GiveUpInv
  <1>5. ASSUME NEW sweep \in BOOLEAN, Cancel(sweep) PROVE GiveUpInv'
    BY <1>5 DEF Cancel, GiveUpInv
  <1>6. CASE Closed \/ Respawn
    BY <1>6 DEF Closed, Respawn, GiveUpInv
  <1>7. ASSUME NEW h \in Gen, NEW l \in Leaf, LeafStep(h, l) PROVE GiveUpInv'
    <2> SUFFICES ASSUME at \in {"building", "waiting"} PROVE GiveUpInv'
      BY <1>7 DEF GiveUpInv, LeafStep, LeafCrash, LeafRestart, LeafGivesUp, LeafStops
    <2>1. UNCHANGED <<at, gen>> /\ gaveUp \subseteq gaveUp' /\ gen \in Gen
      BY <1>0, <1>7 DEF LeafStep, LeafCrash, LeafRestart, LeafGivesUp, LeafStops, TypeInv
    <2>2. \A m \in Leaf : leaf'[gen][m] # "stopping"
      BY <1>0, <1>7, <2>1, LeafFinal DEF GiveUpInv
    <2>3. CASE h # gen
      <3>1. PICK s \in Status : leaf' = [leaf EXCEPT ![h][l] = s]
        BY <1>7 DEF LeafStep, LeafCrash, LeafRestart, LeafGivesUp, LeafStops, Status
      <3>2. \A m \in Leaf : leaf'[gen][m] = leaf[gen][m]
        BY <1>0, <2>1, <2>3, <3>1, LeafTo
      <3> QED BY <2>1, <2>2, <3>2 DEF GiveUpInv
    <2>4. CASE h = gen
      <3>1. ~LeafStops(h, l)
        BY <2>4 DEF LeafStops, GiveUpInv
      <3>2. CASE LeafCrash(h, l) \/ LeafRestart(h, l)
        <4>1. PICK s \in {"up", "backoff"} : leaf' = [leaf EXCEPT ![h][l] = s]
          BY <3>2 DEF LeafCrash, LeafRestart
        <4>2. leaf'[gen][l] \notin Over
          BY <1>0, <2>4, <4>1 DEF TypeInv, TypeOK, Over
        <4> QED BY <2>1, <2>2, <4>2 DEF GiveUpInv
      <3>3. CASE LeafGivesUp(h, l)
        <4>1. \A m \in Leaf : m # l => leaf'[gen][m] = leaf[gen][m]
          BY <1>0, <2>4, <3>3 DEF LeafGivesUp, TypeInv, TypeOK
        <4>2. (\A m \in Leaf : leaf'[gen][m] \in Over) => LastOne(gen, l)
          BY <4>1 DEF LastOne, Over
        <4>3. LastOne(gen, l) => gen \in gaveUp'
          BY <2>4, <3>3 DEF LeafGivesUp
        <4> QED BY <2>1, <2>2, <4>2, <4>3 DEF GiveUpInv
      <3> QED BY <1>7, <3>1, <3>2, <3>3 DEF LeafStep
    <2> QED BY <2>3, <2>4
  <1>8. CASE UNCHANGED vars
    BY <1>8 DEF vars, GiveUpInv
  <1> QED
    BY <1>1, <1>2, <1>3, <1>4, <1>5, <1>6, <1>7, <1>8 DEF Next, Own

\* The safe half of SubtreeMovesOn: `await ref.task` never waits for a subtree
\* that is gone without having been told.
THEOREM GiveUpSeenTheorem == Spec => []GiveUpIsSeen
  <1>1. Init => GiveUpInv
    BY DEF Init, GiveUpInv
  <1>2. GiveUpInv => GiveUpIsSeen
    <2>1. 1 \in Leaf
      BY TreeAssumption DEF Leaf
    <2> QED BY <2>1 DEF GiveUpInv, GiveUpIsSeen, Over
  <1> QED
    BY <1>1, <1>2, GiveUpStep, AlwaysIInv, PTL DEF Spec
=============================================================================
