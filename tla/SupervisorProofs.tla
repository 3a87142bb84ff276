--------------------------- MODULE SupervisorProofs ---------------------------
(***************************************************************************)
(* Type correctness and name ownership of a Supervisor's children, for     *)
(* every strategy, budget and set of children; what a crash leaves alone,  *)
(* who is told and what a shutdown leaves behind under one_for_one; and    *)
(* that the sweeps of one_for_one and rest_for_one orphan no generation.   *)
(***************************************************************************)
EXTENDS Supervisor, TLAPS

\* Most leaves are first-order: only those that say so go to the SMT solver.
USE Zenon

\* Task.cancel() only moves drivers from "live" to "cancelling" and sets
\* flags.
LEMMA CancelTypes ==
    ASSUME NEW R, NEW p, NEW aw,
           NEW d \in [Child -> Driver], NEW m \in [Child -> BOOLEAN]
    PROVE  /\ DriversCancelled(R, p, d) \in [Child -> Driver]
           /\ CancelsDue(R, p, d, m, aw) \in [Child -> BOOLEAN]
  BY DEF DriversCancelled, CancelsDue, Driver

\* A sibling list is a list of children.
LEMMA WithoutType ==
    ASSUME NEW s \in Seq(Child), NEW c \in Child
    PROVE  Without(s, c) \in Seq(Child)
  <1>1. CASE \E i \in 1..Len(s) : s[i] = c
    <2> DEFINE n == Len(s) - 1
               f == [i \in 1..n |-> IF i < Position(s, c) THEN s[i] ELSE s[i + 1]]
    <2>1. n \in Nat
      BY <1>1, SMT
    <2>2. \A i \in 1..n : s[i] \in Child /\ s[i + 1] \in Child
      BY SMT
    <2>3. f \in [1..n -> Child]
      BY <2>2
    <2>4. f \in Seq(Child)
      BY <2>1, <2>3, SMT DEF Seq
    <2> QED
      BY <1>1, <2>4 DEF Without
  <1>2. CASE ~ \E i \in 1..Len(s) : s[i] = c
    BY <1>2 DEF Without
  <1> QED
    BY <1>1, <1>2

\* The end of a task keeps the types.
LEMMA TellAndEndType ==
    ASSUME TypeOK, NEW c \in Child,
           NEW STATE p, p \in [Child -> PC],
           NEW STATE d, d \in [Child -> Driver],
           NEW STATE m, m \in [Child -> BOOLEAN],
           NEW STATE h, h \subseteq Child,
           TellAndEnd(c, p, d, m, h)
    PROVE  /\ pc' \in [Child -> PC]
           /\ driver' \in [Child -> Driver]
           /\ mustCancel' \in [Child -> BOOLEAN]
           /\ awaits' \in [Child -> SUBSET Child]
           /\ siblings' \in [Child -> Seq(Child)]
           /\ next' \in [Child -> Nat \ {0}]
           /\ held' \subseteq Child
           /\ stopping' \subseteq Child
           /\ stopAwaits' \subseteq stopping'
  <1>1. << >> \in Seq(Child)
    BY SMT
  <1> QED
    BY <1>1, SMT DEF TypeOK, TellAndEnd, Dealing, Released, PC

\* Both ways a crash can go, granted or given up, keep the types.
LEMMA CrashType ==
    ASSUME TypeOK, NEW c \in Child,
           NEW STATE p, p \in [Child -> PC],
           NEW STATE d, d \in [Child -> Driver],
           NEW STATE m, m \in [Child -> BOOLEAN],
           NEW STATE h, h \subseteq Child,
           EndGeneration(c), pendingExit' \in [Child -> BOOLEAN],
           Crash(c, p, d, m, h)
    PROVE  TypeOK'
  <1> USE ConstantsAssumption
  <1>1. /\ mailboxes' \subseteq Child
        /\ live' \subseteq Child
        /\ watched' \subseteq Name
    BY DEF TypeOK, EndGeneration
  <1>2. PICK kept \in 0..restarts :
        \/ /\ AllowRestart(kept)
           /\ restarts' = kept + 1
           /\ Dealing(c, << >>)
           /\ pc' = [p EXCEPT ![c] = "backoff"]
           /\ driver' = d
           /\ mustCancel' = m
           /\ held' = h
           /\ UNCHANGED <<children, givenUp, awaits, stopVars>>
        \/ /\ ~AllowRestart(kept)
           /\ restarts' = kept
           /\ GiveUpAlone(c, p, d, m, h) \/ GiveUpGroup(c, p, d, m, h)
    BY DEF Crash
  <1>3. << >> \in Seq(Child)
    BY SMT
  <1>4. CASE AllowRestart(kept)
    <2>1. restarts' \in 0..MaxRestarts
      BY <1>2, <1>4, SMT DEF AllowRestart, TypeOK
    <2>0. Dealing(c, << >>)
      BY <1>2, <1>4
    <2>2. siblings' \in [Child -> Seq(Child)] /\ next' \in [Child -> Nat \ {0}]
      BY <1>3, <2>0, SMT DEF Dealing, TypeOK
    <2>3. pc' \in [Child -> PC]
      BY <1>2, <1>4 DEF PC
    <2> QED
      BY <1>1, <1>2, <1>4, <2>1, <2>2, <2>3 DEF TypeOK, stopVars
  <1>5. CASE ~AllowRestart(kept) /\ GiveUpAlone(c, p, d, m, h)
    <2>1. restarts' \in 0..MaxRestarts
      BY <1>2, <1>5, SMT DEF TypeOK
    <2>2. children' \in Seq(Child) /\ givenUp' \in BOOLEAN
      BY <1>5, WithoutType DEF GiveUpAlone, TypeOK
    <2>3. TellAndEnd(c, p, d, m, h)
      BY <1>5 DEF GiveUpAlone
    <2> QED
      BY <1>1, <2>1, <2>2, <2>3, TellAndEndType DEF TypeOK
  <1>6. CASE ~AllowRestart(kept) /\ GiveUpGroup(c, p, d, m, h)
    <2>1. restarts' \in 0..MaxRestarts /\ children' \in Seq(Child)
      BY <1>2, <1>6, SMT DEF TypeOK, GiveUpGroup
    <2>2. CASE givenUp' = TRUE /\ TellAndEnd(c, p, d, m, h)
      BY <1>1, <2>1, <2>2, TellAndEndType DEF TypeOK
    <2>3. CASE ~(givenUp' = TRUE /\ TellAndEnd(c, p, d, m, h))
      <3> DEFINE aw == [awaits EXCEPT ![c] = {x \in Others(c) : p[x] # "done"}]
                 R == CancelReaches(Others(c), aw) \ {c}
      <3>1. /\ Dealing(c, Without(children, c))
            /\ pc' = [p EXCEPT ![c] = "giveup"]
            /\ driver' = DriversCancelled(R, p, d)
            /\ mustCancel' = CancelsDue(R, p, d, m, aw)
            /\ awaits' = aw
            /\ held' = h
            /\ UNCHANGED <<givenUp, stopVars>>
        BY <1>6, <2>3 DEF GiveUpGroup
      <3>2. driver' \in [Child -> Driver] /\ mustCancel' \in [Child -> BOOLEAN]
        BY <3>1, CancelTypes
      <3>3. Without(children, c) \in Seq(Child)
        BY WithoutType DEF TypeOK
      <3>4. siblings' \in [Child -> Seq(Child)] /\ next' \in [Child -> Nat \ {0}]
        BY <3>1, <3>3, SMT DEF Dealing, TypeOK
      <3>5. Others(c) \subseteq Child
        BY SMT DEF Others, Members, TypeOK
      <3>6. awaits' \in [Child -> SUBSET Child]
        BY <3>1, <3>5 DEF TypeOK
      <3>7. pc' \in [Child -> PC]
        BY <3>1 DEF PC
      <3> QED
        BY <1>1, <2>1, <3>1, <3>2, <3>4, <3>6, <3>7 DEF TypeOK, stopVars
    <2> QED
      BY <2>2, <2>3
  <1> QED
    BY <1>2, <1>4, <1>5, <1>6

\* A new generation, booted or failed, keeps the types.
LEMMA BootType ==
    ASSUME TypeOK, NEW c \in Child,
           NEW STATE p, p \in [Child -> PC],
           NEW STATE d, d \in [Child -> Driver],
           NEW STATE m, m \in [Child -> BOOLEAN],
           pendingExit' \in [Child -> BOOLEAN],
           Boot(c, p, d, m)
    PROVE  TypeOK'
  <1>1. CASE BootRuns(c, p, d, m)
    <2>1. << >> \in Seq(Child)
      BY SMT
    <2>2. siblings' \in [Child -> Seq(Child)] /\ next' \in [Child -> Nat \ {0}]
      BY <1>1, <2>1, SMT DEF BootRuns, Dealing, TypeOK
    <2>3. /\ pc' \in [Child -> PC]
          /\ driver' \in [Child -> Driver]
          /\ mustCancel' \in [Child -> BOOLEAN]
      BY <1>1 DEF BootRuns, PC, Driver
    <2>4. mailboxes' \subseteq Child /\ live' \subseteq Child /\ held' \subseteq Child
      BY <1>1 DEF BootRuns, RegisterActor, TypeOK
    <2> QED
      BY <1>1, <2>2, <2>3, <2>4 DEF BootRuns, TypeOK, supVars, stopVars
  <1>2. CASE BootFails(c, p, d, m)
    <2>1. Holding(c) \subseteq Child
      BY DEF Holding, TypeOK
    <2> QED
      BY <1>2, <2>1, CrashType DEF BootFails
  <1> QED
    BY <1>1, <1>2 DEF Boot

\* Under the group strategies a child that was spawned stays in _children, so
\* that _affected_children finds it, and so do the siblings a sweep deals with.
AreMembers(s) == \A i \in 1..Len(s) : s[i] \in Members
Listed ==
    Strategy # "one_for_one" =>
        /\ \A c \in Child : pc[c] # "absent" => c \in Members
        /\ \A c \in Child : AreMembers(siblings[c])

\* The siblings a sweep deals with are children.
LEMMA AffectedType ==
    ASSUME TypeOK, Listed, NEW c \in Child, pc[c] # "absent"
    PROVE  Affected(c) \in Seq(Child)
  <1>1. CASE Strategy = "one_for_one"
    BY <1>1, SMT DEF Affected
  <1>2. CASE Strategy = "one_for_all"
    BY <1>2, WithoutType DEF Affected, TypeOK
  <1>3. CASE Strategy = "rest_for_one"
    <2>1. children \in Seq(Child) /\ Len(children) \in Nat
      BY SMT DEF TypeOK
    <2>2. \E i \in 1..Len(children) : children[i] = c
      BY <1>3 DEF Listed, Members
    <2>3. Position(children, c) \in 1..Len(children)
      BY <2>2 DEF Position
    <2>4. SubSeq(children, Position(children, c) + 1, Len(children)) \in Seq(Child)
      BY <2>1, <2>3, SMT
    <2> QED
      BY <1>3, <2>4 DEF Affected
  <1> QED
    BY <1>1, <1>2, <1>3, ConstantsAssumption

\* A step of a sweep keeps the types.
LEMMA TearDownType ==
    ASSUME TypeOK, NEW c \in Child, NEW STATE sibs, sibs \in Seq(Child),
           NEW STATE i, i \in Nat \ {0}, TearDown(c, sibs, i)
    PROVE  TypeOK'
  <1>1. PICK j \in i..Len(sibs) :
        LET s == sibs[j]
            aw == [awaits EXCEPT ![c] = {s}]
            R == CancelReaches({s}, aw) \ {c}
            m == [mustCancel EXCEPT ![c] = FALSE]
        IN  /\ pc' = [pc EXCEPT ![c] = "teardown"]
            /\ siblings' = [siblings EXCEPT ![c] = sibs]
            /\ next' = [next EXCEPT ![c] = j + 1]
            /\ awaits' = aw
            /\ driver' = DriversCancelled(R, pc, driver)
            /\ mustCancel' = CancelsDue(R, pc, driver, m, aw)
            /\ UNCHANGED <<pendingExit, supVars, nodeVars, stopVars>>
    BY DEF TearDown
  <1>2. j \in Nat /\ sibs[j] \in Child
    BY SMT
  <1>3. driver' \in [Child -> Driver]
    BY <1>1, CancelTypes DEF TypeOK
  <1>4. mustCancel' \in [Child -> BOOLEAN]
    <2>1. [mustCancel EXCEPT ![c] = FALSE] \in [Child -> BOOLEAN]
      BY DEF TypeOK
    <2> QED
      BY <1>1, <2>1, CancelTypes DEF TypeOK
  <1>5. /\ pc' \in [Child -> PC]
        /\ siblings' \in [Child -> Seq(Child)]
        /\ next' \in [Child -> Nat \ {0}]
        /\ awaits' \in [Child -> SUBSET Child]
    BY <1>1, <1>2, SMT DEF TypeOK, PC
  <1> QED
    BY <1>1, <1>3, <1>4, <1>5 DEF TypeOK, supVars, nodeVars, stopVars

\* The respawn half of a sweep leaves well-typed variables.
LEMMA RespawnAllType ==
    ASSUME TypeOK, NEW c \in Child, NEW STATE sibs, NEW STATE i,
           RespawnAll(c, sibs, i)
    PROVE  TypeOK'
  <1> DEFINE swept == {sibs[j] : j \in 1..Len(sibs)}
             p == [x \in Child |-> IF x \in swept THEN "new" ELSE pc[x]]
             d == [x \in Child |-> IF x \in swept THEN "none" ELSE driver[x]]
             m == [x \in Child |-> mustCancel[x] /\ x \notin swept \union {c}]
  <1>1. Boot(c, p, d, m) /\ UNCHANGED pendingExit
    BY DEF RespawnAll
  <1>2. /\ p \in [Child -> PC]
        /\ d \in [Child -> Driver]
        /\ m \in [Child -> BOOLEAN]
    BY DEF TypeOK, PC, Driver
  <1>3. pendingExit' \in [Child -> BOOLEAN]
    BY <1>1 DEF TypeOK
  <1> HIDE DEF p, d, m
  <1> QED
    BY <1>1, <1>2, <1>3, BootType

-----------------------------------------------------------------------------
(* Listed                                                                  *)

\* What Without leaves was in the list.
LEMMA WithoutMembers ==
    ASSUME TypeOK, NEW c \in Child
    PROVE  AreMembers(Without(children, c))
  <1> SUFFICES ASSUME NEW i \in 1..Len(Without(children, c))
               PROVE  Without(children, c)[i] \in Members
    BY DEF AreMembers
  <1>0. children \in Seq(Child) /\ Len(children) \in Nat
    BY SMT DEF TypeOK
  <1>1. CASE \E j \in 1..Len(children) : children[j] = c
    <2> DEFINE n == Len(children) - 1
               f == [k \in 1..n |-> IF k < Position(children, c)
                                    THEN children[k] ELSE children[k + 1]]
    <2>1. n \in Nat /\ Without(children, c) = f
      BY <1>0, <1>1, SMT DEF Without
    <2>2. Len(f) = n
      BY <2>1, SMT
    <2>3. i \in 1..n
      BY <2>1, <2>2
    <2>4. i \in 1..Len(children) /\ i + 1 \in 1..Len(children)
      BY <1>0, <2>1, <2>3, SMT
    <2>5. f[i] = children[i] \/ f[i] = children[i + 1]
      BY <2>3
    <2> HIDE DEF f
    <2> QED
      BY <2>1, <2>4, <2>5 DEF Members
  <1>2. CASE ~ \E j \in 1..Len(children) : children[j] = c
    BY <1>2 DEF Without, Members
  <1> QED
    BY <1>1, <1>2

\* The siblings a crash restarts are all listed in _children.
LEMMA AffectedMembers ==
    ASSUME TypeOK, Listed, NEW c \in Child, pc[c] # "absent"
    PROVE  AreMembers(Affected(c))
  <1>1. CASE Strategy = "one_for_one"
    BY <1>1, SMT DEF Affected, AreMembers
  <1>2. CASE Strategy = "one_for_all"
    BY <1>2, WithoutMembers DEF Affected
  <1>3. CASE Strategy = "rest_for_one"
    <2> DEFINE at == Position(children, c)
               s == SubSeq(children, at + 1, Len(children))
    <2>1. children \in Seq(Child) /\ Len(children) \in Nat
      BY SMT DEF TypeOK
    <2>2. \E i \in 1..Len(children) : children[i] = c
      BY <1>3 DEF Listed, Members
    <2>3. at \in 1..Len(children)
      BY <2>2 DEF Position
    <2>4. \A i \in 1..Len(s) : i + at \in 1..Len(children) /\ s[i] = children[i + at]
      <3> HIDE DEF at
      <3> QED
        BY <2>1, <2>3, SMT
    <2>5. AreMembers(s)
      <3> HIDE DEF s, at
      <3> QED
        BY <2>4 DEF AreMembers, Members
    <2> QED
      BY <1>3, <2>5 DEF Affected
  <1> QED
    BY <1>1, <1>2, <1>3, ConstantsAssumption

\* Everything a crash does leaves the children listed.
LEMMA CrashListed ==
    ASSUME TypeOK, Listed, NEW c \in Child, Strategy # "one_for_one" => c \in Members,
           NEW STATE p, p \in [Child -> PC], NEW STATE d, NEW STATE m, NEW STATE h,
           Strategy # "one_for_one" =>
                \A x \in Child : p[x] # "absent" => x \in Members,
           Crash(c, p, d, m, h)
    PROVE  Listed'
  <1> SUFFICES ASSUME Strategy # "one_for_one"
               PROVE  /\ \A x \in Child : pc'[x] # "absent" => x \in Members'
                      /\ \A x \in Child : AreMembers(siblings[x])'
    BY DEF Listed
  <1>1. children' = children
    BY DEF Crash, GiveUpAlone, GiveUpGroup
  <1>2. Members' = Members
    BY <1>1 DEF Members
  <1>3. \A x \in Child : x # c => pc'[x] = p[x]
    BY DEF Crash, GiveUpAlone, GiveUpGroup, TellAndEnd
  <1>4. AreMembers(<< >>) /\ AreMembers(Without(children, c))
    BY WithoutMembers, SMT DEF AreMembers
  <1>5. Dealing(c, << >>) \/ Dealing(c, Without(children, c))
    BY DEF Crash, GiveUpAlone, GiveUpGroup, TellAndEnd
  <1>6. \A x \in Child : AreMembers(siblings'[x])
    BY <1>4, <1>5 DEF Dealing, Listed, TypeOK
  <1> QED
    BY <1>2, <1>3, <1>6 DEF AreMembers

\* Starting a child of a group keeps every spawned child listed.
LEMMA BootListed ==
    ASSUME TypeOK, Listed, NEW c \in Child, Strategy # "one_for_one" => c \in Members,
           NEW STATE p, p \in [Child -> PC], NEW STATE d, NEW STATE m,
           Strategy # "one_for_one" =>
                \A x \in Child : p[x] # "absent" => x \in Members,
           Boot(c, p, d, m)
    PROVE  Listed'
  <1>1. CASE BootRuns(c, p, d, m)
    <2> SUFFICES ASSUME Strategy # "one_for_one"
                 PROVE  /\ \A x \in Child : pc'[x] # "absent" => x \in Members'
                        /\ \A x \in Child : AreMembers(siblings[x])'
      BY DEF Listed
    <2>1. Members' = Members
      BY <1>1 DEF BootRuns, supVars, Members
    <2>2. AreMembers(<< >>)
      BY SMT DEF AreMembers
    <2>3. \A x \in Child : AreMembers(siblings'[x])
      BY <1>1, <2>2 DEF BootRuns, Dealing, Listed, TypeOK
    <2>4. \A x \in Child : pc'[x] # "absent" => x \in Members
      BY <1>1 DEF BootRuns
    <2> QED
      BY <2>1, <2>3, <2>4 DEF AreMembers
  <1>2. CASE BootFails(c, p, d, m)
    BY <1>2, CrashListed DEF BootFails
  <1> QED
    BY <1>1, <1>2 DEF Boot

\* The teardown half of a sweep keeps every spawned child listed.
LEMMA TearDownListed ==
    ASSUME TypeOK, Listed, NEW c \in Child, Strategy # "one_for_one" => c \in Members,
           NEW STATE sibs, AreMembers(sibs), NEW STATE i, TearDown(c, sibs, i)
    PROVE  Listed'
  <1>1. /\ children' = children
        /\ pc' = [pc EXCEPT ![c] = "teardown"]
        /\ siblings' = [siblings EXCEPT ![c] = sibs]
    BY DEF TearDown, supVars
  <1>2. Members' = Members
    BY <1>1 DEF Members
  <1> QED
    BY <1>1, <1>2 DEF Listed, AreMembers, TypeOK

\* The respawn half of a sweep keeps every spawned child listed.
LEMMA RespawnAllListed ==
    ASSUME TypeOK, Listed, NEW c \in Child, Strategy # "one_for_one" => c \in Members,
           NEW STATE sibs, AreMembers(sibs), NEW STATE i, RespawnAll(c, sibs, i)
    PROVE  Listed'
  <1> DEFINE swept == {sibs[j] : j \in 1..Len(sibs)}
             p == [x \in Child |-> IF x \in swept THEN "new" ELSE pc[x]]
             d == [x \in Child |-> IF x \in swept THEN "none" ELSE driver[x]]
             m == [x \in Child |-> mustCancel[x] /\ x \notin swept \union {c}]
  <1>1. Boot(c, p, d, m)
    BY DEF RespawnAll
  <1>2. p \in [Child -> PC]
    BY DEF TypeOK, PC
  <1>3. Strategy # "one_for_one" =>
            \A x \in Child : p[x] # "absent" => x \in Members
    BY DEF Listed, AreMembers
  <1> HIDE DEF p, d, m
  <1> QED
    BY <1>1, <1>2, <1>3, BootListed

-----------------------------------------------------------------------------
(* Every step keeps TypeOK and Listed.                                     *)

TypeInv == TypeOK /\ Listed

\* A supervisor with no children satisfies the type invariant.
LEMMA InitTypeInv == Init => TypeInv
  <1> SUFFICES ASSUME Init PROVE TypeInv
    OBVIOUS
  <1>1. << >> \in Seq(Child)
    BY SMT
  <1>2. TypeOK
    <2>1. siblings \in [Child -> Seq(Child)]
      <3>1. PICK e \in Seq(Child) : e = << >>
        BY <1>1
      <3>2. siblings = [c \in Child |-> e]
        BY <3>1 DEF Init
      <3> QED
        BY <3>2
    <2>2. pc \in [Child -> PC] /\ driver \in [Child -> Driver]
      BY DEF Init, PC, Driver
    <2>3. /\ mustCancel \in [Child -> BOOLEAN]
          /\ pendingExit \in [Child -> BOOLEAN]
          /\ awaits \in [Child -> SUBSET Child]
          /\ next \in [Child -> Nat \ {0}]
      BY SMT DEF Init
    <2>4. children \in Seq(Child)
      BY <1>1 DEF Init
    <2>5. restarts = 0 /\ 0 \in 0..MaxRestarts
      BY ConstantsAssumption, SMT DEF Init
    <2>6. givenUp \in BOOLEAN
      BY DEF Init
    <2>7. /\ mailboxes = {} /\ live = {} /\ watched = {} /\ held = {}
          /\ stopping = {} /\ stopAwaits = {}
      BY DEF Init
    <2> QED
      BY <2>1, <2>2, <2>3, <2>4, <2>5, <2>6, <2>7 DEF TypeOK
  <1>3. \A c \in Child : siblings[c] = << >> /\ pc[c] = "absent"
    BY DEF Init
  <1>4. Listed
    BY <1>3, SMT DEF Listed, AreMembers
  <1> QED
    BY <1>2, <1>4 DEF TypeInv

\* A task that ends by itself, or by an escaping CancelledError.
LEMMA EndTypeInv ==
    ASSUME TypeInv, NEW c \in Child, pc[c] # "absent",
           pc' = [pc EXCEPT ![c] = "done"],
           mustCancel' = [mustCancel EXCEPT ![c] = FALSE],
           awaits' = Released(c, awaits),
           stopAwaits' = stopAwaits \ {c},
           UNCHANGED <<driver, pendingExit, supVars, nodeVars, sweepVars, stopping>>
    PROVE  TypeInv'
  <1>1. TypeOK'
    BY DEF TypeInv, TypeOK, Released, supVars, nodeVars, sweepVars, PC
  <1>2. Members' = Members
    BY DEF supVars, Members
  <1>3. Listed'
    BY <1>2 DEF TypeInv, TypeOK, Listed, AreMembers, sweepVars
  <1> QED
    BY <1>1, <1>3 DEF TypeInv

\* The first step of a child task keeps the type invariant.
LEMMA StartTypeInv ==
    ASSUME TypeInv, NEW c \in Child, Start(c)
    PROVE  TypeInv'
  <1>1. CASE mustCancel[c]
    BY <1>1, EndTypeInv DEF Start
  <1>2. CASE ~mustCancel[c]
    <2>1. Boot(c, pc, driver, mustCancel) /\ UNCHANGED pendingExit
      BY <1>2 DEF Start
    <2>2. TypeOK'
      BY <2>1, BootType DEF TypeInv, TypeOK
    <2>3. Strategy # "one_for_one" => \A x \in Child : pc[x] # "absent" => x \in Members
      BY DEF TypeInv, Listed
    <2>4. Strategy # "one_for_one" => c \in Members
      BY <2>3 DEF Start
    <2>5. Listed'
      BY <2>1, <2>3, <2>4, BootListed DEF TypeInv, TypeOK
    <2> QED
      BY <2>2, <2>5 DEF TypeInv
  <1> QED
    BY <1>1, <1>2

\* The end of _drive, whatever its outcome, keeps the type invariant.
LEMMA DriverEndsTypeInv ==
    ASSUME TypeInv, NEW c \in Child, DriverEnds(c)
    PROVE  TypeInv'
  <1> DEFINE m == [mustCancel EXCEPT ![c] = FALSE]
  <1>1. EndGeneration(c) /\ pc[c] = "run"
    BY DEF DriverEnds
  <1>2. m \in [Child -> BOOLEAN] /\ Holding(c) \subseteq Child
    BY DEF TypeInv, TypeOK, Holding
  <1>3. Strategy # "one_for_one" => \A x \in Child : pc[x] # "absent" => x \in Members
    BY DEF TypeInv, Listed
  <1>4. Strategy # "one_for_one" => c \in Members
    BY <1>1, <1>3
  <1>5. pendingExit' \in [Child -> BOOLEAN]
    BY DEF DriverEnds, TypeInv, TypeOK
  <1>6. CASE TellAndEnd(c, pc, driver, m, Holding(c)) /\ UNCHANGED supVars
    <2>1. TypeOK'
      <3>1. mailboxes' \subseteq Child /\ live' \subseteq Child /\ watched' \subseteq Name
        BY <1>1 DEF EndGeneration, TypeInv, TypeOK
      <3> HIDE DEF m
      <3> QED
        BY <1>2, <1>5, <1>6, <3>1, TellAndEndType DEF TypeInv, TypeOK, supVars
    <2>2. Members' = Members
      BY <1>6 DEF supVars, Members
    <2>3. AreMembers(<< >>)
      BY SMT DEF AreMembers
    <2>4. Strategy # "one_for_one" => \A x \in Child : AreMembers(siblings'[x])
      BY <1>6, <2>3 DEF TellAndEnd, Dealing, TypeInv, Listed, TypeOK
    <2>5. Strategy # "one_for_one" => \A x \in Child : pc'[x] # "absent" => x \in Members
      BY <1>3, <1>4, <1>6 DEF TellAndEnd, TypeInv, TypeOK
    <2>6. Listed'
      BY <2>2, <2>4, <2>5 DEF Listed, AreMembers
    <2> QED
      BY <2>1, <2>6 DEF TypeInv
  <1>7. CASE Crash(c, pc, driver, m, Holding(c))
    <2> HIDE DEF m
    <2>1. TypeOK'
      BY <1>1, <1>2, <1>5, <1>7, CrashType DEF TypeInv, TypeOK
    <2>2. Listed'
      BY <1>3, <1>4, <1>7, CrashListed DEF TypeInv, TypeOK
    <2> QED
      BY <2>1, <2>2 DEF TypeInv
  <1> QED
    BY <1>6, <1>7 DEF DriverEnds

\* Either half of a sweep keeps the type invariant.
LEMMA SweepTypeInv ==
    ASSUME TypeInv, NEW c \in Child, pc[c] # "absent",
           NEW STATE sibs, sibs \in Seq(Child), AreMembers(sibs),
           NEW STATE i, i \in Nat \ {0},
           TearDown(c, sibs, i) \/ RespawnAll(c, sibs, i)
    PROVE  TypeInv'
  <1>1. Strategy # "one_for_one" => c \in Members
    BY DEF TypeInv, Listed
  <1>2. TypeOK'
    BY TearDownType, RespawnAllType DEF TypeInv
  <1>3. Listed'
    BY <1>1, TearDownListed, RespawnAllListed DEF TypeInv
  <1> QED
    BY <1>2, <1>3 DEF TypeInv

\* The step after the backoff sleep keeps the type invariant.
LEMMA BackoffOverTypeInv ==
    ASSUME TypeInv, NEW c \in Child, BackoffOver(c)
    PROVE  TypeInv'
  <1>0. pc[c] # "absent"
    BY DEF BackoffOver
  <1>1. CASE CancelEscapes(c)
    BY <1>0, <1>1, EndTypeInv DEF CancelEscapes
  <1>2. CASE TearDown(c, Affected(c), 1) \/ RespawnAll(c, Affected(c), 1)
    <2>1. Affected(c) \in Seq(Child) /\ AreMembers(Affected(c))
      BY <1>0, AffectedType, AffectedMembers DEF TypeInv
    <2> QED
      BY <1>0, <1>2, <2>1, SweepTypeInv, SMT
  <1> QED
    BY <1>1, <1>2 DEF BackoffOver

\* The step after an awaited teardown keeps the type invariant.
LEMMA SweepOnTypeInv ==
    ASSUME TypeInv, NEW c \in Child, SweepOn(c)
    PROVE  TypeInv'
  <1>1. pc[c] # "absent" /\ siblings[c] \in Seq(Child) /\ next[c] \in Nat \ {0}
    BY DEF SweepOn, TypeInv, TypeOK
  <1>2. CASE Strategy # "one_for_one"
    <2>1. AreMembers(siblings[c])
      BY <1>2 DEF TypeInv, Listed
    <2> QED
      BY <1>1, <2>1, SweepTypeInv DEF SweepOn
  <1>3. CASE Strategy = "one_for_one"
    <2>1. TypeOK'
      BY <1>1, TearDownType, RespawnAllType DEF SweepOn, TypeInv
    <2>2. Listed'
      BY <1>3 DEF Listed
    <2> QED
      BY <2>1, <2>2 DEF TypeInv
  <1> QED
    BY <1>2, <1>3

\* The end of the give-up path keeps the type invariant.
LEMMA GiveUpOverTypeInv ==
    ASSUME TypeInv, NEW c \in Child, GiveUpOver(c)
    PROVE  TypeInv'
  <1>0. pc[c] # "absent"
    BY DEF GiveUpOver
  <1>1. CASE CancelEscapes(c)
    BY <1>0, <1>1, EndTypeInv DEF CancelEscapes
  <1>2. CASE /\ givenUp' = TRUE
             /\ TellAndEnd(c, pc, driver, mustCancel, held)
             /\ UNCHANGED <<children, restarts, mailboxes, live, watched, pendingExit>>
    <2>1. TypeOK'
      BY <1>2, TellAndEndType DEF TypeInv, TypeOK
    <2>2. Members' = Members
      BY <1>2 DEF Members
    <2>3. AreMembers(<< >>)
      BY SMT DEF AreMembers
    <2>4. Strategy # "one_for_one" => \A x \in Child : AreMembers(siblings'[x])
      BY <1>2, <2>3 DEF TellAndEnd, Dealing, TypeInv, Listed, TypeOK
    <2>5. Strategy # "one_for_one" => \A x \in Child : pc'[x] # "absent" => x \in Members
      BY <1>0, <1>2 DEF TellAndEnd, TypeInv, Listed, TypeOK
    <2>6. Listed'
      BY <2>2, <2>4, <2>5 DEF Listed, AreMembers
    <2> QED
      BY <2>1, <2>6 DEF TypeInv
  <1> QED
    BY <1>1, <1>2 DEF GiveUpOver

\* Supervisor.spawn keeps the type invariant.
LEMMA SpawnTypeInv ==
    ASSUME TypeInv, NEW c \in Child, Spawn(c)
    PROVE  TypeInv'
  <1>1. children \in Seq(Child) /\ children' = Append(children, c)
    BY DEF Spawn, TypeInv, TypeOK
  <1>2. /\ children' \in Seq(Child)
        /\ Len(children') = Len(children) + 1
        /\ \A i \in 1..Len(children) : children'[i] = children[i]
        /\ children'[Len(children) + 1] = c
        /\ Len(children) \in Nat
    BY <1>1, SMT
  <1>3. TypeOK'
    BY <1>2 DEF Spawn, RegisterActor, TypeInv, TypeOK, sweepVars, stopVars, PC
  <1>4. Members \union {c} \subseteq Members'
    BY <1>2, SMT DEF Members
  <1>5. siblings' = siblings /\ pc' = [pc EXCEPT ![c] = "new"]
    BY DEF Spawn, sweepVars
  <1>6. Listed'
    BY <1>4, <1>5 DEF Listed, AreMembers, TypeInv, TypeOK
  <1> QED
    BY <1>3, <1>6 DEF TypeInv

\* The callers and the drivers move no task and no list.
LEMMA OthersTypeInv ==
    ASSUME TypeInv,
           \/ Shutdown \/ ShutdownReturns
           \/ \E n \in Name : Monitor(n)
           \/ \E c \in Child : HandlerRaises(c) \/ HandlerUnwinds(c) \/ DeliverExit(c)
    PROVE  TypeInv'
  <1>1. UNCHANGED <<children, pc, siblings>>
    BY DEF Shutdown, ShutdownReturns, Monitor, HandlerRaises, HandlerUnwinds,
           DeliverExit, supVars, sweepVars
  <1>2. Listed'
    BY <1>1 DEF TypeInv, Listed, AreMembers, Members
  <1>3. CASE Shutdown
    <2>1. driver' \in [Child -> Driver] /\ mustCancel' \in [Child -> BOOLEAN]
      BY <1>3, CancelTypes DEF Shutdown, TypeInv, TypeOK
    <2>2. Members \subseteq Child
      BY SMT DEF TypeInv, TypeOK, Members
    <2> QED
      BY <1>2, <1>3, <2>1, <2>2
      DEF Shutdown, TypeInv, TypeOK, sweepVars, supVars, nodeVars
  <1>4. CASE ShutdownReturns
    BY <1>2, <1>4 DEF ShutdownReturns, TypeInv, TypeOK, sweepVars, supVars, nodeVars
  <1>5. CASE \E n \in Name : Monitor(n)
    BY <1>2, <1>5 DEF Monitor, TypeInv, TypeOK, sweepVars, supVars, stopVars
  <1>6. CASE \E c \in Child : HandlerRaises(c) \/ HandlerUnwinds(c) \/ DeliverExit(c)
    BY <1>2, <1>6 DEF HandlerRaises, HandlerUnwinds, DeliverExit, TypeInv, TypeOK,
                      Driver, sweepVars, supVars, nodeVars, stopVars
  <1> QED
    BY <1>3, <1>4, <1>5, <1>6

\* Every step keeps the type invariant.
LEMMA NextTypeInv == TypeInv /\ [Next]_vars => TypeInv'
  <1> SUFFICES ASSUME TypeInv, [Next]_vars PROVE TypeInv'
    OBVIOUS
  <1>1. ASSUME NEW c \in Child, TaskStep(c) PROVE TypeInv'
    BY <1>1, StartTypeInv, DriverEndsTypeInv, BackoffOverTypeInv, SweepOnTypeInv,
       GiveUpOverTypeInv DEF TaskStep
  <1>2. ASSUME NEW c \in Child, Spawn(c) PROVE TypeInv'
    BY <1>2, SpawnTypeInv
  <1>3. CASE \/ Shutdown \/ ShutdownReturns
             \/ \E n \in Name : Monitor(n)
             \/ \E c \in Child : HandlerRaises(c) \/ HandlerUnwinds(c) \/ DeliverExit(c)
    BY <1>3, OthersTypeInv
  <1>4. CASE UNCHANGED vars
    BY <1>4 DEF vars, TypeInv, TypeOK, Listed, AreMembers, Members
  <1> QED
    BY <1>1, <1>2, <1>3, <1>4 DEF Next

\* The state of a Supervisor and of its children's tasks keeps its types, and
\* the restart counter never passes max_restarts.
THEOREM TypeCorrect == Spec => []TypeOK
  <1>1. TypeInv => TypeOK
    BY DEF TypeInv
  <1> QED
    BY <1>1, InitTypeInv, NextTypeInv, PTL DEF Spec

-----------------------------------------------------------------------------
(* Name ownership                                                          *)

\* No two children of the Supervisor share an actor name.
DistinctNames == \A c, d \in Child : NameOf[c] = NameOf[d] => c = d

\* When names are distinct, a child shares its name with no other.
LEMMA HomonymsAlone ==
    ASSUME DistinctNames, NEW c \in Child
    PROVE  Homonyms(c) = {c}
  BY DEF DistinctNames, Homonyms, Named

\* A crash leaves its child not running and every other child where it was.
LEMMA CrashMovesOne ==
    ASSUME NEW c \in Child, NEW STATE p, p \in [Child -> PC],
           NEW STATE d, NEW STATE m, NEW STATE h, Crash(c, p, d, m, h)
    PROVE  pc'[c] # "run" /\ \A x \in Child : x # c => pc'[x] = p[x]
  BY DEF Crash, GiveUpAlone, GiveUpGroup, TellAndEnd

\* The end of a generation takes no name from another child.
LEMMA EndGenerationReach ==
    ASSUME DistinctNames, RunningIsReachable, NEW c \in Child, EndGeneration(c),
           pc'[c] # "run", \A x \in Child : x # c /\ pc'[x] = "run" => pc[x] = "run"
    PROVE  RunningIsReachable'
  BY HomonymsAlone DEF RunningIsReachable, EndGeneration

\* A child that starts registers the mailbox it reads.
LEMMA BootReach ==
    ASSUME DistinctNames, RunningIsReachable, NEW c \in Child,
           NEW STATE p, p \in [Child -> PC], NEW STATE d, NEW STATE m,
           \A x \in Child : p[x] = "run" => pc[x] = "run",
           Boot(c, p, d, m)
    PROVE  RunningIsReachable'
  <1>1. CASE BootRuns(c, p, d, m)
    BY <1>1, HomonymsAlone DEF BootRuns, RegisterActor, RunningIsReachable
  <1>2. CASE BootFails(c, p, d, m)
    <2>1. EndGeneration(c) /\ Crash(c, p, d, m, Holding(c))
      BY <1>2 DEF BootFails
    <2>2. pc'[c] # "run" /\ \A x \in Child : x # c => pc'[x] = p[x]
      BY <2>1, CrashMovesOne
    <2> QED
      BY <2>1, <2>2, EndGenerationReach
  <1> QED
    BY <1>1, <1>2 DEF Boot

\* A step that takes no name and starts no generation.
LEMMA QuietReach ==
    ASSUME RunningIsReachable, UNCHANGED <<mailboxes, live>>,
           \A x \in Child : pc'[x] = "run" => pc[x] = "run"
    PROVE  RunningIsReachable'
  BY DEF RunningIsReachable

\* A sweep takes away the mailboxes of children it has ended only.
LEMMA SweepReach ==
    ASSUME TypeOK, DistinctNames, RunningIsReachable, NEW c \in Child,
           NEW STATE sibs, NEW STATE i,
           TearDown(c, sibs, i) \/ RespawnAll(c, sibs, i)
    PROVE  RunningIsReachable'
  <1>1. CASE TearDown(c, sibs, i)
    <2>1. UNCHANGED <<mailboxes, live>> /\ pc' = [pc EXCEPT ![c] = "teardown"]
      BY <1>1 DEF TearDown, nodeVars
    <2> QED
      BY <2>1, QuietReach DEF TypeOK
  <1>2. CASE RespawnAll(c, sibs, i)
    <2> DEFINE swept == {sibs[j] : j \in 1..Len(sibs)}
               p == [x \in Child |-> IF x \in swept THEN "new" ELSE pc[x]]
               d == [x \in Child |-> IF x \in swept THEN "none" ELSE driver[x]]
               m == [x \in Child |-> mustCancel[x] /\ x \notin swept \union {c}]
    <2>1. Boot(c, p, d, m)
      BY <1>2 DEF RespawnAll
    <2>2. p \in [Child -> PC] /\ \A x \in Child : p[x] = "run" => pc[x] = "run"
      BY DEF TypeOK, PC
    <2> HIDE DEF p, d, m
    <2> QED
      BY <2>1, <2>2, BootReach
  <1> QED
    BY <1>1, <1>2

\* Every step keeps each running child reachable by its name.
LEMMA NextReach ==
    ASSUME DistinctNames, TypeOK, RunningIsReachable, [Next]_vars
    PROVE  RunningIsReachable'
  <1>1. ASSUME NEW c \in Child, Start(c) PROVE RunningIsReachable'
    <2>1. CASE Boot(c, pc, driver, mustCancel)
      BY <2>1, BootReach DEF TypeOK
    <2>2. CASE UNCHANGED nodeVars /\ pc' = [pc EXCEPT ![c] = "done"]
      BY <2>2, QuietReach DEF TypeOK, nodeVars
    <2> QED
      BY <1>1, <2>1, <2>2 DEF Start
  <1>2. ASSUME NEW c \in Child, DriverEnds(c) PROVE RunningIsReachable'
    <2> DEFINE m == [mustCancel EXCEPT ![c] = FALSE]
    <2>1. EndGeneration(c)
      BY <1>2 DEF DriverEnds
    <2>2. pc'[c] # "run" /\ \A x \in Child : x # c => pc'[x] = pc[x]
      <3>1. CASE TellAndEnd(c, pc, driver, m, Holding(c))
        BY <3>1 DEF TellAndEnd, TypeOK
      <3>2. CASE Crash(c, pc, driver, m, Holding(c))
        <4> HIDE DEF m
        <4> QED
          BY <3>2, CrashMovesOne DEF TypeOK
      <3> QED
        BY <1>2, <3>1, <3>2 DEF DriverEnds
    <2> QED
      BY <2>1, <2>2, EndGenerationReach
  <1>3. ASSUME NEW c \in Child, BackoffOver(c) \/ SweepOn(c) PROVE RunningIsReachable'
    <2>1. CASE CancelEscapes(c)
      BY <2>1, QuietReach DEF CancelEscapes, TypeOK, nodeVars
    <2>2. CASE TearDown(c, Affected(c), 1) \/ RespawnAll(c, Affected(c), 1)
      BY <2>2, SweepReach
    <2>3. CASE TearDown(c, siblings[c], next[c]) \/ RespawnAll(c, siblings[c], next[c])
      BY <2>3, SweepReach
    <2> QED
      BY <1>3, <2>1, <2>2, <2>3 DEF BackoffOver, SweepOn
  <1>4. ASSUME NEW c \in Child, GiveUpOver(c) PROVE RunningIsReachable'
    BY <1>4, QuietReach DEF GiveUpOver, CancelEscapes, TellAndEnd, TypeOK, nodeVars
  <1>5. ASSUME NEW c \in Child, Spawn(c) PROVE RunningIsReachable'
    BY <1>5 DEF Spawn, RegisterActor, RunningIsReachable, TypeOK
  <1>6. CASE UNCHANGED <<pc, mailboxes, live>>
    BY <1>6, QuietReach
  <1> QED
    BY <1>1, <1>2, <1>3, <1>4, <1>5, <1>6
    DEF Next, TaskStep, HandlerRaises, HandlerUnwinds, DeliverExit, Monitor,
        Shutdown, ShutdownReturns, nodeVars, vars

\* As long as no two children share a name, a running child can be reached:
\* no crash, restart, sweep, shutdown or give-up of another child, in any
\* order, takes its mailbox or its _live_children entry away.
THEOREM ReachableTheorem ==
    ASSUME DistinctNames
    PROVE  Spec => []RunningIsReachable
  <1>1. Init => TypeInv /\ RunningIsReachable
    BY InitTypeInv DEF Init, RunningIsReachable
  <1>2. TypeInv /\ RunningIsReachable /\ [Next]_vars => (TypeInv /\ RunningIsReachable)'
    BY NextTypeInv, NextReach DEF TypeInv
  <1> QED
    BY <1>1, <1>2, PTL DEF Spec

\* The collision check of register_actor is all it takes: even when children
\* do share names, a name never has two mailboxes.
THEOREM OneMailboxTheorem == Spec => []OneMailboxPerName
  <1>1. Init => OneMailboxPerName
    BY DEF Init, OneMailboxPerName
  <1>2. OneMailboxPerName /\ TypeInv /\ [Next]_vars => OneMailboxPerName'
    <2> SUFFICES ASSUME OneMailboxPerName, TypeInv, [Next]_vars PROVE OneMailboxPerName'
      OBVIOUS
    <2>1. ASSUME NEW c \in Child, RegisterActor(c) PROVE OneMailboxPerName'
      BY <2>1 DEF RegisterActor, NameFree, Homonyms, Named, OneMailboxPerName,
                  TypeInv, TypeOK
    <2>2. CASE mailboxes' \subseteq mailboxes
      BY <2>2 DEF OneMailboxPerName
    <2>3. \/ \E c \in Child : RegisterActor(c)
          \/ mailboxes' \subseteq mailboxes
      <3>1. ASSUME NEW c \in Child, NEW STATE p, NEW STATE d, NEW STATE m,
                   Boot(c, p, d, m)
            PROVE  RegisterActor(c) \/ mailboxes' \subseteq mailboxes
        BY <3>1 DEF Boot, BootRuns, BootFails, EndGeneration
      <3>2. ASSUME NEW c \in Child, TaskStep(c)
            PROVE  RegisterActor(c) \/ mailboxes' \subseteq mailboxes
        <4>1. CASE Start(c)
          BY <3>1, <4>1 DEF Start, nodeVars
        <4>2. CASE DriverEnds(c)
          BY <4>2 DEF DriverEnds, EndGeneration
        <4>3. ASSUME NEW STATE sibs, NEW STATE i, RespawnAll(c, sibs, i)
              PROVE  RegisterActor(c) \/ mailboxes' \subseteq mailboxes
          BY <3>1, <4>3 DEF RespawnAll
        <4>4. ASSUME NEW STATE sibs, NEW STATE i, TearDown(c, sibs, i)
              PROVE  mailboxes' \subseteq mailboxes
          BY <4>4 DEF TearDown, nodeVars
        <4>5. CASE BackoffOver(c) \/ SweepOn(c)
          BY <4>3, <4>4, <4>5 DEF BackoffOver, SweepOn, CancelEscapes, nodeVars
        <4>6. CASE GiveUpOver(c)
          BY <4>6 DEF GiveUpOver, CancelEscapes, nodeVars
        <4> QED
          BY <3>2, <4>1, <4>2, <4>5, <4>6 DEF TaskStep
      <3>3. CASE UNCHANGED mailboxes
        BY <3>3
      <3> QED
        BY <3>2, <3>3
        DEF Next, Spawn, HandlerRaises, HandlerUnwinds, DeliverExit, Monitor,
            Shutdown, ShutdownReturns, nodeVars, vars
    <2> QED
      BY <2>1, <2>2, <2>3
  <1> QED
    BY <1>1, <1>2, InitTypeInv, NextTypeInv, PTL DEF Spec

-----------------------------------------------------------------------------
(* one_for_one                                                             *)

\* No task awaits another one; who is still to be told belongs to a child that
\* sleeps, or was cancelled in its sleep; a cancelled sleep is a shutdown's;
\* and whoever a shutdown no longer awaits has ended.
AloneInv ==
    /\ \A c \in Child : pc[c] \notin {"teardown", "giveup"} /\ awaits[c] = {}
    /\ \A c \in Child : c \in held => pc[c] \in {"backoff", "done"}
    /\ \A c \in Child : mustCancel[c] /\ pc[c] = "backoff" => c \in stopAwaits
    /\ \A c \in stopping \ stopAwaits : pc[c] = "done"

\* What a step of the task of c does to it ...
MovesOn(c) ==
    /\ pc[c] # "done"
    /\ pc'[c] \in {"run", "backoff", "done"}
    /\ pc'[c] = "backoff" => ~mustCancel'[c]
    /\ c \in held' => \/ pc'[c] = "backoff"
                      \/ pc'[c] = "done" /\ pc[c] = "backoff" /\ mustCancel[c]
    /\ \/ stopAwaits' = stopAwaits
       \/ pc'[c] = "done" /\ stopAwaits' = stopAwaits \ {c}

\* ... and to everyone else.
LeavesAlone(c) ==
    /\ \A x \in Child \ {c} :
          /\ pc'[x] = pc[x] /\ driver'[x] = driver[x]
          /\ mustCancel'[x] = mustCancel[x] /\ (x \in held' => x \in held)
    /\ \A x \in Child : awaits'[x] = {}
    /\ mailboxes \ Homonyms(c) \subseteq mailboxes' /\ live \ Homonyms(c) \subseteq live'
    /\ stopping' = stopping

\* A crash without siblings to deal with.
LEMMA CrashAlone ==
    ASSUME Strategy = "one_for_one", TypeOK, AloneInv, NEW c \in Child, pc[c] # "done",
           NEW STATE m, m \in [Child -> BOOLEAN], m[c] = FALSE,
           \A x \in Child \ {c} : m[x] = mustCancel[x],
           EndGeneration(c), Crash(c, pc, driver, m, Holding(c))
    PROVE  MovesOn(c) /\ LeavesAlone(c)
  <1>1. /\ mailboxes \ Homonyms(c) \subseteq mailboxes' /\ live \ Homonyms(c) \subseteq live'
        /\ \A x \in Child \ {c} : x \in Holding(c) => x \in held
    BY DEF EndGeneration, Holding
  <1>2. CASE /\ pc' = [pc EXCEPT ![c] = "backoff"] /\ driver' = driver /\ mustCancel' = m
             /\ held' = Holding(c) /\ UNCHANGED <<awaits, stopVars>>
    <2>1. MovesOn(c)
      BY <1>2 DEF MovesOn, TypeOK, stopVars
    <2>2. LeavesAlone(c)
      BY <1>1, <1>2 DEF LeavesAlone, TypeOK, AloneInv, stopVars
    <2> QED BY <2>1, <2>2
  <1>3. CASE TellAndEnd(c, pc, driver, m, Holding(c))
    <2>1. MovesOn(c)
      BY <1>3 DEF MovesOn, TellAndEnd, TypeOK
    <2>2. LeavesAlone(c)
      BY <1>1, <1>3 DEF LeavesAlone, TellAndEnd, Released, TypeOK, AloneInv
    <2> QED BY <2>1, <2>2
  <1> QED BY <1>2, <1>3 DEF Crash, GiveUpAlone, GiveUpGroup

LEMMA BootAlone ==
    ASSUME Strategy = "one_for_one", TypeOK, AloneInv, NEW c \in Child, pc[c] # "done",
           NEW STATE m, m \in [Child -> BOOLEAN], m[c] = FALSE,
           \A x \in Child \ {c} : m[x] = mustCancel[x],
           Boot(c, pc, driver, m)
    PROVE  MovesOn(c) /\ LeavesAlone(c)
  <1>1. CASE BootRuns(c, pc, driver, m)
    <2>1. MovesOn(c)
      BY <1>1 DEF BootRuns, MovesOn, TypeOK, stopVars
    <2>2. LeavesAlone(c)
      BY <1>1 DEF BootRuns, RegisterActor, LeavesAlone, TypeOK, AloneInv, stopVars
    <2> QED BY <2>1, <2>2
  <1>2. CASE BootFails(c, pc, driver, m)
    BY <1>2, CrashAlone DEF BootFails
  <1> QED BY <1>1, <1>2 DEF Boot

\* A step of a task, whichever it is.
LEMMA TaskStepAlone ==
    ASSUME Strategy = "one_for_one", TypeOK, AloneInv, NEW c \in Child, TaskStep(c)
    PROVE  MovesOn(c) /\ LeavesAlone(c)
  <1>1. CASE Start(c)
    <2>1. CASE mustCancel[c]
      <3>1. c \notin held
        BY <1>1 DEF Start, AloneInv
      <3>2. MovesOn(c)
        BY <1>1, <2>1, <3>1 DEF Start, MovesOn, TypeOK, nodeVars
      <3>3. LeavesAlone(c)
        <4>1. /\ pc' = [pc EXCEPT ![c] = "done"] /\ mustCancel' = [mustCancel EXCEPT ![c] = FALSE]
              /\ awaits' = Released(c, awaits)
              /\ UNCHANGED <<driver, held, mailboxes, live, stopping>>
          BY <1>1, <2>1 DEF Start, nodeVars
        <4>2. \A x \in Child : awaits'[x] = {}
          BY <4>1 DEF Released, AloneInv
        <4> QED BY <4>1, <4>2 DEF LeavesAlone, TypeOK
      <3> QED BY <3>2, <3>3
    <2>2. CASE ~mustCancel[c]
      <3>1. mustCancel \in [Child -> BOOLEAN] /\ mustCancel[c] = FALSE
        BY <2>2 DEF TypeOK
      <3> QED BY <1>1, <2>2, <3>1, BootAlone DEF Start
    <2> QED BY <2>1, <2>2
  <1>2. CASE DriverEnds(c)
    <2> DEFINE m == [mustCancel EXCEPT ![c] = FALSE]
    <2>1. /\ m \in [Child -> BOOLEAN] /\ m[c] = FALSE
          /\ \A x \in Child \ {c} : m[x] = mustCancel[x]
      BY DEF TypeOK
    <2>2. /\ pc[c] # "done" /\ EndGeneration(c)
          /\ \/ TellAndEnd(c, pc, driver, m, Holding(c))
             \/ Crash(c, pc, driver, m, Holding(c))
      BY <1>2 DEF DriverEnds
    <2> HIDE DEF m
    <2>3. CASE TellAndEnd(c, pc, driver, m, Holding(c))
      <3>1. MovesOn(c)
        BY <2>2, <2>3 DEF MovesOn, TellAndEnd, TypeOK
      <3>2. LeavesAlone(c)
        BY <2>1, <2>2, <2>3 DEF LeavesAlone, TellAndEnd, EndGeneration, Holding, Released,
                                TypeOK, AloneInv
      <3> QED BY <3>1, <3>2
    <2>4. CASE Crash(c, pc, driver, m, Holding(c))
      BY <2>1, <2>2, <2>4, CrashAlone
    <2> QED BY <2>2, <2>3, <2>4
  <1>3. CASE BackoffOver(c)
    <2>1. CASE CancelEscapes(c)
      <3>1. MovesOn(c)
        BY <1>3, <2>1 DEF BackoffOver, CancelEscapes, MovesOn, TypeOK
      <3>2. LeavesAlone(c)
        BY <2>1 DEF CancelEscapes, LeavesAlone, Released, TypeOK, AloneInv, nodeVars
      <3> QED BY <3>1, <3>2
    <2>2. CASE ~mustCancel[c] /\ (TearDown(c, << >>, 1) \/ RespawnAll(c, << >>, 1))
      <3>1. RespawnAll(c, << >>, 1)
        BY <2>2, SMT DEF TearDown
      <3> DEFINE swept == {<< >>[j] : j \in 1..Len(<< >>)}
                 p == [x \in Child |-> IF x \in swept THEN "new" ELSE pc[x]]
                 d == [x \in Child |-> IF x \in swept THEN "none" ELSE driver[x]]
                 m == [x \in Child |-> mustCancel[x] /\ x \notin swept \union {c}]
      <3>2. Boot(c, p, d, m)
        BY <3>1 DEF RespawnAll
      <3>3. swept = {}
        BY SMT
      <3> HIDE DEF swept
      <3>4. p = pc /\ d = driver
        BY <3>3 DEF TypeOK
      <3>5. /\ m \in [Child -> BOOLEAN] /\ m[c] = FALSE
            /\ \A x \in Child \ {c} : m[x] = mustCancel[x]
        BY <3>3 DEF TypeOK
      <3> HIDE DEF p, d, m
      <3>6. pc[c] # "done"
        BY <1>3 DEF BackoffOver
      <3> QED BY <3>2, <3>4, <3>5, <3>6, BootAlone
    <2> QED BY <1>3, <2>1, <2>2 DEF BackoffOver, Affected
  <1>4. ~SweepOn(c) /\ ~GiveUpOver(c)
    BY DEF AloneInv, SweepOn, GiveUpOver
  <1> QED BY <1>1, <1>2, <1>3, <1>4 DEF TaskStep

\* A shutdown cancels the children, and nothing behind them.
LEMMA ShutdownAlone ==
    ASSUME TypeOK, AloneInv, Shutdown
    PROVE  AloneInv'
  <1> DEFINE R == CancelReaches(Members, awaits)
  <1>1. R \subseteq Members
    <2>1. Members \in SUBSET Child /\ \A x \in Members : awaits[x] \subseteq Members
      BY SMT DEF Members, TypeOK, AloneInv
    <2> QED BY <2>1 DEF CancelReaches
  <1>2. /\ stopping' = Members /\ stopAwaits' = {c \in Members : pc[c] # "done"}
        /\ mustCancel' = CancelsDue(R, pc, driver, mustCancel, awaits)
        /\ UNCHANGED <<pc, awaits, held>> /\ stopAwaits = {}
    BY DEF Shutdown, nodeVars, TypeOK
  <1> HIDE DEF R
  <1>3. \A c \in Child : mustCancel'[c] => mustCancel[c] \/ c \in Members
    BY <1>1, <1>2 DEF CancelsDue
  <1>4. \A c \in Child : mustCancel'[c] /\ pc'[c] = "backoff" => c \in stopAwaits'
    BY <1>2, <1>3 DEF AloneInv
  <1>5. \A c \in stopping' \ stopAwaits' : pc'[c] = "done"
    BY <1>2
  <1> QED BY <1>2, <1>4, <1>5 DEF AloneInv

LEMMA NextAlone ==
    ASSUME Strategy = "one_for_one", TypeOK, AloneInv, [Next]_vars
    PROVE  AloneInv'
  <1>1. ASSUME NEW c \in Child, TaskStep(c) PROVE AloneInv'
    <2>1. MovesOn(c) /\ LeavesAlone(c)
      BY <1>1, TaskStepAlone
    <2>2. stopAwaits' \subseteq stopAwaits /\ \A x \in Child \ {c} : x \in stopAwaits => x \in stopAwaits'
      BY <2>1 DEF MovesOn
    <2>3. \A x \in Child : pc'[x] \notin {"teardown", "giveup"} /\ awaits'[x] = {}
      BY <2>1 DEF MovesOn, LeavesAlone, AloneInv
    <2>4. \A x \in Child : x \in held' => pc'[x] \in {"backoff", "done"}
      BY <2>1 DEF MovesOn, LeavesAlone, AloneInv
    <2>5. \A x \in Child : mustCancel'[x] /\ pc'[x] = "backoff" => x \in stopAwaits'
      BY <2>1, <2>2 DEF MovesOn, LeavesAlone, AloneInv
    <2>6. \A x \in stopping' \ stopAwaits' : pc'[x] = "done"
      <3> SUFFICES ASSUME NEW x \in stopping' \ stopAwaits' PROVE pc'[x] = "done"
        OBVIOUS
      <3>1. x \in stopping /\ x \in Child
        BY <2>1 DEF LeavesAlone, TypeOK
      <3>2. CASE x \in stopAwaits
        BY <2>1, <3>2 DEF MovesOn
      <3>3. CASE x \notin stopAwaits
        BY <2>1, <3>1, <3>3 DEF MovesOn, LeavesAlone, AloneInv
      <3> QED BY <3>2, <3>3
    <2> QED BY <2>3, <2>4, <2>5, <2>6 DEF AloneInv
  <1>2. ASSUME NEW c \in Child, Spawn(c) PROVE AloneInv'
    BY <1>2 DEF Spawn, AloneInv, TypeOK, stopVars
  <1>3. CASE ShutdownReturns
    BY <1>3 DEF ShutdownReturns, AloneInv, nodeVars
  <1>4. CASE UNCHANGED <<pc, mustCancel, awaits, held, stopVars>>
    BY <1>4 DEF AloneInv, stopVars
  <1>5. ASSUME NEW c \in Child, HandlerRaises(c) \/ HandlerUnwinds(c) \/ DeliverExit(c)
        PROVE  AloneInv'
    BY <1>4, <1>5 DEF HandlerRaises, HandlerUnwinds, DeliverExit, nodeVars
  <1>6. ASSUME NEW n \in Name, Monitor(n) PROVE AloneInv'
    BY <1>4, <1>6 DEF Monitor
  <1>7. CASE UNCHANGED vars
    BY <1>4, <1>7 DEF vars, stopVars
  <1> QED BY <1>1, <1>2, <1>3, <1>5, <1>6, <1>7, ShutdownAlone DEF Next

LEMMA AlwaysAlone == Strategy = "one_for_one" => (Spec => [](TypeOK /\ AloneInv))
  <1> SUFFICES ASSUME Strategy = "one_for_one" PROVE Spec => [](TypeOK /\ AloneInv)
    OBVIOUS
  <1>1. Init => AloneInv
    BY DEF Init, AloneInv
  <1>2. TypeOK /\ AloneInv /\ [Next]_vars => AloneInv'
    BY NextAlone
  <1> QED BY <1>1, <1>2, TypeCorrect, PTL DEF Spec

\* one_for_one: a crash, a restart or a give-up of one child, whatever else is
\* under way, leaves every child with another name where it was.
THEOREM SiblingsTheorem == Spec => SiblingsUnaffected
  <1> DEFINE Alone == Strategy = "one_for_one" => TypeOK /\ AloneInv
  <1>1. Spec => []Alone
    <2>1. CASE Strategy = "one_for_one"
      BY <2>1, AlwaysAlone, PTL
    <2>2. CASE Strategy # "one_for_one"
      <3>1. Alone
        BY <2>2
      <3> QED BY <3>1, PTL
    <2> QED BY <2>1, <2>2
  <1>2. Alone =>
          [\A c, d \in Child :
              (Strategy = "one_for_one" /\ TaskStep(c) /\ NameOf[c] # NameOf[d] /\ pc[c] # pc'[c]) =>
                  /\ pc'[d] = pc[d] /\ driver'[d] = driver[d]
                  /\ d \in mailboxes => d \in mailboxes'
                  /\ d \in live => d \in live']_vars
    BY TaskStepAlone DEF LeavesAlone, Homonyms, Named
  <1> QED BY <1>1, <1>2, PTL DEF SiblingsUnaffected

\* one_for_one: a child that ends has told its watchers, unless a shutdown
\* cancels it in the sleep before a restart.
THEOREM WatchersTheorem == Strategy = "one_for_one" => (Spec => WatchersTold)
  <1> SUFFICES ASSUME Strategy = "one_for_one" PROVE Spec => WatchersTold
    OBVIOUS
  <1>1. TypeOK /\ AloneInv /\ [Next]_vars =>
          [\A c \in Child :
              (pc[c] # "done" /\ pc'[c] = "done" /\ c \in held') =>
                  pc[c] = "backoff" /\ c \in stopAwaits]_vars
    <2> SUFFICES ASSUME TypeOK, AloneInv, [Next]_vars, NEW c \in Child,
                        pc[c] # "done", pc'[c] = "done", c \in held'
                 PROVE  pc[c] = "backoff" /\ c \in stopAwaits
      OBVIOUS
    <2>1. ASSUME NEW x \in Child, TaskStep(x) PROVE pc[c] = "backoff" /\ c \in stopAwaits
      <3>1. MovesOn(x) /\ LeavesAlone(x)
        BY <2>1, TaskStepAlone
      <3>2. x = c
        BY <3>1 DEF LeavesAlone
      <3> QED BY <3>1, <3>2 DEF MovesOn, AloneInv
    <2>2. ASSUME NEW x \in Child, Spawn(x) PROVE FALSE
      BY <2>2 DEF Spawn, TypeOK
    <2>3. pc' # pc
      OBVIOUS
    <2> QED BY <2>1, <2>2, <2>3
            DEF Next, HandlerRaises, HandlerUnwinds, DeliverExit, Monitor, Shutdown,
                ShutdownReturns, vars
  <1> QED BY <1>1, AlwaysAlone, PTL DEF Spec, WatchersTold

\* one_for_one: when shutdown() returns, every child it set out to stop has
\* ended, whatever crashes and restarts it raced with.
THEOREM ShutdownTheorem == Strategy = "one_for_one" => (Spec => ShutdownIsComplete)
  <1> SUFFICES ASSUME Strategy = "one_for_one" PROVE Spec => ShutdownIsComplete
    OBVIOUS
  <1>1. TypeOK /\ AloneInv /\ [Next]_vars =>
          [stopping = Members /\ stopping' = {} => \A c \in stopping : pc[c] = "done"]_vars
    <2> SUFFICES ASSUME TypeOK, AloneInv, [Next]_vars, stopping # {}, stopping' = {}
                 PROVE  \A c \in stopping : pc[c] = "done"
      OBVIOUS
    <2>1. CASE ShutdownReturns
      BY <2>1 DEF ShutdownReturns, AloneInv
    <2>2. ASSUME NEW c \in Child, TaskStep(c) PROVE stopping' = stopping
      BY <2>2, TaskStepAlone DEF LeavesAlone
    <2> QED BY <2>1, <2>2
            DEF Next, Spawn, HandlerRaises, HandlerUnwinds, DeliverExit, Monitor, Shutdown,
                stopVars, vars
  <1> QED BY <1>1, AlwaysAlone, PTL DEF Spec, ShutdownIsComplete

\* The task of c ends at its next step, or at the one after its cancelled
\* handler has unwound.
Stops(c) ==
    \/ pc[c] \in {"new", "backoff"} /\ mustCancel[c]
    \/ pc[c] = "run" /\ driver[c] \in {"cancelling", "cancelled"}
    \/ pc[c] = "run" /\ driver[c] = "raised" /\ mustCancel[c]

\* What shutdown() awaits stops.
AwaitedStop == \A c \in stopAwaits : Stops(c)

\* No child that shutdown() awaits comes back.
NoneComesBack == [][\A c \in stopAwaits : pc'[c] \in {pc[c], "done"}]_vars

\* Without links no CancelledError is taken for a crash, and a listed child
\* has a task.
StopsInv ==
    /\ \A c \in Child : ~pendingExit[c] /\ (pc[c] = "run" => driver[c] # "none")
    /\ \A c \in Members : pc[c] # "absent"
    /\ AwaitedStop

\* What a step of a task does to the things StopsInv speaks of.
TidyStep(c) ==
    /\ Members' \subseteq Members
    /\ pc'[c] = "run" => driver'[c] # "none"

LEMMA CrashTidy ==
    ASSUME Strategy = "one_for_one", TypeOK, NEW c \in Child, NEW STATE m,
           Crash(c, pc, driver, m, Holding(c))
    PROVE  TidyStep(c)
  <1>1. pc' = [pc EXCEPT ![c] = "backoff"] \/ pc' = [pc EXCEPT ![c] = "done"]
    BY DEF Crash, GiveUpAlone, GiveUpGroup, TellAndEnd
  <1>2. children' = children \/ children' = Without(children, c)
    BY DEF Crash, GiveUpAlone, GiveUpGroup
  <1>3. Members' \subseteq Members
    BY <1>2, WithoutMembers DEF Members, AreMembers
  <1> QED BY <1>1, <1>3 DEF TidyStep, TypeOK

LEMMA BootTidy ==
    ASSUME Strategy = "one_for_one", TypeOK, NEW c \in Child, NEW STATE m,
           Boot(c, pc, driver, m)
    PROVE  TidyStep(c)
  <1>1. CASE BootRuns(c, pc, driver, m)
    BY <1>1 DEF BootRuns, TidyStep, Members, TypeOK, supVars
  <1> QED BY <1>1, CrashTidy DEF Boot, BootFails

LEMMA TaskStepTidy ==
    ASSUME Strategy = "one_for_one", TypeOK, AloneInv, NEW c \in Child, TaskStep(c)
    PROVE  TidyStep(c)
  <1>1. CASE UNCHANGED children /\ pc' = [pc EXCEPT ![c] = "done"]
    BY <1>1 DEF TidyStep, Members, TypeOK
  <1>2. CASE Start(c)
    BY <1>1, <1>2, BootTidy DEF Start, supVars
  <1>3. CASE DriverEnds(c)
    BY <1>1, <1>3, CrashTidy DEF DriverEnds, TellAndEnd, supVars
  <1>4. CASE BackoffOver(c)
    <2>1. CASE CancelEscapes(c)
      BY <1>1, <2>1 DEF CancelEscapes, supVars
    <2>2. CASE TearDown(c, << >>, 1) \/ RespawnAll(c, << >>, 1)
      <3>1. RespawnAll(c, << >>, 1)
        BY <2>2, SMT DEF TearDown
      <3> DEFINE swept == {<< >>[j] : j \in 1..Len(<< >>)}
                 p == [x \in Child |-> IF x \in swept THEN "new" ELSE pc[x]]
                 d == [x \in Child |-> IF x \in swept THEN "none" ELSE driver[x]]
                 m == [x \in Child |-> mustCancel[x] /\ x \notin swept \union {c}]
      <3>2. Boot(c, p, d, m)
        BY <3>1 DEF RespawnAll
      <3>3. swept = {}
        BY SMT
      <3> HIDE DEF swept
      <3>4. p = pc /\ d = driver
        BY <3>3 DEF TypeOK
      <3> HIDE DEF p, d, m
      <3> QED BY <3>2, <3>4, BootTidy
    <2> QED BY <1>4, <2>1, <2>2 DEF BackoffOver, Affected
  <1>5. ~SweepOn(c) /\ ~GiveUpOver(c)
    BY DEF AloneInv, SweepOn, GiveUpOver
  <1> QED BY <1>2, <1>3, <1>4, <1>5 DEF TaskStep

\* The step that shutdown() waits for.
LEMMA StopsEnds ==
    ASSUME TypeOK, AloneInv, NEW c \in Child, Stops(c), ~pendingExit[c], TaskStep(c)
    PROVE  pc'[c] = "done" /\ stopAwaits' = stopAwaits \ {c}
  <1>1. CASE Start(c)
    BY <1>1 DEF Start, Stops, TypeOK
  <1>2. CASE DriverEnds(c)
    <2>1. mustCancel[c] \/ driver[c] = "cancelled"
      BY <1>2 DEF DriverEnds, Stops, Ended
    <2>2. TellAndEnd(c, pc, driver, [mustCancel EXCEPT ![c] = FALSE], Holding(c))
      BY <1>2, <2>1 DEF DriverEnds, Killed
    <2> QED BY <2>2 DEF TellAndEnd, TypeOK
  <1>3. CASE BackoffOver(c)
    BY <1>3 DEF BackoffOver, CancelEscapes, Stops, TypeOK
  <1>4. ~SweepOn(c) /\ ~GiveUpOver(c)
    BY DEF AloneInv, SweepOn, GiveUpOver
  <1> QED BY <1>1, <1>2, <1>3, <1>4 DEF TaskStep

LEMMA TaskStepStops ==
    ASSUME Strategy = "one_for_one", TypeOK, AloneInv, StopsInv, NEW c \in Child, TaskStep(c)
    PROVE  StopsInv' /\ \A x \in stopAwaits : pc'[x] \in {pc[x], "done"}
  <1>1. MovesOn(c) /\ LeavesAlone(c) /\ TidyStep(c)
    BY TaskStepAlone, TaskStepTidy
  <1>2. \A x \in Child : ~pendingExit'[x]
    BY DEF StopsInv, TaskStep, Start, DriverEnds, Killed, BackoffOver, SweepOn, GiveUpOver,
           CancelEscapes, TearDown, RespawnAll
  <1>3. \A x \in Child : pc'[x] = "run" => driver'[x] # "none"
    BY <1>1 DEF LeavesAlone, TidyStep, StopsInv
  <1>4. \A x \in Members' : pc'[x] # "absent"
    <2>1. Members \subseteq Child
      BY SMT DEF TypeOK, Members
    <2> QED BY <1>1, <2>1 DEF MovesOn, LeavesAlone, TidyStep, StopsInv
  <1>5. stopAwaits \subseteq Child
    BY DEF TypeOK
  <1>6. CASE c \in stopAwaits
    <2>1. pc'[c] = "done" /\ stopAwaits' = stopAwaits \ {c}
      BY <1>6, StopsEnds DEF StopsInv, AwaitedStop
    <2>2. AwaitedStop'
      BY <1>1, <1>5, <2>1 DEF StopsInv, AwaitedStop, Stops, LeavesAlone
    <2> QED BY <1>1, <1>2, <1>3, <1>4, <1>5, <2>1, <2>2 DEF StopsInv, LeavesAlone
  <1>7. CASE c \notin stopAwaits
    <2>1. stopAwaits' = stopAwaits
      BY <1>1, <1>7 DEF MovesOn
    <2>2. AwaitedStop'
      BY <1>1, <1>5, <1>7, <2>1 DEF StopsInv, AwaitedStop, Stops, LeavesAlone
    <2> QED BY <1>1, <1>2, <1>3, <1>4, <1>5, <1>7, <2>2 DEF StopsInv, LeavesAlone
  <1> QED BY <1>6, <1>7

\* shutdown() cancels every child it awaits, wherever its task is.
LEMMA ShutdownStops ==
    ASSUME TypeOK, AloneInv, StopsInv, Shutdown
    PROVE  StopsInv'
  <1> DEFINE R == CancelReaches(Members, awaits)
  <1>1. Members \subseteq R
    <2>1. Members \subseteq Child
      BY SMT DEF TypeOK, Members
    <2> QED BY <2>1 DEF CancelReaches
  <1>2. /\ stopAwaits' = {c \in Members : pc[c] # "done"}
        /\ driver' = DriversCancelled(R, pc, driver)
        /\ mustCancel' = CancelsDue(R, pc, driver, mustCancel, awaits)
        /\ UNCHANGED <<pc, pendingExit, children>>
    BY DEF Shutdown, supVars
  <1> HIDE DEF R
  <1>3. \A c \in Child : pc'[c] = "run" => driver'[c] # "none"
    BY <1>2 DEF DriversCancelled, StopsInv
  <1>4. \A c \in Members' : pc'[c] # "absent"
    BY <1>2 DEF StopsInv, Members
  <1>5. ASSUME NEW c \in stopAwaits' PROVE Stops(c)'
    <2>1. c \in Members /\ c \in R /\ pc[c] # "done" /\ c \in Child
      BY <1>1, <1>2, SMT DEF TypeOK, Members
    <2>2. pc[c] \in {"new", "run", "backoff"}
      BY <2>1 DEF TypeOK, PC, StopsInv, AloneInv
    <2>3. CASE pc[c] \in {"new", "backoff"}
      <3>1. mustCancel'[c]
        BY <1>2, <2>1, <2>3 DEF CancelsDue
      <3> QED BY <1>2, <2>3, <3>1 DEF Stops
    <2>4. CASE pc[c] = "run"
      <3>1. driver[c] \in {"live", "cancelling", "raised", "cancelled"}
        BY <2>1, <2>4 DEF TypeOK, Driver, StopsInv
      <3>2. driver[c] = "raised" => mustCancel'[c]
        BY <1>2, <2>1, <2>4 DEF CancelsDue, Ended
      <3>3. driver'[c] = IF driver[c] = "live" THEN "cancelling" ELSE driver[c]
        BY <1>2, <2>1, <2>4 DEF DriversCancelled
      <3> QED BY <1>2, <2>4, <3>1, <3>2, <3>3 DEF Stops
    <2> QED BY <2>2, <2>3, <2>4
  <1> QED BY <1>2, <1>3, <1>4, <1>5 DEF StopsInv, AwaitedStop

LEMMA NextStops ==
    ASSUME Strategy = "one_for_one", Killable = {}, Unruly = {},
           TypeOK, AloneInv, StopsInv, [Next]_vars
    PROVE  StopsInv' /\ \A c \in stopAwaits : pc'[c] \in {pc[c], "done"}
  <1>0. stopAwaits \subseteq Child /\ Members \subseteq Child
    BY SMT DEF TypeOK, Members
  <1>1. ASSUME NEW x \in Child, TaskStep(x)
        PROVE  StopsInv' /\ \A c \in stopAwaits : pc'[c] \in {pc[c], "done"}
    BY <1>1, TaskStepStops
  <1>2. ASSUME NEW x \in Child, Spawn(x)
        PROVE  StopsInv' /\ \A c \in stopAwaits : pc'[c] \in {pc[c], "done"}
    <2>1. /\ pc[x] = "absent" /\ pc' = [pc EXCEPT ![x] = "new"]
          /\ UNCHANGED <<driver, mustCancel, pendingExit, stopAwaits>>
          /\ children' = Append(children, x)
      BY <1>2 DEF Spawn, stopVars
    <2>2. x \notin stopAwaits
      BY <2>1 DEF StopsInv, AwaitedStop, Stops
    <2>3. Members' \subseteq Members \union {x}
      <3>1. children \in Seq(Child)
        BY DEF TypeOK
      <3> QED BY <2>1, <3>1, SMT DEF Members
    <2>4. \A c \in Child \ {x} : pc'[c] = pc[c]
      BY <2>1 DEF TypeOK
    <2>5. pc'[x] = "new"
      BY <2>1 DEF TypeOK
    <2>6. AwaitedStop'
      BY <1>0, <2>1, <2>2, <2>4 DEF StopsInv, AwaitedStop, Stops
    <2>7. \A c \in Members' : pc'[c] # "absent"
      BY <1>0, <2>3, <2>4, <2>5 DEF StopsInv
    <2>8. \A c \in Child : pc'[c] = "run" => driver'[c] # "none"
      BY <2>1, <2>4, <2>5 DEF StopsInv
    <2> QED BY <1>0, <2>1, <2>2, <2>4, <2>6, <2>7, <2>8 DEF StopsInv
  <1>3. ASSUME NEW x \in Child, HandlerRaises(x) \/ HandlerUnwinds(x)
        PROVE  StopsInv' /\ UNCHANGED pc
    <2>1. /\ \/ driver[x] = "live" /\ driver' = [driver EXCEPT ![x] = "raised"]
             \/ driver[x] = "cancelling" /\ driver' = [driver EXCEPT ![x] = "cancelled"]
          /\ UNCHANGED <<pc, mustCancel, pendingExit, children, stopAwaits>>
      BY <1>3 DEF HandlerRaises, HandlerUnwinds, supVars, stopVars
    <2>2. AwaitedStop'
      BY <1>0, <2>1 DEF StopsInv, AwaitedStop, Stops, TypeOK
    <2>3. \A c \in Child : pc'[c] = "run" => driver'[c] # "none"
      BY <2>1 DEF StopsInv, TypeOK
    <2> QED BY <2>1, <2>2, <2>3 DEF StopsInv, Members
  <1>4. ASSUME NEW x \in Child PROVE ~DeliverExit(x)
    BY DEF DeliverExit
  <1>5. CASE UNCHANGED <<pc, driver, mustCancel, pendingExit, children>> /\ stopAwaits' = stopAwaits
    BY <1>5 DEF StopsInv, AwaitedStop, Stops, Members
  <1>6. CASE Shutdown
    BY <1>6, ShutdownStops DEF Shutdown
  <1>7. ASSUME ShutdownReturns \/ (\E n \in Name : Monitor(n)) \/ UNCHANGED vars
        PROVE  StopsInv' /\ UNCHANGED pc
    BY <1>5, <1>7 DEF ShutdownReturns, Monitor, vars, supVars, stopVars
  <1> QED BY <1>1, <1>2, <1>3, <1>4, <1>6, <1>7 DEF Next

\* The safe half of ShutdownComesBack, one_for_one without links and handlers
\* that raise on a CancelledError: once shutdown() was called, no crash,
\* constructor or backoff brings a child it awaits back, and the next steps of
\* its task end it.
THEOREM ShutdownStopsTheorem ==
    Strategy = "one_for_one" /\ Killable = {} /\ Unruly = {} =>
        (Spec => []AwaitedStop /\ NoneComesBack)
  <1> SUFFICES ASSUME Strategy = "one_for_one", Killable = {}, Unruly = {}
               PROVE  Spec => []AwaitedStop /\ NoneComesBack
    OBVIOUS
  <1>1. Init => StopsInv
    BY SMT DEF Init, StopsInv, AwaitedStop, Members
  <1>2. TypeOK /\ AloneInv /\ StopsInv /\ [Next]_vars =>
          StopsInv' /\ [\A c \in stopAwaits : pc'[c] \in {pc[c], "done"}]_vars
    BY NextStops
  <1>3. StopsInv => AwaitedStop
    BY DEF StopsInv
  <1> QED BY <1>1, <1>2, <1>3, AlwaysAlone, PTL DEF Spec, NoneComesBack

-----------------------------------------------------------------------------
(* rest_for_one                                                            *)

\* sibs are the children that follow c in the spawn order, up to some point:
\* all there were when its sweep began.
Follow(sibs, c) ==
    \E p \in 1..Len(children) :
        /\ children[p] = c
        /\ \A k \in 1..Len(sibs) : p + k \in 1..Len(children) /\ sibs[k] = children[p + k]

\* The siblings the sweep of c has dealt with.
Swept(c) == {siblings[c][k] : k \in 1..(next[c] - 1)}

\* A sweep goes through the siblings in order, and awaits the last one it has
\* cancelled, until that one ends; those before have ended.
Sweeps(c) ==
    /\ Follow(siblings[c], c)
    /\ next[c] - 1 \in 1..Len(siblings[c])
    /\ awaits[c] \subseteq {siblings[c][next[c] - 1]}
    /\ \A x \in awaits[c] : pc[x] # "done"
    /\ \A x \in Swept(c) : x \in awaits[c] \/ pc[x] = "done"

\* Sweeps nest: a sibling that another sweep has brought down for good is not
\* brought back by a third one before that sweep is over.
SweepInv ==
    /\ \A i, j \in 1..Len(children) : children[i] = children[j] => i = j
    /\ \A c \in Child : pc[c] = "absent" => c \notin Members
    /\ \A c \in Child : pc[c] = "teardown" => Sweeps(c)

\* A step of the task of z that starts the children in D anew.
Advances(z, D) ==
    /\ children' = children
    /\ pc[z] # "done" /\ pc'[z] \notin {"new", "absent"}
    /\ \A x \in D : pc[x] = "done"
    /\ \A x \in Child \ {z} :
          /\ siblings'[x] = siblings[x] /\ next'[x] = next[x]
          /\ pc'[x] = IF x \in D THEN "new" ELSE pc[x]
          /\ awaits'[x] = IF pc'[z] = "done" THEN awaits[x] \ {z} ELSE awaits[x]

\* Such a step keeps the sweeps of the others in order, unless it restarts a
\* sibling that one of them has dealt with.
LEMMA AdvancesSweep ==
    ASSUME TypeOK, SweepInv, NEW z \in Child, NEW STATE D, D \subseteq Child, Advances(z, D),
           \A c \in Child \ {z} : pc[c] = "teardown" => Swept(c) \intersect D = {},
           pc'[z] = "teardown" => Sweeps(z)'
    PROVE  SweepInv'
  <1>1. \A i, j \in 1..Len(children') : children'[i] = children'[j] => i = j
    BY DEF SweepInv, Advances
  <1>2. \A c \in Child : pc'[c] = "absent" => c \notin Members'
    <2>1. Members' = Members
      BY DEF Advances, Members
    <2>2. \A c \in Child : pc'[c] = "absent" => pc[c] = "absent"
      BY DEF Advances
    <2> QED BY <2>1, <2>2 DEF SweepInv
  <1>3. ASSUME NEW c \in Child, pc'[c] = "teardown", c # z PROVE Sweeps(c)'
    <2>1. Sweeps(c)
      BY <1>3 DEF SweepInv, Advances
    <2>2. siblings'[c] = siblings[c] /\ next'[c] = next[c] /\ children' = children
      BY <1>3 DEF Advances
    <2>3. Swept(c)' = Swept(c) /\ (Follow(siblings[c], c))'
      BY <2>1, <2>2, SMT DEF Swept, Sweeps, Follow
    <2>4. awaits'[c] = IF pc'[z] = "done" THEN awaits[c] \ {z} ELSE awaits[c]
      BY <1>3 DEF Advances
    <2>5. \A x \in awaits'[c] : pc'[x] # "done"
      BY <2>1, <2>4 DEF Sweeps, Advances, TypeOK
    <2>6. Swept(c) \subseteq Child
      BY <2>1, SMT DEF Swept, Sweeps, TypeOK
    <2>7. pc[c] = "teardown"
      BY <1>3 DEF Advances
    <2>8. \A x \in Swept(c) : x \in awaits'[c] \/ pc'[x] = "done"
      BY <1>3, <2>1, <2>4, <2>6, <2>7 DEF Sweeps, Advances
    <2>9. awaits'[c] \subseteq {siblings'[c][next'[c] - 1]} /\ next'[c] - 1 \in 1..Len(siblings'[c])
      BY <2>1, <2>2, <2>4 DEF Sweeps
    <2> QED BY <2>3, <2>5, <2>8, <2>9 DEF Sweeps
  <1> QED BY <1>1, <1>2, <1>3 DEF SweepInv

\* The siblings a sweep starts anew belong to no other sweep: one that began
\* earlier is still waiting for z itself, and one of a later child would have
\* been ended by z's.
LEMMA SweepsNest ==
    ASSUME TypeOK, SweepInv, NEW z \in Child, pc[z] # "done",
           NEW STATE sibs, sibs \in Seq(Child), Follow(sibs, z),
           \A k \in 1..Len(sibs) : pc[sibs[k]] = "done",
           NEW c \in Child \ {z}, pc[c] = "teardown"
    PROVE  Swept(c) \intersect {sibs[k] : k \in 1..Len(sibs)} = {}
  <1> SUFFICES ASSUME NEW k \in 1..(next[c] - 1), NEW l \in 1..Len(sibs),
                      siblings[c][k] = sibs[l]
               PROVE  FALSE
    BY DEF Swept
  <1>1. Sweeps(c)
    BY DEF SweepInv
  <1>2. PICK p \in 1..Len(children) :
            /\ children[p] = z
            /\ \A i \in 1..Len(sibs) : p + i \in 1..Len(children) /\ sibs[i] = children[p + i]
    BY DEF Follow
  <1>3. PICK q \in 1..Len(children) :
            /\ children[q] = c
            /\ \A i \in 1..Len(siblings[c]) :
                  q + i \in 1..Len(children) /\ siblings[c][i] = children[q + i]
    BY <1>1 DEF Sweeps, Follow
  <1>4. PICK n \in Nat : n = Len(siblings[c])
    <2>1. siblings[c] \in Seq(Child)
      BY DEF TypeOK
    <2> QED BY <2>1, SMT
  <1>5. next[c] \in Nat /\ next[c] - 1 \in 1..n
    BY <1>1, <1>4 DEF Sweeps, TypeOK
  <1>6. PICK m \in Nat : m = Len(sibs)
    BY SMT
  <1>7. /\ p \in Nat /\ q \in Nat /\ k \in Nat /\ l \in Nat
        /\ k \in 1..n /\ k < next[c] /\ l \in 1..m
    <2>1. k \in Nat /\ k \in 1..n /\ k < next[c] /\ l \in Nat /\ l \in 1..m
      BY <1>5, <1>6, SMT
    <2>2. children \in Seq(Child) /\ Len(children) \in Nat
      BY SMT DEF TypeOK
    <2> QED BY <2>1, <2>2, SMT
  <1>8. q + k = p + l
    <2>1. /\ q + k \in 1..Len(children) /\ siblings[c][k] = children[q + k]
          /\ p + l \in 1..Len(children) /\ sibs[l] = children[p + l]
      BY <1>2, <1>3, <1>4, <1>7
    <2> QED BY <2>1 DEF SweepInv
  <1>9. p # q
    BY <1>2, <1>3
  <1>10. CASE p < q
    <2>1. l - k = q - p /\ q - p \in Nat \ {0} /\ l - k <= m
      BY <1>7, <1>8, <1>10, SMT
    <2>2. l - k \in 1..m /\ p + (l - k) = q
      BY <1>7, <2>1, SMT
    <2>3. sibs[l - k] = c
      BY <1>2, <1>3, <1>6, <2>2
    <2> QED BY <1>6, <2>2, <2>3
  <1>11. CASE q < p
    <2>1. k - l \in 1..(next[c] - 1) /\ k - l \in 1..n /\ q + (k - l) = p /\ k - l # next[c] - 1
      BY <1>5, <1>7, <1>8, <1>11, SMT
    <2>2. siblings[c][k - l] = z
      BY <1>2, <1>3, <1>4, <2>1
    <2>3. z \in awaits[c]
      BY <1>1, <2>1, <2>2 DEF Sweeps, Swept
    <2>4. z = siblings[c][next[c] - 1]
      BY <1>1, <2>3 DEF Sweeps
    <2>5. q + (next[c] - 1) \in 1..Len(children) /\ children[q + (next[c] - 1)] = z
      BY <1>3, <1>4, <1>5, <2>4
    <2>6. q + (next[c] - 1) = p
      BY <1>2, <2>5 DEF SweepInv
    <2> QED BY <1>5, <1>7, <2>1, <2>6, SMT
  <1> QED BY <1>7, <1>9, <1>10, <1>11, SMT

\* rest_for_one restarts the children that follow the crashed one.
LEMMA AffectedFollow ==
    ASSUME TypeOK, Strategy = "rest_for_one", NEW c \in Child, c \in Members
    PROVE  Follow(Affected(c), c) /\ Affected(c) \in Seq(Child)
  <1>1. children \in Seq(Child) /\ Len(children) \in Nat
    BY SMT DEF TypeOK
  <1>2. \E i \in 1..Len(children) : children[i] = c
    BY DEF Members
  <1>3. PICK at \in 1..Len(children) : at = Position(children, c) /\ children[at] = c
    BY <1>2 DEF Position
  <1>4. PICK s \in Seq(Child) : s = SubSeq(children, at + 1, Len(children))
    <2>1. SubSeq(children, at + 1, Len(children)) \in Seq(Child)
      BY <1>1, <1>3, SMT
    <2> QED BY <2>1
  <1>5. \A k \in 1..Len(s) : at + k \in 1..Len(children) /\ s[k] = children[at + k]
    <2> SUFFICES ASSUME NEW k \in 1..Len(s)
                 PROVE  at + k \in 1..Len(children) /\ s[k] = children[at + k]
      OBVIOUS
    <2>1. k \in 1..(Len(children) - at) /\ s[k] = children[at + 1 + k - 1]
      BY <1>1, <1>3, <1>4, SMT
    <2>2. at + 1 + k - 1 = at + k /\ at + k \in 1..Len(children)
      BY <1>1, <1>3, <2>1, SMT
    <2> QED BY <2>1, <2>2
  <1>6. Affected(c) = s
    BY <1>3, <1>4 DEF Affected
  <1> QED BY <1>3, <1>5, <1>6 DEF Follow

\* A crash is a step of the crashed child alone.
LEMMA CrashAdvances ==
    ASSUME Strategy = "rest_for_one", TypeOK, NEW z \in Child, pc[z] # "done",
           NEW STATE D, D \subseteq Child, \A x \in D : pc[x] = "done",
           NEW STATE p, p = [x \in Child |-> IF x \in D THEN "new" ELSE pc[x]],
           NEW STATE d, NEW STATE m, NEW STATE h, Crash(z, p, d, m, h)
    PROVE  Advances(z, D) /\ pc'[z] # "teardown"
  <1>1. /\ children' = children
        /\ \A x \in Child \ {z} : siblings'[x] = siblings[x] /\ next'[x] = next[x]
    BY DEF Crash, GiveUpAlone, GiveUpGroup, TellAndEnd, Dealing, TypeOK
  <1>2. CASE pc' = [p EXCEPT ![z] = "backoff"] /\ awaits' = awaits
    BY <1>1, <1>2 DEF Advances
  <1>3. CASE pc' = [p EXCEPT ![z] = "done"] /\ awaits' = Released(z, awaits)
    BY <1>1, <1>3 DEF Advances, Released
  <1>4. CASE /\ pc' = [p EXCEPT ![z] = "giveup"]
             /\ \E A : awaits' = [awaits EXCEPT ![z] = A]
    BY <1>1, <1>4 DEF Advances, TypeOK
  <1>5. \/ pc' = [p EXCEPT ![z] = "backoff"] /\ awaits' = awaits
        \/ pc' = [p EXCEPT ![z] = "done"] /\ awaits' = Released(z, awaits)
        \/ pc' = [p EXCEPT ![z] = "giveup"] /\ \E A : awaits' = [awaits EXCEPT ![z] = A]
    BY DEF Crash, GiveUpAlone, GiveUpGroup, TellAndEnd
  <1> QED BY <1>2, <1>3, <1>4, <1>5

LEMMA BootAdvances ==
    ASSUME Strategy = "rest_for_one", TypeOK, NEW z \in Child, pc[z] # "done",
           NEW STATE D, D \subseteq Child, \A x \in D : pc[x] = "done",
           NEW STATE p, p = [x \in Child |-> IF x \in D THEN "new" ELSE pc[x]],
           NEW STATE d, NEW STATE m, Boot(z, p, d, m)
    PROVE  Advances(z, D) /\ pc'[z] # "teardown"
  <1>1. CASE BootRuns(z, p, d, m)
    BY <1>1 DEF BootRuns, Dealing, Advances, TypeOK, supVars
  <1>2. CASE BootFails(z, p, d, m)
    BY <1>2, CrashAdvances DEF BootFails
  <1> QED BY <1>1, <1>2 DEF Boot

\* Whatever happens to z and leaves its siblings alone.
LEMMA AloneAdvances ==
    ASSUME TypeOK, SweepInv, NEW z \in Child, Advances(z, {}), pc'[z] # "teardown"
    PROVE  SweepInv'
  BY AdvancesSweep

\* The teardown half of a sweep.
LEMMA TearDownSweeps ==
    ASSUME TypeOK, SweepInv, NEW z \in Child, pc[z] # "done",
           NEW STATE sibs, sibs \in Seq(Child), Follow(sibs, z),
           NEW STATE i, i \in Nat \ {0}, \A k \in 1..(i - 1) : pc[sibs[k]] = "done",
           TearDown(z, sibs, i)
    PROVE  Advances(z, {}) /\ SweepInv'
  <1>1. PICK j \in i..Len(sibs) :
            /\ pc[sibs[j]] # "done"
            /\ \A k \in i..(j - 1) : pc[sibs[k]] = "done"
            /\ pc' = [pc EXCEPT ![z] = "teardown"]
            /\ siblings' = [siblings EXCEPT ![z] = sibs]
            /\ next' = [next EXCEPT ![z] = j + 1]
            /\ awaits' = [awaits EXCEPT ![z] = {sibs[j]}]
            /\ children' = children
    BY DEF TearDown, supVars
  <1>2. j \in Nat /\ j \in 1..Len(sibs) /\ (j + 1) - 1 = j
    BY SMT
  <1>3. /\ pc'[z] = "teardown" /\ siblings'[z] = sibs /\ next'[z] = j + 1
        /\ awaits'[z] = {sibs[j]}
    BY <1>1 DEF TypeOK
  <1>4. Advances(z, {})
    BY <1>1 DEF Advances, TypeOK
  <1>5. Sweeps(z)'
    <2>1. (Follow(siblings[z], z))'
      BY <1>1, <1>3 DEF Follow
    <2>2. sibs[j] \in Child /\ \A k \in 1..Len(sibs) : sibs[k] \in Child
      BY <1>2, SMT
    <2>3. \A x \in awaits'[z] : pc'[x] # "done"
      BY <1>1, <1>3, <2>2 DEF TypeOK
    <2>4. ASSUME NEW k \in 1..j PROVE sibs[k] \in awaits'[z] \/ pc'[sibs[k]] = "done"
      <3>1. CASE k = j
        BY <1>3, <3>1
      <3>2. CASE k # j
        <4>1. (k \in i..(j - 1) \/ k \in 1..(i - 1)) /\ k \in 1..Len(sibs)
          BY <1>2, <3>2, SMT
        <4>2. pc[sibs[k]] = "done" /\ sibs[k] \in Child
          BY <1>1, <2>2, <4>1
        <4> QED BY <1>1, <4>2 DEF TypeOK
      <3> QED BY <3>1, <3>2
    <2>5. \A x \in Swept(z)' : x \in awaits'[z] \/ pc'[x] = "done"
      BY <1>2, <1>3, <2>4 DEF Swept
    <2> QED BY <1>2, <1>3, <2>1, <2>3, <2>5 DEF Sweeps
  <1> QED BY <1>4, <1>5, AdvancesSweep

\* The respawn half of a sweep: every sibling is down, whether this sweep ended
\* it or found it so.
LEMMA RespawnAllSweeps ==
    ASSUME Strategy = "rest_for_one", TypeOK, SweepInv, NEW z \in Child, pc[z] # "done",
           NEW STATE sibs, sibs \in Seq(Child), Follow(sibs, z),
           NEW STATE i, \A k \in 1..Len(sibs) : pc[sibs[k]] = "done",
           RespawnAll(z, sibs, i)
    PROVE  SweepInv' /\ \E D \in SUBSET Child : Advances(z, D)
  <1> DEFINE D == {sibs[k] : k \in 1..Len(sibs)}
             p == [x \in Child |-> IF x \in D THEN "new" ELSE pc[x]]
             d == [x \in Child |-> IF x \in D THEN "none" ELSE driver[x]]
             m == [x \in Child |-> mustCancel[x] /\ x \notin D \union {z}]
  <1>1. Boot(z, p, d, m)
    BY DEF RespawnAll
  <1>2. D \subseteq Child /\ \A x \in D : pc[x] = "done"
    BY SMT
  <1>3. \A c \in Child \ {z} : pc[c] = "teardown" => Swept(c) \intersect D = {}
    BY SweepsNest
  <1> HIDE DEF D, d, m
  <1>4. Advances(z, D) /\ pc'[z] # "teardown"
    BY <1>1, <1>2, BootAdvances
  <1> QED BY <1>2, <1>3, <1>4, AdvancesSweep

\* A step of a task, whichever it is.
LEMMA TaskStepSweeps ==
    ASSUME Strategy = "rest_for_one", TypeInv, SweepInv, NEW z \in Child, TaskStep(z)
    PROVE  SweepInv' /\ \E D \in SUBSET Child : Advances(z, D)
  <1>0. TypeOK /\ pc = [x \in Child |-> IF x \in {} THEN "new" ELSE pc[x]]
    BY DEF TypeInv, TypeOK
  <1>1. ASSUME Advances(z, {}), pc'[z] # "teardown"
        PROVE  SweepInv' /\ \E D \in SUBSET Child : Advances(z, D)
    BY <1>0, <1>1, AloneAdvances
  <1>2. ASSUME pc[z] \notin {"done", "absent"}, pc' = [pc EXCEPT ![z] = "done"],
               awaits' = Released(z, awaits), children' = children,
               \A x \in Child \ {z} : siblings'[x] = siblings[x] /\ next'[x] = next[x]
        PROVE  SweepInv' /\ \E D \in SUBSET Child : Advances(z, D)
    <2>1. Advances(z, {}) /\ pc'[z] # "teardown"
      BY <1>0, <1>2 DEF Advances, Released, TypeOK
    <2> QED BY <1>1, <2>1
  <1>3. ASSUME CancelEscapes(z), pc[z] \notin {"done", "absent"}
        PROVE  SweepInv' /\ \E D \in SUBSET Child : Advances(z, D)
    BY <1>2, <1>3 DEF CancelEscapes, supVars, sweepVars
  <1>4. ASSUME NEW STATE d, NEW STATE m, NEW STATE h, TellAndEnd(z, pc, d, m, h),
               children' = children, pc[z] \notin {"done", "absent"}
        PROVE  SweepInv' /\ \E D \in SUBSET Child : Advances(z, D)
    <2>1. \A x \in Child \ {z} : siblings'[x] = siblings[x] /\ next'[x] = next[x]
      BY <1>0, <1>4 DEF TellAndEnd, Dealing, TypeOK
    <2> QED BY <1>2, <1>4, <2>1 DEF TellAndEnd
  <1>5. ASSUME NEW STATE d, NEW STATE m, NEW STATE h, Crash(z, pc, d, m, h), pc[z] # "done"
        PROVE  SweepInv' /\ \E D \in SUBSET Child : Advances(z, D)
    <2>1. Advances(z, {}) /\ pc'[z] # "teardown"
      BY <1>0, <1>5, CrashAdvances, SMT
    <2> QED BY <1>1, <2>1
  <1>6. CASE Start(z)
    <2>1. CASE mustCancel[z]
      BY <1>2, <1>6, <2>1 DEF Start, supVars, sweepVars
    <2>2. CASE ~mustCancel[z]
      <3>1. Advances(z, {}) /\ pc'[z] # "teardown"
        BY <1>0, <1>6, <2>2, BootAdvances, SMT DEF Start
      <3> QED BY <1>1, <3>1
    <2> QED BY <2>1, <2>2
  <1>7. CASE DriverEnds(z)
    BY <1>4, <1>5, <1>7 DEF DriverEnds, supVars
  <1>8. CASE BackoffOver(z)
    <2>1. CASE CancelEscapes(z)
      BY <1>3, <1>8, <2>1 DEF BackoffOver
    <2>2. CASE TearDown(z, Affected(z), 1) \/ RespawnAll(z, Affected(z), 1)
      <3>1. z \in Members /\ pc[z] # "done"
        BY <1>8 DEF BackoffOver, TypeInv, Listed
      <3>2. PICK s \in Seq(Child) : s = Affected(z) /\ Follow(s, z)
        BY <1>0, <3>1, AffectedFollow
      <3>3. CASE TearDown(z, s, 1)
        BY <1>0, <3>1, <3>2, <3>3, TearDownSweeps, SMT
      <3>4. CASE RespawnAll(z, s, 1)
        <4>1. \A k \in 1..Len(s) : pc[s[k]] = "done"
          BY <3>4 DEF RespawnAll, AllDown
        <4> QED BY <1>0, <3>1, <3>2, <3>4, <4>1, RespawnAllSweeps
      <3> QED BY <2>2, <3>2, <3>3, <3>4
    <2> QED BY <1>8, <2>1, <2>2 DEF BackoffOver
  <1>9. CASE SweepOn(z)
    <2>1. pc[z] = "teardown" /\ awaits[z] = {} /\ Sweeps(z)
      BY <1>9 DEF SweepOn, SweepInv
    <2>2. PICK s \in Seq(Child) : s = siblings[z] /\ Follow(s, z)
      BY <1>0, <2>1 DEF Sweeps, TypeOK
    <2>3. PICK i \in Nat \ {0} : i = next[z] /\ i - 1 \in 1..Len(s)
      BY <1>0, <2>1, <2>2 DEF Sweeps, TypeOK
    <2>4. \A k \in 1..(i - 1) : pc[s[k]] = "done"
      BY <2>1, <2>2, <2>3 DEF Sweeps, Swept
    <2>5. CASE TearDown(z, s, i)
      BY <1>0, <2>1, <2>2, <2>3, <2>4, <2>5, TearDownSweeps
    <2>6. CASE RespawnAll(z, s, i)
      <3>1. \A k \in i..Len(s) : pc[s[k]] = "done"
        BY <2>6 DEF RespawnAll, AllDown
      <3>2. \A k \in 1..Len(s) : k \in 1..(i - 1) \/ k \in i..Len(s)
        BY <2>3, SMT
      <3>3. \A k \in 1..Len(s) : pc[s[k]] = "done"
        BY <2>4, <3>1, <3>2
      <3> QED BY <1>0, <2>1, <2>2, <2>6, <3>3, RespawnAllSweeps
    <2> QED BY <1>9, <2>2, <2>3, <2>5, <2>6 DEF SweepOn
  <1>10. CASE GiveUpOver(z)
    BY <1>3, <1>4, <1>10 DEF GiveUpOver
  <1> QED BY <1>6, <1>7, <1>8, <1>9, <1>10 DEF TaskStep

\* spawn appends to the list, behind every sweep in progress.
LEMMA SpawnSweeps ==
    ASSUME TypeOK, SweepInv, NEW c \in Child, Spawn(c)
    PROVE  SweepInv'
  <1>1. PICK n \in Nat : n = Len(children)
    BY SMT DEF TypeOK
  <1>2. /\ children' = Append(children, c) /\ pc[c] = "absent" /\ pc' = [pc EXCEPT ![c] = "new"]
        /\ siblings' = siblings /\ next' = next /\ awaits' = awaits
    BY DEF Spawn, sweepVars
  <1>3. /\ Len(children') = n + 1 /\ children'[n + 1] = c
        /\ \A i \in 1..n : i \in 1..(n + 1) /\ children'[i] = children[i]
        /\ \A i \in 1..(n + 1) : i \in 1..n \/ i = n + 1
    BY <1>1, <1>2, SMT DEF TypeOK
  <1>4. \A i \in 1..n : children[i] # c
    BY <1>1, <1>2 DEF SweepInv, Members
  <1>5. \A i, j \in 1..Len(children') : children'[i] = children'[j] => i = j
    <2> SUFFICES ASSUME NEW i \in 1..(n + 1), NEW j \in 1..(n + 1), children'[i] = children'[j]
                 PROVE  i = j
      BY <1>3
    <2>1. CASE i \in 1..n /\ j \in 1..n
      BY <1>1, <1>3, <2>1 DEF SweepInv
    <2>2. CASE i = n + 1 \/ j = n + 1
      BY <1>3, <1>4, <2>2
    <2> QED BY <1>3, <2>1, <2>2
  <1>6. \A x \in Child : pc'[x] = "absent" => x \notin Members'
    <2>1. \A x \in Members' : x \in Members \/ x = c
      BY <1>1, <1>3 DEF Members
    <2> QED BY <1>2, <2>1 DEF SweepInv, TypeOK
  <1>7. ASSUME NEW x \in Child, pc'[x] = "teardown" PROVE Sweeps(x)'
    <2>1. Sweeps(x)
      BY <1>2, <1>7 DEF SweepInv, TypeOK
    <2>2. (Follow(siblings[x], x))'
      <3>1. PICK p \in 1..n :
                /\ children[p] = x
                /\ \A k \in 1..Len(siblings[x]) :
                      p + k \in 1..n /\ siblings[x][k] = children[p + k]
        BY <1>1, <2>1 DEF Sweeps, Follow
      <3>2. p \in 1..Len(children') /\ children'[p] = x
        BY <1>3, <3>1
      <3>3. \A k \in 1..Len(siblings'[x]) :
                p + k \in 1..Len(children') /\ siblings'[x][k] = children'[p + k]
        BY <1>2, <1>3, <3>1
      <3> QED BY <3>2, <3>3 DEF Follow
    <2>3. Swept(x)' = Swept(x)
      BY <1>2 DEF Swept
    <2>4. \A y \in awaits[x] \union Swept(x) : y \in Child
      <3>1. siblings[x] \in Seq(Child) /\ awaits[x] \subseteq Child
        BY DEF TypeOK
      <3> QED BY <2>1, <3>1, SMT DEF Sweeps, Swept
    <2>5. \A y \in Child : pc'[y] = "done" <=> pc[y] = "done"
      BY <1>2 DEF TypeOK
    <2> QED BY <1>2, <2>1, <2>2, <2>3, <2>4, <2>5 DEF Sweeps
  <1> QED BY <1>5, <1>6, <1>7 DEF SweepInv

LEMMA NextSweeps ==
    ASSUME Strategy = "rest_for_one", TypeInv, SweepInv, [Next]_vars
    PROVE  SweepInv'
  <1>1. ASSUME NEW c \in Child, Spawn(c) PROVE SweepInv'
    BY <1>1, SpawnSweeps DEF TypeInv
  <1>2. ASSUME UNCHANGED <<children, pc, awaits, siblings, next>> PROVE SweepInv'
    BY <1>2, SMT DEF SweepInv, Sweeps, Swept, Follow, Members
  <1>3. CASE Shutdown \/ ShutdownReturns
    BY <1>2, <1>3 DEF Shutdown, ShutdownReturns, supVars, sweepVars
  <1>4. ASSUME NEW c \in Child, HandlerRaises(c) \/ HandlerUnwinds(c) \/ DeliverExit(c)
        PROVE  SweepInv'
    BY <1>2, <1>4 DEF HandlerRaises, HandlerUnwinds, DeliverExit, supVars, sweepVars
  <1>5. ASSUME NEW n \in Name, Monitor(n) PROVE SweepInv'
    BY <1>2, <1>5 DEF Monitor, supVars, sweepVars
  <1>6. CASE UNCHANGED vars
    BY <1>2, <1>6 DEF vars
  <1> QED BY <1>1, <1>3, <1>4, <1>5, <1>6, TaskStepSweeps DEF Next

\* Every step under rest_for_one starts only children that had ended, or that
\* are spawned.
LEMMA StartsAnew ==
    ASSUME TypeOK, NEW z \in Child, NEW STATE D, Advances(z, D), NEW c \in Child,
           pc'[c] = "new", pc[c] # "new"
    PROVE  pc[c] = "done"
  BY DEF Advances

\* one_for_one and rest_for_one, for any number of children and any nesting of
\* their sweeps: _respawn_child only replaces a task that has ended.
THEOREM NoOrphanTheorem ==
    Strategy # "one_for_all" => (Spec => NoOrphanGeneration)
  <1>1. CASE Strategy = "one_for_one"
    <2>1. TypeOK /\ AloneInv /\ [Next]_vars =>
            [\A c \in Child :
                pc'[c] = "new" /\ pc[c] # "new" => pc[c] \in {"absent", "done"}]_vars
      <3> SUFFICES ASSUME TypeOK, AloneInv, [Next]_vars, NEW c \in Child,
                          pc'[c] = "new", pc[c] # "new"
                   PROVE  pc[c] \in {"absent", "done"}
        OBVIOUS
      <3>1. ASSUME NEW x \in Child, TaskStep(x) PROVE FALSE
        BY <1>1, <3>1, TaskStepAlone DEF MovesOn, LeavesAlone
      <3>2. ASSUME NEW x \in Child, Spawn(x) PROVE pc[c] = "absent"
        BY <3>2 DEF Spawn, TypeOK
      <3>3. pc' # pc
        OBVIOUS
      <3> QED BY <3>1, <3>2, <3>3
              DEF Next, HandlerRaises, HandlerUnwinds, DeliverExit, Monitor, Shutdown,
                  ShutdownReturns, vars
    <2> QED BY <1>1, <2>1, AlwaysAlone, PTL DEF Spec, NoOrphanGeneration
  <1>2. CASE Strategy = "rest_for_one"
    <2>1. Init => TypeInv /\ SweepInv
      <3>1. Init => SweepInv
        BY SMT DEF Init, SweepInv, Members
      <3> QED BY <3>1, InitTypeInv
    <2>2. TypeInv /\ SweepInv /\ [Next]_vars => (TypeInv /\ SweepInv)'
      BY <1>2, NextTypeInv, NextSweeps
    <2>3. TypeInv /\ SweepInv /\ [Next]_vars =>
            [\A c \in Child :
                pc'[c] = "new" /\ pc[c] # "new" => pc[c] \in {"absent", "done"}]_vars
      <3> SUFFICES ASSUME TypeInv, SweepInv, [Next]_vars, NEW c \in Child,
                          pc'[c] = "new", pc[c] # "new"
                   PROVE  pc[c] \in {"absent", "done"}
        OBVIOUS
      <3>1. ASSUME NEW x \in Child, TaskStep(x) PROVE pc[c] = "done"
        <4>1. PICK D \in SUBSET Child : Advances(x, D)
          BY <1>2, <3>1, TaskStepSweeps
        <4> QED BY <4>1, StartsAnew DEF TypeInv
      <3>2. ASSUME NEW x \in Child, Spawn(x) PROVE pc[c] = "absent"
        BY <3>2 DEF Spawn, TypeInv, TypeOK
      <3>3. pc' # pc
        OBVIOUS
      <3> QED BY <3>1, <3>2, <3>3
              DEF Next, HandlerRaises, HandlerUnwinds, DeliverExit, Monitor, Shutdown,
                  ShutdownReturns, vars
    <2> QED BY <2>1, <2>2, <2>3, PTL DEF Spec, NoOrphanGeneration
  <1> QED BY <1>1, <1>2, ConstantsAssumption
=============================================================================
