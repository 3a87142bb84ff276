------------------------- MODULE RestartBudgetProofs -------------------------
(***************************************************************************)
(* The restart budget of a Supervisor, for every max_restarts,             *)
(* restart_window and number of children.                                  *)
(***************************************************************************)
EXTENDS RestartBudget, FiniteSetTheorems, TLAPS

\* What _restart_times knows of the history: it holds only granted entries,
\* every granted entry still inside the window is among them, and there are
\* never more of them than max_restarts.
Remembers ==
    /\ IsFiniteSet(granted)
    /\ restart_times \subseteq granted
    /\ \A g \in granted : g.t <= now
    /\ \A g \in granted : g.id < Cardinality(granted)
    /\ \A g \in granted : now < g.t + Window => g \in restart_times
    /\ Cardinality(restart_times) <= MaxRestarts

IInv == TypeOK /\ Remembers /\ BudgetHolds

\* The window that ends at the instant `at`, as BudgetHolds counts it.
Grants(G, at) == {g \in G : g.t <= at /\ at < g.t + Window}

\* A part of a finite set is finite and not larger.
LEMMA SubsetBound ==
    ASSUME NEW S, IsFiniteSet(S), NEW T, T \subseteq S
    PROVE  /\ IsFiniteSet(T)
           /\ Cardinality(T) \in Nat
           /\ Cardinality(S) \in Nat
           /\ Cardinality(T) <= Cardinality(S)
  BY FS_Subset, FS_CardinalityType

\* The entry a grant adds is not an old one, so that the history and, after
\* the filter, the list grow by exactly one (_allow_restart's append).
LEMMA EntryIsNew ==
    ASSUME IInv
    PROVE  LET kept == InWindow(restart_times, now)
               entry == [id |-> Cardinality(granted), t |-> now]
           IN  /\ entry \in Entry
               /\ entry \notin granted
               /\ IsFiniteSet(granted \union {entry})
               /\ Cardinality(granted \union {entry}) = Cardinality(granted) + 1
               /\ IsFiniteSet(kept)
               /\ Cardinality(kept) \in 0..Cardinality(restart_times)
               /\ IsFiniteSet(kept \union {entry})
               /\ Cardinality(kept \union {entry}) = Cardinality(kept) + 1
  <1> DEFINE kept == InWindow(restart_times, now)
             entry == [id |-> Cardinality(granted), t |-> now]
  <1>1. IsFiniteSet(granted) /\ restart_times \subseteq granted
    BY DEF IInv, Remembers
  <1>2. Cardinality(granted) \in Nat
    BY <1>1, FS_CardinalityType
  <1>3. entry \in Entry
    BY <1>2 DEF IInv, TypeOK, Entry
  <1>4. entry \notin granted
    BY <1>2 DEF IInv, Remembers
  <1>5. kept \subseteq restart_times
    BY DEF InWindow
  <1>6. IsFiniteSet(restart_times)
    BY <1>1, SubsetBound
  <1>7. IsFiniteSet(kept) /\ Cardinality(kept) \in 0..Cardinality(restart_times)
    BY <1>5, <1>6, SubsetBound
  <1>8. entry \notin kept
    BY <1>1, <1>4, <1>5
  <1> QED
    BY <1>1, <1>3, <1>4, <1>7, <1>8, FS_AddElement

\* The budget holds in every initial state: nothing was granted yet.
LEMMA InitIInv == Init => IInv
  <1> SUFFICES ASSUME Init PROVE IInv
    OBVIOUS
  <1>1. IsFiniteSet({}) /\ Cardinality({}) = 0
    BY FS_EmptySet
  <1>2. TypeOK /\ Remembers
    BY <1>1, BudgetAssumption DEF Init, TypeOK, Remembers
  <1>4. BudgetHolds
    <2> SUFFICES ASSUME NEW at \in 0..now
                 PROVE  Cardinality(Grants(granted, at)) <= MaxRestarts
      BY DEF BudgetHolds, Grants
    <2>1. Grants(granted, at) = {}
      BY DEF Init, Grants
    <2> QED
      BY <1>1, <2>1, BudgetAssumption
  <1> QED
    BY <1>2, <1>4 DEF IInv

\* A grant keeps the invariant: its entry only counts in the window that ends
\* now, and there the kept entries are fewer than max_restarts.
LEMMA GrantedIInv ==
    ASSUME IInv, NEW c \in Child, Granted(c)
    PROVE  IInv'
  <1> DEFINE kept == InWindow(restart_times, now)
             entry == [id |-> Cardinality(granted), t |-> now]
  <1>1. /\ restart_times' = kept \union {entry}
        /\ granted' = granted \union {entry}
        /\ now' = now
        /\ gone' = gone
        /\ Cardinality(kept) < MaxRestarts
    BY DEF Granted, Allowed
  <1>2. /\ entry \in Entry
        /\ entry \notin granted
        /\ IsFiniteSet(granted')
        /\ Cardinality(granted') = Cardinality(granted) + 1
        /\ Cardinality(granted) \in Nat
        /\ IsFiniteSet(restart_times')
        /\ Cardinality(kept) \in Nat
        /\ Cardinality(restart_times') = Cardinality(kept) + 1
    <2>1. Cardinality(granted) \in Nat
      BY FS_CardinalityType DEF IInv, Remembers
    <2>2. Cardinality(restart_times) \in Nat
      BY SubsetBound DEF IInv, Remembers
    <2> QED
      BY <1>1, <2>1, <2>2, EntryIsNew
  <1>3. TypeOK'
    <2>1. Cardinality(restart_times') \in Nat
      BY <1>2
    <2>2. Backoff(Cardinality(restart_times')) \in Nat
      <3> HIDE DEF kept, entry
      <3>1. \A n \in Nat : Backoff(n) \in Nat
        BY DEF Backoff
      <3> QED
        BY <2>1, <3>1
    <2>3. WakeAt(Cardinality(restart_times')) \in Nat
      BY <2>2 DEF WakeAt, IInv, TypeOK
    <2>4. wake' \in [Child -> Nat] /\ late' = late
      BY <2>3 DEF Granted, IInv, TypeOK
    <2> QED
      BY <1>1, <1>2, <2>4 DEF IInv, TypeOK, InWindow
  <1>4. Remembers'
    <2>1. restart_times' \subseteq granted'
      BY <1>1 DEF IInv, Remembers, InWindow
    <2>2. \A g \in granted' : g.t <= now'
      BY <1>1 DEF IInv, Remembers, TypeOK
    <2>3. \A g \in granted' : g.id < Cardinality(granted')
      BY <1>1, <1>2 DEF IInv, Remembers, TypeOK, Entry
    <2>4. \A g \in granted' : now' < g.t + Window => g \in restart_times'
      BY <1>1 DEF IInv, Remembers, InWindow
    <2>5. Cardinality(restart_times') <= MaxRestarts
      BY <1>1, <1>2, BudgetAssumption
    <2> QED
      BY <1>2, <2>1, <2>2, <2>3, <2>4, <2>5 DEF Remembers
  <1>5. BudgetHolds'
    <2> SUFFICES ASSUME NEW at \in 0..now
                 PROVE  Cardinality(Grants(granted', at)) <= MaxRestarts
      BY <1>1 DEF BudgetHolds, Grants
    <2>0. now \in Nat
      BY DEF IInv, TypeOK
    <2>1. CASE at < now
      <3>1. Grants(granted', at) = Grants(granted, at)
        BY <1>1, <2>0, <2>1 DEF Grants
      <3> QED
        BY <3>1 DEF IInv, BudgetHolds, Grants
    <2>2. CASE at = now
      <3>1. Grants(granted', at) \subseteq restart_times'
        BY <1>1, <1>4, <2>2 DEF Grants, Remembers
      <3>2. /\ Cardinality(Grants(granted', at)) \in Nat
            /\ Cardinality(Grants(granted', at)) <= Cardinality(restart_times')
        BY <1>2, <3>1, SubsetBound
      <3> QED
        BY <1>1, <1>2, <3>2, BudgetAssumption
    <2> QED
      BY <2>0, <2>1, <2>2
  <1> QED
    BY <1>3, <1>4, <1>5 DEF IInv

\* A refusal only drops entries that have left the window.
LEMMA DeniedIInv ==
    ASSUME IInv, NEW c \in Child, Denied(c)
    PROVE  IInv'
  <1>1. /\ restart_times' = InWindow(restart_times, now)
        /\ UNCHANGED <<now, granted, wake, late>>
        /\ gone' \subseteq Child
    BY DEF Denied, IInv, TypeOK
  <1>2. restart_times' \subseteq restart_times
    BY <1>1 DEF InWindow
  <1>3. TypeOK'
    BY <1>1, <1>2 DEF IInv, TypeOK
  <1>4. /\ Cardinality(restart_times') \in Nat
        /\ Cardinality(restart_times) \in Nat
        /\ Cardinality(restart_times') <= Cardinality(restart_times)
    <2>1. IsFiniteSet(restart_times)
      BY SubsetBound DEF IInv, Remembers
    <2> QED
      BY <1>2, <2>1, SubsetBound
  <1>5. Cardinality(restart_times') <= MaxRestarts
    BY <1>4, BudgetAssumption DEF IInv, Remembers
  <1>6. \A g \in granted' : now' < g.t + Window => g \in restart_times'
    BY <1>1 DEF IInv, Remembers, InWindow
  <1>7. Remembers'
    BY <1>1, <1>2, <1>5, <1>6 DEF IInv, Remembers
  <1>8. BudgetHolds'
    BY <1>1 DEF IInv, BudgetHolds
  <1> QED
    BY <1>3, <1>7, <1>8 DEF IInv

\* The clock advances: the new window holds only entries the list remembers.
LEMMA TickIInv ==
    ASSUME IInv, Tick
    PROVE  IInv'
  <1>0. /\ now \in Nat
        /\ now' = now + 1
        /\ late' \in Nat
        /\ UNCHANGED <<restart_times, granted, wake, gone>>
    BY DEF Tick, IInv, TypeOK
  <1>1. TypeOK'
    BY <1>0 DEF IInv, TypeOK
  <1>2. \A g \in granted : g.t \in Nat
    BY DEF IInv, TypeOK, Entry
  <1>3. Remembers'
    BY <1>0, <1>2, BudgetAssumption DEF IInv, Remembers
  <1>4. BudgetHolds'
    <2> SUFFICES ASSUME NEW at \in 0..(now + 1)
                 PROVE  Cardinality(Grants(granted, at)) <= MaxRestarts
      BY <1>0 DEF BudgetHolds, Grants
    <2>1. CASE at \in 0..now
      BY <2>1 DEF IInv, BudgetHolds, Grants
    <2>2. CASE at = now + 1
      <3>1. Grants(granted, at) \subseteq restart_times
        BY <1>0, <1>2, <2>2, BudgetAssumption DEF IInv, Remembers, Grants
      <3>2. IsFiniteSet(restart_times)
        BY SubsetBound DEF IInv, Remembers
      <3>3. /\ Cardinality(Grants(granted, at)) \in Nat
            /\ Cardinality(restart_times) \in Nat
            /\ Cardinality(Grants(granted, at)) <= Cardinality(restart_times)
        BY <3>1, <3>2, SubsetBound
      <3> QED
        BY <3>3, BudgetAssumption DEF IInv, Remembers
    <2> QED
      BY <1>0, <2>1, <2>2
  <1> QED
    BY <1>1, <1>3, <1>4 DEF IInv

\* Every step of _allow_restart and of the clock keeps the invariant.
LEMMA NextIInv == IInv /\ [Next]_vars => IInv'
  <1> SUFFICES ASSUME IInv, [Next]_vars PROVE IInv'
    OBVIOUS
  <1>1. CASE Tick
    BY <1>1, TickIInv
  <1>2. ASSUME NEW c \in Child, Granted(c) PROVE IInv'
    BY <1>2, GrantedIInv
  <1>3. ASSUME NEW c \in Child, Denied(c) PROVE IInv'
    BY <1>3, DeniedIInv
  <1>4. ASSUME NEW c \in Child, Wake(c) PROVE IInv'
    <2>1. /\ UNCHANGED <<now, restart_times, granted, gone, late>>
          /\ wake' \in [Child -> Nat]
      BY <1>4 DEF Wake, IInv, TypeOK
    <2> QED
      BY <2>1 DEF IInv, TypeOK, Remembers, BudgetHolds
  <1>5. CASE UNCHANGED vars
    BY <1>5 DEF vars, IInv, TypeOK, Remembers, BudgetHolds
  <1> QED
    BY <1>1, <1>2, <1>3, <1>4, <1>5 DEF Next

\* The clock, the list of restart times and the sleeps keep their types.
THEOREM BudgetTypeCorrect == Spec => []TypeOK
  <1>1. IInv => TypeOK
    BY DEF IInv
  <1> QED
    BY <1>1, InitIInv, NextIInv, PTL DEF Spec

\* _allow_restart never grants more than max_restarts restarts inside any
\* restart_window, whatever the children, the limit and the window are.
THEOREM BudgetTheorem == Spec => []BudgetHolds
  <1>1. IInv => BudgetHolds
    BY DEF IInv
  <1> QED
    BY <1>1, InitIInv, NextIInv, PTL DEF Spec

\* A child or a group is only given up when max_restarts restarts were granted
\* inside the window that ends at the crash.
THEOREM DenialTheorem == Spec => DenialIsJustified
  <1> DEFINE Justified ==
        gone' # gone => Cardinality({g \in granted : now < g.t + Window}) >= MaxRestarts
  <1>1. IInv /\ [Next]_vars => [Justified]_vars
    <2> SUFFICES ASSUME IInv, Next, gone' # gone
                 PROVE  Cardinality({g \in granted : now < g.t + Window}) >= MaxRestarts
      OBVIOUS
    <2>1. PICK c \in Child : Denied(c)
      BY DEF Next, Tick, Granted, Wake
    <2>2. InWindow(restart_times, now) \subseteq {g \in granted : now < g.t + Window}
      BY DEF InWindow, IInv, Remembers
    <2>3. IsFiniteSet({g \in granted : now < g.t + Window})
      BY SubsetBound DEF IInv, Remembers
    <2>4. /\ Cardinality(InWindow(restart_times, now)) \in Nat
          /\ Cardinality({g \in granted : now < g.t + Window}) \in Nat
          /\ Cardinality(InWindow(restart_times, now))
                <= Cardinality({g \in granted : now < g.t + Window})
      BY <2>2, <2>3, SubsetBound
    <2>5. ~(Cardinality(InWindow(restart_times, now)) < MaxRestarts)
      BY <2>1 DEF Denied, Allowed
    <2> QED
      BY <2>4, <2>5, BudgetAssumption
  <1> QED
    BY <1>1, InitIInv, NextIInv, PTL DEF Spec, DenialIsJustified

\* The budget with a clock implements the counter that module Supervisor keeps
\* in the place of _restart_times: _allow_restart filters the list and adds an
\* entry or refuses, and _handle_child_crash gives up only on a refusal.
THEOREM CounterTheorem == Spec => CounterAbstraction
  <1> DEFINE n == Cardinality(restart_times)
  <1>1. Init => Counter!Init
    BY FS_EmptySet DEF Init, Counter!Init
  <1>2. IInv /\ [Next]_vars => [Counter!Next]_<<n, gone>>
    <2> SUFFICES ASSUME IInv, Next, ~UNCHANGED <<n, gone>>
                 PROVE  Counter!Next
      BY DEF vars
    <2>1. ASSUME NEW c \in Child, Granted(c) PROVE Counter!Next
      <3> DEFINE kept == InWindow(restart_times, now)
      <3>1. Cardinality(kept) \in 0..n /\ n' = Cardinality(kept) + 1
        BY <2>1, EntryIsNew DEF Granted
      <3>2. Cardinality(kept) < MaxRestarts /\ gone' = gone
        BY <2>1 DEF Granted, Allowed
      <3> QED
        BY <3>1, <3>2 DEF Counter!Next, Counter!Grant
    <2>2. ASSUME NEW c \in Child, Denied(c) PROVE Counter!Next
      <3> DEFINE kept == InWindow(restart_times, now)
      <3>1. Cardinality(kept) \in 0..n
        BY EntryIsNew
      <3>2. n' = Cardinality(kept) /\ ~(Cardinality(kept) < MaxRestarts)
        BY <2>2 DEF Denied, Allowed
      <3>3. c \in Child \ gone /\ gone' \in {gone \union {c}, Child}
        BY <2>2 DEF Denied
      <3>4. n \in Nat
        BY SubsetBound DEF IInv, Remembers
      <3>5. Cardinality(kept) >= MaxRestarts
        BY <3>1, <3>2, <3>4, BudgetAssumption
      <3> HIDE DEF kept
      <3> QED
        BY <3>1, <3>2, <3>3, <3>5 DEF Counter!Next, Counter!Refuse
    <2> QED
      BY <2>1, <2>2 DEF Next, Tick, Wake
  <1> QED
    BY <1>1, <1>2, InitIInv, NextIInv, PTL
       DEF Spec, CounterAbstraction, Counter!Spec

-----------------------------------------------------------------------------
(* A crash loop comes to its end                                           *)

\* How long n restarts of one child take that crashes at once every time: the
\* sum of Backoff(1) to Backoff(n).
LoopTime(n) == IF n > 4 THEN 20 * n - 50 ELSE <<0, 2, 6, 14, 30>>[n + 1]

\* The window outlasts max_restarts of them.  The defaults do by far: three
\* restarts take 14 units of 0.05 s, and the window has 100.
WindowFits == LoopTime(MaxRestarts) < Window

\* In a crash loop, of however many children, the clock does not get ahead of
\* the restarts: a child that is not given up sleeps no longer than one child
\* alone would have taken for all the restarts granted so far.
InStep ==
    late = 0 =>
        /\ \A c \in Child : wake[c] <= LoopTime(Cardinality(granted))
        /\ gone # Child => now <= LoopTime(Cardinality(granted))
        /\ Cardinality(granted) <= MaxRestarts

\* LoopTime is that sum, and _backoff never shrinks as the list grows.
LEMMA LoopTimeFacts ==
    /\ LoopTime(0) = 0
    /\ \A n \in Nat : /\ LoopTime(n) \in Nat /\ Backoff(n) \in Nat
                      /\ LoopTime(n + 1) = LoopTime(n) + Backoff(n + 1)
    /\ \A m, n \in Nat : m <= n => Backoff(m) <= Backoff(n)
  BY DEF LoopTime, Backoff

\* A grant: the budget was not used up by then, for all restarts so far are
\* inside the window.
LEMMA GrantedInStep ==
    ASSUME WindowFits, IInv, InStep, NEW c \in Child, Granted(c)
    PROVE  InStep'
  <1> DEFINE n == Cardinality(granted)
             k == Cardinality(InWindow(restart_times, now))
  <1> SUFFICES ASSUME late = 0 PROVE InStep'
    BY DEF InStep, Granted
  <1>1. /\ n \in Nat /\ IsFiniteSet(granted) /\ now \in Nat /\ wake \in [Child -> Nat]
        /\ InWindow(restart_times, now) \subseteq granted
    BY FS_CardinalityType DEF IInv, Remembers, TypeOK, InWindow
  <1>2. k \in Nat /\ k <= n
    BY <1>1, SubsetBound
  <1>3. Cardinality(granted') = n + 1 /\ Cardinality(restart_times') = k + 1
    BY EntryIsNew DEF Granted
  <1>4. now <= LoopTime(n) /\ n <= MaxRestarts /\ k < MaxRestarts
    BY DEF InStep, Granted, Allowed
  <1>5. n < MaxRestarts
    <2> SUFFICES ASSUME n = MaxRestarts PROVE FALSE
      BY <1>1, <1>4, BudgetAssumption
    <2>1. now < Window
      <3>1. LoopTime(n) \in Nat
        BY <1>1, LoopTimeFacts
      <3> QED BY <1>1, <1>4, <3>1, BudgetAssumption DEF WindowFits
    <2>2. \A g \in granted : now < g.t + Window
      BY <1>1, <2>1, BudgetAssumption DEF IInv, TypeOK, Entry
    <2>3. InWindow(restart_times, now) = granted
      BY <2>2 DEF IInv, Remembers, InWindow
    <2> QED BY <1>1, <1>4, <2>3
  <1>6. LoopTime(n) \in Nat /\ LoopTime(n + 1) = LoopTime(n) + Backoff(n + 1)
    BY <1>1, LoopTimeFacts
  <1>7. Backoff(k + 1) \in Nat /\ Backoff(n + 1) \in Nat /\ Backoff(k + 1) <= Backoff(n + 1)
    <2>1. k + 1 \in Nat /\ n + 1 \in Nat /\ k + 1 <= n + 1
      BY <1>1, <1>2
    <2> HIDE DEF k, n
    <2> QED BY <2>1, LoopTimeFacts
  <1>8. /\ now' = now /\ gone' = gone /\ late' = late
        /\ wake' = [wake EXCEPT ![c] = now + Backoff(k + 1)]
    BY <1>3 DEF Granted, WakeAt
  <1> HIDE DEF n, k
  <1>9. \A d \in Child : wake'[d] <= LoopTime(n + 1)
    <2>1. \A d \in Child : wake[d] <= LoopTime(n)
      BY DEF InStep, n
    <2> QED BY <1>1, <1>4, <1>6, <1>7, <1>8, <2>1
  <1>10. now' <= LoopTime(n + 1) /\ n + 1 <= MaxRestarts
    BY <1>1, <1>4, <1>5, <1>6, <1>7, <1>8, BudgetAssumption
  <1> QED BY <1>3, <1>9, <1>10 DEF InStep

\* Time passes in a crash loop only while everybody sleeps.
LEMMA TickInStep ==
    ASSUME IInv, InStep, Tick
    PROVE  InStep'
  <1> SUFFICES ASSUME late' = 0 PROVE InStep'
    BY DEF InStep
  <1>1. late = 0 /\ ~\E c \in Child : Due(c)
    BY DEF Tick, IInv, TypeOK
  <1>2. now' = now + 1 /\ UNCHANGED <<granted, wake, gone>>
    BY DEF Tick
  <1>3. gone # Child => now + 1 <= LoopTime(Cardinality(granted))
    <2> SUFFICES ASSUME gone # Child PROVE now + 1 <= LoopTime(Cardinality(granted))
      OBVIOUS
    <2>1. PICK c \in Child : c \notin gone
      BY DEF IInv, TypeOK
    <2>2. now \in Nat /\ wake[c] \in Nat /\ ~(wake[c] <= now)
      BY <1>1, <2>1 DEF Due, IInv, TypeOK
    <2>3. Cardinality(granted) \in Nat
      BY FS_CardinalityType DEF IInv, Remembers
    <2>4. LoopTime(Cardinality(granted)) \in Nat
      BY <2>3, LoopTimeFacts
    <2> QED BY <1>1, <2>2, <2>4 DEF InStep
  <1> QED BY <1>1, <1>2, <1>3 DEF InStep

\* Children that crash again at once use the budget up and are given up, with
\* any number of children, if the window outlasts the backoffs of max_restarts
\* restarts in a row.
THEOREM CrashLoopTheorem == WindowFits => (Spec => []CrashLoopGivesUp)
  <1> SUFFICES ASSUME WindowFits PROVE Spec => []CrashLoopGivesUp
    OBVIOUS
  <1>1. Init => InStep
    BY FS_EmptySet, LoopTimeFacts, BudgetAssumption DEF Init, InStep
  <1>2. IInv /\ InStep /\ [Next]_vars => InStep'
    <2> SUFFICES ASSUME IInv, InStep, [Next]_vars PROVE InStep'
      OBVIOUS
    <2>1. ASSUME NEW c \in Child, Granted(c) PROVE InStep'
      BY <2>1, GrantedInStep
    <2>2. ASSUME NEW c \in Child, Denied(c) PROVE InStep'
      BY <2>2 DEF Denied, InStep
    <2>3. ASSUME NEW c \in Child, Wake(c) PROVE InStep'
      <3>1. Cardinality(granted) \in Nat
        BY FS_CardinalityType DEF IInv, Remembers
      <3>2. LoopTime(Cardinality(granted)) \in Nat
        BY <3>1, LoopTimeFacts
      <3> QED BY <2>3, <3>2 DEF Wake, InStep, IInv, TypeOK
    <2>4. CASE UNCHANGED vars
      BY <2>4 DEF vars, InStep
    <2> QED BY <2>1, <2>2, <2>3, <2>4, TickInStep DEF Next
  <1>3. InStep => CrashLoopGivesUp
    BY DEF InStep, CrashLoopGivesUp
  <1> QED BY <1>1, <1>2, <1>3, InitIInv, NextIInv, PTL DEF Spec
=============================================================================
