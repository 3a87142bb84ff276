SPECIFICATION Spec
CONSTANTS
    a = a
    b = b
    Child <- Two
    MaxRestarts = 5
    Window = 31
    MaxLate = 6
    Horizon = 60
INVARIANTS BudgetHolds CrashLoopGivesUp
PROPERTIES DenialIsJustified CounterAbstraction
CHECK_DEADLOCK FALSE
