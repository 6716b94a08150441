\* Two captures in a window of two ticks, captures nested twice, a clock set back twice.
SPECIFICATION Spec
CONSTANTS
    Listeners = 4
    Budget = 2
    Window = 2
    MaxNested = 2
    MaxCaptures = 5
    MaxTime = 4
    MaxSetBack = 2
INVARIANTS
    ListenersMatch
PROPERTIES
    BudgetIsTheWindow
CHECK_DEADLOCK FALSE
