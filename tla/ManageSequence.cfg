SPECIFICATION SequenceSpec
CONSTANTS
    Windows = {w1, w2, w3}
    Allocations = {TRUE}
    MaxUnanswered = 3
INVARIANTS
    NoLostWakeup
    SettleIsAwaited
PROPERTIES
    ImplementsLoop
    EveryChangeIsManaged
    NothingStaysFrozen
