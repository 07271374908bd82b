SPECIFICATION Spec
CONSTANTS
    Keys = {k1, k2, k3}
    Serials = {s1, s2}
INVARIANTS
    CompletesOnce
PROPERTIES
    ImplementsBarrier
