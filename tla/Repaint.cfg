CONSTANTS
    N = 2
    View = {v}
    MaxNotices = 2
    Holding = TRUE
SPECIFICATION Spec
INVARIANTS FramesMatch DamageIsKept UpdateIsDue
PROPERTY EventuallyShown
