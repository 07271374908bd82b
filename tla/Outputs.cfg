SPECIFICATION LayoutSpec
CONSTANTS
    s = s
    t = t
    l = l
    p = p
    a = a
    b = b
    None = None
    Screens <- MCScreens
    FirstPosition <- MCFirst
    Width = 2
    Height = 3
    Positions <- MCPositions
    Layers = {l}
    Panels = {p}
    States <- MCStates
    Sizes = {1}
    Struts = {0, 1}
    Configs = {a, b}
INVARIANTS
    LayoutIsAgreed
    AnchoredOnceAcked
PROPERTY
    StaleIsCancelled
SYMMETRY ConfigSymmetry
