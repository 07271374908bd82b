SPECIFICATION Spec
CONSTANTS
    v = v
    u = u
    c1 = c1
    c2 = c2
    left = left
    right = right
    x = x
    y = y
    None = None
    Views <- MCViews
    Clients <- MCClients
    Owner <- MCOwner
    Windows <- MCWindows
    WindowOf <- MCWindowOf
    Buttons <- MCButtons
    Bindings <- MCBinding
    ButtonOf <- MCButtonOf
    Again = FALSE
VIEW MCView
INVARIANTS
    ReleasesAreHeard
    FocusIsTold
    GrabsEnd
