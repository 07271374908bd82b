SPECIFICATION Spec
CONSTANTS
    w = w
    o = o
    s = s
    c = c
    d = d
    None = None
    Windows <- MCWindows
    Outputs <- MCOutputs
    Shells <- MCShells
    Clients <- MCClients
    Sizes <- MCSizes
    MaxObjects = 4
    MaxKept = 1
INVARIANTS
    UserDataIsAlive
    BeliefIsKept
PROPERTY
    EverythingIsTold
SYMMETRY ClientSymmetry
