SPECIFICATION Spec
CONSTANTS
    w = w
    a = a
    b = b
    Surfaces <- MCSurfaces
    Windows <- MCWindows
    Drawn <- MCDrawn
    Unmapped <- MCUnmapped
    Parents <- MCParents
    Loose <- MCLoose
    Mortal <- MCMortal
    None = None
    Gone = Gone
INVARIANTS
    SeenWithParent
PROPERTIES
    ContentComesWithTop
    OrderComesWithCommit
