SPECIFICATION Spec
CONSTANTS
    w1 = w1
    w2 = w2
    p = p
    b = b
    l = l
    d = d
    Windows <- MCWindows
    Popups <- MCPopups
    Bars <- MCBars
    LayerSurfaces <- MCLayerSurfaces
    Panels <- MCPanels
    Parents <- MCParents
    Chosen <- MCChosen
    Sizes <- MCSizes
    Offsets <- MCOffsets
    None = None
    Gone = Gone
INVARIANTS
    PopupFollowsParent
    RaisedIsInFront
PROPERTIES
    OrderIsKept
