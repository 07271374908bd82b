SPECIFICATION Spec
CONSTANTS
    Devices = {"keyboard", "mouse", "tablet"}
    MaxInputs = 4
    MaxNotices = 4
    MaxFrames = 4
INVARIANTS
    GrantedWhileActive
    AgreedAtRest
PROPERTY
    ComesBack
CHECK_DEADLOCK FALSE
