SPECIFICATION KeysSpec
CONSTANTS
    shift = shift
    a = a
    esc = esc
    plain = plain
    shifted = shifted
    Keys <- MCKeys
    ModKeys <- MCModKeys
    SwcKeys <- MCSwcKeys
    SwcMods <- MCModKeys
    Bindings <- MCBindings
    Triggers <- MCTriggers
    Wants <- MCWants
    Consumed <- MCConsumed
    NoKey = NoKey
    NoBinding = NoBinding
    MaxEvents = 3
INVARIANTS
    ClientKeysMatch
    HeldIsPressed
    LastEventTellsHeld
