SPECIFICATION SelectionSpec
CONSTANTS
    c = c
    m = m
    s1 = s1
    s2 = s2
    Clients <- MCClients
    Readers <- MCClients
    Managers <- MCManagers
    DataSources <- MCDataSources
    ControlSources <- MCControlSources
    Owner <- MCOwner
    None = None
INVARIANTS
    OffersAreAlive
    ReadersKnow
    SourcesKnow
