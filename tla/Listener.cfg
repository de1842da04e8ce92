CONSTANTS
    c1 = c1
    c2 = c2
    c3 = c3
    Nobody = Nobody
    Conns <- MCConns
    MaxConnections = 2
    ThreadFaults = TRUE
SPECIFICATION FairSpec
INVARIANTS ListenerTypeOK PlacesAreExact StopSeesAll
PROPERTIES TurnedAwayOnlyWhenFull PlaceComesBack
CHECK_DEADLOCK FALSE
