SPECIFICATION Spec
CONSTANTS
    Lanes = {l1, l2}
    Paths = {"/", "/zone/a", "/zone/b", "/studio", "/settings"}
    Zones = {"/zone/a", "/zone/b"}
    Framed = {"/", "/studio"}
    Polled = {"/"}
    Plain = {"/settings"}
    MaxGen = 3
    MaxVersion = 2
VIEW Moving
CHECK_DEADLOCK FALSE
INVARIANTS
    HostTypeOK
    
    SentOnce
    SpinnerEnds
    
    ZoneCurrent
