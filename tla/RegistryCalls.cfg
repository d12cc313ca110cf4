\* The guest calls and observes an object and the root of the host, and drops
\* them, fairly.
SPECIFICATION FairSpec
CONSTANTS
    Host = Host
    Guest = Guest
    Root = Root
    Nil = Nil
    i1 = i1
    i2 = i2
    i3 = i3
    Id <- OneId
    Sharers <- OnlyHost
    Callers <- OnlyGuest
    MaxRequests = 2
    MaxVersion = 2
    MaxClones = 1
    MaxRoots = 1
    MaxChanged = 1
    MaxShares = 1
    MaxWire = 1
INVARIANTS
    RequestsAccounted
    CallsFindEntity
PROPERTIES
    CallsInOrder
    ReceiptsSpec
    ReceiptsSettle
    DropsReachHome
    ObserversFire
\* Users may stop at any time, and every counter is bounded.
CHECK_DEADLOCK FALSE
