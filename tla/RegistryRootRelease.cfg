\* A root that is released before it is installed keeps its observers.
SPECIFICATION Spec
CONSTANTS
    Host = Host
    Guest = Guest
    Root = Root
    Nil = Nil
    i1 = i1
    i2 = i2
    i3 = i3
    Id <- OneId
    Sharers <- OnlyGuest
    Callers <- OnlyHost
    MaxRequests = 0
    MaxVersion = 1
    MaxClones = 1
    MaxRoots = 1
    MaxChanged = 1
    MaxShares = 1
    MaxWire = 2
SYMMETRY IdSymmetry
INVARIANTS
    RootObserverPairing
\* Users may stop at any time, and every counter is bounded.
CHECK_DEADLOCK FALSE
