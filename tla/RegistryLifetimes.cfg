\* The host observes, drops and reconnects an object and the root of the guest
\* while they change.
SPECIFICATION Spec
CONSTANTS
    Host = Host
    Guest = Guest
    Root = Root
    Nil = Nil
    i1 = i1
    i2 = i2
    i3 = i3
    Id <- ThreeIds
    Sharers <- OnlyGuest
    Callers <- OnlyHost
    MaxRequests = 1
    MaxVersion = 2
    MaxClones = 2
    MaxRoots = 1
    MaxChanged = 1
    MaxShares = 1
    MaxWire = 2
SYMMETRY IdSymmetry
INVARIANTS
    ObserverHomesExact
    ObserverPairing
    NoLostNotify
    ReleaseQueueExact
\* Users may stop at any time, and every counter is bounded.
CHECK_DEADLOCK FALSE
