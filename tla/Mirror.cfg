\* An object changes while its mirror fetches, and handlers answer late or fail.
SPECIFICATION FairSpec
CONSTANTS
    MaxVersion = 3
    Nil = Nil
    Notify = Notify
    Error = Error
INVARIANTS
    OneFetch
    NewsOnItsWay
PROPERTIES
    CatchesUp
CHECK_DEADLOCK FALSE
