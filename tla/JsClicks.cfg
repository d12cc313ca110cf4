\* A script with two views: rendering one disables the other.
SPECIFICATION Spec
CONSTANTS
    Detached = Detached
    MaxCalls = 2
    MaxScripts = 1
    MaxHandlers = 2
    MaxEdits = 1
INVARIANTS
    HandlersLive
\* The host, the developer and the user may stop at any time.
CHECK_DEADLOCK FALSE
