\* A call made after the pump learned of the trap.
SPECIFICATION FairSpec
CONSTANTS
    MaxCalls = 1
    MaxGuestCalls = 0
    MaxRequests = 1
    MaxTurns = 1
PROPERTIES
    CallsAfterTrapFail
\* A stopped plugin stops for good, and every counter is bounded.
CHECK_DEADLOCK FALSE
