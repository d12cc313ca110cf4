\* Calls both ways, timers and traps, in every interleaving of the worker,
\* the pump and the guest; under fairness, what is awaited comes.
SPECIFICATION FairSpec
CONSTANTS
    MaxCalls = 2
    MaxGuestCalls = 1
    MaxRequests = 2
    MaxTurns = 3
INVARIANTS
    NoLostWake
    OpenReceiptsOwed
PROPERTIES
    PipeSpec
    TimersFire
    InFlightCallsSettle
    GuestCallsSettle
\* Users may stop at any time, and every counter is bounded.
CHECK_DEADLOCK FALSE
