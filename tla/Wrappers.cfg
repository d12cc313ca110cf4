\* Refs cross a membrane both ways while it is revoked; audited and attenuated
\* calls go on beside it.
SPECIFICATION Spec
CONSTANTS
    vault = vault
    key = key
    caller = caller
    Inner <- VaultAndKey
    Outer <- Caller
    Wrapped = vault
    Nil = Nil
    Error = Error
    MaxWrappers = 4
    MaxCalls = 2
    MaxEvents = 1
INVARIANTS
    SidesSeparated
    MembraneWhole
    LedgerExact
PROPERTIES
    NothingCrossesAfterRevoke
    CaretakerSpec
\* Callers may stop at any time, and every counter is bounded.
CHECK_DEADLOCK FALSE
