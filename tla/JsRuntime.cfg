\* Scripts are loaded and reloaded while the host calls and the file changes.
SPECIFICATION Spec
CONSTANTS
    Detached = Detached
    MaxCalls = 2
    MaxScripts = 4
    MaxHandlers = 2
    MaxEdits = 3
INVARIANTS
    ScriptHearsHistory
    NothingOutlivesScript
    EditsNoticed
\* The host, the developer and the user may stop at any time.
CHECK_DEADLOCK FALSE
