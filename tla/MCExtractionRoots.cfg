SPECIFICATION Spec
CONSTANTS
    Source = {"a", "b"}
    Contents <- McContents
    Initially <- McInitially
    Listed <- McListed
    Covered <- McCovered
    Programs <- McPrograms
    MaxEdits = 2
    MaxCalls = 2
INVARIANT OneContext
CHECK_DEADLOCK FALSE
