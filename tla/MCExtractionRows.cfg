SPECIFICATION Spec
CONSTANTS
    Source = {"a", "b"}
    Contents <- McContents
    Initially <- McEdited
    Listed <- McListed
    Covered <- McCovered
    Programs <- McPrograms
    MaxEdits = 0
    MaxCalls = 1
INVARIANT NamedRowsStay
CHECK_DEADLOCK FALSE
