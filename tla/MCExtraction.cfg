SPECIFICATION Spec
CONSTANTS
    Source = {"a", "b"}
    Contents <- McContents
    Initially <- McInitially
    Listed <- McListed
    Covered <- McCovered
    Programs <- McPrograms
    MaxEdits = 2
    MaxCalls = 2
INVARIANTS
    Fresh
    ModesHonoured
    MergeIsFaithful
CHECK_DEADLOCK FALSE
