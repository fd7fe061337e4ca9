SPECIFICATION ASpec
CONSTANTS
    entry = entry
    exit = exit
    b2 = b2
    b3 = b3
    b4 = b4
    Node <- Blocks
    Root = entry
    Exit = exit
    Graph <- Cfgs
INVARIANTS
    TypeOK
    ReachExact
    DomExact
    ReadOffUnique
PROPERTIES
    BothTerminate
CHECK_DEADLOCK FALSE
