SPECIFICATION Spec
CONSTANTS
    Devices <- McDevices
    Line = {1, 2}
    Consumer = {"first", "second"}
    Owns <- McOwns
    Registers <- McRegisters
INVARIANTS
    ResourcesBalanced
    UsesAreReady
    NoLostUpdate
    WiredIsDefined
PROPERTIES
    ValueBeforeDirection
    Unbinds
