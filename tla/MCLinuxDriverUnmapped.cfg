SPECIFICATION Spec
CONSTANTS
    Devices <- McDevices
    Line = {1, 2}
    Consumer = {"first", "second"}
    Owns <- McOwns
    Registers <- McRegisters
INVARIANT MappedWhileUsed
