CONSTANTS
    Commands <- MCCommands
    LengthBytes = 4
    MaxLength = 13
    StrayLength = 20
    MaxSent = 3

SPECIFICATION ReaderSpec

INVARIANTS
    FailsForCause

PROPERTIES
    ImplementsChannel
