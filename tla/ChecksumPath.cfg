CONSTANTS
    Octets = {0, 1, 8, 255}
    Lengths = {4, 7, 8}
    PadLengths = {0, 1}
    MaxHops = 2

SPECIFICATION Spec

INVARIANTS
    OutputAccepted
    OnlyZeroSumLost

PROPERTIES
    DamageNeverBlessed
