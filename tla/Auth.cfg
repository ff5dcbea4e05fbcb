CONSTANTS
    Block = 6
    LowMod = 32
    HighMod = 3
    Octet = {0, 10, 65, 128}
    Newline = 10
    AUTH_KEY_LEN = 2
    KeyFiles <- FullKeys
    Salts <- MCSalts
    MaxReplies = 2

SPECIFICATION AuthSpec
CHECK_DEADLOCK FALSE

INVARIANTS
    CorruptedForCause
    DigestOfWholeMessage
    RepliesProveKey
