CONSTANTS
    IP <- MCIP
    NoIP = "none"
    Id = {1, 2}
    Iface <- MCIface
    rtable <- MCrtable
    ifip <- MCifip
    Packets <- MCPackets
    Req = {a, b, c}
    NULL = NULL
    MaxTries = 2
    StackLimit = 5
    Mac = {"m2"}
    Replies <- MCReplies
    SR_ARPCACHE_SZ = 2
    SR_ARPCACHE_TO = 0

SPECIFICATION CacheFairSpec

INVARIANTS
    CacheTypeOK

PROPERTIES
    MappingsKept
    MappingsExpire
    QueueDrains
    FramesSettle
