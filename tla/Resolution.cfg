CONSTANTS
    Iface <- MCIface
    router <- MCrouter
    link <- MClink
    Packets <- MCPackets
    MaxTries = 5

SPECIFICATION Spec

INVARIANTS
    FramesReachNextHop
    AnswersWereAskedFor
