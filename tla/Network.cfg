CONSTANTS
    Router = {"A", "B", "C"}
    IP <- MCIP
    NoIP = "none"
    Id = {1, 2, 3, 4, 5}
    Iface <- MCIface
    addresses <- MCaddresses
    Scenarios <- MCScenarios

SPECIFICATION NetSpec

INVARIANTS
    ErrorsAboutErrors
    TracerouteNamesRouters

PROPERTIES
    NetworkGetsQuiet
    PingsAnswered
