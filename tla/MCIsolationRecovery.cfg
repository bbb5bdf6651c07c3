SPECIFICATION FairSpec
CONSTANTS
    src = src
    dest = dest
    Neighbours = {src, dest}
    Remote = {}
    SpeaksOf <- MCSpeaksOf
    Arp = {TRUE}
    NoHop = NoHop
    None = None
    EnableHello = TRUE
    HelloInterval = 1
    NeighbourLife = 1
    ActiveRouteTimeout = 1
    ReverseLife = 1
    ReplyLife = 1
    DeletePeriod = 1
    MaxQueue = 1
    Suspects = {dest}
    Flows <- MCFlows
INVARIANTS NeighboursWatched UsedRoutesWatched

PROPERTIES  IsolatedIsCutOff SilenceEndsRoutes
