\* The decoder restarted in roundFinished against the clients' history.
CONSTANTS
    NClients = 2
    NTrustees = 2
    WindowSize = 2
    TrusteeCacheLowBound = 1
    TrusteeCacheHighBound = 1
    ExperimentRoundLimit <- MCNoRoundLimit
    MaxRound = 3
SPECIFICATION Spec
INVARIANT DecodeHistoryMatchesClients
