\* The experiment round limit is hit when round 1 closes.
CONSTANTS
    NClients = 2
    NTrustees = 2
    WindowSize = 2
    TrusteeCacheLowBound = 1
    TrusteeCacheHighBound = 1
    ExperimentRoundLimit = 1
    DisruptionProtectionEnabled = FALSE
    UseOpenClosedSlots = FALSE
    OpenClosedPeriod = 2
    MaxRound = 3
SPECIFICATION Spec
INVARIANT NoDownstreamAfterShutdown
