\* Two clients, two trustees, a window of 2, rounds 0..3; the experiment
\* round limit is hit when round 1 finishes, with cell 2 already sent.
CONSTANTS
    NClients = 2
    NTrustees = 2
    WindowSize = 2
    TrusteeCacheLowBound = 1
    TrusteeCacheHighBound = 1
    ExperimentRoundLimit = 2
    MaxRound = 3
SPECIFICATION FairSpec
INVARIANT TypeOK
INVARIANT WindowAccounting
INVARIANT DownstreamConsecutive
INVARIANT RateSignalMatchesBuffer
PROPERTY AllRoundsComplete
PROPERTY RefinesRoundWindow
\* Deadlock is not checked: a run that stops short of the last round or a
\* shutdown is reported as a violation of AllRoundsComplete.
CHECK_DEADLOCK FALSE
