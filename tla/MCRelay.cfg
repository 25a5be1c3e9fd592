\* One client, two trustees, a window of 2, rounds 0..3, disruption
\* protection on and an open/closed request every second round (round 2).
\* The client's round-1 echo request retransmits round 0 in the cell of
\* round 3.  The experiment round limit is hit when round 2 closes, with
\* round 3 already open.  The rate limiter stops a trustee with more than 1
\* cipher buffered and resumes it when fewer than 1 are left.
CONSTANTS
    NClients = 1
    NTrustees = 2
    WindowSize = 2
    TrusteeCacheLowBound = 1
    TrusteeCacheHighBound = 1
    ExperimentRoundLimit = 2
    DisruptionProtectionEnabled = TRUE
    UseOpenClosedSlots = TRUE
    OpenClosedPeriod = 2
    MaxRound = 3
SPECIFICATION FairSpec
INVARIANT TypeOK
INVARIANT WindowAccounting
INVARIANT DownstreamConsecutive
INVARIANT EchoFindsKeptMessage
INVARIANT RateSignalMatchesBuffer
INVARIANT ShuffleTranscriptSound
PROPERTY AllRoundsComplete
PROPERTY RefinesRoundWindow
\* Deadlock is not checked: a run that stops short of the last round or a
\* shutdown is reported as a violation of AllRoundsComplete.
CHECK_DEADLOCK FALSE
