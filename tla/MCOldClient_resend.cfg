\* Client 1 with its SOCKS proxy, two SOCKS connections of one chunk each,
\* three downstream slices whose header names connection 0..3.
CONSTANTS
    ClientId = 1
    UseSocksProxy = TRUE
    MaxConns = 2
    MaxChunks = 1
    MaxDown = 3
SPECIFICATION Spec

INVARIANT EachChunkSentOnce
