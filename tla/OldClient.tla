----------------------------- MODULE OldClient -----------------------------
(***************************************************************************)
(* The earlier PriFi client loop (src/timestamp/proof.go, lines 260-508):  *)
(* startClient's select loop over four unbuffered channels, fed by one    *)
(* goroutine per SOCKS connection (readDataFromSocksProxy), the SOCKS      *)
(* listener (startSocksProxy) and the relay reader (readDataFromRelay).   *)
(* A send on an unbuffered channel and the loop's receive are one step.    *)
(*                                                                         *)
(* Data is abstracted to its origin: a chunk a SOCKS goroutine read is     *)
(* <<connection, number, eof>>, eof TRUE for the header-only chunk sent at *)
(* EOF; a downstream slice is the connection id in its header, with or    *)
(* without data.  A panic ends the client.                                 *)
(***************************************************************************)
EXTENDS Integers, Sequences

CONSTANTS
    ClientId,       \* startClient's clientId
    UseSocksProxy,
    MaxConns,       \* model bound: SOCKS connections accepted
    MaxChunks,      \* model bound: chunks read per connection
    MaxDown         \* model bound: downstream slices from the relay

ASSUME ClientId \in Nat /\ UseSocksProxy \in BOOLEAN
ASSUME MaxConns \in Nat /\ MaxChunks \in Nat /\ MaxDown \in Nat

Conns == 1..MaxConns    \* socksProxyActiveConnections[0] is reserved
\* The payload of an upstream slice with nothing buffered (nil).  Slot 0 is
\* reserved, so no chunk carries connection 0.
NoData == <<0, 0, FALSE>>

VARIABLES
    active,     \* socksProxyActiveConnections[1..]: "open" or "nil"
    reader,     \* per connection: its goroutine "reading", "closing" or "done"
    closedConn, \* connections whose net.Conn was closed
    nChunks,    \* chunks each goroutine has read
    buffer,     \* dataForRelayBuffer in startClient
    upstream,   \* the payloads of the upstream slices written to the relay
    written,    \* per connection: the header ids of the data written to it
    nDown,      \* downstream slices received
    panicked

vars == <<active, reader, closedConn, nChunks, buffer, upstream, written, nDown, panicked>>

Running == ~panicked

\* Seeded fault: the new connection takes the id of the last one.
MutNewConnIdLast == Len(active)

\* newClientId := len(socksProxyActiveConnections), slot 0 being reserved.
NewConnId == Len(active) + 1

\* startSocksProxy accepts a connection; the loop appends it and starts
\* readDataFromSocksProxy for it.
NewSocksConnection ==
    /\ Running /\ UseSocksProxy /\ Len(active) < MaxConns
    /\ active' = Append(active, "open")
    /\ reader' = [reader EXCEPT ![NewConnId] = "reading"]
    /\ UNCHANGED <<closedConn, nChunks, buffer, upstream, written, nDown, panicked>>

\* readDataFromSocksProxy sends a cell's worth of data; the loop appends it.
SocksData(c) ==
    /\ Running /\ reader[c] = "reading" /\ c \notin closedConn
    /\ nChunks[c] < MaxChunks
    /\ buffer' = Append(buffer, <<c, nChunks[c], FALSE>>)
    /\ nChunks' = [nChunks EXCEPT ![c] = @ + 1]
    /\ UNCHANGED <<active, reader, closedConn, upstream, written, nDown, panicked>>

\* A read of 0 bytes (EOF, or an error on a closed conn): the goroutine
\* still sends the header-only chunk, then closes the conn.
SocksEof(c) ==
    /\ Running /\ reader[c] = "reading"
    /\ buffer' = Append(buffer, <<c, nChunks[c], TRUE>>)
    /\ reader' = [reader EXCEPT ![c] = "closing"]
    /\ closedConn' = closedConn \cup {c}
    /\ UNCHANGED <<active, nChunks, upstream, written, nDown, panicked>>

\* `closed <- clientId`: the loop clears the slot.
SocksConnClosed(c) ==
    /\ Running /\ reader[c] = "closing"
    /\ active' = [active EXCEPT ![c] = "nil"]
    /\ reader' = [reader EXCEPT ![c] = "done"]
    /\ UNCHANGED <<closedConn, nChunks, buffer, upstream, written, nDown, panicked>>

(***************************************************************************)
(* writeNextUpstreamSlice(dataForRelayBuffer, ...): the payload is the     *)
(* first buffered chunk; the function drops it from its own copy of the   *)
(* slice, so the loop's buffer is left as it was.                          *)
(***************************************************************************)
WriteNextUpstreamSlice(connId, hasData) ==
    upstream' = Append(upstream, IF buffer = <<>> THEN NoData ELSE Head(buffer))

\* The slot the loop writes to and closes: socksProxyActiveConnections[clientId].
Target == ClientId

\* Closing the target panics when the index is out of range or the slot is
\* nil; writing to it also fails, and panics, once the conn is closed.
TargetPresent == Target >= 1 /\ Target <= Len(active) /\ active[Target] = "open"
TargetUsable(hasData) == TargetPresent /\ (hasData => Target \notin closedConn)

(***************************************************************************)
(* A downstream slice from readDataFromRelay.  If its connection id is a  *)
(* live slot: data is written to the proxy (when UseSocksProxy), and an   *)
(* empty slice closes the connection.  Then the next upstream slice.      *)
(***************************************************************************)
DownstreamSlice(connId, hasData) ==
    /\ Running /\ nDown < MaxDown
    /\ nDown' = nDown + 1
    /\ LET live == connId > 0 /\ connId <= Len(active) /\ active[connId] # "nil"
           touches == live /\ (hasData => UseSocksProxy)
       IN  IF touches /\ ~TargetUsable(hasData)
           THEN /\ panicked' = TRUE
                /\ UNCHANGED <<closedConn, written, upstream>>
           ELSE /\ closedConn' = IF touches /\ ~hasData THEN closedConn \cup {Target}
                                 ELSE closedConn
                /\ written' = IF touches /\ hasData
                              THEN [written EXCEPT ![Target] = Append(@, connId)]
                              ELSE written
                /\ WriteNextUpstreamSlice(connId, hasData)
                /\ UNCHANGED panicked
    /\ UNCHANGED <<active, reader, nChunks, buffer>>

\* A panicked client, or one whose inputs are exhausted, stops.
Terminated ==
    /\ panicked \/ nDown = MaxDown
    /\ UNCHANGED vars

Init ==
    /\ active = <<>>
    /\ reader = [c \in Conns |-> "none"]
    /\ closedConn = {}
    /\ nChunks = [c \in Conns |-> 0]
    /\ buffer = <<>> /\ upstream = <<>>
    /\ written = [c \in Conns |-> <<>>]
    /\ nDown = 0 /\ panicked = FALSE

\* readDataFromRelay delivers slices with any connection id of the header
\* (the relay's and the invalid ones around them), with or without data.
RelaySlices == (0..MaxConns+1) \X BOOLEAN

Next ==
    \/ NewSocksConnection
    \/ \E c \in Conns : SocksData(c) \/ SocksEof(c) \/ SocksConnClosed(c)
    \/ \E sl \in RelaySlices : DownstreamSlice(sl[1], sl[2])
    \/ Terminated

Spec == Init /\ [][Next]_vars

(***************************************************************************)
(* Properties.                                                             *)
(***************************************************************************)
TypeOK ==
    /\ active \in Seq({"open", "nil"}) /\ Len(active) <= MaxConns
    /\ \A c \in Conns : c > Len(active) <=> reader[c] = "none"
    /\ nDown \in 0..MaxDown /\ panicked \in BOOLEAN

(* Data the relay sends for a connection is written to that connection:  *)
(* the loop checks that the header's connection id names a live slot of  *)
(* socksProxyActiveConnections before forwarding "the downstream slice to *)
(* the SOCKS proxy", so no connection receives another's data.            *)
DataReachesItsConnection ==
    \A c \in Conns : \A i \in 1..Len(written[c]) : written[c][i] = c

(* Every chunk a SOCKS goroutine read goes upstream once: no payload is   *)
(* sent in two upstream slices.                                            *)
EachChunkSentOnce ==
    \A a, b \in 1..Len(upstream) :
        a < b /\ upstream[a] = upstream[b] => upstream[a] = NoData

=============================================================================
