------------------------------ MODULE OldRelay ------------------------------
(***************************************************************************)
(* The earlier PriFi relay (src/unnamed/part_003, lines 53-645): the same  *)
(* setup state machine as Relay, but a simpler COMMUNICATING loop.  The    *)
(* buffer manager counts one current round; finalizeUpstreamData closes    *)
(* it, roundFinished decrements numberOfNonAckedDownstreamPackets, moves   *)
(* currentDCNetRound on, restarts the decoder with the MessageHistory of   *)
(* the moment and may hit the experiment round limit; the handler then     *)
(* calls sendDownstreamData until WindowSize cells are unacknowledged,     *)
(* each cell folded into MessageHistory by UpdateMessageHistory.           *)
(*                                                                         *)
(* The buffer manager, the Neff-shuffle bookkeeping, the dispatcher and    *)
(* the peers are not under src/ and are modelled from spec 4.3-4.8.  A     *)
(* downstream cell is its round number; a history is the sequence of what *)
(* UpdateMessageHistory folded in.                                         *)
(***************************************************************************)
EXTENDS Integers, Sequences, FiniteSets

CONSTANTS
    NClients, NTrustees,
    WindowSize,
    TrusteeCacheLowBound, TrusteeCacheHighBound,  \* TRUSTEE_CACHE_LOWBOUND/HIGHBOUND
    ExperimentRoundLimit,   \* -1: no limit
    MaxRound                \* model bound: no cell above MaxRound is sent

ASSUME NClients >= 1 /\ NTrustees >= 1 /\ WindowSize >= 1 /\ MaxRound >= 1
ASSUME ExperimentRoundLimit \in {-1} \cup Nat

Clients == 0..NClients-1
Trustees == 0..NTrustees-1
Rounds == 0..MaxRound

VARIABLES
    rstate,
    nTrusteesPkCollected, nClientsPkCollected, nTrusteesVkCollected,
    nShufflesDone, sigs,    \* neffShuffle bookkeeping
    nonAcked,               \* numberOfNonAckedDownstreamPackets
    nextDown,               \* nextDownStreamRoundToSend
    curRound,               \* currentDCNetRound = the buffer manager's round
    cliBuf, truBuf,         \* bufferManager: ciphers buffered per round
    history,                \* MessageHistory
    decodeHistory,          \* the history the current DecodeStart was given
    c2r, t2r, r2c, r2t,
    cstate, lastDown, tstate, tNext, tCap

relayVars == <<rstate, nTrusteesPkCollected, nClientsPkCollected, nTrusteesVkCollected,
               nShufflesDone, sigs, nonAcked, nextDown, curRound, cliBuf, truBuf,
               history, decodeHistory>>
netVars == <<c2r, t2r, r2c, r2t>>
peerVars == <<cstate, lastDown, tstate, tNext, tCap>>
vars == <<relayVars, netVars, peerVars>>

Msg(t) == [type |-> t]
RMsg(t, r) == [type |-> t, round |-> r]
RateMsg(k) == [type |-> "REL_TRU_TELL_RATE_CHANGE", cap |-> k]
SendAll(ch, S, m) == [p \in DOMAIN ch |-> IF p \in S THEN Append(ch[p], m) ELSE ch[p]]
Recv(ch, p, t) == ch[p] # <<>> /\ Head(ch[p]).type = t
Pop(ch, p) == [ch EXCEPT ![p] = Tail(@)]

(***************************************************************************)
(* UpdateMessageHistory: an empty history becomes "dummy" for no message  *)
(* or the message itself; otherwise the message is appended to a digest   *)
(* of the history.  NoCell is the nil the transcript step passes.          *)
(***************************************************************************)
NoCell == "nil"
UpdateMessageHistory(h, m) ==
    IF h = <<>> THEN (IF m = NoCell THEN <<"dummy">> ELSE <<m>>)
    ELSE Append(h, m)

(***************************************************************************)
(* Buffer manager (spec 4.5) with its rate limiter: stopFn when a trustee  *)
(* has more than the high bound buffered, resumeFn when fewer than the low *)
(* bound are left after FinalizeRound.                                     *)
(***************************************************************************)
TrusteeCount(tb, j) == Cardinality({r \in Rounds : j \in tb[r]})
AddCipher(buf, r, p) == IF r < curRound THEN buf ELSE [buf EXCEPT ![r] = @ \cup {p}]
\* Seeded fault: the round counted complete on the clients' ciphers alone.
MutHasAllClientsOnly(cb, tb) == curRound \in Rounds /\ cb[curRound] = Clients
HasAllCiphersForCurrentRound(cb, tb) ==
    curRound \in Rounds /\ cb[curRound] = Clients /\ tb[curRound] = Trustees
\* Seeded faults: resumeFn restoring the full window, or copied from stopFn.
MutResumeMsgsFullWindow(ch, tb) ==
    [k \in Trustees |-> IF TrusteeCount(tb, k) < TrusteeCacheLowBound
                        THEN Append(ch[k], RateMsg(WindowSize)) ELSE ch[k]]
MutResumeMsgsCopyStop(ch, tb) ==
    [k \in Trustees |-> IF TrusteeCount(tb, k) < TrusteeCacheLowBound
                        THEN Append(ch[k], RateMsg(0)) ELSE ch[k]]

\* Seeded fault: stopFn decided on the count before the cipher is added.
MutStopMsgsBeforeAdd(ch, tb, j) ==
    IF TrusteeCount(truBuf, j) > TrusteeCacheHighBound
    THEN [ch EXCEPT ![j] = Append(@, RateMsg(0))] ELSE ch

StopMsgs(ch, tb, j) ==
    IF TrusteeCount(tb, j) > TrusteeCacheHighBound
    THEN [ch EXCEPT ![j] = Append(@, RateMsg(0))] ELSE ch
ResumeMsgs(ch, tb) ==
    [k \in Trustees |-> IF TrusteeCount(tb, k) < TrusteeCacheLowBound
                        THEN Append(ch[k], RateMsg(1)) ELSE ch[k]]

\* Received_ALL_ALL_SHUTDOWN: the shutdown message to every peer in S.
ShutdownToAll(ch, S) == SendAll(ch, S, Msg("ALL_ALL_SHUTDOWN"))

\* roundFinished: `nextRound == ExperimentRoundLimit` shuts everybody down.
LimitReached(nextRound) == nextRound = ExperimentRoundLimit

\* Seeded faults.
MutSendCountInclusive(nonAcked1) ==
    LET want == WindowSize - nonAcked1 + 1
        room == MaxRound + 1 - nextDown
    IN  IF want < room THEN want ELSE room
MutCellsAfterIncrement(n) == [k \in 1..n |-> RMsg("REL_CLI_DOWNSTREAM_DATA", nextDown + k)]

\* The handler's `for i := nonAcked; i < WindowSize; i++ { sendDownstreamData() }`;
\* MaxRound caps the cells the model sends.
SendCount(nonAcked1) ==
    LET want == WindowSize - nonAcked1
        room == MaxRound + 1 - nextDown
    IN  IF want < room THEN want ELSE room

\* sendDownstreamData n times: cells nextDown .. nextDown+n-1, each folded
\* into MessageHistory before it is broadcast.
RECURSIVE FoldCells(_, _, _)
FoldCells(h, first, n) ==
    IF n = 0 THEN h ELSE FoldCells(UpdateMessageHistory(h, first), first + 1, n - 1)
CellsHistory(h, n) == FoldCells(h, nextDown, n)
Cells(n) == [k \in 1..n |-> RMsg("REL_CLI_DOWNSTREAM_DATA", nextDown + k - 1)]

(***************************************************************************)
(* Once every cipher of the current round is in: finalizeUpstreamData     *)
(* (FinalizeRound and its resumeFn calls, DecodeCell), roundFinished      *)
(* (nonAcked--, ChangeRound(current+1), DecodeStart with MessageHistory,  *)
(* and on the round limit Received_ALL_ALL_SHUTDOWN), then the send loop. *)
(* The loop runs after roundFinished whatever state it left.               *)
(***************************************************************************)
\* finalizeUpstreamData: bufferManager.FinalizeRound hands over and drops
\* the current round's ciphers, with the rate limiter's resumeFn calls;
\* decoding and the payload's delivery change no state kept here.
FinalizeUpstreamData(cb, tb, tch) ==
    [cli |-> [cb EXCEPT ![curRound] = {}],
     tru |-> [tb EXCEPT ![curRound] = {}],
     tch |-> ResumeMsgs(tch, [tb EXCEPT ![curRound] = {}])]

FinishRound(cb, tb, tch) ==
    LET fin == FinalizeUpstreamData(cb, tb, tch)
        nextRound == curRound + 1
        nonAcked1 == nonAcked - 1
        n == SendCount(nonAcked1)
        tch1 == fin.tch
        stop == LimitReached(nextRound)
    IN  /\ cliBuf' = fin.cli
        /\ truBuf' = fin.tru
        /\ curRound' = nextRound
        /\ decodeHistory' = history
        /\ rstate' = IF stop THEN "SHUTDOWN" ELSE rstate
        /\ r2t' = IF stop THEN ShutdownToAll(tch1, Trustees) ELSE tch1
        /\ r2c' = LET c1 == IF stop THEN ShutdownToAll(r2c, Clients) ELSE r2c
                  IN  [i \in Clients |-> c1[i] \o Cells(n)]
        /\ history' = CellsHistory(history, n)
        /\ nextDown' = nextDown + n
        /\ nonAcked' = nonAcked1 + n

AfterCipher(cb, tb, tch) ==
    IF HasAllCiphersForCurrentRound(cb, tb)
    THEN FinishRound(cb, tb, tch)
    ELSE /\ cliBuf' = cb /\ truBuf' = tb /\ r2t' = tch
         /\ UNCHANGED <<rstate, curRound, nextDown, nonAcked, history, decodeHistory, r2c>>

Received_CLI_REL_UPSTREAM_DATA(i) ==
    /\ rstate = "COMMUNICATING"
    /\ Recv(c2r, i, "CLI_REL_UPSTREAM_DATA")
    /\ c2r' = Pop(c2r, i)
    /\ AfterCipher(AddCipher(cliBuf, Head(c2r[i]).round, i), truBuf, r2t)
    /\ UNCHANGED <<nTrusteesPkCollected, nClientsPkCollected, nTrusteesVkCollected,
                   nShufflesDone, sigs, t2r, peerVars>>

Received_TRU_REL_DC_CIPHER(j) ==
    /\ rstate \in {"COLLECTING_SHUFFLE_SIGNATURES", "COMMUNICATING"}
    /\ Recv(t2r, j, "TRU_REL_DC_CIPHER")
    /\ t2r' = Pop(t2r, j)
    /\ LET tb == AddCipher(truBuf, Head(t2r[j]).round, j)
       IN  AfterCipher(cliBuf, tb, StopMsgs(r2t, tb, j))
    /\ UNCHANGED <<nTrusteesPkCollected, nClientsPkCollected, nTrusteesVkCollected,
                   nShufflesDone, sigs, c2r, peerVars>>

(***************************************************************************)
(* Received_ALL_ALL_PARAMETERS with StartNow: counters reset, bufferManager *)
(* Init, nextDownStreamRoundToSend = 1 (round 0 is a half-round with no    *)
(* cell down), numberOfNonAckedDownstreamPackets = 0, then                 *)
(* BroadcastParameters to every trustee and every client.                  *)
(***************************************************************************)
Received_ALL_ALL_PARAMETERS ==
    /\ rstate = "IDLE"
    /\ rstate' = "COLLECTING_TRUSTEES_PKS"
    /\ nTrusteesPkCollected' = 0 /\ nClientsPkCollected' = 0 /\ nTrusteesVkCollected' = 0
    /\ cliBuf' = [r \in Rounds |-> {}] /\ truBuf' = [r \in Rounds |-> {}]
    /\ curRound' = 0 /\ nextDown' = 1 /\ nonAcked' = 0
    /\ r2t' = SendAll(r2t, Trustees, Msg("ALL_ALL_PARAMETERS"))
    /\ r2c' = SendAll(r2c, Clients, Msg("ALL_ALL_PARAMETERS"))
    /\ UNCHANGED <<nShufflesDone, sigs, history, decodeHistory, c2r, t2r, peerVars>>

\* Received_ALL_ALL_SHUTDOWN on a shutdown from outside: SHUTDOWN, and the
\* shutdown to every trustee and every client.
Received_ALL_ALL_SHUTDOWN ==
    /\ rstate \notin {"IDLE", "SHUTDOWN"}
    /\ rstate' = "SHUTDOWN"
    /\ r2t' = ShutdownToAll(r2t, Trustees)
    /\ r2c' = ShutdownToAll(r2c, Clients)
    /\ UNCHANGED <<nTrusteesPkCollected, nClientsPkCollected, nTrusteesVkCollected,
                   nShufflesDone, sigs, nonAcked, nextDown, curRound, cliBuf, truBuf,
                   history, decodeHistory, c2r, t2r, peerVars>>

\* On the last trustee key, REL_CLI_TELL_TRUSTEES_PK to every client.
Received_TRU_REL_TELL_PK(j) ==
    /\ rstate = "COLLECTING_TRUSTEES_PKS"
    /\ Recv(t2r, j, "TRU_REL_TELL_PK")
    /\ t2r' = Pop(t2r, j)
    /\ nTrusteesPkCollected' = nTrusteesPkCollected + 1
    /\ IF nTrusteesPkCollected + 1 = NTrustees
       THEN /\ r2c' = SendAll(r2c, Clients, Msg("REL_CLI_TELL_TRUSTEES_PK"))
            /\ rstate' = "COLLECTING_CLIENT_PKS"
       ELSE UNCHANGED <<r2c, rstate>>
    /\ UNCHANGED <<nClientsPkCollected, nTrusteesVkCollected, nShufflesDone, sigs,
                   nonAcked, nextDown, curRound, cliBuf, truBuf, history, decodeHistory,
                   c2r, r2t, peerVars>>

ShuffleRequest == Msg("REL_TRU_TELL_CLIENTS_PKS_AND_EPH_PKS_AND_BASE")

\* On the last client key: neffShuffle.Init, and SendToNextTrustee (trustee 0).
Received_CLI_REL_TELL_PK_AND_EPH_PK(i) ==
    /\ rstate = "COLLECTING_CLIENT_PKS"
    /\ Recv(c2r, i, "CLI_REL_TELL_PK_AND_EPH_PK")
    /\ c2r' = Pop(c2r, i)
    /\ nClientsPkCollected' = nClientsPkCollected + 1
    /\ IF nClientsPkCollected + 1 = NClients
       THEN /\ nShufflesDone' = 0 /\ sigs' = {}
            /\ r2t' = [r2t EXCEPT ![0] = Append(@, ShuffleRequest)]
            /\ rstate' = "COLLECTING_SHUFFLES"
       ELSE UNCHANGED <<nShufflesDone, sigs, r2t, rstate>>
    /\ UNCHANGED <<nTrusteesPkCollected, nTrusteesVkCollected, nonAcked, nextDown,
                   curRound, cliBuf, truBuf, history, decodeHistory, t2r, r2c, peerVars>>

(***************************************************************************)
(* A shuffle: store the trustee's VKey (the error branch for more than    *)
(* nTrustees keys is unreachable with one shuffle per trustee), then the   *)
(* next trustee's request or, after the last, the transcript to all, the   *)
(* history primed with nil, ChangeRound(0) and DecodeStart with it.        *)
(***************************************************************************)
Received_TRU_REL_TELL_NEW_BASE_AND_EPH_PKS(j) ==
    /\ rstate = "COLLECTING_SHUFFLES"
    /\ Recv(t2r, j, "TRU_REL_TELL_NEW_BASE_AND_EPH_PKS")
    /\ nTrusteesVkCollected < NTrustees
    /\ t2r' = Pop(t2r, j)
    /\ nTrusteesVkCollected' = nTrusteesVkCollected + 1
    /\ nShufflesDone' = nShufflesDone + 1
    /\ IF nShufflesDone + 1 < NTrustees
       THEN /\ r2t' = [r2t EXCEPT ![nShufflesDone + 1] = Append(@, ShuffleRequest)]
            /\ UNCHANGED <<rstate, history, decodeHistory, curRound>>
       ELSE LET h == UpdateMessageHistory(history, NoCell)
            IN  /\ r2t' = SendAll(r2t, Trustees, Msg("REL_TRU_TELL_TRANSCRIPT"))
                /\ history' = h /\ decodeHistory' = h
                /\ curRound' = 0
                /\ rstate' = "COLLECTING_SHUFFLE_SIGNATURES"
    /\ UNCHANGED <<nTrusteesPkCollected, nClientsPkCollected, sigs, nonAcked, nextDown,
                   cliBuf, truBuf, c2r, r2c, peerVars>>

\* On the last signature: COMMUNICATING, the signed shuffle to every client,
\* numberOfNonAckedDownstreamPackets = 1 (round 0 has no cell down).
Received_TRU_REL_SHUFFLE_SIG(j) ==
    /\ rstate = "COLLECTING_SHUFFLE_SIGNATURES"
    /\ Recv(t2r, j, "TRU_REL_SHUFFLE_SIG")
    /\ t2r' = Pop(t2r, j)
    /\ sigs' = sigs \cup {j}
    /\ IF sigs \cup {j} = Trustees
       THEN /\ rstate' = "COMMUNICATING"
            /\ r2c' = SendAll(r2c, Clients, Msg("REL_CLI_TELL_EPH_PKS_AND_TRUSTEES_SIG"))
            /\ nonAcked' = 1
       ELSE UNCHANGED <<rstate, r2c, nonAcked>>
    /\ UNCHANGED <<nTrusteesPkCollected, nClientsPkCollected, nTrusteesVkCollected,
                   nShufflesDone, nextDown, curRound, cliBuf, truBuf, history,
                   decodeHistory, c2r, r2t, peerVars>>

(***************************************************************************)
(* Trustees and clients (spec 4.7, 4.8).  A client answers the trustees'  *)
(* keys with its own, the signed shuffle with its round-0 cipher and each *)
(* downstream cell with the cipher of that round.                          *)
(***************************************************************************)
TrusteeReceive(j) ==
    /\ tstate[j] # "SHUTDOWN"
    /\ r2t[j] # <<>>
    /\ r2t' = Pop(r2t, j)
    /\ LET m == Head(r2t[j])
           reply(t) == t2r' = [t2r EXCEPT ![j] = Append(@, Msg(t))]
       IN  CASE m.type = "ALL_ALL_PARAMETERS" ->
                    reply("TRU_REL_TELL_PK") /\ UNCHANGED <<tstate, tNext, tCap>>
             [] m.type = "REL_TRU_TELL_CLIENTS_PKS_AND_EPH_PKS_AND_BASE" ->
                    reply("TRU_REL_TELL_NEW_BASE_AND_EPH_PKS") /\ UNCHANGED <<tstate, tNext, tCap>>
             [] m.type = "REL_TRU_TELL_TRANSCRIPT" ->
                    /\ reply("TRU_REL_SHUFFLE_SIG")
                    /\ tstate' = [tstate EXCEPT ![j] = "STREAMING"]
                    /\ tCap' = [tCap EXCEPT ![j] = 1]
                    /\ UNCHANGED tNext
             [] m.type = "REL_TRU_TELL_RATE_CHANGE" ->
                    tCap' = [tCap EXCEPT ![j] = m.cap] /\ UNCHANGED <<t2r, tstate, tNext>>
             [] m.type = "ALL_ALL_SHUTDOWN" ->
                    tstate' = [tstate EXCEPT ![j] = "SHUTDOWN"] /\ UNCHANGED <<t2r, tNext, tCap>>
    /\ UNCHANGED <<relayVars, c2r, r2c, cstate, lastDown>>

TrusteeSendCipher(j) ==
    /\ tstate[j] = "STREAMING" /\ tCap[j] > 0
    /\ tNext[j] <= MaxRound
    /\ t2r' = [t2r EXCEPT ![j] = Append(@, RMsg("TRU_REL_DC_CIPHER", tNext[j]))]
    /\ tNext' = [tNext EXCEPT ![j] = @ + 1]
    /\ UNCHANGED <<relayVars, c2r, r2c, r2t, cstate, lastDown, tstate, tCap>>

ClientReceive(i) ==
    /\ cstate[i] # "SHUTDOWN"
    /\ r2c[i] # <<>>
    /\ r2c' = Pop(r2c, i)
    /\ LET m == Head(r2c[i])
           send(msg) == c2r' = [c2r EXCEPT ![i] = Append(@, msg)]
       IN  CASE m.type = "ALL_ALL_PARAMETERS" ->
                    cstate' = [cstate EXCEPT ![i] = "INITIALIZING"] /\ UNCHANGED <<c2r, lastDown>>
             [] m.type = "REL_CLI_TELL_TRUSTEES_PK" ->
                    /\ send(Msg("CLI_REL_TELL_PK_AND_EPH_PK"))
                    /\ cstate' = [cstate EXCEPT ![i] = "EPH_KEYS_SENT"]
                    /\ UNCHANGED lastDown
             [] m.type = "REL_CLI_TELL_EPH_PKS_AND_TRUSTEES_SIG" ->
                    /\ send(RMsg("CLI_REL_UPSTREAM_DATA", 0))
                    /\ cstate' = [cstate EXCEPT ![i] = "COMMUNICATING"]
                    /\ lastDown' = [lastDown EXCEPT ![i] = 0]
             [] m.type = "REL_CLI_DOWNSTREAM_DATA" ->
                    /\ send(RMsg("CLI_REL_UPSTREAM_DATA", m.round))
                    /\ lastDown' = [lastDown EXCEPT ![i] = m.round]
                    /\ UNCHANGED cstate
             [] m.type = "ALL_ALL_SHUTDOWN" ->
                    cstate' = [cstate EXCEPT ![i] = "SHUTDOWN"] /\ UNCHANGED <<c2r, lastDown>>
    /\ UNCHANGED <<relayVars, t2r, r2t, tstate, tNext, tCap>>

\* The system stops when the relay has shut down or finished every round
\* up to the model bound.
Terminated ==
    /\ rstate = "SHUTDOWN" \/ curRound = MaxRound + 1
    /\ UNCHANGED vars

Init ==
    /\ rstate = "IDLE"
    /\ nTrusteesPkCollected = 0 /\ nClientsPkCollected = 0 /\ nTrusteesVkCollected = 0
    /\ nShufflesDone = 0 /\ sigs = {}
    /\ nonAcked = 0 /\ nextDown = 1 /\ curRound = 0
    /\ cliBuf = [r \in Rounds |-> {}] /\ truBuf = [r \in Rounds |-> {}]
    /\ history = <<>> /\ decodeHistory = <<>>
    /\ c2r = [i \in Clients |-> <<>>] /\ r2c = [i \in Clients |-> <<>>]
    /\ t2r = [j \in Trustees |-> <<>>] /\ r2t = [j \in Trustees |-> <<>>]
    /\ cstate = [i \in Clients |-> "IDLE"] /\ lastDown = [i \in Clients |-> -1]
    /\ tstate = [j \in Trustees |-> "IDLE"] /\ tNext = [j \in Trustees |-> 0]
    /\ tCap = [j \in Trustees |-> 0]

Next ==
    \/ Received_ALL_ALL_PARAMETERS
    \/ Received_ALL_ALL_SHUTDOWN
    \/ \E j \in Trustees : \/ Received_TRU_REL_TELL_PK(j)
                           \/ Received_TRU_REL_TELL_NEW_BASE_AND_EPH_PKS(j)
                           \/ Received_TRU_REL_SHUFFLE_SIG(j)
                           \/ Received_TRU_REL_DC_CIPHER(j)
                           \/ TrusteeReceive(j) \/ TrusteeSendCipher(j)
    \/ \E i \in Clients : \/ Received_CLI_REL_TELL_PK_AND_EPH_PK(i)
                          \/ Received_CLI_REL_UPSTREAM_DATA(i)
                          \/ ClientReceive(i)
    \/ Terminated

\* Each role runs its own event loop over an in-order transport: weak
\* fairness per handler and per peer.
Fairness ==
    /\ WF_vars(Received_ALL_ALL_PARAMETERS)
    /\ \A j \in Trustees :
          /\ WF_vars(Received_TRU_REL_TELL_PK(j))
          /\ WF_vars(Received_TRU_REL_TELL_NEW_BASE_AND_EPH_PKS(j))
          /\ WF_vars(Received_TRU_REL_SHUFFLE_SIG(j))
          /\ WF_vars(Received_TRU_REL_DC_CIPHER(j))
          /\ WF_vars(TrusteeReceive(j)) /\ WF_vars(TrusteeSendCipher(j))
    /\ \A i \in Clients :
          /\ WF_vars(Received_CLI_REL_TELL_PK_AND_EPH_PK(i))
          /\ WF_vars(Received_CLI_REL_UPSTREAM_DATA(i))
          /\ WF_vars(ClientReceive(i))

Spec == Init /\ [][Next]_vars
FairSpec == Spec /\ Fairness

(***************************************************************************)
(* Properties.                                                             *)
(***************************************************************************)
TypeOK ==
    /\ nextDown \in 1..MaxRound+1 /\ curRound \in 0..MaxRound+1
    /\ cliBuf \in [Rounds -> SUBSET Clients] /\ truBuf \in [Rounds -> SUBSET Trustees]
    /\ tCap \in [Trustees -> {0, 1}] /\ tNext \in [Trustees -> 0..MaxRound+1]
    /\ lastDown \in [Clients -> -1..MaxRound]

(* The window: in COMMUNICATING, numberOfNonAckedDownstreamPackets (set to *)
(* 1 on the last signature, decremented by roundFinished, incremented by   *)
(* sendDownstreamData) equals the rounds a cell was sent for and not yet  *)
(* finished, nextDownStreamRoundToSend - currentDCNetRound, and never     *)
(* exceeds WindowSize.                                                     *)
WindowAccounting ==
    rstate = "COMMUNICATING" =>
        /\ nonAcked = nextDown - curRound
        /\ nonAcked \in 0..WindowSize

(* Every client receives the cells of rounds 1, 2, 3, ... in order, none *)
(* repeated or skipped, across the handler's loop of sendDownstreamData.  *)
DownstreamConsecutive ==
    \A i \in Clients :
        LET downs == SelectSeq(r2c[i], LAMBDA m : m.type = "REL_CLI_DOWNSTREAM_DATA")
        IN  \A k \in 1..Len(downs) : downs[k].round = lastDown[i] + k

(* The rate limiter's stop and resume messages are queued asynchronously *)
(* and applied in order: once a streaming trustee has read them, its      *)
(* capacity is 0 if the buffer manager holds more than the high bound of  *)
(* its ciphers and 1 if it holds fewer than the low bound.                *)
PendingCap(j) ==
    LET rates == SelectSeq(r2t[j], LAMBDA m : m.type = "REL_TRU_TELL_RATE_CHANGE")
    IN  IF rates = <<>> THEN tCap[j] ELSE rates[Len(rates)].cap

RateSignalMatchesBuffer ==
    \A j \in Trustees : tstate[j] = "STREAMING" =>
        /\ TrusteeCount(truBuf, j) > TrusteeCacheHighBound => PendingCap(j) = 0
        /\ TrusteeCount(truBuf, j) < TrusteeCacheLowBound => PendingCap(j) = 1

(* The pipeline makes progress under the rate limiter: the relay finishes *)
(* every round up to the bound or shuts down.                              *)
AllRoundsComplete == <>(curRound = MaxRound + 1 \/ rstate = "SHUTDOWN")

(* No downstream cell is queued to a client behind the shutdown message.  *)
NoDownstreamAfterShutdown ==
    \A i \in Clients :
        \A a, b \in 1..Len(r2c[i]) :
            (a < b /\ r2c[i][a].type = "ALL_ALL_SHUTDOWN")
                => r2c[i][b].type # "REL_CLI_DOWNSTREAM_DATA"

\* The history a client encodes round r with (spec 4.7: it folds each cell
\* into its history before encoding the round the cell opens).
ClientHistory(r) == <<"dummy">> \o [k \in 1..r |-> k]

(* Equivocation protection (spec 4.2): the relay decodes round r with the *)
(* same history the clients encoded it with, so DecodeStart in            *)
(* roundFinished must be given the history through cell r.                *)
DecodeHistoryMatchesClients ==
    rstate = "COMMUNICATING" /\ curRound <= MaxRound =>
        decodeHistory = ClientHistory(curRound)

(***************************************************************************)
(* Refinement: the old relay implements RoundWindow too.  currentDCNetRound *)
(* is the abstract current round; round 0 counts as opened when the relay  *)
(* enters COMMUNICATING, and nextDownStreamRoundToSend is then the next    *)
(* round opened (a relay shut down before its last signature opened     *)
(* none).  roundFinished tests the round limit against the round it *)
(* moves to, so the session ends with the close of ExperimentRoundLimit-1. *)
(***************************************************************************)
Participants == ({"c"} \X Clients) \cup ({"t"} \X Trustees)
Received(r) == IF r < curRound THEN Participants
               ELSE ({"c"} \X cliBuf[r]) \cup ({"t"} \X truBuf[r])

Pipeline == INSTANCE RoundWindow WITH
    W <- WindowSize, StopAfter <- ExperimentRoundLimit - 1,
    nextOpen <- IF rstate = "COMMUNICATING" \/ (rstate = "SHUTDOWN" /\ sigs = Trustees)
                THEN nextDown ELSE 0,
    lastClosed <- curRound - 1,
    got <- [r \in Rounds |-> Received(r)],
    live <- rstate # "SHUTDOWN"

(* Rounds finish in order, each only once its cell was sent and every     *)
(* cipher of it is in; each roundFinished is followed by the handler's    *)
(* sendDownstreamData loop refilling the window to WindowSize cells.       *)
RefinesRoundWindow == Pipeline!Spec

=============================================================================
