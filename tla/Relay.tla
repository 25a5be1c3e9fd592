------------------------------- MODULE Relay -------------------------------
(***************************************************************************)
(* The PriFi relay (src/prifi-lib/relay/relay.go): its state machine from  *)
(* the collection of the trustees' keys to COMMUNICATING and SHUTDOWN, and *)
(* in COMMUNICATING the round pipeline: ciphers are buffered per round by  *)
(* the round manager, a round is finalized as soon as every client and    *)
(* trustee cipher of the current round is there, and downstream cells are *)
(* sent until WindowSize rounds are open.                                  *)
(*                                                                         *)
(* The round manager (BufferableRoundManager), the relay's Neff-shuffle   *)
(* bookkeeping, the dispatcher and the client and trustee state machines   *)
(* are not under src/; they are modelled from spec 4.3-4.8.  The trustee's *)
(* shuffle view is src/unnamed/part_003's neffShuffleTrusteeView.  Cipher  *)
(* are left out: a cipher is the round it belongs to (module DCNet covers  *)
(* what the bytes decode to).                                              *)
(***************************************************************************)
EXTENDS Integers, Sequences, FiniteSets

CONSTANTS
    NClients, NTrustees,
    WindowSize,
    TrusteeCacheLowBound, TrusteeCacheHighBound,
    ExperimentRoundLimit,   \* -1: no limit
    DisruptionProtectionEnabled,
    UseOpenClosedSlots,
    OpenClosedPeriod,       \* rounds between open/closed requests
    MaxRound                \* model bound: no round above MaxRound is opened
                            \* or streamed by a trustee

ASSUME NClients >= 1 /\ NTrustees >= 1 /\ WindowSize >= 1 /\ MaxRound >= 1
ASSUME TrusteeCacheLowBound \in Nat /\ TrusteeCacheHighBound \in Nat
ASSUME ExperimentRoundLimit \in {-1} \cup Nat
ASSUME DisruptionProtectionEnabled \in BOOLEAN /\ UseOpenClosedSlots \in BOOLEAN
ASSUME OpenClosedPeriod \in Nat \ {0}

Clients == 0..NClients-1
Trustees == 0..NTrustees-1
Rounds == 0..MaxRound

VARIABLES
    rstate,                 \* relay stateMachine state
    nTrusteesPkCollected, nClientsPkCollected, nVkeysCollected,
    transcript,             \* neffShuffle: the shares received, in order
    sigs,                   \* neffShuffle: <<trustee, share it signed>> received
    nonAcked,               \* numberOfNonAckedDownstreamPackets
    nextRoundToOpen,        \* round manager: next round id OpenNextRound returns
    lastRoundClosed,        \* round manager: last round CloseRound closed
    cliBuf, truBuf,         \* round manager: buffered client/trustee ciphers
    ocReq,                  \* OpenClosedSlotsRequestsRoundID: rounds flagged
    echoLast,               \* BEchoFlags[lastRoundClosed] = 1, the only entry
                            \* downstreamPhase1 reads
    lastMsg,                \* LastMessageOfClients: rounds whose upstream is kept
    c2r, t2r, r2c, r2t,     \* FIFO channels client->relay, trustee->relay, ...
    cstate, lastDown,       \* client state, last downstream round received
    tstate, tNext, tCap,    \* trustee state, next round to stream, window capacity
    tShares                 \* neffShuffleTrusteeView.Shares (<<>>: nil)

relayVars == <<rstate, nTrusteesPkCollected, nClientsPkCollected, nVkeysCollected,
               transcript, sigs, nonAcked, nextRoundToOpen, lastRoundClosed,
               cliBuf, truBuf, ocReq, echoLast, lastMsg>>
echoVars == <<ocReq, echoLast, lastMsg>>
netVars == <<c2r, t2r, r2c, r2t>>
peerVars == <<cstate, lastDown, tstate, tNext, tCap, tShares>>
vars == <<relayVars, netVars, peerVars>>

Msg(t) == [type |-> t]
RMsg(t, r) == [type |-> t, round |-> r]
RateMsg(k) == [type |-> "REL_TRU_TELL_RATE_CHANGE", cap |-> k]

\* Append m to the channel of every peer in S.
SendAll(ch, S, m) == [p \in DOMAIN ch |-> IF p \in S THEN Append(ch[p], m) ELSE ch[p]]

\* A handler consumes the head of a peer's channel.
Recv(ch, p, t) == ch[p] # <<>> /\ Head(ch[p]).type = t
Pop(ch, p) == [ch EXCEPT ![p] = Tail(@)]

(***************************************************************************)
(* Round manager (BufferableRoundManager, spec 4.5).  Rounds are opened in *)
(* order and closed in order, so the open rounds are                       *)
(* lastRoundClosed+1 .. nextRoundToOpen-1 and the current round is the     *)
(* lowest of them.                                                         *)
(***************************************************************************)
CurrentRound == lastRoundClosed + 1
RoundOpened == CurrentRound < nextRoundToOpen
OpenRounds == CurrentRound..(nextRoundToOpen - 1)

\* Number of ciphers of trustee j buffered ahead of the current round.
TrusteeCount(tb, j) == Cardinality({r \in Rounds : j \in tb[r]})

\* A cipher for a round already closed is dropped.
AddCipher(buf, r, p) == IF r <= lastRoundClosed THEN buf
                        ELSE [buf EXCEPT ![r] = @ \cup {p}]

HasAllCiphersForCurrentRound(cb, tb) ==
    /\ RoundOpened
    /\ cb[CurrentRound] = Clients
    /\ tb[CurrentRound] = Trustees

\* The rate limiter: stopFn when a trustee has more than HighBound ciphers
\* buffered, resumeFn when it has fewer than LowBound.
\* Seeded fault: resumeFn restoring the full window instead of capacity 1.
MutResumeMsgsFullWindow(ch, tb) ==
    [k \in Trustees |-> IF TrusteeCount(tb, k) < TrusteeCacheLowBound
                        THEN Append(ch[k], RateMsg(WindowSize)) ELSE ch[k]]

\* Seeded fault: resumeFn copied from stopFn, sending capacity 0.
MutResumeMsgsCopyStop(ch, tb) ==
    [k \in Trustees |-> IF TrusteeCount(tb, k) < TrusteeCacheLowBound
                        THEN Append(ch[k], RateMsg(0)) ELSE ch[k]]

\* Seeded fault: stopFn decided on the count before the cipher is added.
MutStopMsgsBeforeAdd(ch, tb, j) ==
    IF TrusteeCount(truBuf, j) > TrusteeCacheHighBound
    THEN [ch EXCEPT ![j] = Append(@, RateMsg(0))] ELSE ch

StopMsgs(ch, tb, j) ==
    IF TrusteeCount(tb, j) > TrusteeCacheHighBound
    THEN [ch EXCEPT ![j] = Append(@, RateMsg(0))] ELSE ch
ResumeMsgs(ch, tb) ==
    [k \in Trustees |-> IF TrusteeCount(tb, k) < TrusteeCacheLowBound
                        THEN Append(ch[k], RateMsg(1)) ELSE ch[k]]

(***************************************************************************)
(* Downstream cells.  downstreamPhase1_openRoundAndSendData flags the      *)
(* round for an open/closed request when the round manager says so (spec   *)
(* 4.4: every OpenClosedPeriod rounds; the round manager is not under     *)
(* src/), and with disruption protection, if BEchoFlags[lastRoundClosed]   *)
(* is 1, replaces the content by LastMessageOfClients[lastRoundClosed -    *)
(* nClients], nil when that entry is missing.  A cell records the round    *)
(* it retransmits and whether the entry was there.                         *)
(***************************************************************************)
NoEcho == [on |-> FALSE, of |-> 0, found |-> FALSE]
OpenClosedRequest(r) == UseOpenClosedSlots /\ r % OpenClosedPeriod = 0

Cell(r, echo) == [type |-> "REL_CLI_DOWNSTREAM_DATA", round |-> r,
                  oc |-> OpenClosedRequest(r), echo |-> echo]

EchoContent(closed, echo, kept) ==
    IF DisruptionProtectionEnabled /\ echo
    THEN [on |-> TRUE, of |-> closed - NClients, found |-> closed - NClients \in kept]
    ELSE NoEcho

(***************************************************************************)
(* Seeded faults, each a plausible slip in the code below; every property *)
(* of the round pipeline is expected to catch one of them.                 *)
(***************************************************************************)
MutCloseRoundAll == lastRoundClosed' = nextRoundToOpen - 1
MutDownstreamCellsAfterOpen(n, echo) ==
    [k \in 1..n |-> Cell(nextRoundToOpen + k, echo)]

\* CollectRoundData takes the current round's ciphers out of the buffers;
\* the rate limiter then resumes every trustee with fewer than LowBound left.
CollectResume(tch, tb) == ResumeMsgs(tch, [tb EXCEPT ![CurrentRound] = {}])

\* upstreamPhase3_finalizeRound: numberOfNonAckedDownstreamPackets--.
FinalizeNonAcked == nonAcked - 1

\* CloseRound: the current round becomes the last closed one.
CloseRound == lastRoundClosed' = CurrentRound

\* Seeded fault: the history cleanup keeps only rounds after `earliest`.
MutCleanHistoryInclusive(kept, closed) == {k \in kept : k > closed - NClients}

\* finalizeRound's cleanup after CloseRound: every LastMessageOfClients
\* entry older than lastRoundClosed - nClients is deleted.
CleanHistory(kept, closed) == {k \in kept : k >= closed - NClients}

\* The downstream cells downstreamPhase1_openRoundAndSendData sends for the
\* next n rounds: each takes NextRoundToOpen() before OpenNextRound().
DownstreamCells(n, echo) ==
    [k \in 1..n |-> Cell(nextRoundToOpen + k - 1, echo)]

\* Received_ALL_ALL_SHUTDOWN: the shutdown message to every peer in S.
ShutdownToAll(ch, S) == SendAll(ch, S, Msg("ALL_ALL_SHUTDOWN"))

\* upstreamPhase3_finalizeRound compares the round it closes with
\* ExperimentRoundLimit, before CloseRound, and shuts everybody down.
ExperimentLimitReached == CurrentRound = ExperimentRoundLimit

\* Seeded fault: sendMany run before finalizeRound's decrement, so it
\* reads the counter with the closed round still in it.
MutSendManyCountStale(nonAcked1) ==
    LET want == WindowSize - (nonAcked1 + 1)
        room == MaxRound + 1 - nextRoundToOpen
    IN  IF want < room THEN want ELSE room

\* downstreamPhase_sendMany: `for i := nonAcked; i < WindowSize; i++` opens
\* one round per iteration; MaxRound (the model bound) caps the rounds opened.
SendManyCount(nonAcked1) ==
    LET want == WindowSize - nonAcked1
        room == MaxRound + 1 - nextRoundToOpen
    IN  IF want < room THEN want ELSE room

(***************************************************************************)
(* upstreamPhase2b_extractPayload with disruption protection: the owner's *)
(* plaintext starts with b_echo_last (kind "echo" or "blame" for 1,       *)
(* "plain" for 0), stored in BEchoFlags; an open/closed round stores no    *)
(* flag, which reads as 0.  The plaintext (or, with equivocation           *)
(* protection, the ciphertext) is kept in LastMessageOfClients.  A BLAME   *)
(* request broadcasts REL_ALL_DISRUPTION_REVEAL for round                  *)
(* previousRound - nClients to every client and trustee.                   *)
(***************************************************************************)
PayloadKinds == {"plain", "echo", "blame"}
RevealMsg(roundID) == RMsg("REL_ALL_DISRUPTION_REVEAL", roundID - 2 * NClients)
EchoFlag(kind) == kind # "plain"
Blames(roundID, kind) == DisruptionProtectionEnabled /\ kind = "blame"

\* upstreamPhase2a_extractOCMap: the bitmaps decode to the next schedule
\* (data not kept here); no BEchoFlags or LastMessageOfClients entry.
ExtractOCMap == [echo |-> FALSE, blame |-> FALSE, kept |-> lastMsg]

\* upstreamPhase2b_extractPayload for a payload of the given kind.
ExtractPayload(roundID, kind) ==
    [echo  |-> DisruptionProtectionEnabled /\ EchoFlag(kind),
     blame |-> Blames(roundID, kind),
     kept  |-> IF DisruptionProtectionEnabled THEN lastMsg \cup {roundID} ELSE lastMsg]

(***************************************************************************)
(* upstreamPhase1_processCiphers, once every cipher of the current round   *)
(* is there: CollectRoundData (with the rate limiter's resume), then       *)
(* upstreamPhase2a_extractOCMap for a round flagged as an open/closed      *)
(* request (the schedule is data this module does not keep) or            *)
(* upstreamPhase2b_extractPayload, upstreamPhase3_finalizeRound (which may *)
(* hit the experiment round limit and run Received_ALL_ALL_SHUTDOWN, then *)
(* CloseRound and the history cleanup), and downstreamPhase_sendMany,     *)
(* which opens rounds and sends their downstream cell until WindowSize     *)
(* rounds are unacknowledged.                                              *)
(***************************************************************************)
ProcessRound(cb, tb, tch) ==
    LET roundID == CurrentRound
        nonAcked1 == FinalizeNonAcked
        nOpen == SendManyCount(nonAcked1)
        tch1 == CollectResume(tch, tb)
        isOCRound == roundID \in ocReq
    IN  \E kind \in IF isOCRound \/ ~DisruptionProtectionEnabled THEN {"plain"} ELSE PayloadKinds :
        LET up == IF isOCRound THEN ExtractOCMap ELSE ExtractPayload(roundID, kind)
            blame == up.blame
            echo == up.echo
            kept == CleanHistory(up.kept, roundID)
            tch2 == IF blame THEN SendAll(tch1, Trustees, RevealMsg(roundID)) ELSE tch1
            cch2 == IF blame THEN SendAll(r2c, Clients, RevealMsg(roundID)) ELSE r2c
            cells == DownstreamCells(nOpen, EchoContent(roundID, echo, kept))
        IN  /\ cliBuf' = [cb EXCEPT ![roundID] = {}]
            /\ truBuf' = [tb EXCEPT ![roundID] = {}]
            /\ echoLast' = echo
            /\ CloseRound
            /\ lastMsg' = kept
            /\ rstate' = IF ExperimentLimitReached THEN "SHUTDOWN" ELSE rstate
            /\ r2t' = IF ExperimentLimitReached THEN ShutdownToAll(tch2, Trustees) ELSE tch2
            /\ r2c' = LET c1 == IF ExperimentLimitReached THEN ShutdownToAll(cch2, Clients) ELSE cch2
                      IN  [i \in Clients |-> c1[i] \o cells]
            /\ ocReq' = ocReq \cup {cells[k].round : k \in {k \in 1..nOpen : cells[k].oc}}
            /\ nextRoundToOpen' = nextRoundToOpen + nOpen
            /\ nonAcked' = nonAcked1 + nOpen

\* Common tail of the three cipher handlers.
AfterCipher(cb, tb, tch) ==
    IF HasAllCiphersForCurrentRound(cb, tb)
    THEN ProcessRound(cb, tb, tch)
    ELSE /\ cliBuf' = cb /\ truBuf' = tb /\ r2t' = tch
         /\ UNCHANGED <<rstate, lastRoundClosed, nextRoundToOpen, nonAcked, r2c, echoVars>>

Received_CLI_REL_UPSTREAM_DATA(i) ==
    /\ rstate = "COMMUNICATING"
    /\ c2r[i] # <<>> /\ Head(c2r[i]).type = "CLI_REL_UPSTREAM_DATA"
    /\ c2r' = [c2r EXCEPT ![i] = Tail(@)]
    /\ AfterCipher(AddCipher(cliBuf, Head(c2r[i]).round, i), truBuf, r2t)
    /\ UNCHANGED <<nTrusteesPkCollected, nClientsPkCollected, nVkeysCollected,
                   transcript, sigs, t2r, peerVars>>

\* Received_CLI_REL_OPENCLOSED_DATA: a client's bitmap for an open/closed
\* request round is buffered like a cipher.
Received_CLI_REL_OPENCLOSED_DATA(i) ==
    /\ rstate = "COMMUNICATING"
    /\ Recv(c2r, i, "CLI_REL_OPENCLOSED_DATA")
    /\ c2r' = Pop(c2r, i)
    /\ AfterCipher(AddCipher(cliBuf, Head(c2r[i]).round, i), truBuf, r2t)
    /\ UNCHANGED <<nTrusteesPkCollected, nClientsPkCollected, nVkeysCollected,
                   transcript, sigs, t2r, peerVars>>

\* A trustee streams from the moment it has signed, so its first ciphers can
\* arrive while other signatures are still awaited; the relay has prepared
\* the round manager and DecodeStart(0) for them and buffers them.
Received_TRU_REL_DC_CIPHER(j) ==
    /\ rstate \in {"COLLECTING_SHUFFLE_SIGNATURES", "COMMUNICATING"}
    /\ t2r[j] # <<>> /\ Head(t2r[j]).type = "TRU_REL_DC_CIPHER"
    /\ t2r' = [t2r EXCEPT ![j] = Tail(@)]
    /\ LET tb == AddCipher(truBuf, Head(t2r[j]).round, j)
       IN  AfterCipher(cliBuf, tb, StopMsgs(r2t, tb, j))
    /\ UNCHANGED <<nTrusteesPkCollected, nClientsPkCollected, nVkeysCollected,
                   transcript, sigs, c2r, peerVars>>

(***************************************************************************)
(* Received_ALL_ALL_PARAMETERS with StartNow: reset the counters, a fresh *)
(* round manager and rate limiter, numberOfNonAckedDownstreamPackets = 0,  *)
(* then BroadcastParameters to every trustee.  The orchestrator sends it   *)
(* once, to a relay in IDLE.                                               *)
(***************************************************************************)
Received_ALL_ALL_PARAMETERS ==
    /\ rstate = "IDLE"
    /\ rstate' = "COLLECTING_TRUSTEES_PKS"
    /\ nTrusteesPkCollected' = 0 /\ nClientsPkCollected' = 0 /\ nVkeysCollected' = 0
    /\ nonAcked' = 0
    /\ nextRoundToOpen' = 0 /\ lastRoundClosed' = -1
    /\ cliBuf' = [r \in Rounds |-> {}] /\ truBuf' = [r \in Rounds |-> {}]
    /\ ocReq' = {} /\ echoLast' = FALSE /\ lastMsg' = {}
    /\ r2t' = SendAll(r2t, Trustees, Msg("ALL_ALL_PARAMETERS"))
    /\ UNCHANGED <<transcript, sigs, c2r, t2r, r2c, peerVars>>


(***************************************************************************)
(* Received_ALL_ALL_SHUTDOWN on a shutdown from outside (spec 4.6,         *)
(* "Shutdown received"): SHUTDOWN, and the shutdown to every trustee, then *)
(* to every client.  Nothing else is reset; later messages find the relay *)
(* in SHUTDOWN, which handles none.                                        *)
(***************************************************************************)
Received_ALL_ALL_SHUTDOWN ==
    /\ rstate \notin {"IDLE", "SHUTDOWN"}
    /\ rstate' = "SHUTDOWN"
    /\ r2t' = ShutdownToAll(r2t, Trustees)
    /\ r2c' = ShutdownToAll(r2c, Clients)
    /\ UNCHANGED <<nTrusteesPkCollected, nClientsPkCollected, nVkeysCollected,
                   transcript, sigs, nonAcked, nextRoundToOpen, lastRoundClosed,
                   cliBuf, truBuf, echoVars, c2r, t2r, peerVars>>

Received_TRU_REL_TELL_PK(j) ==
    /\ rstate = "COLLECTING_TRUSTEES_PKS"
    /\ Recv(t2r, j, "TRU_REL_TELL_PK")
    /\ t2r' = Pop(t2r, j)
    /\ nTrusteesPkCollected' = nTrusteesPkCollected + 1
    /\ IF nTrusteesPkCollected + 1 = NTrustees
       THEN /\ r2c' = SendAll(r2c, Clients, Msg("ALL_ALL_PARAMETERS"))
            /\ rstate' = "COLLECTING_CLIENT_PKS"
       ELSE UNCHANGED <<r2c, rstate>>
    /\ UNCHANGED <<nClientsPkCollected, nVkeysCollected, transcript, sigs, nonAcked,
                   nextRoundToOpen, lastRoundClosed, cliBuf, truBuf, c2r, r2t, peerVars, echoVars>>

\* The neffShuffle coordinator sends the shuffle state to the trustees in
\* order 0..NTrustees-1 (SendToNextTrustee).
\* A share s_j = c_(j-1) * ... * c_0 is the sequence of the trustees whose
\* coefficient it carries; the keys transformed with it are left out.
ShuffleRequest(base) == [type |-> "REL_TRU_TELL_CLIENTS_PKS_AND_EPH_PKS_AND_BASE", base |-> base]
TranscriptMsg(t) == [type |-> "REL_TRU_TELL_TRANSCRIPT", shares |-> t]

Received_CLI_REL_TELL_PK_AND_EPH_PK(i) ==
    /\ rstate = "COLLECTING_CLIENT_PKS"
    /\ Recv(c2r, i, "CLI_REL_TELL_PK_AND_EPH_PK")
    /\ c2r' = Pop(c2r, i)
    /\ nClientsPkCollected' = nClientsPkCollected + 1
    /\ IF nClientsPkCollected + 1 = NClients
       THEN /\ transcript' = <<>> /\ sigs' = {}
            /\ r2t' = [r2t EXCEPT ![0] = Append(@, ShuffleRequest(<<>>))]
            /\ rstate' = "COLLECTING_SHUFFLES"
       ELSE UNCHANGED <<transcript, sigs, r2t, rstate>>
    /\ UNCHANGED <<nTrusteesPkCollected, nVkeysCollected, nonAcked, nextRoundToOpen,
                   lastRoundClosed, cliBuf, truBuf, t2r, r2c, peerVars, echoVars>>

\* VerifiableDCNetKeys[nVkeysCollected] is written before the increment; the
\* slice has NTrustees entries, so a shuffle beyond the NTrustees-th panics.
Received_TRU_REL_TELL_NEW_BASE_AND_EPH_PKS(j) ==
    /\ rstate = "COLLECTING_SHUFFLES"
    /\ Recv(t2r, j, "TRU_REL_TELL_NEW_BASE_AND_EPH_PKS")
    /\ nVkeysCollected < NTrustees
    /\ t2r' = Pop(t2r, j)
    /\ nVkeysCollected' = nVkeysCollected + 1
    /\ transcript' = Append(transcript, Head(t2r[j]).base)
    /\ IF Len(transcript) + 1 < NTrustees
       THEN /\ r2t' = [r2t EXCEPT ![Len(transcript) + 1] =
                          Append(@, ShuffleRequest(Head(t2r[j]).base))]
            /\ UNCHANGED rstate
       ELSE /\ r2t' = SendAll(r2t, Trustees, TranscriptMsg(transcript'))
            /\ rstate' = "COLLECTING_SHUFFLE_SIGNATURES"
    /\ UNCHANGED <<nTrusteesPkCollected, nClientsPkCollected, sigs, nonAcked,
                   nextRoundToOpen, lastRoundClosed, cliBuf, truBuf, c2r, r2c, peerVars, echoVars>>

\* ReceivedSignatureFromTrustee stores the signature; once every trustee
\* has signed, VerifySigsAndSendToClients checks each against the final
\* share (spec 4.3 step 7), and the handler returns its error unchanged.
Signers(S) == {s[1] : s \in S}
SigsVerify(S) == \A s \in S : s[2] = transcript[Len(transcript)]

\* On the last valid signature: OpenNextRound (round 0), COMMUNICATING, the
\* signed shuffle to every client, numberOfNonAckedDownstreamPackets = 1.
Received_TRU_REL_SHUFFLE_SIG(j) ==
    /\ rstate = "COLLECTING_SHUFFLE_SIGNATURES"
    /\ Recv(t2r, j, "TRU_REL_SHUFFLE_SIG")
    /\ t2r' = Pop(t2r, j)
    /\ sigs' = sigs \cup {<<j, Head(t2r[j]).blob>>}
    /\ IF Signers(sigs') = Trustees /\ SigsVerify(sigs')
       THEN /\ nextRoundToOpen' = nextRoundToOpen + 1
            /\ rstate' = "COMMUNICATING"
            /\ r2c' = SendAll(r2c, Clients, Msg("REL_CLI_TELL_EPH_PKS_AND_TRUSTEES_SIG"))
            /\ nonAcked' = 1
       ELSE UNCHANGED <<nextRoundToOpen, rstate, r2c, nonAcked>>
    /\ UNCHANGED <<nTrusteesPkCollected, nClientsPkCollected, nVkeysCollected,
                   transcript, lastRoundClosed, cliBuf, truBuf, c2r, r2t, peerVars, echoVars>>

(***************************************************************************)
(* neffShuffleTrusteeView (src/unnamed/part_003), called by the trustee   *)
(* on the relay's shuffle request and transcript.  A share is the list of *)
(* the trustees whose fresh coefficient it carries: trustee j's c_j is j. *)
(* Proofs are the same 50 zero bytes for every trustee (the proof is not  *)
(* computed), and the keys follow the shares, so a transcript entry is    *)
(* its share.                                                              *)
(***************************************************************************)
\* ReceivedShuffleFromRelay: s_(j+1) = s_j * c_j is stored as t.Shares and
\* sent back with the transformed keys.
ReceivedShuffleFromRelay(j, lastShares) ==
    LET newShares == Append(lastShares, j)
    IN  /\ tShares' = [tShares EXCEPT ![j] = newShares]
        /\ t2r' = [t2r EXCEPT ![j] = Append(@, [type |-> "TRU_REL_TELL_NEW_BASE_AND_EPH_PKS",
                                                  base |-> newShares])]
        /\ UNCHANGED <<tstate, tNext, tCap>>

\* Seeded fault: the blob signed is the first permutation, not the last.
MutSignFirstPerm(shares) == shares[1]

\* The blob a trustee signs: shares[lastPerm], lastPerm = nTrustees - 1.
SignedBlob(shares) == shares[Len(shares)]

\* ReceivedTranscriptFromRelay: no stored base is an error; every pair
\* shuffle then counts as verified (`verify = true`, whatever HashVerify
\* said); the trustee's own share must appear in the transcript, else an
\* error; then it signs the last share and starts streaming.  An error is
\* returned to the trustee's loop: no answer, no state change.
ReceivedTranscriptFromRelay(j, shares) ==
    IF tShares[j] # <<>> /\ \E k \in 1..Len(shares) : shares[k] = tShares[j]
    THEN /\ t2r' = [t2r EXCEPT ![j] = Append(@, [type |-> "TRU_REL_SHUFFLE_SIG",
                                                  blob |-> SignedBlob(shares)])]
         /\ tstate' = [tstate EXCEPT ![j] = "STREAMING"]
         /\ tCap' = [tCap EXCEPT ![j] = 1]
         /\ UNCHANGED <<tNext, tShares>>
    ELSE UNCHANGED <<t2r, tstate, tNext, tCap, tShares>>

(***************************************************************************)
(* Trustees (spec 4.8; the trustee code is not under src/).  A trustee     *)
(* answers the relay's setup messages, then streams one cipher per round   *)
(* while its window capacity is positive, and obeys RATE_CHANGE.           *)
(***************************************************************************)
TrusteeReceive(j) ==
    /\ tstate[j] # "SHUTDOWN"
    /\ r2t[j] # <<>>
    /\ r2t' = Pop(r2t, j)
    /\ LET m == Head(r2t[j])
           reply(t) == t2r' = [t2r EXCEPT ![j] = Append(@, Msg(t))]
       IN  CASE m.type = "ALL_ALL_PARAMETERS" ->
                    reply("TRU_REL_TELL_PK") /\ UNCHANGED <<tstate, tNext, tCap, tShares>>
             [] m.type = "REL_TRU_TELL_CLIENTS_PKS_AND_EPH_PKS_AND_BASE" ->
                    ReceivedShuffleFromRelay(j, m.base)
             [] m.type = "REL_TRU_TELL_TRANSCRIPT" ->
                    ReceivedTranscriptFromRelay(j, m.shares)
             [] m.type = "REL_TRU_TELL_RATE_CHANGE" ->
                    tCap' = [tCap EXCEPT ![j] = m.cap] /\ UNCHANGED <<t2r, tstate, tNext, tShares>>
             [] m.type = "ALL_ALL_SHUTDOWN" ->
                    tstate' = [tstate EXCEPT ![j] = "SHUTDOWN"] /\ UNCHANGED <<t2r, tNext, tCap, tShares>>
             [] m.type = "REL_ALL_DISRUPTION_REVEAL" ->
                    UNCHANGED <<t2r, tstate, tNext, tCap, tShares>>
    /\ UNCHANGED <<relayVars, c2r, r2c, cstate, lastDown>>

TrusteeSendCipher(j) ==
    /\ tstate[j] = "STREAMING" /\ tCap[j] > 0
    /\ tNext[j] <= MaxRound
    /\ t2r' = [t2r EXCEPT ![j] = Append(@, RMsg("TRU_REL_DC_CIPHER", tNext[j]))]
    /\ tNext' = [tNext EXCEPT ![j] = @ + 1]
    /\ UNCHANGED <<relayVars, c2r, r2c, r2t, cstate, lastDown, tstate, tCap, tShares>>

(***************************************************************************)
(* Clients (spec 4.7; the client code is not under src/).  A client sends  *)
(* its keys on the parameters, its round-0 cipher on the signed shuffle,   *)
(* and one upstream cipher for every downstream cell it receives.          *)
(***************************************************************************)
ClientReceive(i) ==
    /\ cstate[i] # "SHUTDOWN"
    /\ r2c[i] # <<>>
    /\ r2c' = Pop(r2c, i)
    /\ LET m == Head(r2c[i])
           send(msg) == c2r' = [c2r EXCEPT ![i] = Append(@, msg)]
       IN  CASE m.type = "ALL_ALL_PARAMETERS" ->
                    /\ send(Msg("CLI_REL_TELL_PK_AND_EPH_PK"))
                    /\ cstate' = [cstate EXCEPT ![i] = "EPH_KEYS_SENT"]
                    /\ UNCHANGED lastDown
             [] m.type = "REL_CLI_TELL_EPH_PKS_AND_TRUSTEES_SIG" ->
                    /\ send(RMsg("CLI_REL_UPSTREAM_DATA", 0))
                    /\ cstate' = [cstate EXCEPT ![i] = "COMMUNICATING"]
                    /\ lastDown' = [lastDown EXCEPT ![i] = 0]
             [] m.type = "REL_CLI_DOWNSTREAM_DATA" ->
                    /\ send(RMsg(IF m.oc THEN "CLI_REL_OPENCLOSED_DATA"
                                           ELSE "CLI_REL_UPSTREAM_DATA", m.round))
                    /\ lastDown' = [lastDown EXCEPT ![i] = m.round]
                    /\ UNCHANGED cstate
             [] m.type = "ALL_ALL_SHUTDOWN" ->
                    /\ cstate' = [cstate EXCEPT ![i] = "SHUTDOWN"]
                    /\ UNCHANGED <<c2r, lastDown>>
             [] m.type = "REL_ALL_DISRUPTION_REVEAL" ->
                    UNCHANGED <<c2r, cstate, lastDown>>
    /\ UNCHANGED <<relayVars, t2r, r2t, tstate, tNext, tCap, tShares>>

(***************************************************************************)
(* The system stops when the relay has shut down or every round up to the  *)
(* model bound is closed.                                                  *)
(***************************************************************************)
Terminated ==
    /\ rstate = "SHUTDOWN" \/ lastRoundClosed = MaxRound
    /\ UNCHANGED vars

Init ==
    /\ rstate = "IDLE"
    /\ nTrusteesPkCollected = 0 /\ nClientsPkCollected = 0 /\ nVkeysCollected = 0
    /\ transcript = <<>> /\ sigs = {}
    /\ nonAcked = 0 /\ nextRoundToOpen = 0 /\ lastRoundClosed = -1
    /\ cliBuf = [r \in Rounds |-> {}] /\ truBuf = [r \in Rounds |-> {}]
    /\ ocReq = {} /\ echoLast = FALSE /\ lastMsg = {}
    /\ c2r = [i \in Clients |-> <<>>] /\ r2c = [i \in Clients |-> <<>>]
    /\ t2r = [j \in Trustees |-> <<>>] /\ r2t = [j \in Trustees |-> <<>>]
    /\ cstate = [i \in Clients |-> "IDLE"] /\ lastDown = [i \in Clients |-> -1]
    /\ tstate = [j \in Trustees |-> "IDLE"] /\ tNext = [j \in Trustees |-> 0]
    /\ tCap = [j \in Trustees |-> 0] /\ tShares = [j \in Trustees |-> <<>>]

RelayStep ==
    \/ Received_ALL_ALL_PARAMETERS
    \/ Received_ALL_ALL_SHUTDOWN
    \/ \E j \in Trustees : \/ Received_TRU_REL_TELL_PK(j)
                           \/ Received_TRU_REL_TELL_NEW_BASE_AND_EPH_PKS(j)
                           \/ Received_TRU_REL_SHUFFLE_SIG(j)
                           \/ Received_TRU_REL_DC_CIPHER(j)
    \/ \E i \in Clients : \/ Received_CLI_REL_TELL_PK_AND_EPH_PK(i)
                          \/ Received_CLI_REL_UPSTREAM_DATA(i)
                          \/ Received_CLI_REL_OPENCLOSED_DATA(i)

Next ==
    \/ RelayStep
    \/ \E j \in Trustees : TrusteeReceive(j) \/ TrusteeSendCipher(j)
    \/ \E i \in Clients : ClientReceive(i)
    \/ Terminated

(***************************************************************************)
(* Fairness.  Each role runs its own event loop, and the transport        *)
(* delivers every message of every peer in order, so every handler that   *)
(* stays enabled runs: weak fairness per handler and per peer.            *)
(***************************************************************************)
Fairness ==
    /\ WF_vars(Received_ALL_ALL_PARAMETERS)
    /\ \A j \in Trustees :
          /\ WF_vars(Received_TRU_REL_TELL_PK(j))
          /\ WF_vars(Received_TRU_REL_TELL_NEW_BASE_AND_EPH_PKS(j))
          /\ WF_vars(Received_TRU_REL_SHUFFLE_SIG(j))
          /\ WF_vars(Received_TRU_REL_DC_CIPHER(j))
          /\ WF_vars(TrusteeReceive(j)) /\ WF_vars(TrusteeSendCipher(j))
    /\ \A i \in Clients :
          /\ WF_vars(Received_CLI_REL_TELL_PK_AND_EPH_PK(i))
          /\ WF_vars(Received_CLI_REL_UPSTREAM_DATA(i))
          /\ WF_vars(Received_CLI_REL_OPENCLOSED_DATA(i))
          /\ WF_vars(ClientReceive(i))

Spec == Init /\ [][Next]_vars
FairSpec == Spec /\ Fairness

(***************************************************************************)
(* Properties.                                                             *)
(***************************************************************************)
RStates == {"IDLE", "COLLECTING_TRUSTEES_PKS", "COLLECTING_CLIENT_PKS",
            "COLLECTING_SHUFFLES", "COLLECTING_SHUFFLE_SIGNATURES",
            "COMMUNICATING", "SHUTDOWN"}

TypeOK ==
    /\ rstate \in RStates
    /\ nonAcked \in Int
    /\ nextRoundToOpen \in 0..MaxRound+1 /\ lastRoundClosed \in -1..MaxRound
    /\ cliBuf \in [Rounds -> SUBSET Clients] /\ truBuf \in [Rounds -> SUBSET Trustees]
    /\ sigs \subseteq Trustees \X Seq(Trustees) /\ transcript \in Seq(Seq(Trustees))
    /\ Len(transcript) <= NTrustees /\ tShares \in [Trustees -> Seq(Trustees)]
    /\ tCap \in [Trustees -> {0, 1}] /\ tNext \in [Trustees -> 0..MaxRound+1]
    /\ lastDown \in [Clients -> -1..MaxRound]
    /\ ocReq \subseteq Rounds /\ echoLast \in BOOLEAN /\ lastMsg \subseteq Rounds

(* The window (spec 3, "numberOfNonAckedDownstreamPackets in [0,          *)
(* windowSize]"): the relay's counter, decremented in                      *)
(* upstreamPhase3_finalizeRound, incremented per downstream cell and set  *)
(* to 1 on entering COMMUNICATING, always equals the number of rounds the *)
(* round manager holds open, and never exceeds WindowSize.                 *)
WindowAccounting ==
    /\ nonAcked = Cardinality(OpenRounds)
    /\ nonAcked <= WindowSize

(* Every client receives downstream cells for rounds 1, 2, 3, ... in       *)
(* order, each once and none skipped: the rounds of the cells queued to a *)
(* client continue the last one it processed.  A repeated or older round   *)
(* makes the client's EncodeForRound panic; a gap makes it consume pads.   *)
DownstreamConsecutive ==
    \A i \in Clients :
        LET downs == SelectSeq(r2c[i], LAMBDA m : m.type = "REL_CLI_DOWNSTREAM_DATA")
        IN  \A k \in 1..Len(downs) : downs[k].round = lastDown[i] + k

(* The disruption echo (spec 4.7 step 5): when the owner of the round just *)
(* closed set b_echo_last, each downstream cell downstreamPhase1 sends     *)
(* retransmits LastMessageOfClients[lastRoundClosed - nClients].  That     *)
(* entry is written by upstreamPhase2b, and finalizeRound's cleanup,       *)
(* which runs between the write and the lookup, must not have deleted it:  *)
(* every retransmission of a payload round finds the message.              *)
EchoFindsKeptMessage ==
    \A i \in Clients : \A k \in 1..Len(r2c[i]) :
        LET m == r2c[i][k]
        IN  m.type = "REL_CLI_DOWNSTREAM_DATA" /\ m.echo.on
            /\ m.echo.of >= 0 /\ m.echo.of \notin ocReq
                => m.echo.found

(* The Neff-shuffle transcript (spec 4.3 steps 4-7): the relay chains   *)
(* each trustee's answer to the next trustee, and ReceivedTranscript-     *)
(* FromRelay signs the last share.  So entry k of the relay's transcript  *)
(* carries the coefficients of trustees 0..k-1, each once and in order,   *)
(* and every signature the relay holds is over the final share, the one   *)
(* sent to the clients.  A wrong chaining index, a trustee shuffling an   *)
(* old base, or a trustee signing another permutation breaks it.          *)
ShuffleChain(k) == [i \in 1..k |-> i - 1]
ShuffleTranscriptSound ==
    /\ \A k \in 1..Len(transcript) : transcript[k] = ShuffleChain(k)
    /\ \A s \in sigs : s[2] = ShuffleChain(NTrustees)

(* The rate limiter's messages are asynchronous: stopFn is queued when an *)
(* added cipher takes a trustee above HighBound, resumeFn when            *)
(* CollectRoundData leaves it below LowBound, and the trustee applies     *)
(* them in queue order.  So the capacity a streaming trustee ends up with, *)
(* once it has read what is queued to it, must match the relay's count:   *)
(* stopped above HighBound, streaming below LowBound.                     *)
PendingCap(j) ==
    LET rates == SelectSeq(r2t[j], LAMBDA m : m.type = "REL_TRU_TELL_RATE_CHANGE")
    IN  IF rates = <<>> THEN tCap[j] ELSE rates[Len(rates)].cap

RateSignalMatchesBuffer ==
    \A j \in Trustees : tstate[j] = "STREAMING" =>
        /\ TrusteeCount(truBuf, j) > TrusteeCacheHighBound => PendingCap(j) = 0
        /\ TrusteeCount(truBuf, j) < TrusteeCacheLowBound => PendingCap(j) = 1

(* Liveness of the pipeline under the rate limiter: once setup starts,    *)
(* the relay eventually closes every round up to the bound or shuts down. *)
(* A trustee stopped by stopFn must be resumed by resumeFn when its       *)
(* buffered ciphers are consumed, or the relay waits on it forever.       *)
AllRoundsComplete ==
    <>(lastRoundClosed = MaxRound \/ rstate = "SHUTDOWN")

(* Received_ALL_ALL_SHUTDOWN ends the session (spec 5: the relay forwards *)
(* shutdown to every peer before exiting): no downstream cell is queued   *)
(* to a client behind the shutdown message.                               *)
NoDownstreamAfterShutdown ==
    \A i \in Clients :
        \A a, b \in 1..Len(r2c[i]) :
            (a < b /\ r2c[i][a].type = "ALL_ALL_SHUTDOWN")
                => r2c[i][b].type # "REL_CLI_DOWNSTREAM_DATA"

(***************************************************************************)
(* Refinement: the relay implements the round pipeline of RoundWindow.    *)
(* The abstract participants are the clients and trustees, tagged; a      *)
(* round the relay has closed counts as complete (the round manager drops *)
(* its buffers and any later cipher for it), an open or future round has  *)
(* the ciphers buffered for it; the session is live until SHUTDOWN.       *)
(***************************************************************************)
Participants == ({"c"} \X Clients) \cup ({"t"} \X Trustees)
Received(r) == IF r <= lastRoundClosed THEN Participants
               ELSE ({"c"} \X cliBuf[r]) \cup ({"t"} \X truBuf[r])

Pipeline == INSTANCE RoundWindow WITH
    W <- WindowSize, StopAfter <- ExperimentRoundLimit,
    nextOpen <- nextRoundToOpen, lastClosed <- lastRoundClosed,
    got <- [r \in Rounds |-> Received(r)],
    live <- rstate # "SHUTDOWN"

(* Rounds open and close in order, a round closes only when open and     *)
(* complete, ExperimentRoundLimit is the last round closed, and every     *)
(* close in upstreamPhase3_finalizeRound is followed by                   *)
(* downstreamPhase_sendMany refilling the window to WindowSize open rounds. *)
RefinesRoundWindow == Pipeline!Spec

=============================================================================
