# TLA+ models of PriFi

This directory holds TLA+ models of the PriFi anonymous-communication
protocol in `src/`, the TLC configurations that check them, and
`PROJECT.json`, which lists the components, runs, seeded faults, source
map, findings and hazards.

## The system

PriFi runs N clients, M trustees and one relay.

- **Setup.** The relay drives it (`src/prifi-lib/relay/relay.go`, spec 4.3 and 4.6):
  1. It sends the parameters to the trustees and collects their public keys.
  2. It sends the parameters and the trustee keys to the clients and collects their keys.
  3. It chains a Neff shuffle through trustees 0..M-1.
  4. It broadcasts the transcript and collects every trustee's signature.
  5. It opens round 0 and enters COMMUNICATING.
- **Rounds.** In COMMUNICATING every client sends one DC-net cipher per round, in answer to a downstream cell. Every trustee streams ciphers ahead of time, rate-limited by `RATE_CHANGE` messages. The round manager buffers ciphers per round. When the current round has every cipher, the relay:
  - decodes the round;
  - finalizes it, which can shut the session down at `ExperimentRoundLimit`;
  - opens new rounds until `WindowSize` downstream cells are unacknowledged.
- **DC-net encoding** (`src/unnamed/part_002`):
  - A client or trustee XORs one keystream block per peer into its cell.
  - The slot owner also embeds its payload, an HMAC and an equivocation mask.
  - The relay XORs all cells together.

Components and how they are covered (details in `PROJECT.json`, "components"):

| Part | Source | Module | Status |
|---|---|---|---|
| DC-net entity | `src/unnamed/part_002` | `DCNet` | modelled |
| Relay state machine and round pipeline | `relay.go` | `Relay` | partly (UDP, timeouts and payload content not modelled) |
| Round pipeline, abstract | spec 3, 4.5 | `RoundWindow` | modelled; `Relay` and `OldRelay` refine it |
| Round manager, Neff-shuffle coordinator, client and trustee state machines | not under `src/` (spec 4.3-4.8) | `Relay` (spec-modelled) | partly |
| Old relay loop | `part_003` 53-645 | `OldRelay` | partly (`prifi.sh` 920-1129 not modelled) |
| Merkle proof tree | `timestamp/proof.go` 28-158 | `Merkle` | partly (MerkleGet not modelled) |
| Old client loop | `proof.go` 260-508 | `OldClient` | partly (key set-up not modelled) |
| Old trustee server, MessageSender | `dissent/trusteeServer.go` | — | not modelled (see Not modelled) |
| Neff-shuffle trustee view | `part_003` 706-850 | `Relay` (`ReceivedShuffleFromRelay`, `ReceivedTranscriptFromRelay`) | modelled (shares symbolic; proofs, keys and the permutation are left out) |
| Parameters, logging, PCAP, marshalling, shell scripts, coco test | various | — | not modelled (I/O, data handling) |

## Modules

### `DCNet.tla`: the DC-net entity

**Abstraction.** Bytes are sets of independent atoms and XOR is `SymDiff`.
- `<<"pad", c, t, k>>` is the k-th block of the keystream shared by client c and trustee t.
- Two blocks cancel only when they are the same block.

**Variables.** Per entity: `currentRound`, `consumed` (blocks drawn from its PRNGs), the cells sent, and what each slot owner embedded. The relay has `decoder` (round, XOR buffer, who was fed) and `decoded`, the cells `DecodeCell` returned.

**Actions.**
- `Encode(e)`: the caller (the client or trustee loop, spec-modelled) asks `EncodeForRound` for its next round. With `SkipRounds` it may ask for any later round, which the code documents as supported.
- `EncodeForRound` keeps the code's skip loop exactly, through `BlocksUsed`: one block is discarded per round from `currentRound` up to r, and there is no increment after encoding.
- `clientEncode` keeps the HMAC computed over the still-nil `c.payload`.
- `DecodeStart`, `DecodeEntity` (DecodeClient/DecodeTrustee) and `DecodeCell` keep the code's return of `d.xorBuffer` when disruption protection is off.
- The equivocation protector is not under `src/`. It is modelled from spec 4.2 as a per-round mask that the owner adds and `RelayDecode` removes.

**Properties.**
- `DecodeCorrect`: every decoded round equals the owner's payload.
- `HmacBindsPayload`: the embedded HMAC is the HMAC of that payload.

### `Relay.tla`: the relay, with its environment

**Variables.**
- The relay's state machine state and setup counters.
- `nonAcked` (`numberOfNonAckedDownstreamPackets`).
- The round manager: `nextRoundToOpen`, `lastRoundClosed`, and per-round cipher buffers `cliBuf`/`truBuf`.
- The disruption and slot state:
  - `ocReq`, the keys of `OpenClosedSlotsRequestsRoundID`;
  - `lastMsg`, the keys of `LastMessageOfClients`;
  - `echoLast`, which is `BEchoFlags[lastRoundClosed] == 1`. `downstreamPhase1` reads BEchoFlags only at `lastRoundClosed`, and that round only grows. Older entries are never read again, so the model does not keep them.
- The Neff shuffle: the relay's `transcript` (the shares received, in order), `sigs` (each trustee with the share it signed), and each trustee's stored share `tShares` (`neffShuffleTrusteeView.Shares`).
- One FIFO channel per direction and peer (`c2r`, `t2r`, `r2c`, `r2t`).
- The client and trustee states.

**Actions.** One per handler in `relay.go`: `Received_ALL_ALL_PARAMETERS`, `Received_TRU_REL_TELL_PK`, `Received_CLI_REL_TELL_PK_AND_EPH_PK`, `Received_TRU_REL_TELL_NEW_BASE_AND_EPH_PKS`, `Received_TRU_REL_SHUFFLE_SIG`, `Received_CLI_REL_UPSTREAM_DATA`, `Received_CLI_REL_OPENCLOSED_DATA`, `Received_TRU_REL_DC_CIPHER`, `Received_ALL_ALL_SHUTDOWN`.
- `Received_ALL_ALL_SHUTDOWN` is the external shutdown (spec 4.6). It forwards SHUTDOWN to every trustee and client. The code has no state guard. The model takes it in every state except IDLE, before any session exists, and SHUTDOWN, where the session has already ended.
- A cipher handler runs the whole chain in one step, as the code does on its single event loop. It adds the cipher to the round manager (with the rate limiter's stop). If the round is then complete, it runs `ProcessRound`, which does the following:
  - CollectRoundData, with the resume.
  - A round flagged as an open/closed request goes to upstreamPhase2a (`ExtractOCMap`). The schedule it computes is data the model does not keep.
  - Any other round goes to upstreamPhase2b (`ExtractPayload`). With disruption protection, the owner's first byte is chosen from `PayloadKinds`: plain, echo, or a BLAME request.
    - The choice sets the flag (`EchoFlag`) and stores the round in `lastMsg`.
    - A BLAME request also broadcasts `REL_ALL_DISRUPTION_REVEAL` for round `roundID - 2*nClients` (`RevealMsg`).
  - finalizeRound: the experiment-limit shutdown (`ExperimentLimitReached`, `ShutdownToAll`), then `CloseRound` and the `LastMessageOfClients` cleanup (`CleanHistory`).
  - sendMany (`SendManyCount`, `DownstreamCells`). Each `Cell` carries:
    - its round;
    - the open/closed flag (`OpenClosedRequest`);
    - after an echo request, the round it retransmits and whether that entry was still there (`EchoContent`).
- Peers are spec-modelled:
  - `TrusteeReceive`/`TrusteeSendCipher`: a trustee answers the setup messages and streams one cipher per round while its capacity is positive. It applies `RATE_CHANGE` and ignores a reveal.
  - The trustee's shuffle steps are the code's `neffShuffleTrusteeView` (part_003 706-850), not the spec.
    - `ReceivedShuffleFromRelay` stores and returns `s * c_j`. A share is the list of trustees whose coefficient it carries, so trustee j's fresh coefficient is j.
    - `ReceivedTranscriptFromRelay` returns an error, and gives no answer, when it stored no share or finds no share of its own in the transcript. Otherwise it signs the last share (`SignedBlob`) and starts streaming.
    - The pair-shuffle verification is overwritten with `verify = true` in the code, and the model does the same.
    - Proofs, keys and the permutation are data that none of the properties distinguish.
  - The relay's side of the shuffle is modelled from spec 4.3: `neffShuffle` is not under `src/`. The relay appends each answer to `transcript` and forwards it to the next trustee. After the last answer it broadcasts the transcript (`TranscriptMsg`). Once every trustee has signed, it checks every signature against the final share (`Signers`, `SigsVerify`).
  - `ClientReceive`: a client answers each downstream cell with the upstream cipher of that round. It sends its bitmap instead when the cell has the open/closed flag (spec 4.7 step 3).
- `Terminated` is the stop state: the relay has shut down or every round up to the bound is closed.

The model leaves out:
- cipher bytes, which module `DCNet` covers;
- the payload's content (latency-test and pcap patterns, SOCKS data);
- the schedule computed from the bitmap.

`IsNextDownstreamRoundForOpenClosedRequest` belongs to the round manager, which is not under `src/`. It is modelled from spec 4.4 as every `OpenClosedPeriod`-th round.

**Dispatcher assumption.** The dispatcher is not under `src/`.
- The model accepts trustee ciphers in COLLECTING_SHUFFLE_SIGNATURES as well as in COMMUNICATING. The relay prepares `DecodeStart(0)` before the last signature, and a trustee streams as soon as it has signed.
- Every other message waits at the head of its channel until the relay is in the state that handles it.

**Refinement.** `Pipeline == INSTANCE RoundWindow WITH ...` maps:
- the round manager's `nextRoundToOpen`/`lastRoundClosed` to the abstract ones;
- `got[r]` to the tagged participants whose cipher is buffered for r, and to every participant for a closed round;
- `live` to `rstate # "SHUTDOWN"`.

`RefinesRoundWindow` is `Pipeline!Spec`. An external shutdown is the abstract `Abort`.

**Shuffle transcript.** `ShuffleTranscriptSound` says two things. Entry k of the relay's transcript carries the coefficients of trustees 0..k-1, each once and in order. Every signature the relay holds is over the final share. It fails on any of these:
- a wrong index in the chaining;
- a forwarded base that is not the latest share;
- a trustee signing another permutation (the seeded fault `MutSignFirstPerm`).

When a trustee finds no share of its own in the transcript, it stays silent. The relay then waits forever for its signature, and `AllRoundsComplete` catches that.

**Rate signal.** `RateSignalMatchesBuffer` relates what a streaming trustee will end up obeying to the relay's buffer for it. The trustee's capacity is the last `RATE_CHANGE` in its channel, or its current capacity if none is queued. When the buffer is above `TrusteeCacheHighBound` it must be a stop, and below `TrusteeCacheLowBound` a resume. The stop and resume are sent asynchronously through FIFO channels, so the property fails if a stop overtakes or outlives the resume that follows it. It also fails if `stopFn` decides on the count before the cipher is added (the seeded fault `MutStopMsgsBeforeAdd`).

### `RoundWindow.tla`: what the round pipeline promises

An abstract specification of both relay versions, from spec 3 and 4.5.
- **State.** `nextOpen`, `lastClosed`, `got` (which participants' ciphers for each round have arrived) and `live`.
- **`Deliver`.** A cipher may arrive for any round.
- **`OpenFirst`.** Round 0 opens alone.
- **`DeliverAndClose`.** The cipher that completes the current open round closes it.
  - It sets `nextOpen` to `min(Current + 1 + W, MaxRound + 1)`, which refills the window to exactly W open rounds.
  - Closing round `StopAfter` ends the session.
- **`Abort`.** An external shutdown ends a live session in any round. It has no fairness, because the orchestrator may never send it.

Both relays open rounds in the step that ends the session (run relay_shutdown), so the abstract specification allows it.

### `Merkle.tla`: the timestamp Merkle proof tree

**Operators.** These are pure algorithms, written as operators over hash terms.
- `hashNode(l, r)` is `<<"h", {l, r}>>`. The set stands for the sort in `hashNode`, and terms are injective, as a collision-resistant hash is.
- `Depth` is the depth loop, `Padded` is the zero-hash padding, and `TreeLevel` builds the levels (RECURSIVE).
- `FullProof` and `ProofTree` build the proofs, returning only the caller's proofs.
- `CalcFrom`/`Calc` and `Check` fold a proof from its last entry up to, but not including, the root.

**Reference.** `RefRoot` is the usual recursion over halves of the list. `PaddedSeq` pads to the least power of two, chosen independently of `Depth`.

**Harness.** The model has one step, `Build`, which runs `ProofTree` on an input list. Init enumerates every list of up to `MaxLeaves` leaves.

### `OldRelay.tla`: the earlier relay

It covers the relay in `src/unnamed/part_003`, lines 53-645. Its setup handlers match `Relay`'s, with two differences:
- the parameters also go to the clients;
- the trustee keys go to the clients as `REL_CLI_TELL_TRUSTEES_PK`.

The COMMUNICATING loop is simpler:
- the buffer manager has one current round (`curRound`);
- `nextDown` is `nextDownStreamRoundToSend`, which starts at 1.

A completed round runs `FinishRound`, a whole chain in one step:
- `finalizeUpstreamData`, which clears the buffers and sends the rate limiter's resumes;
- `roundFinished`, which does `nonAcked--` and `ChangeRound`, then `DecodeStart` with the current `MessageHistory` (recorded in `decodeHistory`), and shuts down at the experiment limit;
- the handler's `sendDownstreamData` loop (`SendCount`, `Cells`), which folds each cell into `history` through `UpdateMessageHistory`.

A history is the sequence of what was folded in: `"dummy"` at the transcript step, then the round of each cell. The buffer manager and the peers are spec-modelled as in `Relay`. The trustees answer the shuffle steps without the share bookkeeping. The old relay's shuffle handlers (part_003 503-622) chain and collect exactly as `relay.go`'s do, so `ShuffleTranscriptSound` is checked once, in `Relay`.

**Refinement.** `OldRelay` also refines `RoundWindow`:
- `curRound` is the abstract current round;
- `nextOpen` is `nextDown` once the relay is in COMMUNICATING (round 0 then counts as opened) and 0 before;
- `StopAfter` is `ExperimentRoundLimit - 1`.

After an external shutdown during setup, `nextOpen` stays 0. After one once every signature is in, it stays `nextDown`. The old relay has the same `Received_ALL_ALL_SHUTDOWN` and the same `RateSignalMatchesBuffer`.

`roundFinished` compares the limit with the round it moves to, while `relay.go` compares it with the round it closes. So with the same `ExperimentRoundLimit` the old relay runs one round fewer. Spec 6 ("Round count to stop at") does not settle which is meant.

### `OldClient.tla`: the earlier client loop

It covers `startClient`'s select loop in `src/timestamp/proof.go`, lines 260-397, and its goroutines, lines 427-508. A send on an unbuffered channel and the loop's receive are one step.

Actions:
- `NewSocksConnection`: accept a connection; its id is `len(socksProxyActiveConnections)`.
- `SocksData` and `SocksEof`: a reader goroutine's chunk. At EOF it sends the header-only chunk and closes the conn.
- `SocksConnClosed`: the slot is set to nil.
- `DownstreamSlice`: one slice from `readDataFromRelay`, with any header id, with or without data. The code writes to or closes `socksProxyActiveConnections[clientId]`, and panics when that slot is missing, nil or closed. It then calls `writeNextUpstreamSlice`.

Chunks are `<<connection, number, eof>>`, where eof marks the header-only chunk sent at EOF. An upstream slice with nothing buffered carries `NoData`, which is `<<0, 0, FALSE>>`. Slot 0 is reserved, so no chunk has connection 0. Every payload is a tuple of the same shape, so TLC can compare any two of them. Downstream data is the header id it carried.

## Runs

| Run | Config | Expect | What it shows |
|---|---|---|---|
| dcnet | `MCDCNet.cfg` | pass | Callers encode every round in order, with equivocation and disruption protection on. Every decoded round is the owner's payload (8752 states). |
| dcnet_skip | `MCDCNet_skip.cfg` | violation | A client that skips round 1 encodes round 2 with block 3 while its peers use block 2, so round 2 decodes to garbage (spec 4.1 says one block per skipped round). |
| dcnet_equiv | `MCDCNet_equiv.cfg` | violation | Equivocation protection on and disruption protection off: `DecodeCell` returns the still-masked XOR buffer. |
| dcnet_hmac | `MCDCNet_hmac.cfg` | violation | The owner's embedded HMAC is the HMAC of nil, not of its payload. |
| relay | `MCRelay.cfg` | pass | The run covers setup, pipelined rounds, an open/closed request round, the echo and BLAME paths, rate limiting and the experiment-limit shutdown and an external shutdown in any state (528k states). `WindowAccounting`: the non-acked counter always equals the number of open rounds and stays within the window. `DownstreamConsecutive`: the client receives consecutive downstream rounds. `EchoFindsKeptMessage`: a retransmission of a payload round finds its `LastMessageOfClients` entry after the cleanup. `RateSignalMatchesBuffer`: the last queued rate change agrees with the trustee's buffer. `ShuffleTranscriptSound`: the Neff-shuffle chain takes every trustee once, in order, and the signatures are over its final share. `AllRoundsComplete`: under weak fairness the relay closes every round up to the bound or reaches the shutdown, so a trustee stopped by the rate limiter is always resumed. `RefinesRoundWindow`: the relay implements `RoundWindow`. |
| relay_shutdown | `MCRelay_shutdown.cfg` | violation | With `ExperimentRoundLimit = 1`, closing round 1 sends SHUTDOWN to every peer. `processCiphers` then still opens round 3 and queues its downstream cell behind the shutdown. |
| oldrelay | `MCOldRelay.cfg` | pass | The same questions for the old relay, the echo excepted, with the external shutdown and `RateSignalMatchesBuffer` (278k states). `WindowAccounting` here is `nonAcked = nextDown - curRound`. `RefinesRoundWindow` holds with the round limit shifted by one. The old relay has the same shutdown-then-send defect: `NoDownstreamAfterShutdown` is defined in `OldRelay` but not given a run of its own. |
| oldrelay_history | `MCOldRelay_history.cfg` | violation | `roundFinished` starts the decoder for round 1 with history `<<"dummy">>`. The clients, which fold cell 1 in before encoding round 1 (spec 4.7), encode with `<<"dummy", 1>>`. With a full window the relay's history already holds later cells. |
| oldclient | `MCOldClient.cfg` | pass | Two SOCKS connections opening, sending and closing around three downstream slices with any header id (9.6k states). The type invariant holds; every action and disjunct fires. |
| oldclient_target | `MCOldClient_target.cfg` | violation | With two SOCKS connections open, a downstream slice whose header names connection 2 is written to connection 1 (`socksProxyActiveConnections[clientId]`), although the guard checked slot 2. |
| oldclient_resend | `MCOldClient_resend.cfg` | violation | `writeNextUpstreamSlice` drops the chunk from its own copy of the slice, so the first SOCKS chunk is sent in every later round. |
| merkle | `MCMerkle.cfg` | pass | Every list of 0..9 leaves over three hashes (59k states): the root equals the reference root and every returned proof checks. This covers depths 0 to 4, padded and unpadded trees, and repeated leaves. |

Every property of a passing run has a seeded fault in its module, a `Mut...` operator, that the run detects. `PROJECT.json` lists them under "mutants".

## Bounds

**DCNet.** Two clients and two trustees, so every pad is shared by two parties and the XOR has four terms. Rounds 0..2: enough for a skip (0 then 2) and for ownership to alternate. One payload value.

**Relay.** One client and two trustees, `WindowSize = 2` so that two rounds are in flight, rounds 0..3 (`MaxRound`), and `LowBound = HighBound = 1`.
- Disruption protection is on, and round 2 is an open/closed request round (`OpenClosedPeriod = 2`).
- An echo request at the close of round 1 is retransmitted in the cell of round 3. It looks up round `1 - nClients = 0`, the oldest entry the cleanup keeps, so the cleanup's boundary is reached.
- With two clients an echo that reaches a cell needs round 4; that run did not finish in 30 minutes. The two-client interleavings are still checked by relay_shutdown and by `OldRelay`.
- The rate limiter both stops and resumes trustees within these bounds: a trustee may stream up to four ciphers ahead.
- `MaxRound` caps the rounds the relay opens and the rounds trustees stream. It is the only bound.
- `ExperimentRoundLimit = 2` exercises the shutdown path, because round 3 is already open when round 2 closes. The liveness property counts the shutdown as an end.

**RoundWindow** has no run of its own. It is checked as the `RefinesRoundWindow` property of the relay and oldrelay runs, under their constants.

**OldRelay.** The same bounds, with two clients. With `WindowSize = 2` the history run shows the off-by-one of round 1: its decoder starts with `<<dummy>>` while the clients encode with `<<dummy, 1>>`.

**OldClient.** `ClientId = 1` makes the slot the loop writes to a real connection, two connections of one chunk each, three downstream slices, and header ids 0..3: the reserved slot, both connections and an out-of-range id.

**Merkle.** Up to nine leaves over three distinct hashes. This reaches every depth from 0 to 4, both power-of-two and padded sizes (3, 5, 6, 7 and 9 leaves), and repeated leaf hashes, which the sort in `hashNode` makes interesting.

## Fairness

Each role runs one event loop over its inbound queue (spec 5), and TCP delivers every peer's messages in order. So every handler that stays enabled eventually runs: `Fairness` is weak fairness per handler and per peer. The external shutdown is not a handler the system runs by itself: nothing obliges the orchestrator to send it, so it has no fairness. It can still end a behaviour, and `AllRoundsComplete` counts SHUTDOWN as an end.

`MCRelay.cfg` and `MCOldRelay.cfg` check `AllRoundsComplete` under this fairness, with the deadlock check off. A stop short of the last round or a shutdown is a stuttering behaviour that violates the property, so a deadlock is still reported. The stop states are `Terminated`. `OldClient` has no liveness property and checks deadlock.

## Observations without a run

- **Echo round.** Spec scenario 5 says that an echo request at round 11 makes the relay retransmit round 10, the previous round. `relay.go` 636 retransmits `lastRoundClosed - nClients` instead, the requester's previous round under round-robin ownership. The two agree only for one client.
- **Echo of nothing.** When `lastRoundClosed - nClients` is negative or was an open/closed round, nothing was stored, and the echo cell carries nil. `EchoFindsKeptMessage` excludes these rounds, because neither spec nor code says what should be sent.
- **Merkle domain separation.** `hashNode` (proof.go 28-42) hashes leaves and interior nodes alike, and `ProofTree` pads with zero hashes. So an interior node or the zero hash passes `Check` with a prefix of a published proof. This proves nothing false for proof-of-beforeness: such a hash was computed from submitted leaves, or is the padding. Neither spec nor code says which hashes `Check` may accept, so no property states it.
- **Blame data.** The BLAME round is `roundID - 2*nClients`, which is older than the cleanup bound. Its cipher histories were deleted when it closed (relay.go 579-584).

## Not modelled, and why

- **Old trustee server** (`dissent/trusteeServer.go` 21-309).
  - `handleConnection` is one straight-line exchange per connection that ends in an infinite sleep (line 231). So `startTrusteeSlave` and `trusteeConnRead` never run.
  - `startTrusteeServer` only accepts connections.
  - Its defects sit at single lines, and each is listed as a hazard in `PROJECT.json` (lines 136, 176, 202, 231, 406):
    - a send nobody receives;
    - a single unframed read;
    - unchecked indexes.
  - `trusteeConnRead` loops on EOF without returning (line 298), but nothing ever starts it, so it is not a hazard of the running code.
  - There is little concurrency here. The accept goroutine, the server's select loop and one goroutine per handler share only the two channels.
  - The one cross-goroutine hazard is a handler blocked forever on `closedConnections` (line 136). The select loop never reads that channel, and it keeps accepting regardless.
  - Everything the handlers do is straight-line code on their own buffers.
  - Stating the line-136 block, or the partial read at line 176, is a property the code violates. That would need a violation run, and each of the project's runs answers a separate question.
- **MessageSender** (same file, 332-428). Its sends are map lookups that forward to the overlay. `ClientSubscribeToBroadcast` depends on the UDP channel, which is not under `src/`.
- **UDP downstream and the T1/T2 timeouts.** The timeout goroutines are not under `src/`, and spec 4.6 gives only their intent.
- **Parameters** (`all_all_params.go`). Typed getters with defaults: data handling with no control to check.
- **Resync** (relay.go 89 with 732, 779).
  - The relay accepts `ALL_ALL_PARAMETERS` in any state.
  - A client key from the old session can still be in flight, and the relay then counts it in the new session.
  - The counters count messages with `++` and test them with `==`, so a stale or duplicate key makes setup go on with a key missing.
  - Stating this is a key-freshness property that the code violates, which needs a violation run. Every run slot already asks a separate question.
  - Per-trustee FIFO already keeps a stale shuffle answer or cipher ahead of the new key, so those are rejected (relay.go 827).
- **Wrong-size payload in the old relay** (part_003 270). `finalizeUpstreamData` returns before `roundFinished`, and the relay stalls. The decoded size depends on cipher bytes, which the relay model abstracts.

## Plan

1. **Resync.** A bounded resync (parameters arriving outside IDLE), with a key-freshness property, in place of a run that asks a weaker question.
2. **Larger relay instances** (two clients with the echo), when the state space allows.
