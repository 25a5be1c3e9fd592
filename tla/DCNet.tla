------------------------------- MODULE DCNet -------------------------------
(***************************************************************************)
(* The DC-net entity of PriFi (src/unnamed/part_002, package dcnet): the   *)
(* encoding of one cell per round by every client and trustee, and its     *)
(* decoding at the relay by XOR-ing all of them together.                  *)
(*                                                                         *)
(* Bytes are abstracted to sets of independent atoms, and XOR to the       *)
(* symmetric difference of sets.  A keystream block is the set of atoms    *)
(* <<"pad", c, t, k>>: the k-th block of the PRNG shared by client c and   *)
(* trustee t.  Two blocks cancel only when they are the same block, which  *)
(* is what a keystream cipher guarantees up to negligible probability.     *)
(* The payload of a cell is <<"data", p>>, its HMAC <<"hmac", c, m>>, and   *)
(* the equivocation mask of round r is <<"eq", r>>.                        *)
(***************************************************************************)
EXTENDS Naturals, FiniteSets, FiniteSetsExt, TLC

CONSTANTS
    Clients,        \* client entity ids (DCNET_CLIENT)
    Trustees,       \* trustee entity ids (DCNET_TRUSTEE)
    MaxRound,       \* rounds 0..MaxRound are encoded
    SlotOwner,      \* SlotOwner[r]: the client that owns round r
    Payloads,       \* payloads an owner may embed
    NoPayload,      \* the nil payload
    EquivocationProtectionEnabled,
    DisruptionProtectionEnabled,
    SkipRounds      \* TRUE: callers may skip rounds, as EncodeForRound allows

Rounds == 0..MaxRound
Entities == Clients \cup Trustees

ASSUME Clients \cap Trustees = {} /\ Clients # {} /\ Trustees # {}
ASSUME SlotOwner \in [Rounds -> Clients]
ASSUME NoPayload \notin Payloads
ASSUME EquivocationProtectionEnabled \in BOOLEAN
ASSUME DisruptionProtectionEnabled \in BOOLEAN /\ SkipRounds \in BOOLEAN

None == -1

VARIABLES
    currentRound,   \* DCNetEntity.currentRound, per client and trustee
    consumed,       \* number of keystream blocks each entity's PRNGs produced
    lastEncoded,    \* the last round the caller encoded (None before any)
    cipher,         \* cipher[e][r]: the cell e sent for round r, or {} if none
    sent,           \* sent[e][r]: TRUE iff e encoded round r
    ownerPayload,   \* ownerPayload[r]: what the slot owner embedded in round r
    decoder,        \* DCNetRoundDecoder of the relay
    decoded         \* decoded[r]: the cell DecodeCell returned for round r,
                    \* defined for the rounds decoded so far

vars == <<currentRound, consumed, lastEncoded, cipher, sent, ownerPayload,
          decoder, decoded>>

(***************************************************************************)
(* Abstract values.                                                        *)
(***************************************************************************)
Data(p) == IF p = NoPayload THEN {} ELSE {<<"data", p>>}

Hmac(c, m) == <<"hmac", c, m>>

\* The k-th block of every PRNG entity e shares with its peers.
Pads(e, k) ==
    IF e \in Clients THEN {<<"pad", e, t, k>> : t \in Trustees}
                     ELSE {<<"pad", c, e, k>> : c \in Clients}

Xor(a, b) == SymDiff(a, b)

(***************************************************************************)
(* EquivocationProtection, used through ClientEncryptPayload and          *)
(* RelayDecode (its code is not under src/; modelled from spec 4.2): the  *)
(* owner's payload is masked by a value derived from the downstream        *)
(* history, which RelayDecode removes again from the XOR of all cells.     *)
(***************************************************************************)
ClientEncryptPayload(slotOwner, payload, r) ==
    IF slotOwner THEN Xor(payload, {<<"eq", r>>}) ELSE payload

RelayDecode(xorBuffer, r) == Xor(xorBuffer, {<<"eq", r>>})

(***************************************************************************)
(* clientEncode: pad (or zero) the payload, prepend the HMAC when the      *)
(* client owns the slot, equivocation-encrypt it, then XOR in the pads.    *)
(* The HMAC is computed over c.payload, which is still nil at that point.  *)
(***************************************************************************)
\* Seeded fault: the owner's payload left out of the equivocation encryption.
MutClientEncodeNoEquiv(e, slotOwner, payload, r, k) ==
    LET withHmac == IF payload # NoPayload /\ slotOwner /\ DisruptionProtectionEnabled
                    THEN Data(payload) \cup {Hmac(e, NoPayload)}
                    ELSE Data(payload)
    IN  Xor(withHmac, Pads(e, k))

clientEncode(e, slotOwner, payload, r, k) ==
    LET withHmac == IF payload # NoPayload /\ slotOwner /\ DisruptionProtectionEnabled
                    THEN Data(payload) \cup {Hmac(e, NoPayload)}
                    ELSE Data(payload)
        enc == IF EquivocationProtectionEnabled
               THEN ClientEncryptPayload(slotOwner, withHmac, r)
               ELSE withHmac
    IN  Xor(enc, Pads(e, k))

\* trusteeEncode: a zero payload XOR-ed with the pads (its equivocation
\* tag carries no payload bits).
trusteeEncode(e, k) == Pads(e, k)

(***************************************************************************)
(* The rounds a caller may ask to encode next.  The client and trustee     *)
(* state machines encode every round in order; with SkipRounds they may    *)
(* jump ahead, which EncodeForRound documents as supported.                *)
(***************************************************************************)
NextRounds(e) ==
    IF SkipRounds THEN {r \in Rounds : r > lastEncoded[e]}
                  ELSE {r \in Rounds : r = lastEncoded[e] + 1}

(***************************************************************************)
(* EncodeForRound: discard one block per skipped round, then encode with   *)
(* the next block.  currentRound is advanced only by the skip loop.        *)
(***************************************************************************)
\* Seeded fault: the skip loop running up to round r inclusive.
MutBlocksUsedInclusive(e, r) == consumed[e] + (r - currentRound[e]) + 1

\* The keystream block that encodes round r: the skip loop discards one
\* block per round from currentRound up to r.
BlocksUsed(e, r) == consumed[e] + (r - currentRound[e])

EncodeForRound(e, r, payload) ==
    /\ r >= currentRound[e]
    /\ LET k == BlocksUsed(e, r)
           slotOwner == e \in Clients /\ SlotOwner[r] = e
       IN  /\ payload = NoPayload \/ slotOwner
           /\ currentRound' = [currentRound EXCEPT ![e] = r]
           /\ consumed' = [consumed EXCEPT ![e] = k + 1]
           /\ cipher' = [cipher EXCEPT ![e][r] =
                            IF e \in Clients THEN clientEncode(e, slotOwner, payload, r, k)
                                             ELSE trusteeEncode(e, k)]
           /\ ownerPayload' = IF slotOwner
                              THEN [ownerPayload EXCEPT ![r] = payload]
                              ELSE ownerPayload

Encode(e) ==
    \E r \in NextRounds(e), payload \in Payloads \cup {NoPayload} :
        /\ EncodeForRound(e, r, payload)
        /\ lastEncoded' = [lastEncoded EXCEPT ![e] = r]
        /\ sent' = [sent EXCEPT ![e][r] = TRUE]
        /\ UNCHANGED <<decoder, decoded>>

(***************************************************************************)
(* Relay side.  The decoder holds the round being decoded, the XOR buffer  *)
(* and (abstracted to a set) who has been XOR-ed in; the relay feeds every *)
(* client's and trustee's cell of that round once, then calls DecodeCell. *)
(***************************************************************************)
LastDecoded == IF DOMAIN decoded # {} THEN Max(DOMAIN decoded) ELSE None

Decoding == decoder.round # None /\ decoder.round \notin DOMAIN decoded

DecodeStart(r) ==
    /\ ~Decoding
    /\ r \in Rounds /\ r > LastDecoded
    /\ \A e \in Entities : sent[e][r]
    \* rounds are decoded in order; a round some entity never encoded is skipped
    /\ \A q \in LastDecoded+1..r-1 : \E e \in Entities : lastEncoded[e] > q /\ ~sent[e][q]
    /\ decoder' = [round |-> r, xorBuffer |-> {}, fed |-> {}]
    /\ UNCHANGED <<currentRound, consumed, lastEncoded, cipher, sent,
                   ownerPayload, decoded>>

\* DecodeClient and DecodeTrustee: XOR the entity's cell into the buffer.
DecodeEntity(e) ==
    /\ Decoding
    /\ e \notin decoder.fed
    /\ decoder' = [decoder EXCEPT !.xorBuffer = Xor(@, cipher[e][decoder.round]),
                                  !.fed = @ \cup {e}]
    /\ UNCHANGED <<currentRound, consumed, lastEncoded, cipher, sent,
                   ownerPayload, decoded>>

IsHmac(a) == a[1] = "hmac"

\* DecodeCell: with disruption protection the first bytes (the HMAC) are cut
\* off the equivocation-decoded cell; otherwise the raw XOR buffer is returned.
DecodeCellResult ==
    LET xorBuffer == decoder.xorBuffer
        dec == IF EquivocationProtectionEnabled
               THEN RelayDecode(xorBuffer, decoder.round) ELSE xorBuffer
    IN  IF DisruptionProtectionEnabled
        THEN [hmac |-> {a \in dec : IsHmac(a)}, payload |-> {a \in dec : ~IsHmac(a)}]
        ELSE [hmac |-> {}, payload |-> xorBuffer]

DecodeCell ==
    /\ Decoding
    /\ decoder.fed = Entities
    /\ decoded' = decoded @@ (decoder.round :> DecodeCellResult)
    /\ UNCHANGED <<currentRound, consumed, lastEncoded, cipher, sent,
                   ownerPayload, decoder>>

\* Every round has been encoded and every fully encoded round decoded.
Finished ==
    /\ \A e \in Entities : lastEncoded[e] = MaxRound
    /\ \A r \in Rounds : (\A e \in Entities : sent[e][r]) => r \in DOMAIN decoded
    /\ UNCHANGED vars

Init ==
    /\ currentRound = [e \in Entities |-> 0]
    /\ consumed = [e \in Entities |-> 0]
    /\ lastEncoded = [e \in Entities |-> None]
    /\ cipher = [e \in Entities |-> [r \in Rounds |-> {}]]
    /\ sent = [e \in Entities |-> [r \in Rounds |-> FALSE]]
    /\ ownerPayload = [r \in Rounds |-> NoPayload]
    /\ decoder = [round |-> None, xorBuffer |-> {}, fed |-> {}]
    /\ decoded = <<>>

Next ==
    \/ \E e \in Entities : Encode(e)
    \/ \E r \in Rounds : DecodeStart(r)
    \/ \E e \in Entities : DecodeEntity(e)
    \/ DecodeCell
    \/ Finished

Spec == Init /\ [][Next]_vars

(***************************************************************************)
(* Properties.                                                             *)
(***************************************************************************)
TypeOK ==
    /\ currentRound \in [Entities -> Rounds]
    /\ consumed \in [Entities -> 0..2*MaxRound+1]
    /\ lastEncoded \in [Entities -> Rounds \cup {None}]
    /\ sent \in [Entities -> [Rounds -> BOOLEAN]]
    /\ ownerPayload \in [Rounds -> Payloads \cup {NoPayload}]
    /\ decoder.round \in Rounds \cup {None} /\ decoder.fed \subseteq Entities
    /\ DOMAIN decoded \subseteq Rounds

(* The DC-net round trip (spec 4.1 and 8): for every round the relay       *)
(* decodes, the XOR of the N client cells and the M trustee cells, as      *)
(* DecodeCell returns it, is exactly the payload the slot owner passed to  *)
(* EncodeForRound: every pad cancels, and no equivocation mask is left.    *)
DecodeCorrect ==
    \A r \in DOMAIN decoded :
        decoded[r].payload = Data(ownerPayload[r])

(* Disruption protection (spec 4.1): the HMAC the slot owner embeds at the *)
(* head of its cell is the HMAC of the payload that cell carries, so that  *)
(* the relay can detect a disrupted cell.                                  *)
HmacBindsPayload ==
    \A r \in DOMAIN decoded :
        (ownerPayload[r] # NoPayload /\ DisruptionProtectionEnabled)
            => decoded[r].hmac = {Hmac(SlotOwner[r], ownerPayload[r])}

=============================================================================
