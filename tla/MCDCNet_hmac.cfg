\* Disruption protection on: the owner's HMAC must cover its payload.
CONSTANTS
    c1 = c1  c2 = c2  t1 = t1  t2 = t2  p1 = p1  nil = nil
    Clients <- MCClients
    Trustees <- MCTrustees
    SlotOwner <- MCSlotOwner
    Payloads <- MCPayloads
    NoPayload <- nil
    MaxRound = 2
    EquivocationProtectionEnabled = FALSE
    DisruptionProtectionEnabled = TRUE
    SkipRounds = FALSE
SPECIFICATION Spec
INVARIANT HmacBindsPayload
