\* Callers encode every round in order, both protections on.
CONSTANTS
    c1 = c1  c2 = c2  t1 = t1  t2 = t2  p1 = p1  nil = nil
    Clients <- MCClients
    Trustees <- MCTrustees
    SlotOwner <- MCSlotOwner
    Payloads <- MCPayloads
    NoPayload <- nil
    MaxRound = 2
    EquivocationProtectionEnabled = TRUE
    DisruptionProtectionEnabled = TRUE
    SkipRounds = FALSE
SPECIFICATION Spec
INVARIANT TypeOK
INVARIANT DecodeCorrect
