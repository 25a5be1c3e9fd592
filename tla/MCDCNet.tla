------------------------------ MODULE MCDCNet ------------------------------
(* Model-checking instance of DCNet: two clients, two trustees, rounds     *)
(* 0..2 owned round-robin, one payload value besides nil.                  *)
EXTENDS DCNet

CONSTANTS c1, c2, t1, t2, p1, nil

MCClients == {c1, c2}
MCTrustees == {t1, t2}
MCSlotOwner == [r \in 0..2 |-> IF r % 2 = 0 THEN c1 ELSE c2]
MCPayloads == {p1}
=============================================================================
