----------------------------- MODULE RoundWindow -----------------------------
(***************************************************************************)
(* What the relay's round pipeline promises (spec 3 and 4.5), whatever     *)
(* the relay version: DC-net rounds are opened in order and closed in      *)
(* order; a round closes only once it is open and the cipher of every     *)
(* participant for it has been received; round 0 is opened alone, and     *)
(* every close refills the window to exactly W open rounds (or up to the  *)
(* last round); the close of round StopAfter, or a shutdown from outside, *)
(* ends the session, after which nothing changes.  A cipher may arrive   *)
(* for any round, opened or not.                                          *)
(***************************************************************************)
EXTENDS Integers

CONSTANTS
    Participants,   \* every client and every trustee
    W,              \* the window: rounds open at once
    MaxRound,       \* model bound: the last round
    StopAfter       \* the round whose close ends the session (-1: none)

Rounds == 0..MaxRound

VARIABLES
    nextOpen,       \* the next round to open
    lastClosed,     \* the last round closed (-1: none)
    got,            \* got[r]: participants whose cipher for r was received
    live            \* FALSE once the session has ended

vars == <<nextOpen, lastClosed, got, live>>

Current == lastClosed + 1
IsOpen(r) == Current <= r /\ r < nextOpen
Lesser(a, b) == IF a < b THEN a ELSE b

Init ==
    /\ nextOpen = 0 /\ lastClosed = -1
    /\ got = [r \in Rounds |-> {}]
    /\ live = TRUE

Receive(p, r) == got' = [got EXCEPT ![r] = @ \cup {p}]

\* A cipher arrives and does not complete the current round.
Deliver(p, r) ==
    /\ live /\ Receive(p, r)
    /\ UNCHANGED <<nextOpen, lastClosed, live>>

\* The first round opens on its own.
OpenFirst ==
    /\ live /\ nextOpen = 0
    /\ nextOpen' = 1
    /\ UNCHANGED <<lastClosed, got, live>>

\* A cipher completes the current, open round: it closes, the window is
\* refilled, and the session ends if it was the StopAfter round.
DeliverAndClose(p, r) ==
    /\ live /\ Receive(p, r)
    /\ IsOpen(Current)
    /\ got'[Current] = Participants
    /\ lastClosed' = Current
    /\ nextOpen' = Lesser(Current + 1 + W, MaxRound + 1)
    /\ live' = (Current # StopAfter)

\* The session is ended from outside, whatever round it is in.
Abort ==
    /\ live /\ live' = FALSE
    /\ UNCHANGED <<nextOpen, lastClosed, got>>

Next ==
    \/ OpenFirst
    \/ Abort
    \/ \E p \in Participants, r \in Rounds : Deliver(p, r) \/ DeliverAndClose(p, r)

Spec == Init /\ [][Next]_vars

=============================================================================
