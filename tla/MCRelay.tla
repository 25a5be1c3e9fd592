------------------------------ MODULE MCRelay ------------------------------
(* Model-checking instance of Relay.                                       *)
EXTENDS Relay

\* ExperimentRoundLimit = -1: no experiment round limit.
MCNoRoundLimit == -1
====
