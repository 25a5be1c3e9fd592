----------------------------- MODULE MCOldRelay -----------------------------
(* Model-checking instance of OldRelay.                                    *)
EXTENDS OldRelay

\* ExperimentRoundLimit = -1: no experiment round limit.
MCNoRoundLimit == -1
====
