---------------------------- MODULE MCOldClient ----------------------------
(* Model-checking instance of OldClient.                                   *)
EXTENDS OldClient
====
