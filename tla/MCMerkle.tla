------------------------------ MODULE MCMerkle ------------------------------
(* Model-checking instance of Merkle: every list of up to nine leaves over *)
(* three distinct leaf hashes, so trees of depth 0 to 4, padded and not,  *)
(* with repeated leaves.                                                   *)
EXTENDS Merkle
====
