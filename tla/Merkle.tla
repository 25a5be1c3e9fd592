------------------------------- MODULE Merkle -------------------------------
(***************************************************************************)
(* The Merkle proof tree of the timestamp service (src/timestamp/proof.go, *)
(* lines 1-160): ProofTree builds a tree over a list of leaf hashes,       *)
(* padded with zero hashes up to a power of two, and one proof per leaf;   *)
(* Proof.Calc folds a proof into a root, Proof.Check compares it with the  *)
(* root.                                                                   *)
(*                                                                         *)
(* A hash is a term: hashNode(left, right) is <<"h", {left, right}>>.  The *)
(* set records that hashNode sorts its two inputs, so the hash of a node   *)
(* does not depend on their order, and a term is injective, which is what  *)
(* a collision-resistant hash guarantees.                                  *)
(***************************************************************************)
EXTENDS Integers, Sequences, SequencesExt

CONSTANTS
    LeafValues,     \* the leaf hashes callers submit
    MaxLeaves       \* model bound on the number of leaves

ASSUME MaxLeaves \in Nat /\ MaxLeaves >= 1

\* The zero hash ProofTree pads with, and the empty HashId it returns for
\* no leaves.
ZeroHash == <<"zero">>
EmptyHash == <<"empty">>
Leaf(v) == <<"leaf", v>>

(***************************************************************************)
(* hashNode: sort so left < right, then hash left || right.                *)
(***************************************************************************)
hashNode(left, right) == <<"h", {left, right}>>

\* The depth loop: `for n := 1; n < nleaves; n <<= 1 { depth++ }`.
RECURSIVE DepthFrom(_, _)
DepthFrom(n, nleaves) == IF n < nleaves THEN 1 + DepthFrom(2 * n, nleaves) ELSE 0
Depth(nleaves) == DepthFrom(1, nleaves)

sibling(i) == IF i % 2 = 1 THEN i - 1 ELSE i + 1

\* Seeded fault: padding with copies of the last leaf instead of zeros.
MutPaddedDupLast(leaves) ==
    [i \in 0..(2^Depth(Len(leaves)) - 1) |->
        IF i < Len(leaves) THEN leaves[i + 1] ELSE leaves[Len(leaves)]]

\* The leaves, 0-indexed, padded with zero hashes up to 2^depth.
Padded(leaves) ==
    [i \in 0..(2^Depth(Len(leaves)) - 1) |->
        IF i < Len(leaves) THEN leaves[i + 1] ELSE ZeroHash]

(***************************************************************************)
(* The tree, level by level: level depth holds the padded leaves, level d  *)
(* hashes the pairs of level d+1.  The padding makes every level even, so  *)
(* the code's "odd one left nil" case never arises.                        *)
(***************************************************************************)
RECURSIVE TreeLevel(_, _)
TreeLevel(leaves, d) ==
    IF d = Depth(Len(leaves))
    THEN Padded(leaves)
    ELSE LET prev == TreeLevel(leaves, d + 1)
         IN  [i \in 0..(2^d - 1) |-> hashNode(prev[2 * i], prev[2 * i + 1])]

\* Seeded fault: the siblings listed leaf level first.
MutFullProofReversed(leaves, i) ==
    LET depth == Depth(Len(leaves))
    IN  <<TreeLevel(leaves, 0)[0]>> \o
        [k \in 1..depth |-> TreeLevel(leaves, depth + 1 - k)[sibling(i \div 2^(k - 1))]]

(***************************************************************************)
(* The proof of position i of the padded tree:                             *)
(* <<root, sibling at level 1, ..., sibling at level depth>>, the entry    *)
(* for d = depth-1 .. 0 being tree[depth-d][sibling(i >> d)].              *)
(***************************************************************************)
FullProof(leaves, i) ==
    LET depth == Depth(Len(leaves))
    IN  <<TreeLevel(leaves, 0)[0]>> \o
        [k \in 1..depth |-> TreeLevel(leaves, k)[sibling(i \div 2^(depth - k))]]

\* Seeded fault: the proofs of the padding positions returned too.
MutProofTreeAllProofs(leaves) ==
    IF leaves = <<>> THEN [root |-> EmptyHash, proofs |-> <<>>]
    ELSE [root |-> TreeLevel(leaves, 0)[0],
          proofs |-> [i \in 1..2^Depth(Len(leaves)) |-> FullProof(leaves, i - 1)]]

\* ProofTree: no leaves give the empty HashId and no proofs; otherwise the
\* root and the proofs of the caller's leaves only (proofs[:nleavesArg]).
ProofTree(leaves) ==
    IF leaves = <<>> THEN [root |-> EmptyHash, proofs |-> <<>>]
    ELSE [root |-> TreeLevel(leaves, 0)[0],
          proofs |-> [i \in 1..Len(leaves) |-> FullProof(leaves, i - 1)]]

(***************************************************************************)
(* Proof.Calc: `for i := len(p) - 1; i >= 1; i--` hashes the running value *)
(* with p[i]; p[0], the root, is not used.  Proof.Check compares the       *)
(* result with the root.                                                   *)
(***************************************************************************)
RECURSIVE CalcFrom(_, _, _)
CalcFrom(p, leaf, i) == IF i < 1 THEN leaf ELSE CalcFrom(p, hashNode(leaf, p[i + 1]), i - 1)

Calc(p, leaf) == CalcFrom(p, leaf, Len(p) - 1)

Check(p, root, leaf) == Calc(p, leaf) = root

(***************************************************************************)
(* Reference definition: the Merkle tree hash of a list of 2^k hashes,     *)
(* split in halves.                                                        *)
(***************************************************************************)
RECURSIVE RefRoot(_)
RefRoot(s) ==
    IF Len(s) = 1 THEN s[1]
    ELSE LET h == Len(s) \div 2
         IN  hashNode(RefRoot(SubSeq(s, 1, h)), RefRoot(SubSeq(s, h + 1, Len(s))))

\* The reference padding: zero hashes up to the least power of two >= n.
RefWidth(n) == 2^(CHOOSE k \in 0..n : 2^k >= n /\ (k = 0 \/ 2^(k - 1) < n))
PaddedSeq(leaves) == leaves \o [i \in 1..(RefWidth(Len(leaves)) - Len(leaves)) |-> ZeroHash]

(***************************************************************************)
(* The inputs: every list of up to MaxLeaves leaf hashes.  One step runs   *)
(* ProofTree; the caller then holds the root and the proofs.               *)
(***************************************************************************)
VARIABLES leaves, root, proofs, built

vars == <<leaves, root, proofs, built>>

Init ==
    /\ leaves \in UNION {[1..n -> {Leaf(v) : v \in LeafValues}] : n \in 0..MaxLeaves}
    /\ root = EmptyHash /\ proofs = <<>> /\ built = FALSE

Build ==
    /\ ~built
    /\ LET t == ProofTree(leaves)
       IN  root' = t.root /\ proofs' = t.proofs
    /\ built' = TRUE
    /\ UNCHANGED leaves

Done == built /\ UNCHANGED vars

Next == Build \/ Done

Spec == Init /\ [][Next]_vars

(***************************************************************************)
(* Properties.                                                             *)
(***************************************************************************)
TypeOK ==
    /\ built \in BOOLEAN
    /\ built => /\ Len(proofs) = Len(leaves)
                /\ \A i \in 1..Len(proofs) : Len(proofs[i]) = Depth(Len(leaves)) + 1

(* ProofTree's root is the Merkle tree hash of the zero-padded leaves, as  *)
(* the reference recursion over halves defines it, and every proof        *)
(* carries that root first.                                                *)
RootMatchesReference ==
    built /\ leaves # <<>> =>
        /\ root = RefRoot(PaddedSeq(leaves))
        /\ \A i \in 1..Len(proofs) : proofs[i][1] = root

(* Completeness, the property CheckProofs asserts (it panics with "check  *)
(* failed at leaf" otherwise): the proof ProofTree returns for every leaf *)
(* passes Check against the root, for any number of leaves, padded or    *)
(* not, and with repeated leaf hashes.                                     *)
EveryProofChecks ==
    built => \A i \in 1..Len(leaves) : Check(proofs[i], root, leaves[i])

=============================================================================
