\* Up to nine leaves over three leaf hashes: depths 0..4, with padding.
CONSTANTS
    LeafValues = {1, 2, 3}
    MaxLeaves = 9
SPECIFICATION Spec
INVARIANT TypeOK
INVARIANT RootMatchesReference
INVARIANT EveryProofChecks
