----------------------------- MODULE MCIPLookup ------------------------------
(* Small instances of IPLookup.  Metadata is opaque to the tree.             *)
EXTENDS IPLookup, TLC

Symmetry == Permutations(Metadata)

=============================================================================
