-------------------------- MODULE MCBackendBackoff --------------------------
(* Small instances of BackendBackoff.                                        *)
EXTENDS BackendBackoff, TLC

Symmetry == Permutations(Callers)

=============================================================================
