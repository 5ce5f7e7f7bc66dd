--------------------------- MODULE MCReclaimTable ---------------------------
(* Small instances of ReclaimTable: every Open call uses the same key, or    *)
(* the calls of Second use another one.                                      *)
EXTENDS ReclaimTable, TLC

CONSTANTS k1, k2, Second

OneKey == [o \in Opens |-> k1]
TwoKeys == [o \in Opens |-> IF o \in Second THEN k2 ELSE k1]

OpenSymmetry == Permutations(Opens)
AliasSymmetry == Permutations(Aliases) \cup Permutations(Publishers) \cup Permutations(Watches)

=============================================================================
