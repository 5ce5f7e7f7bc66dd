----------------------------- MODULE PrefixTable -----------------------------
(***************************************************************************)
(* What iplookup promises: a table of networks, each a set of addresses     *)
(* with a prefix length and the metadata last stored for it, and lookups    *)
(* answered by the longest network that has the address.  Nothing is said   *)
(* of bits, families or trees.                                              *)
(***************************************************************************)
EXTENDS Integers, FiniteSets

CONSTANTS
  Addresses,
  Networks,
  Net,        \* the addresses of every network
  Length,     \* its prefix length
  Metadata,
  NoAnswer

VARIABLES
  table,      \* the metadata of the stored networks
  count,      \* what Count returns
  answer      \* what the last lookup returned

Init ==
  /\ table = [n \in {} |-> 0]
  /\ count = 0
  /\ answer = NoAnswer

(* Storing a network again replaces its metadata.                           *)
Store(n, m) ==
  /\ answer' = NoAnswer
  /\ table' = [k \in DOMAIN table \cup {n} |-> IF k = n THEN m ELSE table[k]]

Drop(n) ==
  /\ answer' = NoAnswer
  /\ n \in DOMAIN table
  /\ table' = [k \in DOMAIN table \ {n} |-> table[k]]

Clear ==
  /\ answer' = NoAnswer
  /\ table' = [n \in {} |-> 0]

Lookup(a) ==
  LET having == {n \in DOMAIN table : a \in Net[n]}
  IN /\ \/ having = {} /\ answer' = [address |-> a, found |-> FALSE]
        \/ \E n \in having :
             /\ \A k \in having : Length[k] <= Length[n]
             /\ answer' = [address |-> a, found |-> TRUE, length |-> Length[n], metadata |-> table[n]]
     /\ UNCHANGED table

Next ==
  /\ \/ \E n \in Networks, m \in Metadata : Store(n, m)
     \/ \E n \in Networks : Drop(n)
     \/ \E a \in Addresses : Lookup(a)
     \/ Clear
  /\ count' = Cardinality(DOMAIN table')

Spec == Init /\ [][Next]_<<table, count, answer>>

=============================================================================
