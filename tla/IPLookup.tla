------------------------------ MODULE IPLookup -------------------------------
(***************************************************************************)
(* The CIDR store (iplookup): a bit tree per family, kept under one lock.   *)
(* A node is the string of bits that leads to it.                           *)
(*                                                                          *)
(* An address has Width4 bits (4 bytes in the code) or Width6 (16 bytes);   *)
(* the wide ones that start with the mapped prefix are IPv4 addresses       *)
(* written wide.  The mapped prefix is PadLen ones: like the ninety-six     *)
(* bits of ::ffff:0:0/96 it ends in a one, so that a shorter mask never     *)
(* leaves it whole.                                                         *)
(***************************************************************************)
EXTENDS Integers, FiniteSets, Sequences

CONSTANTS
  Width4, PadLen,
  Metadata,
  MaxStored,   \* bound on the prefixes stored at a time
  None

Ext == INSTANCE SequencesExt

ASSUME LookupAssumption ==
  /\ Width4 \in Nat \ {0} /\ PadLen \in Nat \ {0} /\ MaxStored \in Nat

Width6 == PadLen + Width4
Families == {"v4", "v6"}

Bits(n) == [1 .. n -> {0, 1}]
Addresses == Bits(Width4) \cup Bits(Width6)
mapped == [i \in 1 .. PadLen |-> 1]

(* net.IP.To4.                                                              *)
To4(ip) ==
  IF Len(ip) = Width4 THEN ip
  ELSE IF Ext!IsPrefix(mapped, ip) THEN SubSeq(ip, PadLen + 1, Width6) ELSE None

(* net.ParseCIDR: the address is masked, the mask is as wide as it.         *)
ParseCIDR(ip, ones) ==
  [ip |-> [i \in 1 .. Len(ip) |-> IF i <= ones THEN ip[i] ELSE 0],
   ones |-> ones, bits |-> Len(ip)]
CIDRs == {ParseCIDR(ip, ones) : ip \in Bits(Width4), ones \in 0 .. Width4}
    \cup {ParseCIDR(ip, ones) : ip \in Bits(Width6), ones \in 0 .. Width6}

VARIABLES
  nodes,     \* of both trees: the family and the bits that lead to the node
  metadata,  \* of the nodes that are endpoints
  count,
  answer     \* what the last Contains returned

vars == <<nodes, metadata, count, answer>>

Endpoints == DOMAIN metadata
Roots == {<<f, <<>>>> : f \in Families}
NoMetadata == [n \in {} |-> None]

TypeOK ==
  /\ nodes \subseteq ({"v4"} \X UNION {Bits(n) : n \in 0 .. Width4})
                 \cup ({"v6"} \X UNION {Bits(n) : n \in 0 .. Width6})
  /\ Roots \subseteq nodes /\ Endpoints \subseteq nodes
  /\ metadata \in [Endpoints -> Metadata]
  /\ count \in 0 .. MaxStored

Init ==
  /\ nodes = Roots
  /\ metadata = NoMetadata
  /\ count = 0
  /\ answer = None

-----------------------------------------------------------------------------

(* treeFor.                                                                 *)
TreeFor(ip) == IF To4(ip) # None THEN "v4" ELSE "v6"

(* familyWalk.                                                              *)
FamilyWalk(ip) == IF To4(ip) # None THEN To4(ip) ELSE ip

(* Mutant: a mapped CIDR keeps the length of its wide mask.                 *)
PrefixLenWide(cidr) ==
  IF cidr.ones > Len(FamilyWalk(cidr.ip)) THEN Len(FamilyWalk(cidr.ip)) ELSE cidr.ones

(* The length prefixWalk stores.                                            *)
PrefixLen(cidr) ==
  IF To4(cidr.ip) # None /\ cidr.bits = Width6 /\ cidr.ones >= PadLen
    THEN cidr.ones - PadLen ELSE cidr.ones

(* treeFor and prefixWalk: the node a CIDR leads to.                        *)
Node == [cidr \in CIDRs |-> <<TreeFor(cidr.ip), SubSeq(FamilyWalk(cidr.ip), 1, PrefixLen(cidr))>>]

(* The node i bits down the walk to n, and the nodes from the root to n.    *)
Step(n, i) == <<n[1], SubSeq(n[2], 1, i)>>
Path(n) == {Step(n, i) : i \in 0 .. Len(n[2])}

(* AddCIDR and insert.                                                      *)
AddCIDR(cidr, m) ==
  LET n == Node[cidr]
      added == n \notin Endpoints
  IN /\ added => count < MaxStored
     /\ nodes' = nodes \cup Path(n)
     /\ metadata' = [k \in Endpoints \cup {n} |-> IF k = n THEN m ELSE metadata[k]]
     /\ count' = IF added THEN count + 1 ELSE count
     /\ answer' = None

(* HostCIDR, which writes a mapped address as IPv4.                         *)
HostCIDR(ip) == ParseCIDR(FamilyWalk(ip), Len(FamilyWalk(ip)))

(* AddEntry of a bare address.                                              *)
AddEntry(ip, m) == AddCIDR(HostCIDR(ip), m)

(* Mutant: only the leaf goes.                                              *)
PrunedLeaf(n) == {k \in {n} \ Roots : \A d \in nodes : k \in Path(d) => d = n}

(* The empty leaves from n back to the first node that is an endpoint or    *)
(* has another child.                                                       *)
Pruned(n) ==
  {k \in Path(n) \ Roots :
     \A d \in nodes : k \in Path(d) => d \in Path(n) /\ (d = n \/ d \notin Endpoints)}

(* RemoveCIDR and remove.  A missing child or endpoint returns false.       *)
RemoveCIDR(cidr) ==
  LET n == Node[cidr]
  IN /\ Path(n) \subseteq nodes /\ n \in Endpoints
     /\ metadata' = [k \in Endpoints \ {n} |-> metadata[k]]
     /\ nodes' = nodes \ Pruned(n)
     /\ count' = count - 1
     /\ answer' = None

(* The lengths at which the walk of contains meets an endpoint.             *)
Hits(n) == {i \in 0 .. Len(n[2]) : Path(Step(n, i)) \subseteq nodes /\ Step(n, i) \in Endpoints}

(* Contains: the last endpoint met wins.                                    *)
Contains(ip) ==
  LET n == <<TreeFor(ip), FamilyWalk(ip)>>
      hits == Hits(n)
      last == CHOOSE i \in hits : \A j \in hits : j <= i
  IN /\ answer' = IF hits = {} THEN [address |-> ip, found |-> FALSE]
                  ELSE [address |-> ip, found |-> TRUE, length |-> last,
                        metadata |-> metadata[Step(n, last)]]
     /\ UNCHANGED <<nodes, metadata, count>>

Reset ==
  /\ nodes' = Roots
  /\ metadata' = NoMetadata
  /\ count' = 0
  /\ answer' = None

Next ==
  \/ \E cidr \in CIDRs, m \in Metadata : AddCIDR(cidr, m)
  \/ \E ip \in Addresses, m \in Metadata : AddEntry(ip, m)
  \/ \E cidr \in CIDRs : RemoveCIDR(cidr)
  \/ \E ip \in Addresses : Contains(ip)
  \/ Reset

Spec == Init /\ [][Next]_vars

-----------------------------------------------------------------------------
(* Properties.                                                              *)

(* net.IPNet.Contains: a mapped address or network counts as IPv4, and an   *)
(* address of the other family is in no network.                            *)
InNet(cidr, ip) ==
  LET net == FamilyWalk(cidr.ip)
      mask == IF Len(net) = Width4 /\ cidr.bits = Width6
                THEN [i \in 1 .. Width4 |-> IF i + PadLen <= cidr.ones THEN 1 ELSE 0]
                ELSE [i \in 1 .. cidr.bits |-> IF i <= cidr.ones THEN 1 ELSE 0]
      a == FamilyWalk(ip)
  IN /\ Len(a) = Len(net)
     /\ \A i \in 1 .. Len(a) : mask[i] = 1 => a[i] = net[i]

(* The networks of PrefixTable: the addresses of a CIDR and the bits that   *)
(* its mask fixes in an address of its family.  Two spellings of a network  *)
(* are one.                                                                 *)
Net == [cidr \in CIDRs |-> {ip \in Addresses : InNet(cidr, ip)}]
Length ==
  [cidr \in CIDRs |->
     Cardinality({i \in 1 .. cidr.ones : To4(cidr.ip) = None \/ i + Width4 > cidr.bits})]
Network ==
  [cidr \in CIDRs |->
     CHOOSE c \in CIDRs : Net[c] = Net[cidr] /\ Length[c] = Length[cidr]]
Networks == {Network[cidr] : cidr \in CIDRs}

(* The nodes that the spellings of a network lead to.                       *)
NodesOf == [n \in Networks |-> {Node[cidr] : cidr \in {c \in CIDRs : Network[c] = n}}]

Stored ==
  [n \in {k \in Networks : NodesOf[k] \cap Endpoints # {}} |->
     metadata[CHOOSE k \in NodesOf[n] : k \in Endpoints]]

Table == INSTANCE PrefixTable WITH NoAnswer <- None, table <- Stored

(* The trees implement the table of networks: what is stored, replaced and  *)
(* removed, what Count returns, and that Contains answers with the longest  *)
(* network that has the address, as net.IPNet.Contains would have it, for   *)
(* both spellings of IPv4 (insert, remove, contains, prefixWalk).           *)
ImplementsTable == Table!Spec

(* A tree holds the paths to its endpoints and nothing else, so that a      *)
(* long-lived store that adds and removes does not grow (remove).           *)
NoDeadBranches ==
  nodes = Roots \cup UNION {Path(n) : n \in Endpoints}

=============================================================================
