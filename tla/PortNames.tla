------------------------------ MODULE PortNames ------------------------------
(***************************************************************************)
(* The port numbering of switch/portname.py and what the drivers hand to   *)
(* it.  A name is what parsing leaves of it: prefix, slot, cage, subport;  *)
(* a name in no known notation has the prefix "other".                     *)
(***************************************************************************)
EXTENDS Integers, FiniteSets

NoSubport == -1
Name(prefix, slot, cage, sub) == [prefix |-> prefix, slot |-> slot, cage |-> cage, sub |-> sub]

\* The prefixes of the drivers in the order of the alphabet; sort_key compares prefix, slot, cage,
\* subport in this order.
Rank(n) ==
    CASE n.prefix = "Et" -> 0 [] n.prefix = "Eth" -> 1 [] n.prefix = "Ethernet" -> 2 [] n.prefix = "swp" -> 3 [] OTHER -> 4
SortKey(n) == <<Rank(n), n.slot, n.cage, n.sub>>
Before(m, n) ==
    \E i \in 1..4 : SortKey(m)[i] < SortKey(n)[i] /\ \A j \in 1..(i - 1) : SortKey(m)[j] = SortKey(n)[j]

\* Mutant of Precedes: subports of a cage are not told apart.
PrecedesByCage(m, n) == Before([m EXCEPT !.sub = 0], [n EXCEPT !.sub = 0]) \/ m = n
Precedes(m, n) == Before(m, n) \/ m = n

Parsed(n) == n.prefix # "other"
\* What each driver hands to learn(): swp names; Ethernet names, in either spelling; names that
\* parse_cisco knows.
NvueDataPorts(names) == {n \in names : Parsed(n) /\ n.prefix = "swp"}
EosDataPorts(names) == {n \in names : Parsed(n) /\ n.prefix \in {"Ethernet", "Et"}}
NxosDataPorts(names) == {n \in names : Parsed(n) /\ n.prefix = "Ethernet" /\ n.slot > 0}
DataPorts(vendor, names) ==
    CASE vendor = "nvue" -> NvueDataPorts(names)
      [] vendor = "eos" -> EosDataPorts(names)
      [] vendor = "nxos" -> NxosDataPorts(names)

\* learn: the mapping made of the names, or the old one if there is no usable name.
Learn(old, names) ==
    IF names = {} THEN old ELSE [n \in names |-> Cardinality({m \in names : Precedes(m, n)})]

PortId(mapping, n) == IF n \in DOMAIN mapping THEN mapping[n] ELSE 0      \* 0 for None

\* _full_name: NX-OS abbreviates the prefix in some tables.
FullName(n) == IF n.prefix = "Eth" THEN [n EXCEPT !.prefix = "Ethernet"] ELSE n
=============================================================================
