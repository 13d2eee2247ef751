----------------------------- MODULE LldpReads -----------------------------
(***************************************************************************)
(* lldp_neighbors of the three switch drivers: the neighbor table, joined  *)
(* with port IDs learned from the list of all interfaces.  NVUE gives both *)
(* in one answer; EOS and NX-OS are asked twice, and a cage can be broken  *)
(* out or made whole in between.                                           *)
(***************************************************************************)
EXTENDS PortNames

CONSTANTS Layouts       \* by vendor, the interface lists the switch may have

Vendors == {"nvue", "eos", "nxos"}

VARIABLES
    vendor, layout,     \* the driver, and the interfaces the switch has now
    pc, table, first,   \* where the call is; the interfaces with a neighbor; the list when it was read
    reported            \* what lldp_neighbors returned

vars == <<vendor, layout, pc, table, first, reported>>

Init ==
    /\ vendor \in Vendors
    /\ layout \in Layouts[vendor]
    /\ pc = "start" /\ table = {} /\ first = {} /\ reported = {}

\* The table as the switch gives it: NX-OS abbreviates the names.
Abbreviated(n) == IF vendor = "nxos" /\ n.prefix = "Ethernet" THEN [n EXCEPT !.prefix = "Eth"] ELSE n

\* _parse_lldp_neighbors: neighbors on interfaces that are no data ports are left out.
WithPortIds(names, mapping) ==
    {[interface |-> n, port |-> PortId(mapping, n)] : n \in {m \in names : PortId(mapping, m) # 0}}
NvueNeighbors == WithPortIds(table', Learn(<<>>, NvueDataPorts(layout)))
EosNeighbors == WithPortIds(table, Learn(<<>>, EosDataPorts(layout)))
NxosNeighbors == WithPortIds({FullName(n) : n \in table}, Learn(<<>>, NxosDataPorts(layout)))

ReadTable ==
    /\ pc = "start"
    /\ \E ns \in SUBSET layout : table' = {Abbreviated(n) : n \in ns}
    /\ first' = layout
    /\ IF vendor = "nvue" THEN reported' = NvueNeighbors /\ pc' = "done"
                          ELSE pc' = "list" /\ UNCHANGED reported
    /\ UNCHANGED <<vendor, layout>>

ReadInterfaces ==
    /\ pc = "list"
    /\ reported' = IF vendor = "eos" THEN EosNeighbors ELSE NxosNeighbors
    /\ pc' = "done"
    /\ UNCHANGED <<vendor, layout, table, first>>

Recabled ==
    /\ pc = "list"
    /\ layout' \in Layouts[vendor] \ {layout}
    /\ UNCHANGED <<vendor, pc, table, first, reported>>

Next == ReadTable \/ ReadInterfaces \/ Recabled
Spec == Init /\ [][Next]_vars

-----------------------------------------------------------------------------
TypeOK ==
    /\ vendor \in Vendors /\ layout \in Layouts[vendor]
    /\ pc \in {"start", "list", "done"}
    /\ \A x \in reported : x.port \in Nat \ {0}

\* Neighbors on different interfaces, subports of one cage included, get different port IDs, in the
\* order of the ports and within the number of data ports; and while nobody re-cables the switch no
\* neighbor on a data port is left out (portname.py:16-19).
PortIdsTellApart ==
    pc = "done" =>
        /\ \A x, y \in reported : x.interface # y.interface =>
              (x.port < y.port <=> Before(x.interface, y.interface)) /\ x.port # y.port
        /\ \A x \in reported : x.port <= Cardinality(DataPorts(vendor, layout))
        /\ layout = first =>
              {x.interface : x \in reported} = DataPorts(vendor, layout) \intersect {FullName(n) : n \in table}
=============================================================================
