----------------------------- MODULE MCSwitches -----------------------------
(***************************************************************************)
(* The switch drivers for TLC.  A behaviour edits one switch over NVUE,    *)
(* edits one by CLI, or reads LLDP neighbors: the three share nothing, so  *)
(* their state spaces are added and not multiplied.                        *)
(***************************************************************************)
EXTENDS NvueSwitch, Integers

CONSTANTS
    CliCalls,           \* bound: calls to a CLI switch
    Layouts             \* by driver, the interfaces a switch may have

\* A switch lists its interfaces by their full names.
ASSUME SwitchAssumption ==
    /\ CliCalls \in Nat
    /\ \A v \in {"nvue", "eos", "nxos"} : \A l \in Layouts[v] :
          /\ IsFiniteSet(l) /\ l \subseteq [prefix : STRING, slot : Nat, cage : Nat, sub : Int]
          /\ \A n \in l : n.prefix # "Eth"

VARIABLES
    driven,             \* what the behaviour drives
    vendor, admin, vlan, fec, svi, addresses, cliCall, cliTodo, cliAnswer, cliCalls,
    lldpVendor, layout, lldpPc, table, first, reported

cliVars == <<vendor, admin, vlan, fec, svi, addresses, cliCall, cliTodo, cliAnswer, cliCalls>>
lldpVars == <<lldpVendor, layout, lldpPc, table, first, reported>>

Cli == INSTANCE CliSwitch WITH
    MaxCalls <- CliCalls, call <- cliCall, todo <- cliTodo, answer <- cliAnswer, calls <- cliCalls

\* Cage 1 is whole or broken out, and shifts cage 2; two slots on NX-OS.  EOS indexes the subport of
\* a whole cage too, and spells its ports in one of two ways.  Interfaces that are no data ports, with
\* neighbors all the same, come along.
P == INSTANCE PortNames
Cages(prefix, slot, whole, subports, later) ==
    LET other == {P!Name("Management", 0, 1, P!NoSubport), P!Name("other", 0, 0, 0)} \union later
        sub(k) == P!Name(prefix, slot, 1, k)
    IN  {other \union {sub(whole)}, other \union {sub(k) : k \in subports}}
MCLayouts ==
    [nvue |-> Cages("swp", 0, P!NoSubport, {0, 1}, {P!Name("swp", 0, 2, P!NoSubport)}),
     eos |-> UNION {Cages(e, 0, 1, {1, 2}, {P!Name(e, 0, 2, 1)}) : e \in {"Ethernet", "Et"}},
     nxos |-> Cages("Ethernet", 1, P!NoSubport, {1, 2}, {P!Name("Ethernet", 2, 1, P!NoSubport)})]

Lldp == INSTANCE LldpReads WITH vendor <- lldpVendor, pc <- lldpPc

\* Two ports in VLAN 10, one of them in VLAN 20 too; an SVI with an address, or none.
MCConfigs ==
    {[vlans |-> Vlans, member |-> [p \in Ports |-> IF p = "swp1" THEN Vlans ELSE {"10"}],
      svi |-> s, admin |-> [p \in Ports |-> TRUE], fec |-> [p \in Ports |-> "auto"]] :
        s \in {{"a1"}, {"no_svi"}}}

\* What is not driven starts in one state.
MCInit ==
    /\ Init /\ Cli!Init /\ Lldp!Init
    /\ driven \in {"nvue", "cli", "lldp"}
    /\ driven # "nvue" => config.svi = {"a1"}
    /\ driven # "cli" => vendor = "eos" /\ fec = {}
    /\ driven # "lldp" => lldpVendor = "eos" /\ layout = CHOOSE l \in Layouts["eos"] : TRUE
MCNext ==
    /\ UNCHANGED driven
    /\ \/ driven = "nvue" /\ Next /\ UNCHANGED <<cliVars, lldpVars>>
       \/ driven = "cli" /\ Cli!Next /\ UNCHANGED <<vars, lldpVars>>
       \/ driven = "lldp" /\ Lldp!Next /\ UNCHANGED <<vars, cliVars>>
switchVars == <<driven, vars, cliVars, lldpVars>>
MCSpec ==
    /\ MCInit /\ [][MCNext]_switchVars
    /\ WF_vars(Driver /\ UNCHANGED <<driven, cliVars, lldpVars>>)
    /\ WF_vars(DeadlinePasses /\ UNCHANGED <<driven, cliVars, lldpVars>>)

\* The types of the three drivers' states.
SwitchTypeOK == TypeOK /\ Cli!TypeOK /\ Lldp!TypeOK
\* A CLI driver's writes are read back, after failed ones too.
CliReadsBack == Cli!CliReadsBack
\* Port IDs tell interfaces apart, in port order.
PortIdsTellApart == Lldp!PortIdsTellApart
=============================================================================
