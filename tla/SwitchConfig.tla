---------------------------- MODULE SwitchConfig ----------------------------
(***************************************************************************)
(* What the callers of a NetworkSwitch reckon with: a configuration that   *)
(* changes by whole edits.  An edit handed to the switch is pending; the   *)
(* switch makes it all at once, or drops it, at a time of its own; other   *)
(* editors of the switch make whole edits too.                             *)
(***************************************************************************)
EXTENDS Naturals

CONSTANTS
    Calls,              \* the calls that may edit
    Ports, Vlans,
    Addresses,          \* of the one SVI the edits are about
    Encodings           \* FEC encodings, the switch's own choice among them

NoSvi == {"no_svi"}    \* no SVI at all, as against one without an address
NoEdit == [op |-> "none"]

Configs ==
    [vlans : SUBSET Vlans, member : [Ports -> SUBSET Vlans],
     svi : (SUBSET Addresses) \union {NoSvi},
     admin : [Ports -> BOOLEAN], fec : [Ports -> Encodings]]

Edits ==
    [op : {"delete_vlan"}, vlan : Vlans, ports : SUBSET Ports]
    \union [op : {"set_svi"}, address : Addresses, known : BOOLEAN]
    \union [op : {"remove_svi"}, known : BOOLEAN]
    \union [op : {"set_admin"}, port : Ports, up : BOOLEAN]
    \union [op : {"set_fec"}, port : Ports, fec : Encodings]

Members(c, v) == {p \in Ports : v \in c.member[p]}

\* The configuration after edit e.  An edit speaks of what was there when it was made: a port that
\* joins the VLAN later, or the first address that somebody gives the SVI later, stays.
Edited(e, c) ==
    CASE e.op = "delete_vlan" ->
            [c EXCEPT !.vlans = @ \ {e.vlan},
                      !.member = [p \in Ports |-> IF p \in e.ports THEN @[p] \ {e.vlan} ELSE @[p]]]
      [] e.op = "set_svi" ->
            [c EXCEPT !.svi = (IF e.known \/ @ = NoSvi THEN {} ELSE @) \union {e.address}]
      [] e.op = "remove_svi" -> [c EXCEPT !.svi = IF e.known THEN NoSvi ELSE @]
      [] e.op = "set_admin" -> [c EXCEPT !.admin[e.port] = e.up]
      [] e.op = "set_fec" -> [c EXCEPT !.fec[e.port] = e.fec]

VARIABLES
    config,     \* the applied configuration
    pending     \* for each call, the edit it has handed over and the switch has not decided on

vars == <<config, pending>>

Init ==
    /\ config \in Configs
    /\ pending = [i \in Calls |-> NoEdit]

Submit(i, e) ==
    /\ pending[i] = NoEdit
    /\ pending' = [pending EXCEPT ![i] = e]
    /\ UNCHANGED config

Apply(i) ==
    /\ pending[i] # NoEdit
    /\ config' = Edited(pending[i], config)
    /\ pending' = [pending EXCEPT ![i] = NoEdit]

Drop(i) ==
    /\ pending[i] # NoEdit
    /\ pending' = [pending EXCEPT ![i] = NoEdit]
    /\ UNCHANGED config

\* Somebody else puts a port into a VLAN, takes it out, or gives the SVI an address more.
Join(p, v) == [config EXCEPT !.vlans = @ \union {v}, !.member[p] = @ \union {v}]
Leave(p, v) == [config EXCEPT !.member[p] = @ \ {v}]
AddAddress(a) == [config EXCEPT !.svi = (IF @ = NoSvi THEN {} ELSE @) \union {a}]

OthersEdit ==
    /\ \/ \E p \in Ports, v \in Vlans : config' \in {Join(p, v), Leave(p, v)}
       \/ \E a \in Addresses : config' = AddAddress(a)
    /\ UNCHANGED pending

Next ==
    \/ \E i \in Calls : (\E e \in Edits : Submit(i, e)) \/ Apply(i) \/ Drop(i)
    \/ OthersEdit

Spec == Init /\ [][Next]_vars
=============================================================================
