------------------------------ MODULE CliSwitch ------------------------------
(***************************************************************************)
(* AristaEosSwitch and CiscoNxosSwitch (switch/arista/arista_eos_switch.py,*)
(* switch/cisco/nxos_switch.py): edits as lists of CLI commands that the   *)
(* switch runs in order, at once effective, until one is refused or the    *)
(* connection is lost.                                                     *)
(*                                                                         *)
(* The configuration is that of one port, one VLAN and its SVI.            *)
(***************************************************************************)
EXTENDS Naturals, Sequences

CONSTANT MaxCalls       \* bound: calls made

Vendors == {"eos", "nxos"}
FecEncodings == {"off", "fire-code", "reed-solomon"}
Auto == "auto"                                      \* None: the switch's own choice
CliAddresses == [family : {"ip", "ipv6"}, host : 1..2]
NoAddress == [family |-> "none", host |-> 0]

VARIABLES
    vendor,
    admin, vlan,    \* the port is enabled; a VLAN is on the switch
    fec,        \* lines of the port's running config, on NX-OS one at most
    svi,        \* "none", or the SVI is there, with
    addresses,  \* the addresses in its running config
    call, todo, \* the call being made and the commands still to run
    answer,     \* of the last call: none, ok, raised
    calls

callVars == <<call, todo, answer, calls>>
configVars == <<admin, vlan, fec, svi, addresses>>
vars == <<vendor, configVars, callVars>>

Init ==
    /\ vendor \in Vendors
    /\ admin = TRUE /\ vlan = TRUE
    /\ fec \in {{}, {"reed-solomon"}}
    /\ svi = "none" /\ addresses = {}
    /\ call = [op |-> "none"] /\ todo = <<>> /\ answer = "none" /\ calls = 0

-----------------------------------------------------------------------------
(* Commands                                                                *)

Command(verb, what) == [verb |-> verb, what |-> what]
Other(encoding) == IF encoding = "fire-code" THEN "reed-solomon" ELSE "fire-code"

\* Mutant of EosFec: the other encoding is left as it is.
EosFecAdds(encoding) ==
    CASE encoding = Auto -> <<Command("default fec", Auto)>>
      [] encoding = "off" -> <<Command("no fec", "all")>>
      [] OTHER -> <<Command("fec", encoding)>>
EosFec(encoding) ==
    CASE encoding = Auto -> <<Command("default fec", Auto)>>
      [] encoding = "off" -> <<Command("no fec", "all")>>
      [] OTHER -> <<Command("fec", encoding), Command("no fec", Other(encoding))>>
NxosFec(encoding) ==
    IF encoding = Auto THEN <<Command("default fec", Auto)>> ELSE <<Command("fec", encoding)>>

SetPortFec(encoding) == IF vendor = "eos" THEN EosFec(encoding) ELSE NxosFec(encoding)

\* Mutant of SetSvi: the SVI is not made sure of.
SetSviNoInterface(a) ==
    IF a = NoAddress THEN <<Command("no interface", NoAddress)>> ELSE <<Command("address", a)>>
\* set_svi_address: NoAddress removes the SVI.
SetSvi(a) ==
    IF a = NoAddress THEN <<Command("no interface", NoAddress)>>
    ELSE <<Command("interface", NoAddress), Command("no address", "ip"), Command("no address", "ipv6"),
           Command("address", a)>>

\* The switches' side of it: EOS adds an encoding to those the port has, NX-OS replaces it; a new
\* IPv4 address takes the place of the old one, an IPv6 address comes on top.
FecAfter(c) ==
    CASE c.verb = "default fec" -> {}
      [] c.verb = "no fec" -> IF c.what = "all" THEN {"off"} ELSE fec \ {c.what}
      [] c.verb = "fec" -> IF vendor = "nxos" THEN {c.what} ELSE (fec \ {"off"}) \union {c.what}
      [] OTHER -> fec
AddressesAfter(c) ==
    CASE c.verb = "no interface" -> {}
      [] c.verb = "no address" -> {a \in addresses : a.family # c.what}
      [] c.verb = "address" -> {a \in addresses : a.family = "ipv6" \/ c.what.family = "ipv6"} \union {c.what}
      [] OTHER -> addresses
AdminAfter(c) == CASE c.verb = "shutdown" -> FALSE [] c.verb = "no shutdown" -> TRUE [] OTHER -> admin
SviAfter(c) == CASE c.verb = "interface" -> "there" [] c.verb = "no interface" -> "none" [] OTHER -> svi

Begins(c, commands) ==
    /\ call.op = "none" /\ calls < MaxCalls
    /\ calls' = calls + 1
    /\ call' = c /\ todo' = commands /\ answer' = "none"
    /\ UNCHANGED <<vendor, configVars>>

Ends(a) == call' = [call EXCEPT !.op = "none"] /\ answer' = a /\ todo' = <<>>

BeginAdmin(up) ==
    Begins([op |-> "admin", of |-> "admin", value |-> up],
           <<Command(IF up THEN "no shutdown" ELSE "shutdown", "port")>>)
DeleteVlan == Begins([op |-> "vlan", of |-> "vlan", value |-> "id"], <<Command("no vlan", "id")>>)
BeginFec(encoding) == Begins([op |-> "fec", of |-> "fec", value |-> encoding], SetPortFec(encoding))
BeginSvi(a) == Begins([op |-> "svi", of |-> "svi", value |-> a], SetSvi(a))

Run ==
    /\ todo # <<>>
    /\ LET c == Head(todo)
       IN  /\ fec' = FecAfter(c) /\ addresses' = AddressesAfter(c) /\ svi' = SviAfter(c)
           /\ admin' = AdminAfter(c) /\ vlan' = (vlan /\ c.verb # "no vlan")
    /\ IF Len(todo) = 1 THEN Ends("ok") ELSE todo' = Tail(todo) /\ UNCHANGED <<call, answer>>
    /\ UNCHANGED <<vendor, calls>>

\* A command is refused, or the connection is lost: the commands before it stay, none follows.
Refused ==
    /\ todo # <<>> /\ Ends("raised")
    /\ UNCHANGED <<vendor, configVars, calls>>

-----------------------------------------------------------------------------
(* Reads of the running config                                             *)

\* port_fec: EOS takes two encodings for the switch's choice; NX-OS has one line.
PortFec == IF \E e \in FecEncodings : fec = {e} THEN CHOOSE e \in FecEncodings : fec = {e} ELSE Auto

\* svi_address_from_config: the first address line; IPv4 lines come first.
AddressFromConfig ==
    LET ipv4 == {a \in addresses : a.family = "ip"}
    IN  IF addresses = {} THEN {} ELSE IF ipv4 # {} THEN ipv4 ELSE addresses

Next ==
    \/ \E up \in BOOLEAN : BeginAdmin(up)
    \/ DeleteVlan
    \/ \E e \in FecEncodings \union {Auto} : BeginFec(e)
    \/ \E a \in CliAddresses \union {NoAddress} : BeginSvi(a)
    \/ Run \/ Refused

Spec == Init /\ [][Next]_vars

-----------------------------------------------------------------------------
TypeOK ==
    /\ vendor \in Vendors
    /\ admin \in BOOLEAN /\ vlan \in BOOLEAN
    /\ fec \subseteq FecEncodings /\ addresses \subseteq CliAddresses
    /\ svi \in {"none", "there"} /\ (svi = "none" => addresses = {})
    /\ call.op \in {"none", "admin", "vlan", "fec", "svi"} /\ answer \in {"none", "ok", "raised"}
    /\ (todo # <<>>) <=> (call.op # "none")

\* What a call that returned has set is what the matching read gives, and the address is the SVI's
\* only one, whatever half-made edit an earlier, failed call has left.
CliReadsBack ==
    answer = "ok" =>
        /\ call.of = "admin" => admin = call.value
        /\ call.of = "vlan" => ~vlan
        /\ call.of = "fec" => PortFec = call.value
        /\ call.of = "svi" => /\ addresses = IF call.value = NoAddress THEN {} ELSE {call.value}
                              /\ AddressFromConfig = addresses
=============================================================================
