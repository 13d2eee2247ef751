------------------------- MODULE MCSwitches_proofs -------------------------
(***************************************************************************)
(* Proofs about the switch drivers of MCSwitches, for every set of ports,  *)
(* VLANs, addresses, encodings and interface lists and every bound: an     *)
(* NVUE driver's edits are made whole or not at all and its answers are    *)
(* true, what a CLI driver has set is read back, and port IDs tell the     *)
(* interfaces with neighbors apart.                                        *)
(***************************************************************************)
EXTENDS MCSwitches, Sequences, FiniteSetTheorems, TLAPS

-----------------------------------------------------------------------------
(* Edits of a configuration, and the writes that make them.                *)

LEMMA SameConfig ==
    ASSUME NEW c \in Abstract!Configs, NEW d \in Abstract!Configs,
           c.vlans = d.vlans, c.member = d.member, c.svi = d.svi, c.admin = d.admin, c.fec = d.fec
    PROVE  c = d
BY DEF Abstract!Configs

LEMMA ConfigFields ==
    ASSUME NEW c \in Abstract!Configs
    PROVE  /\ c.vlans \in SUBSET Vlans /\ c.member \in [Ports -> SUBSET Vlans]
           /\ c.svi \in (SUBSET Addresses) \union {Abstract!NoSvi}
           /\ c.admin \in [Ports -> BOOLEAN] /\ c.fec \in [Ports -> Encodings]
BY DEF Abstract!Configs

\* What an edit has, by its operation.
LEMMA EditFields ==
    ASSUME NEW e \in Abstract!Edits
    PROVE  /\ e.op \in {"delete_vlan", "set_svi", "remove_svi", "set_admin", "set_fec"}
           /\ e.op = "delete_vlan" => e.vlan \in Vlans /\ e.ports \in SUBSET Ports
           /\ e.op = "set_svi" => e.address \in Addresses /\ e.known \in BOOLEAN
           /\ e.op = "remove_svi" => e.known \in BOOLEAN
           /\ e.op = "set_admin" => e.port \in Ports /\ e.up \in BOOLEAN
           /\ e.op = "set_fec" => e.port \in Ports /\ e.fec \in Encodings
           /\ e # Abstract!NoEdit
BY DEF Abstract!Edits, Abstract!NoEdit

\* What is the same after an edit, and what is not.
Changes(c, d, fields) ==
    /\ "vlans" \notin fields => d.vlans = c.vlans
    /\ "member" \notin fields => d.member = c.member
    /\ "svi" \notin fields => d.svi = c.svi
    /\ "admin" \notin fields => d.admin = c.admin
    /\ "fec" \notin fields => d.fec = c.fec

LEMMA EditedIs ==
    ASSUME NEW c \in Abstract!Configs, NEW e \in Abstract!Edits
    PROVE  LET d == Abstract!Edited(e, c)
           IN  /\ d \in Abstract!Configs
               /\ e.op = "delete_vlan" =>
                     /\ d.vlans = c.vlans \ {e.vlan}
                     /\ d.member = [p \in Ports |-> IF p \in e.ports THEN c.member[p] \ {e.vlan} ELSE c.member[p]]
                     /\ Changes(c, d, {"vlans", "member"})
               /\ e.op = "set_svi" =>
                     /\ d.svi = (IF e.known \/ c.svi = Abstract!NoSvi THEN {} ELSE c.svi) \union {e.address}
                     /\ Changes(c, d, {"svi"})
               /\ e.op = "remove_svi" =>
                     d.svi = (IF e.known THEN Abstract!NoSvi ELSE c.svi) /\ Changes(c, d, {"svi"})
               /\ e.op = "set_admin" =>
                     d.admin = [c.admin EXCEPT ![e.port] = e.up] /\ Changes(c, d, {"admin"})
               /\ e.op = "set_fec" =>
                     d.fec = [c.fec EXCEPT ![e.port] = e.fec] /\ Changes(c, d, {"fec"})
<1> DEFINE d == Abstract!Edited(e, c)
<1>1. CASE e.op = "delete_vlan"
  <2> DEFINE m == [p \in Ports |-> IF p \in e.ports THEN c.member[p] \ {e.vlan} ELSE c.member[p]]
  <2>1. d = [c EXCEPT !.vlans = c.vlans \ {e.vlan}, !.member = m]
    BY <1>1 DEF Abstract!Edited
  <2>2. m \in [Ports -> SUBSET Vlans] /\ c.vlans \ {e.vlan} \in SUBSET Vlans
    BY ConfigFields
  <2> HIDE DEF m
  <2>3. /\ d \in Abstract!Configs /\ d.vlans = c.vlans \ {e.vlan} /\ d.member = m
        /\ Changes(c, d, {"vlans", "member"})
    BY <2>1, <2>2 DEF Abstract!Configs, Changes
  <2> QED
    BY <1>1, <2>3 DEF m
<1>2. CASE e.op = "set_svi"
  <2> DEFINE s == (IF e.known \/ c.svi = Abstract!NoSvi THEN {} ELSE c.svi) \union {e.address}
  <2>1. d = [c EXCEPT !.svi = s]
    BY <1>2 DEF Abstract!Edited
  <2>2. s \in SUBSET Addresses
    BY <1>2, EditFields, ConfigFields
  <2> HIDE DEF s
  <2>3. d \in Abstract!Configs /\ d.svi = s /\ Changes(c, d, {"svi"})
    BY <2>1, <2>2 DEF Abstract!Configs, Changes
  <2> QED
    BY <1>2, <2>3 DEF s
<1>3. CASE e.op = "remove_svi"
  <2>1. d = [c EXCEPT !.svi = IF e.known THEN Abstract!NoSvi ELSE @]
    BY <1>3 DEF Abstract!Edited
  <2> QED
    BY <1>3, <2>1, EditFields DEF Abstract!Configs, Changes
<1>4. CASE e.op = "set_admin"
  <2>1. d = [c EXCEPT !.admin[e.port] = e.up]
    BY <1>4 DEF Abstract!Edited
  <2> QED
    BY <1>4, <2>1, EditFields DEF Abstract!Configs, Changes
<1>5. CASE e.op = "set_fec"
  <2>1. d = [c EXCEPT !.fec[e.port] = e.fec]
    BY <1>5 DEF Abstract!Edited
  <2> QED
    BY <1>5, <2>1, EditFields DEF Abstract!Configs, Changes
<1> QED
  BY <1>1, <1>2, <1>3, <1>4, <1>5, EditFields

LEMMA WithoutIs ==
    ASSUME NEW c \in Abstract!Configs, NEW W
    PROVE  LET d == Without(W, c)
           IN  /\ d \in Abstract!Configs
               /\ d.vlans = {v \in c.vlans : Delete("vlan", "none", v) \notin W}
               /\ d.member = [p \in Ports |-> {v \in c.member[p] : Delete("member", p, v) \notin W}]
               /\ d.svi = IF Delete("svi", "none", "none") \in W THEN Abstract!NoSvi
                          ELSE IF Delete("addresses", "none", "none") \in W /\ c.svi # Abstract!NoSvi THEN {}
                          ELSE c.svi
               /\ Changes(c, d, {"vlans", "member", "svi"})
<1> DEFINE A(v) == Delete("vlan", "none", v) \notin W
           B(p, v) == Delete("member", p, v) \notin W
           S == Delete("svi", "none", "none") \in W
           T == Delete("addresses", "none", "none") \in W
           d == [c EXCEPT !.vlans = {v \in @ : A(v)},
                          !.member = [p \in Ports |-> {v \in @[p] : B(p, v)}],
                          !.svi = IF S THEN Abstract!NoSvi
                                  ELSE IF T /\ @ # Abstract!NoSvi THEN {} ELSE @]
<1>1. Without(W, c) = d
  BY DEF Without
<1> HIDE DEF A, B, S, T
<1>2. /\ d \in Abstract!Configs
      /\ d.vlans = {v \in c.vlans : A(v)}
      /\ d.member = [p \in Ports |-> {v \in c.member[p] : B(p, v)}]
      /\ d.svi = IF S THEN Abstract!NoSvi ELSE IF T /\ c.svi # Abstract!NoSvi THEN {} ELSE c.svi
      /\ d.admin = c.admin /\ d.fec = c.fec
  BY DEF Abstract!Configs
<1> HIDE DEF d
<1> QED
  BY <1>1, <1>2 DEF A, B, S, T, Changes

LEMMA KeepsSvi ==
    ASSUME NEW c \in Abstract!Configs, NEW W,
           Delete("svi", "none", "none") \notin W, Delete("addresses", "none", "none") \notin W
    PROVE  Without(W, c).svi = c.svi
<1>1. Without(W, c).svi = IF Delete("svi", "none", "none") \in W THEN Abstract!NoSvi
                          ELSE IF Delete("addresses", "none", "none") \in W /\ c.svi # Abstract!NoSvi THEN {}
                          ELSE c.svi
  BY WithoutIs
<1> QED
  BY <1>1

\* The writes of an edit, and those of them that find something to delete.
WritesOf(e) ==
    CASE e.op = "delete_vlan" ->
            {Delete("member", p, e.vlan) : p \in e.ports} \union {Delete("vlan", "none", e.vlan)}
      [] e.op = "set_svi" -> {Delete("addresses", "none", "none"),
                              Patch([op |-> "set_svi", address |-> e.address, known |-> FALSE])}
      [] e.op = "remove_svi" -> {Delete("svi", "none", "none")}
      [] OTHER -> {Patch(e)}
Recordable(e) == {w \in WritesOf(e) : Optional(w) => e.known}

LEMMA DeletesApart ==
    /\ \A a, p, v, b, q, u : Delete(a, p, v) = Delete(b, q, u) <=> a = b /\ p = q /\ v = u
    /\ \A a, p, v : Delete(a, p, v).write = "delete" /\ Delete(a, p, v).what = a
    /\ \A e : Patch(e).write = "patch" /\ Patch(e).edit = e
    /\ \A a, p, v, e : Delete(a, p, v) # Patch(e)
BY DEF Delete, Patch

LEMMA NothingPatched ==
    ASSUME NEW W, \A w \in W : w.write # "patch", NEW c
    PROVE  Performed(W, c) = Without(W, c)
BY DEF Performed

LEMMA OnePatched ==
    ASSUME NEW W, NEW e, Patch(e) \in W, \A w \in W : w.write = "patch" => w = Patch(e), NEW c
    PROVE  Performed(W, c) = Abstract!Edited(e, Without(W, c))
<1>1. Patch(e).write = "patch" /\ Patch(e).edit = e
  BY DEF Patch
<1>2. (CHOOSE w \in W : w.write = "patch") = Patch(e)
  BY <1>1
<1> QED
  BY <1>1, <1>2 DEF Performed

\* A revision with all of an edit's writes does to any configuration what the edit does.
LEMMA PerformedIsEdited ==
    ASSUME NEW e \in Abstract!Edits, NEW c \in Abstract!Configs
    PROVE  Performed(Recordable(e), c) = Abstract!Edited(e, c)
<1> DEFINE W == Recordable(e)
           d == Without(W, c)
           r == Abstract!Edited(e, c)
<1>1. CASE e.op = "delete_vlan"
  <2>1. WritesOf(e) = {Delete("member", p, e.vlan) : p \in e.ports} \union {Delete("vlan", "none", e.vlan)}
    BY <1>1 DEF WritesOf
  <2>2. \A w \in WritesOf(e) : w.write = "delete" /\ w.what \in {"member", "vlan"}
    BY <2>1, DeletesApart
  <2>3. W = WritesOf(e)
    BY <2>2 DEF Recordable, Optional
  <2>4. Performed(W, c) = d
    BY <2>2, <2>3, NothingPatched
  <2>5. /\ \A v : Delete("vlan", "none", v) \in W <=> v = e.vlan
        /\ \A p, v : Delete("member", p, v) \in W <=> p \in e.ports /\ v = e.vlan
        /\ Delete("svi", "none", "none") \notin W /\ Delete("addresses", "none", "none") \notin W
    BY <2>1, <2>3, DeletesApart
  <2> HIDE DEF W, d, r
  <2>6. /\ d \in Abstract!Configs /\ d.vlans = c.vlans \ {e.vlan} /\ d.svi = c.svi
        /\ d.admin = c.admin /\ d.fec = c.fec
    <3>1. /\ d \in Abstract!Configs /\ d.vlans = {v \in c.vlans : Delete("vlan", "none", v) \notin W}
          /\ Changes(c, d, {"vlans", "member", "svi"})
      BY WithoutIs DEF d
    <3>2. d.svi = c.svi
      BY <2>5, KeepsSvi DEF d
    <3> QED
      BY <2>5, <3>1, <3>2 DEF Changes
  <2>7. d.member = [p \in Ports |-> IF p \in e.ports THEN c.member[p] \ {e.vlan} ELSE c.member[p]]
    <3>1. d.member = [p \in Ports |-> {v \in c.member[p] : Delete("member", p, v) \notin W}]
      BY WithoutIs DEF d
    <3> QED
      BY <2>5, <3>1
  <2>8. /\ r \in Abstract!Configs /\ r.vlans = c.vlans \ {e.vlan} /\ r.svi = c.svi
        /\ r.admin = c.admin /\ r.fec = c.fec
        /\ r.member = [p \in Ports |-> IF p \in e.ports THEN c.member[p] \ {e.vlan} ELSE c.member[p]]
    BY <1>1, EditedIs DEF r, Changes
  <2>9. d.vlans = r.vlans /\ d.member = r.member /\ d.svi = r.svi /\ d.admin = r.admin /\ d.fec = r.fec
    BY <2>6, <2>7, <2>8
  <2>10. d = r
    BY <2>6, <2>8, <2>9, SameConfig
  <2> QED
    BY <2>4, <2>10 DEF W, r
<1>2. CASE e.op = "set_svi"
  <2> DEFINE q == [op |-> "set_svi", address |-> e.address, known |-> FALSE]
             a == Delete("addresses", "none", "none")
  <2>1. WritesOf(e) = {a, Patch(q)}
    BY <1>2 DEF WritesOf
  <2>2. Patch(q) \in W /\ (\A w \in W : w.write = "patch" => w = Patch(q)) /\ (a \in W <=> e.known)
    <3>1. ~Optional(Patch(q)) /\ Optional(a)
      BY DeletesApart DEF Optional
    <3> QED
      BY <2>1, <3>1, DeletesApart DEF Recordable
  <2>3. /\ \A v : Delete("vlan", "none", v) \notin W
        /\ \A p, v : Delete("member", p, v) \notin W
        /\ Delete("svi", "none", "none") \notin W
    BY <2>1, DeletesApart DEF Recordable
  <2>4. q \in Abstract!Edits /\ q.op = "set_svi" /\ q.address = e.address /\ ~q.known
    BY <1>2, EditFields DEF Abstract!Edits
  <2>5. Performed(W, c) = Abstract!Edited(q, d)
    BY <2>2, OnePatched
  <2> HIDE DEF W, d, r, q
  <2>6. d \in Abstract!Configs /\ d.admin = c.admin /\ d.fec = c.fec
    BY ZenonT(40), WithoutIs DEF d, Changes
  <2>7. d.vlans = c.vlans /\ d.member = c.member
    <3>1. /\ d.vlans = {v \in c.vlans : Delete("vlan", "none", v) \notin W}
          /\ d.member = [p \in Ports |-> {v \in c.member[p] : Delete("member", p, v) \notin W}]
      BY WithoutIs DEF d
    <3> QED
      BY <2>3, <3>1, ConfigFields
  <2>8. d.svi = IF e.known /\ c.svi # Abstract!NoSvi THEN {} ELSE c.svi
    <3>1. d.svi = IF Delete("svi", "none", "none") \in W THEN Abstract!NoSvi
                  ELSE IF a \in W /\ c.svi # Abstract!NoSvi THEN {} ELSE c.svi
      BY WithoutIs DEF d
    <3> QED
      BY <2>2, <2>3, <3>1
  <2> DEFINE s == Abstract!Edited(q, d)
  <2>9. /\ s \in Abstract!Configs /\ s.vlans = d.vlans /\ s.member = d.member /\ s.admin = d.admin
        /\ s.fec = d.fec
        /\ s.svi = (IF q.known \/ d.svi = Abstract!NoSvi THEN {} ELSE d.svi) \union {q.address}
    BY <2>4, <2>6, EditedIs DEF Changes
  <2>10. /\ r \in Abstract!Configs /\ r.vlans = c.vlans /\ r.member = c.member /\ r.admin = c.admin
         /\ r.fec = c.fec
         /\ r.svi = (IF e.known \/ c.svi = Abstract!NoSvi THEN {} ELSE c.svi) \union {e.address}
    BY <1>2, EditedIs DEF r, Changes
  <2> HIDE DEF s
  <2>11. s.svi = r.svi
    BY <2>4, <2>8, <2>9, <2>10
  <2>12. s = r
    BY <2>6, <2>7, <2>9, <2>10, <2>11, SameConfig
  <2> QED
    BY <2>5, <2>12 DEF W, r, s
<1>3. CASE e.op = "remove_svi"
  <2> DEFINE a == Delete("svi", "none", "none")
  <2>1. WritesOf(e) = {a}
    BY <1>3 DEF WritesOf
  <2>2. Optional(a) /\ (a \in W <=> e.known)
    BY <2>1, DeletesApart DEF Recordable, Optional
  <2>3. /\ \A v : Delete("vlan", "none", v) \notin W
        /\ \A p, v : Delete("member", p, v) \notin W
        /\ Delete("addresses", "none", "none") \notin W
        /\ \A w \in W : w.write # "patch"
    BY <2>1, DeletesApart DEF Recordable
  <2>4. Performed(W, c) = d
    BY <2>3, NothingPatched
  <2> HIDE DEF W, d, r
  <2>5. d \in Abstract!Configs /\ d.admin = c.admin /\ d.fec = c.fec
    BY ZenonT(40), WithoutIs DEF d, Changes
  <2>6. d.vlans = c.vlans /\ d.member = c.member
    <3>1. /\ d.vlans = {v \in c.vlans : Delete("vlan", "none", v) \notin W}
          /\ d.member = [p \in Ports |-> {v \in c.member[p] : Delete("member", p, v) \notin W}]
      BY WithoutIs DEF d
    <3> QED
      BY <2>3, <3>1, ConfigFields
  <2>7. d.svi = IF e.known THEN Abstract!NoSvi ELSE c.svi
    <3>1. d.svi = IF a \in W THEN Abstract!NoSvi
                  ELSE IF Delete("addresses", "none", "none") \in W /\ c.svi # Abstract!NoSvi THEN {} ELSE c.svi
      BY WithoutIs DEF d
    <3> QED
      BY <2>2, <2>3, <3>1
  <2>8. /\ r \in Abstract!Configs /\ r.vlans = c.vlans /\ r.member = c.member /\ r.admin = c.admin
        /\ r.fec = c.fec /\ r.svi = IF e.known THEN Abstract!NoSvi ELSE c.svi
    BY <1>3, EditedIs DEF r, Changes
  <2>9. d = r
    BY <2>5, <2>6, <2>7, <2>8, SameConfig
  <2> QED
    BY <2>4, <2>9 DEF W, r
<1>4. CASE e.op \in {"set_admin", "set_fec"}
  <2>1. WritesOf(e) = {Patch(e)}
    BY <1>4 DEF WritesOf
  <2>2. W = {Patch(e)}
    BY <2>1, DeletesApart DEF Recordable, Optional
  <2>3. Performed(W, c) = Abstract!Edited(e, d)
    BY <2>2, OnePatched
  <2>4. \A a, p, v : Delete(a, p, v) \notin W
    BY <2>2, DeletesApart
  <2> HIDE DEF W, d, r
  <2>5. d \in Abstract!Configs /\ d.admin = c.admin /\ d.fec = c.fec /\ d.svi = c.svi
    <3>1. d \in Abstract!Configs /\ Changes(c, d, {"vlans", "member", "svi"})
      BY WithoutIs DEF d
    <3>2. d.svi = c.svi
      BY <2>4, KeepsSvi DEF d
    <3> QED
      BY <3>1, <3>2 DEF Changes
  <2>6. d.vlans = c.vlans /\ d.member = c.member
    <3>1. /\ d.vlans = {v \in c.vlans : Delete("vlan", "none", v) \notin W}
          /\ d.member = [p \in Ports |-> {v \in c.member[p] : Delete("member", p, v) \notin W}]
      BY WithoutIs DEF d
    <3> QED
      BY <2>4, <3>1, ConfigFields
  <2>7. d = c
    BY <2>5, <2>6, SameConfig
  <2> QED
    BY <2>3, <2>7 DEF W, r
<1> QED
  BY <1>1, <1>2, <1>3, <1>4, EditFields

-----------------------------------------------------------------------------
(* NvueSwitch: what a revision holds at each request of the call that      *)
(* makes it, and what is known of a deletion and of a read on the way.     *)

AllWrites == UNION {WritesOf(e) : e \in Abstract!Edits}
RevType ==
    [state : {"open", "submitted", "applied", "failed"}, base : Abstract!Configs,
     writes : SUBSET AllWrites, edit : Abstract!Edits]
ViewType ==
    [vlans : SUBSET Vlans, member : [Ports -> SUBSET Vlans] \union {NoCache},
     admin : [Ports -> BOOLEAN] \union {NoCache}]
CallType == EditCalls \union ReadCalls \union {[op |-> "none"]}
NvueTypes ==
    /\ config \in Abstract!Configs
    /\ revs \in [Calls -> RevType \union {NoRevision}]
    /\ pc \in {"idle", "members", "create", "write", "poll", "vlans", "membership", "ports"}
    /\ call \in CallType /\ calls \in 0..MaxCalls
    /\ appliedCache \in [Ports -> SUBSET Vlans] \union {NoCache}
    /\ operCache \in [Ports -> BOOLEAN] \union {NoCache}
    /\ view \in ViewType
    /\ answer \in {"none", "ok", "raised"}
    /\ joined \subseteq Ports \X Vlans

CallAt ==
    /\ pc # "idle" => calls \in Calls /\ answer = "none"
    /\ pc = "members" => call.op = "delete_vlan" /\ appliedCache = NoCache
    /\ pc \in {"members", "create", "write", "poll"} => call \in EditCalls
    /\ pc \in {"vlans", "membership", "ports"} => call \in ReadCalls
RevsAt ==
    /\ \A i \in Calls :
          /\ i > calls => revs[i] = NoRevision
          /\ revs[i].state = "open" => i = calls /\ pc = "write"
          /\ revs[i].state \in {"applied", "failed"} => i = calls /\ pc = "poll"
    /\ pc \in {"members", "create", "vlans", "membership", "ports"} => revs[calls] = NoRevision
    /\ pc = "write" => revs[calls].state = "open"
    /\ pc = "poll" => revs[calls].state \in {"submitted", "applied", "failed"}

\* Whether edit e knew of the SVI in c what it says.
KnewOf(e, c) ==
    /\ e.op = "set_svi" => (e.known <=> c.svi \notin {Abstract!NoSvi, {}})
    /\ e.op = "remove_svi" => (e.known <=> c.svi # Abstract!NoSvi)
\* What is left of the edit's writes, while revision r has the others.
Progress(r, left) ==
    /\ left \subseteq WritesOf(r.edit)
    /\ r.writes = Recordable(r.edit) \ left
    /\ KnewOf(r.edit, r.base)
    /\ \A w \in left, x \in WritesOf(r.edit) : Place(w) < Place(x) => x \in left
WritesAt ==
    /\ \A i \in Calls : revs[i].state = "submitted" => revs[i].writes = Recordable(revs[i].edit)
    /\ pc = "write" => Progress(revs[calls], todo)
    /\ pc \in {"write", "poll"} =>
          LET e == revs[calls].edit
          IN  /\ e.op = call.op
              /\ e.op = "delete_vlan" =>
                    e.vlan = call.vlan /\ e.ports = Members(appliedCache, call.vlan)

Unless(ports) ==
    \A p \in Members(config.member, call.vlan) : p \in ports \/ <<p, call.vlan>> \in joined
Deleted ==
    /\ Unless({})
    /\ call.vlan \in config.vlans => \E p \in Ports : <<p, call.vlan>> \in joined
Deleting ==
    call.op = "delete_vlan" =>
        /\ pc \in {"create", "write", "poll"} => Unless(Members(appliedCache, call.vlan))
        /\ pc = "poll" /\ revs[calls].state = "applied" => Deleted
        /\ answer = "ok" => Deleted

SeenVlans == \E c \in seen : view.vlans \subseteq c.vlans /\ (call.op = "vlans" => view.vlans = c.vlans)
SeenMembers == \E c \in seen : \A p \in Ports : view.member[p] = c.member[p] \intersect view.vlans
SeenPorts == view.vlans # {} => \E c \in seen : view.admin = c.admin
Reading ==
    call.op \in {"vlans", "vlan"} =>
        /\ pc \in {"vlans", "membership", "ports"} => config \in seen /\ operCache = NoCache
        /\ pc \in {"vlans", "membership"} => appliedCache = NoCache
        /\ pc \in {"membership", "ports"} \/ answer = "ok" => SeenVlans
        /\ pc = "ports" \/ answer = "ok" => SeenMembers
        /\ answer = "ok" => SeenPorts

NvueIInv == NvueTypes /\ CallAt /\ RevsAt /\ WritesAt /\ Deleting /\ Reading

LEMMA CallFields ==
    /\ \A c \in EditCalls :
          /\ c.op \in {"delete_vlan", "set_svi", "remove_svi", "set_admin", "set_fec"}
          /\ c.op = "delete_vlan" => c.vlan \in Vlans
          /\ c.op = "set_svi" => c.address \in Addresses
          /\ c.op \in {"set_admin", "set_fec"} => c \in Abstract!Edits
    /\ \A c \in ReadCalls : c.op \in {"vlans", "vlan"}
<1>1. \A c \in ReadCalls : c.op \in {"vlans", "vlan"}
  BY DEF ReadCalls
<1>2. ASSUME NEW c \in EditCalls
      PROVE  /\ c.op \in {"delete_vlan", "set_svi", "remove_svi", "set_admin", "set_fec"}
             /\ c.op = "delete_vlan" => c.vlan \in Vlans
             /\ c.op = "set_svi" => c.address \in Addresses
  BY DEF EditCalls
<1>3. ASSUME NEW c \in EditCalls, c.op \in {"set_admin", "set_fec"}
      PROVE  c \in Abstract!Edits
  BY <1>3 DEF EditCalls, Abstract!Edits
<1> QED
  BY <1>1, <1>2, <1>3

LEMMA NvueInit == Init => NvueIInv
<1> SUFFICES ASSUME Init PROVE NvueIInv
  OBVIOUS
<1>1. NvueTypes
  BY NvueAssumption DEF Init, NvueTypes, CallType, ViewType, NoView, NoCache, Calls
<1>2. \A i \in Calls : revs[i] = NoRevision /\ revs[i].state = "none"
  BY DEF Init, NoRevision
<1>3. CallAt /\ RevsAt /\ WritesAt /\ Deleting /\ Reading
  BY <1>2 DEF Init, CallAt, RevsAt, WritesAt, Deleting, Reading
<1> QED
  BY <1>1, <1>3 DEF NvueIInv

\* A call begins.
LEMMA BeginPreserves ==
    ASSUME NvueIInv, NEW c \in EditCalls \union ReadCalls, NEW at, Begins(c, at),
           \/ c.op = "delete_vlan" /\ at = "members" /\ c \in EditCalls /\ Refresh
           \/ c \in EditCalls /\ at = "create" /\ c.op # "delete_vlan" /\ UNCHANGED <<appliedCache, operCache>>
           \/ c \in ReadCalls /\ at = "vlans" /\ Refresh /\ seen' = {config}
    PROVE  NvueIInv'
<1>1. /\ pc = "idle" /\ calls' = calls + 1 /\ calls' \in Calls /\ pc' = at /\ call' = c
      /\ answer' = "none" /\ view' = NoView /\ joined' = {}
      /\ UNCHANGED <<config, revs, todo, others>>
      /\ at \in {"members", "create", "vlans"}
  BY NvueAssumption DEF Begins, Calls, NvueIInv, NvueTypes
<1>2. NvueTypes'
  <2>1. /\ appliedCache' \in [Ports -> SUBSET Vlans] \union {NoCache}
        /\ operCache' \in [Ports -> BOOLEAN] \union {NoCache}
    BY DEF Refresh, NvueIInv, NvueTypes
  <2>2. view' \in ViewType
    BY <1>1 DEF ViewType, NoView
  <2>3. calls' \in 0..MaxCalls
    BY <1>1, NvueAssumption DEF Calls
  <2> QED
    BY <1>1, <2>1, <2>2, <2>3 DEF NvueIInv, NvueTypes, CallType
<1>3. CallAt'
  BY <1>1 DEF CallAt, Refresh
<1>4. \A i \in Calls : revs[i].state \in {"none", "submitted"} /\ (i > calls => revs[i] = NoRevision)
  BY <1>1 DEF NvueIInv, NvueTypes, RevType, RevsAt, NoRevision
<1>5. RevsAt'
  <2>1. calls \in Nat /\ Calls \subseteq Nat
    BY NvueAssumption DEF NvueIInv, NvueTypes, Calls
  <2> QED
    BY <1>1, <1>4, <2>1 DEF RevsAt
<1>6. WritesAt'
  BY <1>1 DEF NvueIInv, WritesAt
<1>7. Deleting' /\ Reading'
  BY <1>1, CallFields DEF Deleting, Reading, Refresh
<1> QED
  BY <1>2, <1>3, <1>5, <1>6, <1>7 DEF NvueIInv

\* What stays when a call is left with an exception.
LEMMA RaisePreserves ==
    ASSUME NvueIInv, pc # "idle", Raises,
           UNCHANGED <<config, call, view, calls, seen, joined>>,
           \/ revs' = revs /\ revs[calls].state \in {"none", "submitted"}
           \/ revs' = [revs EXCEPT ![calls] = NoRevision]
    PROVE  NvueIInv'
<1>1. /\ pc' = "idle" /\ answer' = "raised" /\ UNCHANGED <<appliedCache, operCache>>
      /\ calls \in Calls /\ revs \in [Calls -> RevType \union {NoRevision}]
  BY DEF Raises, Answers, NvueIInv, NvueTypes, CallAt
<1>2. /\ \A i \in Calls : i # calls => revs'[i] = revs[i]
      /\ revs'[calls].state \in {"none", "submitted"}
      /\ revs'[calls].state = "submitted" => revs'[calls] = revs[calls]
      /\ revs' \in [Calls -> RevType \union {NoRevision}]
  BY <1>1 DEF NoRevision
<1>3. NvueTypes'
  BY <1>1, <1>2 DEF NvueIInv, NvueTypes
<1>4. CallAt' /\ Deleting' /\ Reading'
  BY <1>1 DEF CallAt, Deleting, Reading
<1>5. RevsAt'
  <2>1. ~(calls > calls)
    BY <1>1, NvueAssumption DEF Calls
  <2> QED
    BY <1>1, <1>2, <2>1 DEF NvueIInv, RevsAt
<1>6. WritesAt'
  BY <1>1, <1>2 DEF NvueIInv, WritesAt
<1> QED
  BY <1>3, <1>4, <1>5, <1>6 DEF NvueIInv

LEMMA ReadMembersPreserves == NvueIInv /\ ReadMembers => NvueIInv'
<1> SUFFICES ASSUME NvueIInv, ReadMembers PROVE NvueIInv'
  OBVIOUS
<1>1. /\ pc = "members" /\ call.op = "delete_vlan" /\ call \in EditCalls /\ appliedCache = NoCache
      /\ calls \in Calls /\ revs[calls] = NoRevision
      /\ UNCHANGED <<config, revs, call, todo, view, calls, seen, joined>>
  BY DEF ReadMembers, NvueIInv, CallAt, RevsAt
<1>2. CASE Raises
  <2>1. revs[calls].state = "none"
    BY <1>1 DEF NoRevision
  <2> QED
    BY <1>1, <1>2, <2>1, RaisePreserves
<1>3. CASE FetchApplied /\ pc' = "create" /\ UNCHANGED <<operCache, answer>>
  <2>1. appliedCache' = config.member
    BY <1>1, <1>3 DEF FetchApplied
  <2>2. NvueTypes'
    BY <1>1, <1>3, <2>1, ConfigFields DEF NvueIInv, NvueTypes
  <2>3. CallAt' /\ RevsAt' /\ WritesAt'
    BY <1>1, <1>3 DEF NvueIInv, CallAt, RevsAt, WritesAt
  <2>4. Deleting'
    <3>1. Unless(Members(appliedCache', call.vlan))
      BY <2>1 DEF Unless
    <3>2. Unless(Members(appliedCache, call.vlan))'
      BY <1>1, <3>1 DEF Unless
    <3>3. answer' = "ok" => Deleted'
      BY <1>1, <1>3 DEF NvueIInv, Deleting, Deleted, Unless
    <3> QED
      BY <1>1, <1>3, <3>2, <3>3 DEF Deleting
  <2>5. Reading'
    BY <1>1 DEF Reading
  <2> QED
    BY <2>2, <2>3, <2>4, <2>5 DEF NvueIInv
<1> QED
  BY <1>2, <1>3 DEF ReadMembers

\* The revision knows what was there, and has all its writes before it.
LEMMA EditIs ==
    ASSUME NvueIInv, call \in EditCalls
    PROVE  /\ Edit \in Abstract!Edits /\ Edit.op = call.op
           /\ Edit.op = "delete_vlan" =>
                 Edit.vlan = call.vlan /\ Edit.ports = Members(appliedCache, call.vlan)
           /\ KnewOf(Edit, config)
           /\ Writes = WritesOf(Edit)
<1>1. CASE call.op = "delete_vlan"
  <2>1. Edit = [op |-> "delete_vlan", vlan |-> call.vlan, ports |-> Members(appliedCache, call.vlan)]
    BY <1>1 DEF Edit
  <2>2. Members(appliedCache, call.vlan) \in SUBSET Ports /\ call.vlan \in Vlans
    BY <1>1, CallFields DEF Members
  <2>3. Edit \in Abstract!Edits
    BY <2>1, <2>2 DEF Abstract!Edits
  <2>4. Writes = WritesOf(Edit)
    BY <1>1, <2>1 DEF Writes, DeleteWrites, WritesOf
  <2> QED
    BY <1>1, <2>1, <2>3, <2>4 DEF KnewOf
<1>2. CASE call.op = "set_svi"
  <2>1. Edit = [op |-> "set_svi", address |-> call.address, known |-> config.svi \notin {Abstract!NoSvi, {}}]
    BY <1>2 DEF Edit
  <2>2. Edit \in Abstract!Edits
    BY <1>2, <2>1, CallFields DEF Abstract!Edits
  <2>3. Writes = WritesOf(Edit)
    BY <1>2, <2>1 DEF Writes, SviWrites, WritesOf
  <2> QED
    BY <1>2, <2>1, <2>2, <2>3 DEF KnewOf
<1>3. CASE call.op = "remove_svi"
  <2>1. Edit = [op |-> "remove_svi", known |-> config.svi # Abstract!NoSvi]
    BY <1>3 DEF Edit
  <2>2. Edit \in Abstract!Edits
    BY <2>1 DEF Abstract!Edits
  <2>3. Writes = WritesOf(Edit)
    BY <1>3, <2>1 DEF Writes, SviWrites, WritesOf
  <2> QED
    BY <1>3, <2>1, <2>2, <2>3 DEF KnewOf
<1>4. CASE call.op \in {"set_admin", "set_fec"}
  <2>1. Edit = call /\ Writes = {Patch(call)}
    BY <1>4 DEF Edit, Writes
  <2>2. WritesOf(Edit) = {Patch(call)}
    BY <1>4, <2>1 DEF WritesOf
  <2> QED
    BY <1>4, <2>1, <2>2, CallFields DEF KnewOf
<1> QED
  BY <1>1, <1>2, <1>3, <1>4, CallFields

LEMMA CreatePreserves == NvueIInv /\ Create => NvueIInv'
<1> SUFFICES ASSUME NvueIInv, Create PROVE NvueIInv'
  OBVIOUS
<1>1. /\ pc = "create" /\ call \in EditCalls /\ calls \in Calls /\ revs[calls] = NoRevision
      /\ revs \in [Calls -> RevType \union {NoRevision}]
      /\ UNCHANGED <<config, call, view, calls, seen, joined>>
  BY DEF Create, NvueIInv, NvueTypes, CallAt, RevsAt
<1>2. CASE Raises /\ UNCHANGED <<revs, todo>>
  <2>1. revs[calls].state = "none"
    BY <1>1 DEF NoRevision
  <2> QED
    BY <1>1, <1>2, <2>1, RaisePreserves
<1>3. CASE /\ pc' = "write" /\ todo' = Writes
           /\ revs' = [revs EXCEPT ![calls] =
                          [state |-> "open", base |-> config, writes |-> {}, edit |-> Edit]]
           /\ UNCHANGED <<appliedCache, operCache, answer>>
  <2> DEFINE r == [state |-> "open", base |-> config, writes |-> {}, edit |-> Edit]
  <2>1. /\ r \in RevType /\ r.state = "open" /\ r.base = config /\ r.writes = {} /\ r.edit = Edit
    BY <1>1, EditIs DEF RevType, NvueIInv, NvueTypes
  <2> HIDE DEF r
  <2>2. /\ revs' \in [Calls -> RevType \union {NoRevision}] /\ revs'[calls] = r
        /\ \A i \in Calls : i # calls => revs'[i] = revs[i]
    BY <1>1, <1>3, <2>1 DEF r
  <2>3. NvueTypes'
    BY <1>1, <1>3, <2>2 DEF NvueIInv, NvueTypes
  <2>4. CallAt'
    BY <1>1, <1>3 DEF NvueIInv, CallAt
  <2>5. RevsAt'
    <3>1. ~(calls > calls)
      BY <1>1, NvueAssumption DEF Calls
    <3> QED
      BY <1>1, <1>3, <2>1, <2>2, <3>1 DEF NvueIInv, RevsAt
  <2>6. Progress(r, Writes)
    <3>1. Recordable(Edit) \ WritesOf(Edit) = {}
      BY DEF Recordable
    <3> QED
      BY <1>1, <2>1, <3>1, EditIs DEF Progress
  <2>7. Progress(revs[calls], todo)'
    <3>1. revs'[calls'] = r /\ todo' = Writes
      BY <1>1, <1>3, <2>2
    <3>2. Progress(revs[calls], todo)' = Progress(revs'[calls'], todo')
      BY DEF Progress, KnewOf
    <3> QED
      BY <2>6, <3>1, <3>2
  <2>8. WritesAt'
    <3>1. r.edit.op = call.op /\ (r.edit.op = "delete_vlan" =>
              r.edit.vlan = call.vlan /\ r.edit.ports = Members(appliedCache, call.vlan))
      BY <1>1, <2>1, EditIs
    <3>2. Members(appliedCache, call.vlan)' = Members(appliedCache, call.vlan)
      BY <1>1, <1>3
    <3>3. (LET e == revs[calls].edit
           IN  /\ e.op = call.op
               /\ e.op = "delete_vlan" =>
                    e.vlan = call.vlan /\ e.ports = Members(appliedCache, call.vlan))'
      BY <1>1, <1>3, <2>2, <3>1, <3>2
    <3>4. \A i \in Calls : revs'[i].state = "submitted" => revs'[i].writes = Recordable(revs'[i].edit)
      BY <1>1, <2>1, <2>2 DEF NvueIInv, WritesAt
    <3> QED
      BY <2>7, <3>3, <3>4 DEF WritesAt
  <2>9. Deleting'
    <3>1. Members(appliedCache, call.vlan)' = Members(appliedCache, call.vlan)
      BY <1>1, <1>3
    <3> QED
      BY <1>1, <1>3, <3>1 DEF NvueIInv, Deleting, Deleted, Unless
  <2>10. Reading'
    BY <1>1, CallFields DEF Reading
  <2> QED
    BY <2>3, <2>4, <2>5, <2>8, <2>9, <2>10 DEF NvueIInv
<1> QED
  BY <1>2, <1>3 DEF Create

LEMMA Places == \A w : Place(w) \in 1..3
BY DEF Place

\* An optional delete comes first, and finds what the edit knew of.
LEMMA OptionalFinds ==
    ASSUME NEW r \in RevType, NEW left, Progress(r, left), NEW w \in left, Optional(w)
    PROVE  Found(w, Performed(r.writes, r.base)) <=> r.edit.known
<1> DEFINE e == r.edit
           c == Performed(r.writes, r.base)
           a == Delete("addresses", "none", "none")
           s == Delete("svi", "none", "none")
<1>0. /\ a.write = "delete" /\ a.what = "addresses" /\ s.write = "delete" /\ s.what = "svi"
      /\ \A x : Patch(x).write = "patch"
  BY DEF Delete, Patch
<1>1. e \in Abstract!Edits /\ r.base \in Abstract!Configs /\ w \in WritesOf(e) /\ KnewOf(e, r.base)
  BY DEF RevType, Progress
<1>2. r.writes = {} => c.svi = r.base.svi
  <2>1. ASSUME r.writes = {} PROVE c = Without({}, r.base)
    BY <2>1, NothingPatched
  <2>2. Without({}, r.base).svi = r.base.svi
    BY <1>1, KeepsSvi
  <2> QED
    BY <2>1, <2>2
<1> HIDE DEF c
<1>3. CASE e.op = "set_svi"
  <2> DEFINE q == Patch([op |-> "set_svi", address |-> e.address, known |-> FALSE])
  <2>1. WritesOf(e) = {a, q}
    BY <1>3 DEF WritesOf
  <2>2. w = a
    BY <1>1, <2>1, DeletesApart DEF Optional
  <2>3. Place(a) = 2 /\ Place(q) = 3
    <3>1. q.write = "patch"
      BY <1>0
    <3> HIDE DEF a, q
    <3> QED
      BY <1>0, <3>1 DEF Place
  <2>4. q \in left
    <3> HIDE DEF a, q
    <3>1. Place(a) < Place(q) /\ a \in left /\ q \in WritesOf(e)
      BY <2>1, <2>2, <2>3
    <3> QED
      BY <3>1 DEF Progress
  <2>5. r.writes = {}
    BY <2>1, <2>2, <2>4 DEF Progress, Recordable
  <2>6. Found(a, c) <=> c.svi \notin {Abstract!NoSvi, {}}
    <3> HIDE DEF a
    <3> QED
      BY <1>0 DEF Found
  <2> QED
    BY <1>1, <1>2, <1>3, <2>2, <2>5, <2>6 DEF KnewOf, c
<1>4. CASE e.op = "remove_svi"
  <2>1. WritesOf(e) = {s}
    BY <1>4 DEF WritesOf
  <2>2. w = s
    BY <1>1, <2>1
  <2>3. r.writes = {}
    BY <2>1, <2>2 DEF Progress, Recordable
  <2>4. Found(s, c) <=> c.svi # Abstract!NoSvi
    <3> HIDE DEF s
    <3> QED
      BY <1>0 DEF Found
  <2> QED
    BY <1>1, <1>2, <1>4, <2>2, <2>3, <2>4 DEF KnewOf, c
<1>5. CASE e.op = "delete_vlan"
  <2>1. WritesOf(e) = {Delete("member", p, e.vlan) : p \in e.ports} \union {Delete("vlan", "none", e.vlan)}
    BY <1>5 DEF WritesOf
  <2> QED
    BY <1>1, <2>1, DeletesApart DEF Optional
<1>6. CASE e.op \in {"set_admin", "set_fec"}
  <2>1. WritesOf(e) = {Patch(e)}
    BY <1>6 DEF WritesOf
  <2> QED
    BY <1>1, <2>1, DeletesApart DEF Optional
<1> QED
  BY <1>1, <1>3, <1>4, <1>5, <1>6, EditFields

LEMMA WriteProgress ==
    ASSUME NEW r \in RevType, NEW left, Progress(r, left), NEW w \in left,
           \A x \in left : Place(w) <= Place(x)
    PROVE  LET found == Found(w, Performed(r.writes, r.base))
               more == [r EXCEPT !.writes = @ \union {w}]
           IN  /\ found => more \in RevType /\ Progress(more, left \ {w})
               /\ Optional(w) /\ ~found => Progress(r, left \ {w})
<1> DEFINE found == Found(w, Performed(r.writes, r.base))
           more == [r EXCEPT !.writes = @ \union {w}]
           e == r.edit
<1>1. Optional(w) => (found <=> e.known)
  BY OptionalFinds
<1> HIDE DEF found
<1>2. w \in WritesOf(e) /\ (w \in Recordable(e) <=> (Optional(w) => e.known))
  BY DEF Progress, Recordable
<1>3. /\ more.edit = e /\ more.base = r.base /\ more.writes = r.writes \union {w}
      /\ more.state = r.state
  BY DEF RevType
<1>4. more \in RevType
  <2>1. w \in AllWrites
    BY <1>2 DEF AllWrites, RevType
  <2>2. r.writes \union {w} \in SUBSET AllWrites
    BY <2>1 DEF RevType
  <2> QED
    BY <2>2 DEF RevType
<1>5. /\ left \ {w} \subseteq WritesOf(e) /\ KnewOf(e, r.base)
      /\ \A v \in left \ {w}, x \in WritesOf(e) : Place(v) < Place(x) => x \in left \ {w}
  BY Places DEF Progress
<1>6. found => more.writes = Recordable(e) \ (left \ {w})
  BY <1>1, <1>2, <1>3 DEF Progress
<1>7. Optional(w) /\ ~found => r.writes = Recordable(e) \ (left \ {w})
  BY <1>1, <1>2 DEF Progress
<1>8. found => Progress(more, left \ {w})
  BY <1>3, <1>5, <1>6 DEF Progress
<1>9. Optional(w) /\ ~found => Progress(r, left \ {w})
  BY <1>5, <1>7 DEF Progress
<1> QED
  BY <1>4, <1>8, <1>9 DEF found

LEMMA WritePreserves == NvueIInv /\ Write => NvueIInv'
<1> SUFFICES ASSUME NvueIInv, Write PROVE NvueIInv'
  OBVIOUS
<1> DEFINE r == revs[calls]
<1>1. /\ pc = "write" /\ calls \in Calls /\ revs \in [Calls -> RevType \union {NoRevision}]
      /\ r \in RevType /\ r.state = "open" /\ Progress(r, todo) /\ call \in EditCalls
      /\ UNCHANGED <<config, call, view, calls, seen, joined>>
  BY DEF Write, NvueIInv, NvueTypes, CallAt, RevsAt, WritesAt, NoRevision
<1>2. PICK w \in todo :
          LET found == Found(w, Performed(r.writes, r.base))
          IN  /\ IsNext(w)
              /\ \/ found /\ Recorded(w) /\ Proceeds(w)
                 \/ /\ Optional(w) /\ Proceeds(w)
                    /\ IF found THEN Recorded(w) ELSE UNCHANGED revs
                 \/ Fails
  BY DEF Write
<1>3. CASE Fails
  BY <1>1, <1>3, RaisePreserves DEF Fails
<1>4. PICK more : more = [r EXCEPT !.writes = @ \union {w}]
  OBVIOUS
<1>5. CASE Proceeds(w) /\ ~Fails
  <2>1. PICK n : /\ n \in RevType /\ Progress(n, todo \ {w}) /\ n.state = "open" /\ n.edit = r.edit
                 /\ revs' = [revs EXCEPT ![calls] = n]
    <3>1. \A x \in todo : Place(w) <= Place(x)
      BY <1>2 DEF IsNext
    <3>2. CASE Found(w, Performed(r.writes, r.base))
      <4>1. more \in RevType /\ Progress(more, todo \ {w})
        BY <1>1, <1>4, <3>1, <3>2, WriteProgress
      <4>2. more.state = "open" /\ more.edit = r.edit
        BY <1>1, <1>4 DEF RevType
      <4>3. revs' = [revs EXCEPT ![calls].writes = @ \union {w}]
        BY <1>2, <1>5, <3>2 DEF Recorded
      <4>4. revs' = [revs EXCEPT ![calls] = more]
        BY <1>4, <4>3
      <4> QED
        BY <4>1, <4>2, <4>4
    <3>3. CASE ~Found(w, Performed(r.writes, r.base))
      <4>1. Optional(w) /\ revs' = revs
        BY <1>2, <1>5, <3>3
      <4>2. Progress(r, todo \ {w})
        BY <1>1, <3>1, <3>3, <4>1, WriteProgress
      <4>3. revs' = [revs EXCEPT ![calls] = r]
        BY <1>1, <4>1
      <4> QED
        BY <1>1, <4>2, <4>3
    <3> QED
      BY <3>2, <3>3
  <2>2. /\ revs' \in [Calls -> RevType \union {NoRevision}] /\ revs'[calls] = n
        /\ \A i \in Calls : i # calls => revs'[i] = revs[i]
    BY <1>1, <2>1
  <2>3. todo' = todo \ {w} /\ UNCHANGED <<pc, appliedCache, operCache, answer>>
    BY <1>5 DEF Proceeds
  <2>4. NvueTypes' /\ CallAt'
    BY <1>1, <2>2, <2>3 DEF NvueIInv, NvueTypes, CallAt
  <2>5. RevsAt'
    <3>1. ~(calls > calls)
      BY <1>1, NvueAssumption DEF Calls
    <3> QED
      BY <1>1, <2>1, <2>2, <2>3, <3>1 DEF NvueIInv, RevsAt
  <2>6. Progress(revs[calls], todo)'
    <3>1. Progress(revs[calls], todo)' = Progress(revs'[calls'], todo')
      BY DEF Progress, KnewOf
    <3> QED
      BY <1>1, <2>1, <2>2, <2>3, <3>1
  <2>7. WritesAt'
    <3>1. Members(appliedCache, call.vlan)' = Members(appliedCache, call.vlan)
      BY <1>1, <2>3
    <3>2. (LET e == revs[calls].edit
           IN  /\ e.op = call.op
               /\ e.op = "delete_vlan" =>
                    e.vlan = call.vlan /\ e.ports = Members(appliedCache, call.vlan))'
      BY <1>1, <2>1, <2>2, <2>3, <3>1 DEF NvueIInv, WritesAt
    <3>3. \A i \in Calls : revs'[i].state = "submitted" => revs'[i].writes = Recordable(revs'[i].edit)
      BY <1>1, <2>1, <2>2 DEF NvueIInv, WritesAt
    <3> QED
      BY <2>6, <3>2, <3>3 DEF WritesAt
  <2>8. Deleting'
    <3>1. Members(appliedCache, call.vlan)' = Members(appliedCache, call.vlan)
      BY <1>1, <2>3
    <3> QED
      BY <1>1, <2>3, <3>1 DEF NvueIInv, Deleting, Deleted, Unless
  <2>9. Reading'
    BY <1>1, CallFields DEF Reading
  <2> QED
    BY <2>4, <2>5, <2>7, <2>8, <2>9 DEF NvueIInv
<1> QED
  BY <1>2, <1>3, <1>5

\* The revision that is submitted has all its writes.
LEMMA SubmitPreserves == NvueIInv /\ Submit => NvueIInv'
<1> SUFFICES ASSUME NvueIInv, Submit PROVE NvueIInv'
  OBVIOUS
<1> DEFINE r == revs[calls]
<1>1. /\ pc = "write" /\ todo = {} /\ calls \in Calls /\ revs \in [Calls -> RevType \union {NoRevision}]
      /\ r \in RevType /\ r.state = "open" /\ Progress(r, {}) /\ call \in EditCalls
      /\ UNCHANGED <<config, call, view, calls, seen, joined>>
  BY DEF Submit, NvueIInv, NvueTypes, CallAt, RevsAt, WritesAt, NoRevision
<1>2. CASE Fails
  BY <1>1, <1>2, RaisePreserves DEF Fails
<1>3. CASE /\ revs' = [revs EXCEPT ![calls].state = "submitted"] /\ UNCHANGED todo
           /\ \/ pc' = "poll" /\ UNCHANGED <<answer, appliedCache, operCache>>
              \/ Raises
  <2>1. PICK n : n = [r EXCEPT !.state = "submitted"]
    OBVIOUS
  <2>2. n \in RevType /\ n.state = "submitted" /\ n.edit = r.edit /\ n.writes = r.writes
    BY <1>1, <2>1 DEF RevType
  <2>3. /\ revs' \in [Calls -> RevType \union {NoRevision}] /\ revs'[calls] = n
        /\ \A i \in Calls : i # calls => revs'[i] = revs[i]
    BY <1>1, <1>3, <2>1, <2>2
  <2>4. /\ pc' \in {"poll", "idle"} /\ UNCHANGED <<appliedCache, operCache>>
        /\ answer' \in {answer, "raised"} /\ answer' \in {"none", "ok", "raised"}
        /\ pc' = "poll" => answer' = answer
    BY <1>3 DEF Raises, Answers, NvueIInv, NvueTypes
  <2>5. NvueTypes' /\ CallAt'
    BY <1>1, <2>3, <2>4 DEF NvueIInv, NvueTypes, CallAt
  <2>6. RevsAt'
    <3>1. ~(calls > calls)
      BY <1>1, NvueAssumption DEF Calls
    <3> QED
      BY <1>1, <2>2, <2>3, <2>4, <3>1 DEF NvueIInv, RevsAt
  <2>7. WritesAt'
    <3>1. Members(appliedCache, call.vlan)' = Members(appliedCache, call.vlan)
      BY <1>1, <2>4
    <3>2. (LET e == revs[calls].edit
           IN  /\ e.op = call.op
               /\ e.op = "delete_vlan" =>
                    e.vlan = call.vlan /\ e.ports = Members(appliedCache, call.vlan))'
      BY <1>1, <2>2, <2>3, <2>4, <3>1 DEF NvueIInv, WritesAt
    <3>3. \A i \in Calls : revs'[i].state = "submitted" => revs'[i].writes = Recordable(revs'[i].edit)
      <4>1. n.writes = Recordable(n.edit)
        BY <1>1, <2>2 DEF Progress
      <4> QED
        BY <2>3, <4>1 DEF NvueIInv, WritesAt
    <3> QED
      BY <2>4, <3>2, <3>3 DEF WritesAt
  <2>8. Deleting'
    <3>1. Members(appliedCache, call.vlan)' = Members(appliedCache, call.vlan)
      BY <1>1, <2>4
    <3>2. revs'[calls'].state # "applied"
      BY <1>1, <2>2, <2>3
    <3> QED
      BY <1>1, <2>4, <3>1, <3>2 DEF NvueIInv, Deleting, Deleted, Unless
  <2>9. Reading'
    BY <1>1, CallFields DEF Reading
  <2> QED
    BY <2>5, <2>6, <2>7, <2>8, <2>9 DEF NvueIInv
<1> QED
  BY <1>2, <1>3 DEF Submit

\* The poll ends, with the revision decided or still with the switch.
LEMMA PollPreserves == NvueIInv /\ (Poll \/ PollFails) => NvueIInv'
<1> SUFFICES ASSUME NvueIInv, Poll \/ PollFails PROVE NvueIInv'
  OBVIOUS
<1>1. /\ pc = "poll" /\ Asked /\ calls \in Calls /\ call \in EditCalls
      /\ revs \in [Calls -> RevType \union {NoRevision}]
      /\ UNCHANGED <<config, call, view, calls, seen, joined, todo>>
  BY DEF Poll, PollFails, Asked, NvueIInv, NvueTypes, CallAt
<1>2. CASE Raises
  BY <1>1, <1>2, RaisePreserves DEF Asked
<1>3. CASE revs[calls].state = "applied" /\ Answers("ok") /\ Refresh
  <2>1. pc' = "idle" /\ answer' = "ok" /\ appliedCache' = NoCache /\ operCache' = NoCache
    BY <1>3 DEF Answers, Refresh
  <2>2. revs' = [revs EXCEPT ![calls] = NoRevision]
    BY <1>1, <1>3 DEF Asked
  <2>3. /\ revs' \in [Calls -> RevType \union {NoRevision}] /\ revs'[calls] = NoRevision
        /\ \A i \in Calls : i # calls => revs'[i] = revs[i]
    BY <1>1, <2>2
  <2>4. NvueTypes' /\ CallAt'
    BY <1>1, <2>1, <2>3 DEF NvueIInv, NvueTypes, CallAt
  <2>5. RevsAt' /\ WritesAt'
    <3>1. NoRevision.state = "none"
      BY DEF NoRevision
    <3> QED
      BY <1>1, <2>1, <2>3, <3>1 DEF NvueIInv, RevsAt, WritesAt
  <2>6. Deleting'
    BY <1>1, <1>3, <2>1 DEF NvueIInv, Deleting, Deleted, Unless
  <2>7. Reading'
    BY <1>1, CallFields DEF Reading
  <2> QED
    BY <2>4, <2>5, <2>6, <2>7 DEF NvueIInv
<1> QED
  BY <1>2, <1>3 DEF Poll, PollFails

LEMMA DeadlinePreserves == NvueIInv /\ DeadlinePasses => NvueIInv'
BY DEF DeadlinePasses, NvueIInv, NvueTypes, CallAt, RevsAt, WritesAt, Progress, KnewOf, Deleting, Deleted,
       Unless, Reading, SeenVlans, SeenMembers, SeenPorts, Members

\* A read of VLANs finds each cache empty.
LEMMA ReadPreserves == NvueIInv /\ (ReadVlans \/ ReadMembership \/ ReadPorts) => NvueIInv'
<1> SUFFICES ASSUME NvueIInv, ReadVlans \/ ReadMembership \/ ReadPorts PROVE NvueIInv'
  OBVIOUS
<1>1. /\ pc \in {"vlans", "membership", "ports"} /\ call \in ReadCalls /\ call.op \in {"vlans", "vlan"}
      /\ calls \in Calls /\ config \in seen /\ operCache = NoCache /\ view \in ViewType
      /\ config \in Abstract!Configs
      /\ UNCHANGED <<config, revs, call, todo, calls, others, seen, joined>>
  BY CallFields DEF ReadVlans, ReadMembership, ReadPorts, NvueIInv, NvueTypes, CallAt, Reading
<1>2. revs[calls].state = "none" \/ pc \notin {"vlans", "membership", "ports"}
  BY DEF NvueIInv, RevsAt, NoRevision
<1>3. ASSUME Raises, UNCHANGED view PROVE NvueIInv'
  BY <1>1, <1>2, <1>3, RaisePreserves
<1>4. CASE pc' # "idle" \/ answer' # "raised"
  <2>1. /\ pc' \in {"membership", "ports", "idle"} /\ answer' \in {answer, "ok"}
        /\ pc' # "idle" => answer' = answer
    BY <1>4 DEF ReadVlans, ReadMembership, ReadPorts, Raises, Answers
  <2>2. CallAt' /\ RevsAt' /\ WritesAt' /\ Deleting'
    <3>1. CallAt'
      BY <1>1, <2>1 DEF NvueIInv, CallAt
    <3>2. RevsAt'
      BY <1>1, <2>1 DEF NvueIInv, RevsAt
    <3>3. WritesAt' /\ Deleting'
      BY <1>1, <2>1 DEF NvueIInv, WritesAt, Deleting
    <3> QED
      BY <3>1, <3>2, <3>3
  <2>3. ASSUME view' \in ViewType, appliedCache' \in [Ports -> SUBSET Vlans] \union {NoCache},
               operCache' \in [Ports -> BOOLEAN] \union {NoCache}, Reading'
        PROVE  NvueIInv'
    BY <1>1, <2>1, <2>2, <2>3 DEF NvueIInv, NvueTypes
  <2>4. CASE pc = "vlans"
    <3>1. /\ pc' = "membership" /\ view' = [view EXCEPT !.vlans = Wanted]
          /\ UNCHANGED <<answer, appliedCache, operCache>>
      BY <1>4, <2>4 DEF ReadVlans, ReadMembership, ReadPorts, Raises, Answers
    <3>2. /\ Wanted \in SUBSET Vlans /\ Wanted \subseteq config.vlans
          /\ call.op = "vlans" => Wanted = config.vlans
      BY <1>1, ConfigFields DEF Wanted
    <3>3. view' \in ViewType /\ view'.vlans = Wanted
      BY <1>1, <3>1, <3>2 DEF ViewType
    <3>4. SeenVlans'
      BY <1>1, <3>2, <3>3 DEF SeenVlans
    <3>5. appliedCache = NoCache
      BY <1>1, <2>4 DEF NvueIInv, Reading
    <3>6. answer' # "ok"
      BY <1>1, <2>4, <3>1 DEF NvueIInv, CallAt
    <3>7. Reading'
      BY <1>1, <3>1, <3>4, <3>5, <3>6 DEF Reading
    <3> QED
      BY <2>3, <3>1, <3>3, <3>7 DEF NvueIInv, NvueTypes
  <2>5. CASE pc = "membership"
    <3>1. /\ FetchApplied /\ UNCHANGED operCache
          /\ view' = [view EXCEPT !.member = [p \in Ports |-> appliedCache'[p] \intersect view.vlans]]
          /\ IF view.vlans = {} THEN Answers("ok") ELSE pc' = "ports" /\ UNCHANGED answer
      BY <1>4, <2>5 DEF ReadVlans, ReadMembership, ReadPorts, Raises, Answers
    <3>2. appliedCache = NoCache /\ SeenVlans
      BY <1>1, <2>5 DEF NvueIInv, Reading
    <3>3. appliedCache' = config.member
      BY <3>1, <3>2 DEF FetchApplied
    <3> DEFINE m == [p \in Ports |-> config.member[p] \intersect view.vlans]
    <3>4. m \in [Ports -> SUBSET Vlans] /\ config.member \in [Ports -> SUBSET Vlans]
      BY <1>1, ConfigFields
    <3>5. view' = [view EXCEPT !.member = m]
      BY <3>1, <3>3
    <3> HIDE DEF m
    <3>6. view' \in ViewType /\ view'.vlans = view.vlans /\ view'.member = m
      BY <1>1, <3>4, <3>5 DEF ViewType
    <3>7. SeenVlans' /\ SeenMembers'
      <4>1. SeenVlans'
        BY <1>1, <3>2, <3>6 DEF SeenVlans
      <4>2. \A p \in Ports : view'.member[p] = config.member[p] \intersect view'.vlans
        BY <3>6 DEF m
      <4> QED
        BY <1>1, <4>1, <4>2 DEF SeenMembers
    <3>8. answer # "ok"
      BY <1>1 DEF NvueIInv, CallAt
    <3>9. answer' = "ok" => view'.vlans = {} /\ pc' = "idle"
      BY <3>1, <3>6, <3>8 DEF Answers
    <3>10. pc' \in {"ports", "idle"}
      BY <3>1 DEF Answers
    <3>11. Reading'
      BY <1>1, <3>1, <3>7, <3>9, <3>10 DEF Reading, SeenPorts
    <3> QED
      BY <2>3, <3>1, <3>3, <3>4, <3>6, <3>11 DEF NvueIInv, NvueTypes
  <2>6. CASE pc = "ports"
    <3>1. /\ operCache' = IF operCache = NoCache THEN config.admin ELSE operCache
          /\ view' = [view EXCEPT !.admin = operCache']
          /\ pc' = "idle" /\ answer' = "ok" /\ UNCHANGED appliedCache
      BY <1>4, <2>6 DEF ReadVlans, ReadMembership, ReadPorts, Raises, Answers
    <3>2. operCache' = config.admin /\ operCache' \in [Ports -> BOOLEAN]
      BY <1>1, <3>1, ConfigFields
    <3>3. /\ view' \in ViewType /\ view'.vlans = view.vlans /\ view'.member = view.member
          /\ view'.admin = config.admin
      BY <1>1, <3>1, <3>2 DEF ViewType
    <3>4. SeenVlans /\ SeenMembers
      BY <1>1, <2>6 DEF NvueIInv, Reading
    <3>5. SeenVlans' /\ SeenMembers' /\ SeenPorts'
      BY <1>1, <3>3, <3>4 DEF SeenVlans, SeenMembers, SeenPorts
    <3>6. Reading'
      BY <1>1, <3>1, <3>5 DEF Reading
    <3> QED
      BY <2>3, <3>1, <3>2, <3>3, <3>6 DEF NvueIInv, NvueTypes
  <2> QED
    BY <1>1, <2>4, <2>5, <2>6
<1> QED
  BY <1>3, <1>4 DEF ReadVlans, ReadMembership, ReadPorts, Raises, Answers

LEMMA JoinIs ==
    ASSUME NEW p \in Ports, NEW v \in Vlans, config \in Abstract!Configs
    PROVE  /\ Abstract!Join(p, v) \in Abstract!Configs
           /\ \A u : u \in Abstract!Join(p, v).vlans => u \in config.vlans \/ u = v
           /\ \A q \in Ports : \A u : u \in Abstract!Join(p, v).member[q] =>
                 u \in config.member[q] \/ (q = p /\ u = v)
<1>1. Abstract!Join(p, v) \in Abstract!Configs
  BY DEF Abstract!Join, Abstract!Configs
<1>2. Abstract!Join(p, v).vlans = config.vlans \union {v}
  BY DEF Abstract!Join, Abstract!Configs
<1>3. \A q \in Ports : Abstract!Join(p, v).member[q] =
            IF q = p THEN config.member[q] \union {v} ELSE config.member[q]
  BY DEF Abstract!Join, Abstract!Configs
<1> QED
  BY <1>1, <1>2, <1>3

LEMMA LeaveIs ==
    ASSUME NEW p \in Ports, NEW v \in Vlans, config \in Abstract!Configs
    PROVE  /\ Abstract!Leave(p, v) \in Abstract!Configs
           /\ Abstract!Leave(p, v).vlans = config.vlans
           /\ \A q \in Ports : Abstract!Leave(p, v).member[q] \subseteq config.member[q]
BY DEF Abstract!Leave, Abstract!Configs

LEMMA AddAddressIs ==
    ASSUME NEW a \in Addresses, config \in Abstract!Configs
    PROVE  /\ Abstract!AddAddress(a) \in Abstract!Configs
           /\ Abstract!AddAddress(a).vlans = config.vlans
           /\ Abstract!AddAddress(a).member = config.member
<1> DEFINE s == (IF config.svi = Abstract!NoSvi THEN {} ELSE config.svi) \union {a}
<1>1. Abstract!AddAddress(a) = [config EXCEPT !.svi = s]
  BY DEF Abstract!AddAddress
<1>2. s \in SUBSET Addresses
  BY ConfigFields
<1> HIDE DEF s
<1> QED
  BY <1>1, <1>2 DEF Abstract!Configs

\* A configuration that only others, or edits, have changed meanwhile.
LEMMA DeletingKept ==
    ASSUME Deleting, UNCHANGED <<pc, call, answer, appliedCache>>, joined \subseteq joined',
           \A p \in Members(config'.member, call.vlan) :
              p \in Members(config.member, call.vlan) \/ <<p, call.vlan>> \in joined',
           \/ call.vlan \notin config'.vlans \/ call.vlan \in config.vlans
           \/ \E p \in Ports : <<p, call.vlan>> \in joined',
           call.op = "delete_vlan" /\ pc = "poll" /\ revs'[calls'].state = "applied" =>
              revs[calls].state = "applied" \/ Deleted'
    PROVE  Deleting'
<1>1. SUFFICES ASSUME call.op = "delete_vlan" PROVE Deleting'
  BY DEF Deleting
<1>2. Deleted => Deleted'
  BY DEF Deleted, Unless
<1>3. Members(appliedCache, call.vlan)' = Members(appliedCache, call.vlan)
  OBVIOUS
<1>4. ASSUME NEW S, Unless(S) PROVE Unless(S)'
  BY <1>4 DEF Unless
<1>5. pc \in {"create", "write", "poll"} => Unless(Members(appliedCache, call.vlan))'
  <2>1. SUFFICES ASSUME pc \in {"create", "write", "poll"}
                 PROVE  Unless(Members(appliedCache, call.vlan))'
    OBVIOUS
  <2>2. PICK S : S = Members(appliedCache, call.vlan)
    OBVIOUS
  <2>3. Unless(S)
    BY <1>1, <2>1, <2>2 DEF Deleting
  <2>4. Unless(S)'
    BY <1>4, <2>3
  <2> QED
    BY <1>3, <2>2, <2>4 DEF Unless
<1> QED
  BY <1>1, <1>2, <1>5 DEF Deleting

LEMMA ReadingKept ==
    ASSUME Reading, CallAt, NEW c, Becomes(c),
           UNCHANGED <<pc, call, answer, view, appliedCache, operCache>>
    PROVE  Reading'
<1>1. seen \subseteq seen' /\ (seen # {} /\ pc # "idle" => config' \in seen') /\ config' = c
  BY DEF Becomes
<1>2. (SeenVlans => SeenVlans') /\ (SeenMembers => SeenMembers') /\ (SeenPorts => SeenPorts')
  BY <1>1 DEF SeenVlans, SeenMembers, SeenPorts
<1> QED
  BY <1>1, <1>2 DEF Reading

LEMMA OthersPreserve == NvueIInv /\ OthersEdit => NvueIInv'
<1> SUFFICES ASSUME NvueIInv, OthersEdit PROVE NvueIInv'
  OBVIOUS
<1>1. UNCHANGED <<revs, pc, call, todo, appliedCache, operCache, view, answer, calls>>
  BY DEF OthersEdit, driverVars
<1>2. config \in Abstract!Configs /\ joined \subseteq Ports \X Vlans
  BY DEF NvueIInv, NvueTypes
<1> DEFINE Fits(c) ==
             /\ Becomes(c) /\ c \in Abstract!Configs
             /\ joined \subseteq joined' /\ joined' \subseteq Ports \X Vlans
             /\ \A q \in Ports : \A v : v \in c.member[q] => v \in config.member[q] \/ <<q, v>> \in joined'
             /\ \A v : v \in c.vlans => v \in config.vlans \/ \E p \in Ports : <<p, v>> \in joined'
<1>3. PICK c : Fits(c)
  <2>1. ASSUME NEW p \in Ports, NEW v \in Vlans, Becomes(Abstract!Join(p, v)),
               joined' = joined \union {<<p, v>>}
        PROVE  Fits(Abstract!Join(p, v))
    <3> DEFINE c == Abstract!Join(p, v)
    <3>1. /\ c \in Abstract!Configs
          /\ \A u : u \in c.vlans => u \in config.vlans \/ u = v
          /\ \A q \in Ports : \A u : u \in c.member[q] => u \in config.member[q] \/ (q = p /\ u = v)
      BY <1>2, JoinIs
    <3> HIDE DEF c
    <3>2. <<p, v>> \in joined' /\ joined \subseteq joined' /\ joined' \subseteq Ports \X Vlans
      BY <1>2, <2>1
    <3>3. /\ \A q \in Ports : \A u : u \in c.member[q] => u \in config.member[q] \/ <<q, u>> \in joined'
          /\ \A u : u \in c.vlans => u \in config.vlans \/ \E q \in Ports : <<q, u>> \in joined'
      BY <3>1, <3>2
    <3> QED
      BY <2>1, <3>1, <3>2, <3>3 DEF c
  <2>2. ASSUME NEW p \in Ports, NEW v \in Vlans, Becomes(Abstract!Leave(p, v)), UNCHANGED joined
        PROVE  Fits(Abstract!Leave(p, v))
    BY <1>2, <2>2, LeaveIs
  <2>3. ASSUME NEW a \in Addresses, Becomes(Abstract!AddAddress(a)), UNCHANGED joined
        PROVE  Fits(Abstract!AddAddress(a))
    BY <1>2, <2>3, AddAddressIs
  <2> QED
    BY <2>1, <2>2, <2>3 DEF OthersEdit
<1>4. config' = c
  BY <1>3 DEF Becomes
<1>5. NvueTypes' /\ CallAt' /\ RevsAt'
  BY <1>1, <1>3, <1>4 DEF NvueIInv, NvueTypes, CallAt, RevsAt
<1>6. WritesAt'
  BY <1>1 DEF NvueIInv, WritesAt, Progress, KnewOf, Members
<1>7. Deleting'
  <2>1. \A p \in Members(config'.member, call.vlan) :
           p \in Members(config.member, call.vlan) \/ <<p, call.vlan>> \in joined'
    BY <1>3, <1>4 DEF Members
  <2>2. \/ call.vlan \notin config'.vlans \/ call.vlan \in config.vlans
        \/ \E p \in Ports : <<p, call.vlan>> \in joined'
    BY <1>3, <1>4
  <2> QED
    BY <1>1, <1>3, <2>1, <2>2, DeletingKept DEF NvueIInv
<1>8. Reading'
  BY <1>1, <1>3, ReadingKept DEF NvueIInv
<1> QED
  BY <1>5, <1>6, <1>7, <1>8 DEF NvueIInv

\* The switch decides on a revision, of this call or of an earlier one.
LEMMA DecidedKeeps ==
    ASSUME NvueIInv, NEW i \in Calls, revs[i].state = "submitted", NEW st \in {"applied", "failed"},
           Decided(i, st), UNCHANGED driverVars
    PROVE  /\ revs' \in [Calls -> RevType \union {NoRevision}]
           /\ revs[i] \in RevType
           /\ revs'[i] \in RevType => i = calls /\ pc = "poll" /\ revs'[i].state = st
           /\ revs'[i].state \in {st, "none"}
           /\ \A j \in Calls : j # i => revs'[j] = revs[j]
           /\ RevsAt' /\ WritesAt' /\ CallAt'
<1>1. /\ UNCHANGED <<pc, call, todo, appliedCache, operCache, view, answer, calls>>
      /\ revs \in [Calls -> RevType \union {NoRevision}]
  BY DEF driverVars, NvueIInv, NvueTypes
<1>2. revs[i] \in RevType
  BY <1>1 DEF NoRevision
<1>3. PICK n : /\ n = IF pc = "poll" /\ i = calls THEN [revs[i] EXCEPT !.state = st] ELSE NoRevision
  OBVIOUS
<1>4. /\ n \in RevType \union {NoRevision}
      /\ n = NoRevision \/ (i = calls /\ pc = "poll" /\ n.state = st /\ n.edit = revs[i].edit)
      /\ i = calls /\ pc = "poll" => n.state = st /\ n.edit = revs[i].edit
  BY <1>2, <1>3 DEF RevType
<1>5. NoRevision.state = "none" /\ NoRevision \notin RevType
  BY DEF NoRevision, RevType
<1>6. /\ revs' \in [Calls -> RevType \union {NoRevision}] /\ revs'[i] = n
      /\ \A j \in Calls : j # i => revs'[j] = revs[j]
  <2>1. revs' = [revs EXCEPT ![i] = n]
    BY <1>3 DEF Decided
  <2> QED
    BY <1>1, <1>4, <2>1
<1>7. i <= calls /\ (pc = "write" => i # calls) /\ calls \in Nat /\ i \in Nat
      /\ (pc \in {"members", "create", "vlans", "membership", "ports"} => i # calls)
  <2>1. ~(i > calls) /\ (pc = "write" => i # calls)
        /\ (pc \in {"members", "create", "vlans", "membership", "ports"} => i # calls)
    BY <1>5 DEF NvueIInv, RevsAt
  <2> QED
    BY <2>1, NvueAssumption DEF NvueIInv, NvueTypes, Calls
<1>8. CallAt'
  BY <1>1 DEF NvueIInv, CallAt
<1>9. RevsAt'
  <2>1. \A j \in Calls :
          /\ j > calls => revs'[j] = NoRevision
          /\ revs'[j].state = "open" => j = calls /\ pc = "write"
          /\ revs'[j].state \in {"applied", "failed"} => j = calls /\ pc = "poll"
    BY <1>4, <1>5, <1>6, <1>7 DEF NvueIInv, RevsAt
  <2>2. /\ pc \in {"members", "create", "vlans", "membership", "ports"} => revs'[calls] = NoRevision
        /\ pc = "write" => revs'[calls].state = "open"
    BY <1>6, <1>7 DEF NvueIInv, RevsAt, CallAt
  <2>3. pc = "poll" => revs'[calls].state \in {"submitted", "applied", "failed"}
    BY <1>4, <1>6 DEF NvueIInv, RevsAt, CallAt
  <2> QED
    BY <1>1, <2>1, <2>2, <2>3 DEF RevsAt
<1>10. WritesAt'
  <2>1. \A j \in Calls : revs'[j].state = "submitted" => revs'[j].writes = Recordable(revs'[j].edit)
    BY <1>4, <1>5, <1>6 DEF NvueIInv, WritesAt
  <2>2. pc = "write" => Progress(revs[calls], todo)'
    BY <1>1, <1>6, <1>7 DEF NvueIInv, WritesAt, CallAt, Progress, KnewOf
  <2>3. pc \in {"write", "poll"} => revs'[calls].edit = revs[calls].edit
    BY <1>4, <1>6, <1>7 DEF NvueIInv, CallAt
  <2>4. Members(appliedCache, call.vlan)' = Members(appliedCache, call.vlan)
    BY <1>1
  <2> QED
    BY <1>1, <2>1, <2>2, <2>3, <2>4 DEF NvueIInv, WritesAt
<1> QED
  BY <1>2, <1>4, <1>5, <1>6, <1>8, <1>9, <1>10

LEMMA RefusesPreserves == \A i \in Calls : NvueIInv /\ SwitchRefuses(i) => NvueIInv'
<1> SUFFICES ASSUME NEW i \in Calls, NvueIInv, SwitchRefuses(i) PROVE NvueIInv'
  OBVIOUS
<1>1. /\ revs[i].state = "submitted" /\ Decided(i, "failed") /\ UNCHANGED driverVars
      /\ UNCHANGED <<pc, call, todo, appliedCache, operCache, view, answer, calls>>
      /\ UNCHANGED <<config, others, seen, joined>>
  BY DEF SwitchRefuses, driverVars
<1>2. /\ revs' \in [Calls -> RevType \union {NoRevision}] /\ RevsAt' /\ WritesAt' /\ CallAt'
      /\ revs'[i].state \in {"failed", "none"} /\ \A j \in Calls : j # i => revs'[j] = revs[j]
  BY <1>1, DecidedKeeps
<1>3. NvueTypes'
  BY <1>1, <1>2 DEF NvueIInv, NvueTypes
<1>4. Deleting'
  <2>1. pc = "poll" /\ revs'[calls'].state = "applied" => revs[calls].state = "applied"
    BY <1>1, <1>2 DEF NvueIInv, CallAt
  <2> QED
    BY <1>1, <2>1, DeletingKept DEF NvueIInv
<1>5. Reading'
  BY <1>1 DEF NvueIInv, Reading, SeenVlans, SeenMembers, SeenPorts
<1> QED
  BY <1>2, <1>3, <1>4, <1>5 DEF NvueIInv

LEMMA AppliesEdit ==
    ASSUME NvueIInv, NEW i \in Calls, SwitchApplies(i)
    PROVE  /\ revs[i] \in RevType /\ revs[i].edit \in Abstract!Edits
           /\ config' = Abstract!Edited(revs[i].edit, config) /\ Becomes(config')
<1>1. revs[i] \in RevType /\ revs[i].state = "submitted"
  BY DEF SwitchApplies, NvueIInv, NvueTypes, NoRevision
<1>2. revs[i].writes = Recordable(revs[i].edit) /\ revs[i].edit \in Abstract!Edits
  BY <1>1 DEF NvueIInv, WritesAt, RevType
<1>3. config' = Performed(revs[i].writes, config) /\ Becomes(config')
  BY DEF SwitchApplies, Becomes
<1>4. config \in Abstract!Configs
  BY DEF NvueIInv, NvueTypes
<1>5. Performed(Recordable(revs[i].edit), config) = Abstract!Edited(revs[i].edit, config)
  BY <1>2, <1>4, PerformedIsEdited
<1> QED
  BY <1>1, <1>2, <1>3, <1>5

\* No edit puts a port into a VLAN.
LEMMA EditLeaves ==
    ASSUME NEW c \in Abstract!Configs, NEW e \in Abstract!Edits
    PROVE  LET d == Abstract!Edited(e, c)
           IN  /\ d \in Abstract!Configs /\ d.vlans \subseteq c.vlans
               /\ \A q \in Ports : d.member[q] \subseteq c.member[q]
               /\ e.op = "delete_vlan" =>
                     /\ e.vlan \notin d.vlans
                     /\ \A q \in e.ports : q \in Ports => e.vlan \notin d.member[q]
<1> DEFINE d == Abstract!Edited(e, c)
<1>1. d \in Abstract!Configs
  BY EditedIs
<1>2. CASE e.op = "delete_vlan"
  <2>1. /\ d.vlans = c.vlans \ {e.vlan}
        /\ d.member = [p \in Ports |-> IF p \in e.ports THEN c.member[p] \ {e.vlan} ELSE c.member[p]]
    BY <1>2, EditedIs
  <2> HIDE DEF d
  <2>2. \A p \in Ports : d.member[p] = IF p \in e.ports THEN c.member[p] \ {e.vlan} ELSE c.member[p]
    BY <2>1
  <2>3. d.vlans \subseteq c.vlans /\ e.vlan \notin d.vlans
    BY <2>1
  <2> QED
    BY <1>1, <2>2, <2>3 DEF d
<1>3. CASE e.op # "delete_vlan"
  <2>1. d.vlans = c.vlans /\ d.member = c.member
    <3>1. CASE e.op = "set_svi"
      BY <3>1, EditedIs DEF Changes
    <3>2. CASE e.op = "remove_svi"
      BY <3>2, EditedIs DEF Changes
    <3>3. CASE e.op = "set_admin"
      BY <3>3, EditedIs DEF Changes
    <3>4. CASE e.op = "set_fec"
      BY <3>4, EditedIs DEF Changes
    <3> QED
      BY <1>3, <3>1, <3>2, <3>3, <3>4, EditFields
  <2> HIDE DEF d
  <2> QED
    BY <1>1, <1>3, <2>1 DEF d
<1> QED
  BY <1>2, <1>3

LEMMA AppliesPreserves == \A i \in Calls : NvueIInv /\ SwitchApplies(i) => NvueIInv'
<1> SUFFICES ASSUME NEW i \in Calls, NvueIInv, SwitchApplies(i) PROVE NvueIInv'
  OBVIOUS
<1> DEFINE e == revs[i].edit
<1>1. /\ revs[i].state = "submitted" /\ Decided(i, "applied") /\ UNCHANGED driverVars
      /\ UNCHANGED <<pc, call, todo, appliedCache, operCache, view, answer, calls>>
      /\ UNCHANGED <<others, joined>>
  BY DEF SwitchApplies, driverVars
<1>2. /\ revs' \in [Calls -> RevType \union {NoRevision}] /\ RevsAt' /\ WritesAt' /\ CallAt'
      /\ revs'[i].state \in {"applied", "none"} /\ \A j \in Calls : j # i => revs'[j] = revs[j]
  BY <1>1, DecidedKeeps
<1>3. e \in Abstract!Edits /\ config' = Abstract!Edited(e, config) /\ Becomes(config')
  BY AppliesEdit
<1>4. config \in Abstract!Configs
  BY DEF NvueIInv, NvueTypes
<1> HIDE DEF e
<1>5. /\ config' \in Abstract!Configs /\ config'.vlans \subseteq config.vlans
      /\ \A q \in Ports : config'.member[q] \subseteq config.member[q]
      /\ e.op = "delete_vlan" =>
            /\ e.vlan \notin config'.vlans
            /\ \A q \in e.ports : q \in Ports => e.vlan \notin config'.member[q]
  BY <1>3, <1>4, EditLeaves
<1>6. NvueTypes'
  BY <1>1, <1>2, <1>5 DEF NvueIInv, NvueTypes
<1>7. Deleting'
  <2>1. \A p \in Members(config'.member, call.vlan) : p \in Members(config.member, call.vlan)
    BY <1>5 DEF Members
  <2>2. ASSUME call.op = "delete_vlan", pc = "poll", revs'[calls'].state = "applied"
        PROVE  revs[calls].state = "applied" \/ Deleted'
    <3>1. CASE i # calls
      BY <1>1, <1>2, <2>2, <3>1 DEF NvueIInv, CallAt
    <3>2. CASE i = calls
      <4>1. /\ e.op = "delete_vlan" /\ e.vlan = call.vlan /\ e.ports = Members(appliedCache, call.vlan)
            /\ Unless(Members(appliedCache, call.vlan))
        BY <2>2, <3>2 DEF NvueIInv, WritesAt, Deleting, e
      <4>2. \A p \in Members(config'.member, call.vlan) : <<p, call.vlan>> \in joined
        BY <1>5, <2>1, <4>1 DEF Unless, Members
      <4>3. call.vlan \notin config'.vlans
        BY <1>5, <4>1
      <4> QED
        BY <1>1, <4>2, <4>3 DEF Deleted, Unless
    <3> QED
      BY <3>1, <3>2
  <2>3. call.vlan \notin config'.vlans \/ call.vlan \in config.vlans
    BY <1>5
  <2> QED
    BY <1>1, <2>1, <2>2, <2>3, DeletingKept DEF NvueIInv
<1>8. Reading'
  BY <1>1, <1>3, ReadingKept DEF NvueIInv
<1> QED
  BY <1>2, <1>6, <1>7, <1>8 DEF NvueIInv

LEMMA NvueStep == NvueIInv /\ [Next]_vars => NvueIInv'
<1> SUFFICES ASSUME NvueIInv, [Next]_vars PROVE NvueIInv'
  OBVIOUS
<1>1. CASE \E v \in Vlans : BeginDelete(v)
  <2>1. PICK v \in Vlans : BeginDelete(v)
    BY <1>1
  <2>2. [op |-> "delete_vlan", vlan |-> v] \in EditCalls
    BY DEF EditCalls
  <2> QED
    BY <2>1, <2>2, BeginPreserves DEF BeginDelete
<1>2. CASE \E c \in EditCalls : BeginEdit(c)
  BY <1>2, BeginPreserves DEF BeginEdit
<1>3. CASE \E c \in ReadCalls : BeginRead(c)
  BY <1>3, BeginPreserves DEF BeginRead
<1>4. CASE Driver \/ PollFails \/ DeadlinePasses \/ OthersEdit
  BY <1>4, ReadMembersPreserves, CreatePreserves, WritePreserves, SubmitPreserves, PollPreserves,
     DeadlinePreserves, ReadPreserves, OthersPreserve DEF Driver
<1>5. CASE \E i \in Calls : SwitchApplies(i) \/ SwitchRefuses(i)
  BY <1>5, AppliesPreserves, RefusesPreserves
<1>6. CASE UNCHANGED vars
  <2>1. UNCHANGED <<config, revs, pc, call, todo, appliedCache, operCache, view, answer, calls, seen, joined>>
    BY <1>6 DEF vars, driverVars
  <2>2. NvueTypes' /\ CallAt' /\ RevsAt'
    BY <2>1 DEF NvueIInv, NvueTypes, CallAt, RevsAt
  <2>3. WritesAt'
    BY <2>1 DEF NvueIInv, WritesAt, Progress, KnewOf, Members
  <2>4. Deleting'
    BY <2>1 DEF NvueIInv, Deleting, Deleted, Unless, Members
  <2>5. Reading'
    BY <2>1 DEF NvueIInv, Reading, SeenVlans, SeenMembers, SeenPorts
  <2> QED
    BY <2>2, <2>3, <2>4, <2>5 DEF NvueIInv
<1> QED
  BY <1>1, <1>2, <1>3, <1>4, <1>5, <1>6 DEF Next

LEMMA NvueImplies == NvueIInv => TypeOK /\ AnswersTrue
<1> SUFFICES ASSUME NvueIInv PROVE TypeOK /\ AnswersTrue
  OBVIOUS
<1>1. TypeOK
  <2>1. \A i \in Calls : revs[i] \in RevType \/ revs[i] = NoRevision
    BY DEF NvueIInv, NvueTypes
  <2>2. \A i \in Calls : revs[i].state \in {"none", "open", "submitted", "applied", "failed"}
    BY <2>1 DEF RevType, NoRevision
  <2>3. \A i \in Calls : revs[i] # NoRevision =>
            revs[i].base \in Abstract!Configs /\ revs[i].edit \in Abstract!Edits
    BY <2>1 DEF RevType
  <2> QED
    BY <2>2, <2>3 DEF TypeOK, NvueIInv, NvueTypes
<1>2. AnswersTrue
  BY DEF AnswersTrue, DeletedEverywhere, ReadsFresh, NvueIInv, Deleting, Deleted, Unless, Reading, SeenVlans,
         SeenMembers, SeenPorts
<1> QED
  BY <1>1, <1>2

-----------------------------------------------------------------------------
(* NvueSwitch implements SwitchConfig: a revision that is submitted is a   *)
(* pending edit, and every other step changes neither.                     *)

Pending == [i \in Calls |-> IF revs[i].state = "submitted" THEN revs[i].edit ELSE Abstract!NoEdit]

LEMMA PendingKept ==
    ASSUME \A i \in Calls :
              /\ revs'[i].state = "submitted" <=> revs[i].state = "submitted"
              /\ revs[i].state = "submitted" => revs'[i].edit = revs[i].edit
    PROVE  Pending' = Pending
BY DEF Pending

\* One revision is submitted or decided, and the others are left alone.
LEMMA PendingSet ==
    ASSUME NEW i \in Calls, NEW e, \A j \in Calls : j # i => revs'[j] = revs[j],
           e = IF revs'[i].state = "submitted" THEN revs'[i].edit ELSE Abstract!NoEdit
    PROVE  Pending' = [Pending EXCEPT ![i] = e]
BY DEF Pending

LEMMA RefinedInit == Init => Abstract!Init
<1> SUFFICES ASSUME Init PROVE Abstract!Init
  OBVIOUS
<1>1. config \in Abstract!Configs
  BY NvueAssumption DEF Init
<1>2. \A i \in Calls : revs[i].state = "none"
  BY DEF Init, NoRevision
<1> QED
  BY <1>1, <1>2 DEF Abstract!Init, Abstract!NoEdit

\* Steps of a call that hand nothing over.
LEMMA CallStutters ==
    ASSUME NvueIInv, UNCHANGED config,
           \/ UNCHANGED revs
           \/ calls \in Calls /\ revs[calls].state # "submitted"
              /\ \E r : revs' = [revs EXCEPT ![calls] = r] /\ r.state # "submitted"
    PROVE  UNCHANGED Abstract!vars
<1>1. revs \in [Calls -> RevType \union {NoRevision}]
  BY DEF NvueIInv, NvueTypes
<1>2. Pending' = Pending
  <2>1. CASE UNCHANGED revs
    BY <2>1, PendingKept
  <2>2. CASE /\ calls \in Calls /\ revs[calls].state # "submitted"
             /\ \E r : revs' = [revs EXCEPT ![calls] = r] /\ r.state # "submitted"
    <3>1. PICK r : revs' = [revs EXCEPT ![calls] = r] /\ r.state # "submitted"
      BY <2>2
    <3>2. revs'[calls] = r /\ \A i \in Calls : i # calls => revs'[i] = revs[i]
      BY <1>1, <2>2, <3>1
    <3> QED
      BY <2>2, <3>1, <3>2, PendingKept
  <2> QED
    BY <2>1, <2>2
<1> QED
  BY <1>2 DEF Abstract!vars, Pending, Abstract!NoEdit

LEMMA SubmitRefines == NvueIInv /\ Submit => [Abstract!Next]_(Abstract!vars)
<1> SUFFICES ASSUME NvueIInv, Submit PROVE [Abstract!Next]_(Abstract!vars)
  OBVIOUS
<1> DEFINE r == revs[calls]
<1>1. /\ calls \in Calls /\ r \in RevType /\ r.state = "open"
      /\ revs \in [Calls -> RevType \union {NoRevision}] /\ UNCHANGED config
  BY DEF Submit, NvueIInv, NvueTypes, CallAt, RevsAt, NoRevision
<1>2. CASE Fails
  <2>1. revs' = [revs EXCEPT ![calls] = NoRevision] /\ NoRevision.state # "submitted"
    BY <1>2 DEF Fails, NoRevision
  <2> QED
    BY <1>1, <2>1, CallStutters
<1>3. CASE revs' = [revs EXCEPT ![calls].state = "submitted"]
  <2>1. /\ revs'[calls].state = "submitted" /\ revs'[calls].edit = r.edit
        /\ \A i \in Calls : i # calls => revs'[i] = revs[i]
    BY <1>1, <1>3 DEF RevType
  <2>2. PICK i \in Calls, e \in Abstract!Edits : i = calls /\ e = r.edit
    BY <1>1 DEF RevType
  <2>3. Pending' = [Pending EXCEPT ![i] = e]
    BY <2>1, <2>2, PendingSet
  <2>4. Pending[i] = Abstract!NoEdit /\ e \in Abstract!Edits
    BY <1>1, <2>2 DEF Pending, RevType
  <2>5. Abstract!Submit(i, e)
    BY <1>1, <2>3, <2>4 DEF Abstract!Submit, Pending, Abstract!NoEdit
  <2> QED
    BY <2>4, <2>5 DEF Abstract!Next
<1> QED
  BY <1>2, <1>3 DEF Submit

LEMMA CallRefines == NvueIInv /\ (Driver \/ PollFails \/ DeadlinePasses) => [Abstract!Next]_(Abstract!vars)
<1> SUFFICES ASSUME NvueIInv, Driver \/ PollFails \/ DeadlinePasses PROVE [Abstract!Next]_(Abstract!vars)
  OBVIOUS
<1>0. /\ revs \in [Calls -> RevType \union {NoRevision}] /\ NoRevision.state = "none"
      /\ pc # "idle" => calls \in Calls
  BY DEF NvueIInv, NvueTypes, NoRevision, CallAt
<1>1. CASE ReadMembers \/ ReadVlans \/ ReadMembership \/ ReadPorts \/ DeadlinePasses
  <2>1. UNCHANGED <<config, revs>>
    BY <1>1 DEF ReadMembers, ReadVlans, ReadMembership, ReadPorts, DeadlinePasses
  <2> QED
    BY <2>1, CallStutters
<1>2. CASE Create
  <2>1. calls \in Calls /\ revs[calls].state # "submitted" /\ UNCHANGED config
    BY <1>0, <1>2 DEF Create, NvueIInv, RevsAt
  <2>2. UNCHANGED revs \/ \E r : revs' = [revs EXCEPT ![calls] = r] /\ r.state # "submitted"
    <3>1. PICK r : r = [state |-> "open", base |-> config, writes |-> {}, edit |-> Edit]
      OBVIOUS
    <3>2. r.state # "submitted"
      BY <3>1
    <3>3. UNCHANGED revs \/ revs' = [revs EXCEPT ![calls] = r]
      BY <1>2, <3>1 DEF Create
    <3> QED
      BY <3>2, <3>3
  <2> QED
    BY <2>1, <2>2, CallStutters
<1>3. CASE Write
  <2>1. /\ calls \in Calls /\ revs[calls].state = "open" /\ revs[calls] \in RevType
        /\ UNCHANGED config
    BY <1>0, <1>3 DEF Write, NvueIInv, RevsAt
  <2>2. UNCHANGED revs \/ \E r : revs' = [revs EXCEPT ![calls] = r] /\ r.state # "submitted"
    <3>1. CASE UNCHANGED revs \/ Fails
      BY <1>0, <3>1 DEF Fails
    <3>2. ASSUME NEW w, Recorded(w)
          PROVE  \E r : revs' = [revs EXCEPT ![calls] = r] /\ r.state # "submitted"
      <4>1. PICK r : r = [revs[calls] EXCEPT !.writes = @ \union {w}]
        OBVIOUS
      <4>2. r.state = "open"
        BY <2>1, <4>1 DEF RevType
      <4>3. revs' = [revs EXCEPT ![calls] = r]
        BY <3>2, <4>1 DEF Recorded
      <4> QED
        BY <4>2, <4>3
    <3> QED
      BY <1>3, <3>1, <3>2 DEF Write
  <2> QED
    BY <2>1, <2>2, CallStutters
<1>4. CASE Submit
  BY <1>4, SubmitRefines
<1>5. CASE Poll \/ PollFails
  <2>1. Asked /\ pc = "poll" /\ UNCHANGED config
    BY <1>5 DEF Poll, PollFails, Asked
  <2>2. \/ UNCHANGED revs
        \/ calls \in Calls /\ revs[calls].state # "submitted" /\ revs' = [revs EXCEPT ![calls] = NoRevision]
    BY <1>0, <2>1 DEF Asked
  <2> QED
    BY <1>0, <2>1, <2>2, CallStutters
<1> QED
  BY <1>1, <1>2, <1>3, <1>4, <1>5 DEF Driver

LEMMA SwitchRefines ==
    ASSUME NvueIInv, NEW i \in Calls, SwitchApplies(i) \/ SwitchRefuses(i)
    PROVE  Abstract!Next
<1>1. PICK st \in {"applied", "failed"} :
          /\ revs[i].state = "submitted" /\ Decided(i, st) /\ UNCHANGED driverVars
          /\ st = "applied" => SwitchApplies(i)
          /\ st = "failed" => UNCHANGED config
  BY DEF SwitchApplies, SwitchRefuses
<1>2. /\ revs[i] \in RevType /\ revs'[i].state # "submitted"
      /\ \A j \in Calls : j # i => revs'[j] = revs[j]
  BY <1>1, DecidedKeeps
<1>3. Pending' = [Pending EXCEPT ![i] = Abstract!NoEdit]
  BY <1>2, PendingSet
<1>4. Pending[i] = revs[i].edit /\ revs[i].edit # Abstract!NoEdit
  BY <1>1, <1>2, EditFields DEF Pending, RevType
<1>5. CASE st = "applied"
  <2>1. config' = Abstract!Edited(revs[i].edit, config)
    BY <1>1, <1>5, AppliesEdit
  <2>2. Abstract!Apply(i)
    BY <1>3, <1>4, <2>1 DEF Abstract!Apply, Pending, Abstract!NoEdit
  <2> QED
    BY <2>2 DEF Abstract!Next
<1>6. CASE st = "failed"
  <2>1. Abstract!Drop(i)
    BY <1>1, <1>3, <1>4, <1>6 DEF Abstract!Drop, Pending, Abstract!NoEdit
  <2> QED
    BY <2>1 DEF Abstract!Next
<1> QED
  BY <1>5, <1>6

LEMMA OthersRefine == OthersEdit => Abstract!Next
<1> SUFFICES ASSUME OthersEdit PROVE Abstract!Next
  OBVIOUS
<1>1. Pending' = Pending
  BY PendingKept DEF OthersEdit
<1>2. \/ \E p \in Ports, v \in Vlans : config' \in {Abstract!Join(p, v), Abstract!Leave(p, v)}
      \/ \E a \in Addresses : config' = Abstract!AddAddress(a)
  BY DEF OthersEdit, Becomes
<1>3. Abstract!OthersEdit
  BY <1>1, <1>2 DEF Abstract!OthersEdit, Pending, Abstract!NoEdit
<1> QED
  BY <1>3 DEF Abstract!Next

LEMMA NvueRefines == NvueIInv /\ [Next]_vars => [Abstract!Next]_(Abstract!vars)
<1> SUFFICES ASSUME NvueIInv, [Next]_vars PROVE [Abstract!Next]_(Abstract!vars)
  OBVIOUS
<1>1. CASE (\E v \in Vlans : BeginDelete(v)) \/ (\E c \in EditCalls : BeginEdit(c))
           \/ (\E c \in ReadCalls : BeginRead(c)) \/ UNCHANGED vars
  <2>1. UNCHANGED <<config, revs>>
    BY <1>1 DEF BeginDelete, BeginEdit, BeginRead, Begins, vars
  <2> QED
    BY <2>1, CallStutters
<1>2. CASE Driver \/ PollFails \/ DeadlinePasses
  BY <1>2, CallRefines
<1>3. CASE OthersEdit
  BY <1>3, OthersRefine
<1>4. CASE \E i \in Calls : SwitchApplies(i) \/ SwitchRefuses(i)
  BY <1>4, SwitchRefines
<1> QED
  BY <1>1, <1>2, <1>3, <1>4 DEF Next

-----------------------------------------------------------------------------
(* CliSwitch: what is still to run of a call, and what has come of the     *)
(* commands that have run.                                                 *)

FecValues == Cli!FecEncodings \union {Cli!Auto}
SviValues == Cli!CliAddresses \union {Cli!NoAddress}
CliTypes ==
    /\ vendor \in Cli!Vendors
    /\ admin \in BOOLEAN /\ vlan \in BOOLEAN
    /\ fec \subseteq Cli!FecEncodings /\ addresses \subseteq Cli!CliAddresses
    /\ svi \in {"none", "there"} /\ (svi = "none" => addresses = {})
    /\ cliAnswer \in {"none", "ok", "raised"}
CliCallShape ==
    /\ \/ cliCall = [op |-> "none"] /\ cliAnswer = "none"
       \/ cliCall \in [op : {"none", "admin"}, of : {"admin"}, value : BOOLEAN]
       \/ cliCall \in [op : {"none", "vlan"}, of : {"vlan"}, value : {"id"}]
       \/ cliCall \in [op : {"none", "fec"}, of : {"fec"}, value : FecValues]
       \/ cliCall \in [op : {"none", "svi"}, of : {"svi"}, value : SviValues]
    /\ cliCall.op = "none" <=> cliTodo = <<>>
    /\ cliCall.op # "none" => cliAnswer = "none"

\* The commands of each call, and the places between them where the call may be.
AdminTodo == cliTodo = <<Cli!Command(IF cliCall.value THEN "no shutdown" ELSE "shutdown", "port")>>
VlanTodo == cliTodo = <<Cli!Command("no vlan", "id")>>
FecTodo ==
    \/ cliTodo = Cli!SetPortFec(cliCall.value)
    \/ /\ vendor = "eos" /\ cliCall.value \in {"fire-code", "reed-solomon"}
       /\ cliTodo = <<Cli!Command("no fec", Cli!Other(cliCall.value))>>
       /\ cliCall.value \in fec /\ "off" \notin fec
SviTodo ==
    LET a == cliCall.value
        noIp == Cli!Command("no address", "ip")
        noIpv6 == Cli!Command("no address", "ipv6")
        add == Cli!Command("address", a)
    IN  \/ cliTodo = Cli!SetSvi(a)
        \/ /\ a # Cli!NoAddress /\ svi = "there"
           /\ \/ cliTodo = <<noIp, noIpv6, add>>
              \/ cliTodo = <<noIpv6, add>> /\ \A b \in addresses : b.family # "ip"
              \/ cliTodo = <<add>> /\ addresses = {}
CliProgress ==
    /\ cliCall.op = "admin" => AdminTodo
    /\ cliCall.op = "vlan" => VlanTodo
    /\ cliCall.op = "fec" => FecTodo
    /\ cliCall.op = "svi" => SviTodo

\* What a call that returned has left.
CliDone ==
    cliAnswer = "ok" =>
        /\ cliCall.of = "admin" => admin = cliCall.value
        /\ cliCall.of = "vlan" => ~vlan
        /\ cliCall.of = "fec" => fec = IF cliCall.value = Cli!Auto THEN {} ELSE {cliCall.value}
        /\ cliCall.of = "svi" =>
              addresses = IF cliCall.value = Cli!NoAddress THEN {} ELSE {cliCall.value}

CliIInv == CliTypes /\ CliCallShape /\ CliProgress /\ CliDone

LEMMA CliInit == Cli!Init => CliIInv
<1> SUFFICES ASSUME Cli!Init PROVE CliIInv
  OBVIOUS
<1>1. /\ vendor \in Cli!Vendors /\ admin = TRUE /\ vlan = TRUE /\ fec \in {{}, {"reed-solomon"}}
      /\ svi = "none" /\ addresses = {}
      /\ cliCall = [op |-> "none"] /\ cliTodo = <<>> /\ cliAnswer = "none"
  BY DEF Cli!Init
<1>2. CliTypes
  BY <1>1 DEF CliTypes, Cli!FecEncodings
<1>3. CliCallShape /\ CliProgress
  BY <1>1 DEF CliCallShape, CliProgress
<1> QED
  BY <1>1, <1>2, <1>3 DEF CliIInv, CliDone

LEMMA CliImplies == CliIInv => Cli!TypeOK /\ CliReadsBack
<1> SUFFICES ASSUME CliIInv PROVE Cli!TypeOK /\ CliReadsBack
  OBVIOUS
<1>1. Cli!TypeOK
  <2>1. cliCall.op \in {"none", "admin", "vlan", "fec", "svi"}
    BY DEF CliIInv, CliCallShape
  <2> QED
    BY <2>1 DEF CliIInv, CliTypes, CliCallShape, Cli!TypeOK
<1>2. ASSUME cliAnswer = "ok", cliCall.of = "fec"
      PROVE  Cli!PortFec = cliCall.value
  <2>1. cliCall.value \in FecValues /\ fec = IF cliCall.value = Cli!Auto THEN {} ELSE {cliCall.value}
    BY <1>2 DEF CliIInv, CliCallShape, CliDone
  <2>2. CASE cliCall.value = Cli!Auto
    <3>1. fec = {}
      BY <2>1, <2>2
    <3>2. ~ \E e \in Cli!FecEncodings : fec = {e}
      BY <3>1
    <3> QED
      BY <2>2, <3>2 DEF Cli!PortFec
  <2>3. CASE cliCall.value # Cli!Auto
    <3>1. cliCall.value \in Cli!FecEncodings /\ fec = {cliCall.value}
      BY <2>1, <2>3 DEF FecValues
    <3>2. \A e : fec = {e} => e = cliCall.value
      BY <3>1
    <3> QED
      BY <3>1, <3>2 DEF Cli!PortFec
  <2> QED
    BY <2>2, <2>3
<1>3. ASSUME cliAnswer = "ok", cliCall.of = "svi"
      PROVE  Cli!AddressFromConfig = addresses
  <2>1. addresses = {} \/ \E a : addresses = {a}
    BY <1>3 DEF CliIInv, CliDone
  <2>2. CASE addresses = {}
    BY <2>2 DEF Cli!AddressFromConfig
  <2>3. CASE \E a : addresses = {a}
    <3>1. PICK a : addresses = {a}
      BY <2>3
    <3>2. {b \in addresses : b.family = "ip"} \in {{}, {a}}
      BY <3>1
    <3> QED
      BY <3>1, <3>2 DEF Cli!AddressFromConfig
  <2> QED
    BY <2>1, <2>2, <2>3
<1>4. CliReadsBack
  BY <1>2, <1>3 DEF CliIInv, CliDone, CliReadsBack, Cli!CliReadsBack
<1> QED
  BY <1>1, <1>4

LEMMA CliBegins ==
    ASSUME CliIInv, \/ \E up \in BOOLEAN : Cli!BeginAdmin(up)
                    \/ Cli!DeleteVlan
                    \/ \E e \in FecValues : Cli!BeginFec(e)
                    \/ \E a \in SviValues : Cli!BeginSvi(a)
    PROVE  CliIInv'
<1>1. CliTypes' /\ cliAnswer' = "none"
  BY DEF CliIInv, CliTypes, Cli!BeginAdmin, Cli!DeleteVlan, Cli!BeginFec, Cli!BeginSvi, Cli!Begins,
         Cli!configVars
<1>2. CASE \E up \in BOOLEAN : Cli!BeginAdmin(up)
  <2>1. PICK up \in BOOLEAN : Cli!BeginAdmin(up)
    BY <1>2
  <2>2. /\ cliCall' = [op |-> "admin", of |-> "admin", value |-> up]
        /\ cliTodo' = <<Cli!Command(IF up THEN "no shutdown" ELSE "shutdown", "port")>>
    BY <2>1 DEF Cli!BeginAdmin, Cli!Begins
  <2>3. CliCallShape'
    BY <1>1, <2>2 DEF CliCallShape
  <2>4. CliProgress'
    BY <2>2 DEF CliProgress, AdminTodo
  <2> QED
    BY <1>1, <2>3, <2>4 DEF CliIInv, CliDone
<1>3. CASE Cli!DeleteVlan
  <2>2. /\ cliCall' = [op |-> "vlan", of |-> "vlan", value |-> "id"]
        /\ cliTodo' = <<Cli!Command("no vlan", "id")>>
    BY <1>3 DEF Cli!DeleteVlan, Cli!Begins
  <2>3. CliCallShape'
    BY <1>1, <2>2 DEF CliCallShape
  <2>4. CliProgress'
    BY <2>2 DEF CliProgress, VlanTodo
  <2> QED
    BY <1>1, <2>3, <2>4 DEF CliIInv, CliDone
<1>4. CASE \E e \in FecValues : Cli!BeginFec(e)
  <2>1. PICK e \in FecValues : Cli!BeginFec(e)
    BY <1>4
  <2>2. /\ cliCall' = [op |-> "fec", of |-> "fec", value |-> e]
        /\ cliTodo' = Cli!SetPortFec(e) /\ vendor' = vendor
    BY <2>1 DEF Cli!BeginFec, Cli!Begins
  <2>3. cliTodo' # <<>>
    BY <2>2 DEF Cli!SetPortFec, Cli!EosFec, Cli!NxosFec
  <2>4. CliCallShape'
    BY <1>1, <2>2, <2>3 DEF CliCallShape
  <2>5. cliTodo' = (Cli!SetPortFec(cliCall.value))'
    BY <2>2 DEF Cli!SetPortFec
  <2>6. CliProgress'
    BY <2>2, <2>5 DEF CliProgress, FecTodo
  <2> QED
    BY <1>1, <2>4, <2>6 DEF CliIInv, CliDone
<1>5. CASE \E a \in SviValues : Cli!BeginSvi(a)
  <2>1. PICK a \in SviValues : Cli!BeginSvi(a)
    BY <1>5
  <2>2. /\ cliCall' = [op |-> "svi", of |-> "svi", value |-> a]
        /\ cliTodo' = Cli!SetSvi(a)
    BY <2>1 DEF Cli!BeginSvi, Cli!Begins
  <2>3. cliTodo' # <<>>
    BY <2>2 DEF Cli!SetSvi
  <2>4. CliCallShape'
    BY <1>1, <2>2, <2>3 DEF CliCallShape
  <2>5. cliCall'.op = "svi" /\ cliTodo' = Cli!SetSvi(cliCall'.value)
    BY <2>2
  <2>6. CliProgress'
    BY <2>5 DEF CliProgress, SviTodo
  <2> QED
    BY <1>1, <2>4, <2>6 DEF CliIInv, CliDone
<1> QED
  BY <1>2, <1>3, <1>4, <1>5

\* What the command that runs does, and where it leaves the call.
CliRan(c) ==
    /\ fec' = Cli!FecAfter(c) /\ addresses' = Cli!AddressesAfter(c) /\ svi' = Cli!SviAfter(c)
    /\ admin' = Cli!AdminAfter(c) /\ vlan' = (vlan /\ c.verb # "no vlan")
    /\ UNCHANGED vendor

LEMMA RunsLast ==
    ASSUME Cli!Run, NEW c, cliTodo = <<c>>
    PROVE  CliRan(c) /\ Cli!Ends("ok")
<1>1. Head(cliTodo) = c /\ Len(cliTodo) = 1
  OBVIOUS
<1>2. CliRan(c)
  BY <1>1 DEF Cli!Run, CliRan
<1>3. Cli!Ends("ok")
  BY <1>1 DEF Cli!Run
<1> QED
  BY <1>2, <1>3

LEMMA RunsFirst ==
    ASSUME Cli!Run, NEW c, NEW d, \/ cliTodo = <<c, d>>
                                  \/ \E e : cliTodo = <<c, d, e>>
                                  \/ \E e, f : cliTodo = <<c, d, e, f>>
    PROVE  CliRan(c) /\ cliTodo' = Tail(cliTodo) /\ UNCHANGED <<cliCall, cliAnswer>>
<1>1. Head(cliTodo) = c /\ Len(cliTodo) # 1
  OBVIOUS
<1>2. CliRan(c)
  BY <1>1 DEF Cli!Run, CliRan
<1>3. cliTodo' = Tail(cliTodo) /\ UNCHANGED <<cliCall, cliAnswer>>
  BY <1>1 DEF Cli!Run
<1> QED
  BY <1>2, <1>3

\* No command leaves the types.
LEMMA CliRanTypes ==
    ASSUME CliTypes, NEW c, CliRan(c), cliAnswer' \in {"none", "ok", "raised"},
           c.verb = "fec" => c.what \in Cli!FecEncodings,
           c.verb = "address" => c.what \in Cli!CliAddresses /\ svi = "there"
    PROVE  CliTypes'
<1>1. fec' \subseteq Cli!FecEncodings
  BY DEF CliRan, CliTypes, Cli!FecAfter, Cli!FecEncodings
<1>2. addresses' \subseteq Cli!CliAddresses
  BY DEF CliRan, CliTypes, Cli!AddressesAfter
<1>3. svi' \in {"none", "there"} /\ (svi' = "none" => addresses' = {})
  <2>1. CASE c.verb = "no interface"
    BY <2>1 DEF CliRan, CliTypes, Cli!AddressesAfter, Cli!SviAfter
  <2>2. CASE c.verb = "interface"
    BY <2>2 DEF CliRan, CliTypes, Cli!SviAfter
  <2>3. CASE c.verb \notin {"no interface", "interface"}
    <3>1. svi' = svi
      BY <2>3 DEF CliRan, Cli!SviAfter
    <3>2. CASE svi = "none"
      <4>1. addresses' = {}
        BY <2>3, <3>2 DEF CliRan, CliTypes, Cli!AddressesAfter
      <4> QED
        BY <3>1, <3>2, <4>1
    <3>3. CASE svi = "there"
      BY <3>1, <3>3
    <3> QED
      BY <3>2, <3>3 DEF CliTypes
  <2> QED
    BY <2>1, <2>2, <2>3
<1>4. admin' \in BOOLEAN /\ vlan' \in BOOLEAN
  <2>1. admin' \in BOOLEAN
    BY DEF CliRan, CliTypes, Cli!AdminAfter
  <2>2. vlan' \in BOOLEAN
    BY DEF CliRan, CliTypes
  <2> QED
    BY <2>1, <2>2
<1> QED
  BY <1>1, <1>2, <1>3, <1>4 DEF CliRan, CliTypes

\* The call is over, with what it leaves.
LEMMA CliEnds ==
    ASSUME CliIInv, cliCall.op # "none", NEW a \in {"ok", "raised"}, Cli!Ends(a), CliTypes', CliDone'
    PROVE  CliIInv'
<1>1. /\ cliCall'.op = "none" /\ cliTodo' = <<>> /\ cliAnswer' = a
  BY DEF Cli!Ends, CliIInv, CliCallShape
<1>2. CliCallShape'
  BY <1>1 DEF Cli!Ends, CliIInv, CliCallShape
<1>3. CliProgress'
  BY <1>1 DEF CliProgress
<1> QED
  BY <1>2, <1>3 DEF CliIInv

LEMMA EndsKeeps ==
    ASSUME CliIInv, cliCall.op # "none", NEW a, Cli!Ends(a)
    PROVE  cliCall'.of = cliCall.of /\ cliCall'.value = cliCall.value /\ cliAnswer' = a /\ cliCall.of = cliCall.op
BY DEF Cli!Ends, CliIInv, CliCallShape

LEMMA CliRefused == CliIInv /\ Cli!Refused => CliIInv'
<1> SUFFICES ASSUME CliIInv, Cli!Refused PROVE CliIInv'
  OBVIOUS
<1>1. Cli!Ends("raised") /\ cliCall.op # "none" /\ UNCHANGED <<vendor, admin, vlan, fec, svi, addresses>>
  BY DEF Cli!Refused, Cli!configVars, CliIInv, CliCallShape
<1>2. cliAnswer' = "raised"
  BY <1>1, EndsKeeps
<1>3. CliTypes' /\ CliDone'
  BY <1>1, <1>2 DEF CliIInv, CliTypes, CliDone
<1> QED
  BY <1>1, <1>3, CliEnds

LEMMA AdminOrVlanRuns ==
    ASSUME CliIInv, Cli!Run, cliCall.op \in {"admin", "vlan"}
    PROVE  CliIInv'
<1>1. PICK c : /\ cliTodo = <<c>>
               /\ cliCall.op = "admin" => c.verb = IF cliCall.value THEN "no shutdown" ELSE "shutdown"
               /\ cliCall.op = "vlan" => c.verb = "no vlan"
  <2>1. CASE cliCall.op = "admin"
    <3>1. PICK c : c = Cli!Command(IF cliCall.value THEN "no shutdown" ELSE "shutdown", "port")
      OBVIOUS
    <3>2. cliTodo = <<c>>
      BY <2>1, <3>1 DEF CliIInv, CliProgress, AdminTodo
    <3>3. c.verb = IF cliCall.value THEN "no shutdown" ELSE "shutdown"
      BY <3>1 DEF Cli!Command
    <3> QED
      BY <2>1, <3>2, <3>3
  <2>2. CASE cliCall.op = "vlan"
    <3>1. PICK c : c = Cli!Command("no vlan", "id")
      OBVIOUS
    <3>2. cliTodo = <<c>> /\ c.verb = "no vlan"
      BY <2>2, <3>1 DEF CliIInv, CliProgress, VlanTodo, Cli!Command
    <3> QED
      BY <2>2, <3>2
  <2> QED
    BY <2>1, <2>2
<1>2. CliRan(c) /\ Cli!Ends("ok")
  BY <1>1, RunsLast
<1>3. cliCall'.of = cliCall.op /\ cliCall'.value = cliCall.value /\ cliAnswer' = "ok"
  BY <1>2, EndsKeeps
<1>4. c.verb \in {"no shutdown", "shutdown", "no vlan"}
  BY <1>1
<1>5. CliTypes'
  BY <1>2, <1>3, <1>4, CliRanTypes DEF CliIInv
<1>6. CliDone'
  <2>1. CASE cliCall.op = "admin"
    <3>1. cliCall.value \in BOOLEAN
      BY <2>1 DEF CliIInv, CliCallShape
    <3>2. admin' = cliCall.value
      BY <1>1, <1>2, <2>1, <3>1 DEF CliRan, Cli!AdminAfter
    <3> QED
      BY <1>3, <2>1, <3>2 DEF CliDone
  <2>2. CASE cliCall.op = "vlan"
    <3>1. ~vlan'
      BY <1>1, <1>2, <2>2 DEF CliRan
    <3> QED
      BY <1>3, <2>2, <3>1 DEF CliDone
  <2> QED
    BY <2>1, <2>2
<1> QED
  BY <1>2, <1>5, <1>6, CliEnds

LEMMA FecRuns == CliIInv /\ Cli!Run /\ cliCall.op = "fec" => CliIInv'
<1> SUFFICES ASSUME CliIInv, Cli!Run, cliCall.op = "fec" PROVE CliIInv'
  OBVIOUS
<1> DEFINE e == cliCall.value
<1>1. e \in FecValues /\ FecTodo /\ cliCall.of = "fec" /\ CliTypes /\ cliAnswer = "none"
  BY DEF CliIInv, CliCallShape, CliProgress
<1>2. ASSUME NEW c, cliTodo = <<c>>, c.verb \in {"default fec", "no fec", "fec"},
             c.verb = "fec" => c.what \in Cli!FecEncodings,
             Cli!FecAfter(c) = IF e = Cli!Auto THEN {} ELSE {e}
      PROVE  CliIInv'
  <2>1. CliRan(c) /\ Cli!Ends("ok")
    BY <1>2, RunsLast
  <2>2. cliCall'.of = "fec" /\ cliCall'.value = e /\ cliAnswer' = "ok"
    BY <1>1, <2>1, EndsKeeps
  <2>3. CliTypes'
    BY <1>1, <1>2, <2>1, <2>2, CliRanTypes
  <2>4. CliDone'
    BY <1>2, <2>1, <2>2 DEF CliDone, CliRan
  <2> QED
    BY <2>1, <2>3, <2>4, CliEnds
<1>3. CASE e = Cli!Auto
  <2>1. cliTodo = <<Cli!Command("default fec", Cli!Auto)>>
    BY <1>1, <1>3 DEF FecTodo, Cli!SetPortFec, Cli!EosFec, Cli!NxosFec, Cli!Auto
  <2>2. PICK c : c = Cli!Command("default fec", Cli!Auto)
    OBVIOUS
  <2>3. c.verb = "default fec"
    BY <2>2 DEF Cli!Command
  <2>4. Cli!FecAfter(c) = {}
    BY <2>3 DEF Cli!FecAfter
  <2> QED
    BY <1>2, <1>3, <2>1, <2>2, <2>3, <2>4
<1>4. CASE vendor = "eos" /\ e = "off"
  <2>1. cliTodo = <<Cli!Command("no fec", "all")>>
    BY <1>1, <1>4 DEF FecTodo, Cli!SetPortFec, Cli!EosFec, Cli!Auto
  <2>2. PICK c : c = Cli!Command("no fec", "all")
    OBVIOUS
  <2>3. c.verb = "no fec" /\ c.what = "all"
    BY <2>2 DEF Cli!Command
  <2>4. Cli!FecAfter(c) = {"off"}
    BY <2>3 DEF Cli!FecAfter
  <2> QED
    BY <1>2, <1>4, <2>1, <2>2, <2>3, <2>4 DEF Cli!Auto
<1>5. CASE vendor = "nxos" /\ e # Cli!Auto
  <2>1. cliTodo = <<Cli!Command("fec", e)>> /\ e \in Cli!FecEncodings
    BY <1>1, <1>5 DEF FecTodo, FecValues, Cli!SetPortFec, Cli!NxosFec
  <2>2. PICK c : c = Cli!Command("fec", e)
    OBVIOUS
  <2>3. c.verb = "fec" /\ c.what = e
    BY <2>2 DEF Cli!Command
  <2>4. Cli!FecAfter(c) = {e}
    BY <1>5, <2>3 DEF Cli!FecAfter
  <2> QED
    BY <1>2, <1>5, <2>1, <2>2, <2>3, <2>4
<1>6. CASE vendor = "eos" /\ e \in {"fire-code", "reed-solomon"}
  <2> DEFINE o == Cli!Other(e)
  <2>1. \/ cliTodo = <<Cli!Command("fec", e), Cli!Command("no fec", o)>>
        \/ cliTodo = <<Cli!Command("no fec", o)>> /\ e \in fec /\ "off" \notin fec
    BY <1>1, <1>6 DEF FecTodo, Cli!SetPortFec, Cli!EosFec, Cli!Auto
  <2>2. /\ o # e /\ o \in {"fire-code", "reed-solomon"} /\ e # Cli!Auto
        /\ Cli!FecEncodings = {"off", e, o}
    BY <1>6 DEF Cli!Other, Cli!Auto, Cli!FecEncodings
  <2>3. PICK c, d : c = Cli!Command("fec", e) /\ d = Cli!Command("no fec", o)
    OBVIOUS
  <2>4. c.verb = "fec" /\ c.what = e /\ d.verb = "no fec" /\ d.what = o
    BY <2>3 DEF Cli!Command
  <2> HIDE DEF o
  <2>5. CASE cliTodo = <<c, d>>
    <3>1. CliRan(c) /\ cliTodo' = Tail(cliTodo) /\ UNCHANGED <<cliCall, cliAnswer>>
      BY <2>5, RunsFirst
    <3>2. cliTodo' = <<d>>
      BY <2>5, <3>1
    <3>3. fec' = (fec \ {"off"}) \union {e} /\ vendor' = "eos"
      BY <1>6, <2>4, <3>1 DEF CliRan, Cli!FecAfter
    <3>4. CliTypes'
      BY <1>1, <2>2, <2>4, <3>1, CliRanTypes DEF CliTypes
    <3>5. CliCallShape'
      <4>1. cliTodo' # <<>>
        BY <3>2
      <4> QED
        BY <3>1, <4>1 DEF CliIInv, CliCallShape
    <3>6. FecTodo'
      BY <1>6, <2>3, <3>1, <3>2, <3>3 DEF FecTodo, o
    <3>7. CliProgress'
      BY <3>1, <3>6 DEF CliProgress
    <3>8. CliDone'
      BY <1>1, <3>1 DEF CliDone
    <3> QED
      BY <3>4, <3>5, <3>7, <3>8 DEF CliIInv
  <2>6. CASE cliTodo = <<d>> /\ e \in fec /\ "off" \notin fec
    <3>1. Cli!FecAfter(d) = fec \ {o}
      BY <2>2, <2>4 DEF Cli!FecAfter
    <3>2. fec \ {o} = {e}
      BY <1>1, <2>2, <2>6 DEF CliTypes
    <3> QED
      BY <1>2, <2>2, <2>4, <2>6, <3>1, <3>2
  <2> QED
    BY <2>1, <2>3, <2>5, <2>6 DEF o
<1> QED
  BY <1>1, <1>3, <1>4, <1>5, <1>6 DEF CliTypes, FecValues, Cli!FecEncodings, Cli!Vendors

LEMMA SviRuns == CliIInv /\ Cli!Run /\ cliCall.op = "svi" => CliIInv'
<1> SUFFICES ASSUME CliIInv, Cli!Run, cliCall.op = "svi" PROVE CliIInv'
  OBVIOUS
<1> DEFINE a == cliCall.value
<1>1. a \in SviValues /\ SviTodo /\ cliCall.of = "svi" /\ CliTypes /\ cliAnswer = "none"
  BY DEF CliIInv, CliCallShape, CliProgress
<1>2. ASSUME NEW c, cliTodo = <<c>>, c.verb \in {"no interface", "address"},
             c.verb = "address" => c.what \in Cli!CliAddresses /\ svi = "there",
             Cli!AddressesAfter(c) = IF a = Cli!NoAddress THEN {} ELSE {a}
      PROVE  CliIInv'
  <2>1. CliRan(c) /\ Cli!Ends("ok")
    BY <1>2, RunsLast
  <2>2. cliCall'.of = "svi" /\ cliCall'.value = a /\ cliAnswer' = "ok"
    BY <1>1, <2>1, EndsKeeps
  <2>3. CliTypes'
    BY <1>1, <1>2, <2>1, <2>2, CliRanTypes
  <2>4. CliDone'
    BY <1>2, <2>1, <2>2 DEF CliDone, CliRan
  <2> QED
    BY <2>1, <2>3, <2>4, CliEnds
<1>3. CASE a = Cli!NoAddress
  <2>1. cliTodo = <<Cli!Command("no interface", Cli!NoAddress)>>
    BY <1>1, <1>3 DEF SviTodo, Cli!SetSvi
  <2>2. PICK c : c = Cli!Command("no interface", Cli!NoAddress)
    OBVIOUS
  <2>3. c.verb = "no interface"
    BY <2>2 DEF Cli!Command
  <2>4. Cli!AddressesAfter(c) = {}
    BY <2>3 DEF Cli!AddressesAfter
  <2> QED
    BY <1>2, <1>3, <2>1, <2>2, <2>3, <2>4
<1>4. CASE a # Cli!NoAddress
  <2>1. a \in Cli!CliAddresses
    BY <1>1, <1>4 DEF SviValues
  <2>2. PICK up, noIp, noIpv6, add :
            /\ up = Cli!Command("interface", Cli!NoAddress)
            /\ noIp = Cli!Command("no address", "ip") /\ noIpv6 = Cli!Command("no address", "ipv6")
            /\ add = Cli!Command("address", a)
    OBVIOUS
  <2>3. /\ up.verb = "interface"
        /\ noIp.verb = "no address" /\ noIp.what = "ip"
        /\ noIpv6.verb = "no address" /\ noIpv6.what = "ipv6"
        /\ add.verb = "address" /\ add.what = a
    BY <2>2 DEF Cli!Command
  <2>4. \/ cliTodo = <<up, noIp, noIpv6, add>>
        \/ svi = "there" /\ \/ cliTodo = <<noIp, noIpv6, add>>
                            \/ cliTodo = <<noIpv6, add>> /\ \A b \in addresses : b.family # "ip"
                            \/ cliTodo = <<add>> /\ addresses = {}
    BY <1>1, <1>4, <2>2 DEF SviTodo, Cli!SetSvi
  \* The call goes on: what is still to run, and what it will find.
  <2>5. ASSUME NEW c, CliRan(c), c.verb \in {"interface", "no address"},
               UNCHANGED <<cliCall, cliAnswer>>, svi' = "there",
               \/ cliTodo' = <<noIp, noIpv6, add>>
               \/ cliTodo' = <<noIpv6, add>> /\ \A b \in addresses' : b.family # "ip"
               \/ cliTodo' = <<add>> /\ addresses' = {}
        PROVE  CliIInv'
    <3>1. CliTypes'
      BY <1>1, <2>5, CliRanTypes
    <3>2. cliTodo' # <<>>
      <4>1. /\ <<noIp, noIpv6, add>> # <<>>
            /\ <<noIpv6, add>> # <<>>
            /\ <<add>> # <<>>
        OBVIOUS
      <4> QED
        BY <2>5, <4>1
    <3>3. CliCallShape'
      BY <2>5, <3>2 DEF CliIInv, CliCallShape
    <3>4. SviTodo'
      BY <1>4, <2>2, <2>5 DEF SviTodo
    <3>5. CliProgress'
      BY <2>5, <3>4 DEF CliProgress
    <3>6. CliDone'
      BY <1>1, <2>5 DEF CliDone
    <3> QED
      BY <3>1, <3>3, <3>5, <3>6 DEF CliIInv
  <2>6. CASE cliTodo = <<up, noIp, noIpv6, add>>
    <3>1. CliRan(up) /\ cliTodo' = Tail(cliTodo) /\ UNCHANGED <<cliCall, cliAnswer>>
      BY <2>6, RunsFirst
    <3>2. cliTodo' = <<noIp, noIpv6, add>>
      BY <2>6, <3>1
    <3>3. svi' = "there"
      BY <2>3, <3>1 DEF CliRan, Cli!SviAfter
    <3> QED
      BY <2>3, <2>5, <3>1, <3>2, <3>3
  <2>7. CASE svi = "there" /\ cliTodo = <<noIp, noIpv6, add>>
    <3>1. CliRan(noIp) /\ cliTodo' = Tail(cliTodo) /\ UNCHANGED <<cliCall, cliAnswer>>
      BY <2>7, RunsFirst
    <3>2. svi' = "there" /\ addresses' = {b \in addresses : b.family # "ip"}
      BY <2>3, <2>7, <3>1 DEF CliRan, Cli!SviAfter, Cli!AddressesAfter
    <3>3. cliTodo' = <<noIpv6, add>>
      BY <2>7, <3>1
    <3> QED
      BY <2>3, <2>5, <3>1, <3>2, <3>3
  <2>8. CASE svi = "there" /\ cliTodo = <<noIpv6, add>> /\ \A b \in addresses : b.family # "ip"
    <3>1. CliRan(noIpv6) /\ cliTodo' = Tail(cliTodo) /\ UNCHANGED <<cliCall, cliAnswer>>
      BY <2>8, RunsFirst
    <3>2. svi' = "there" /\ addresses' = {b \in addresses : b.family # "ipv6"}
      BY <2>3, <2>8, <3>1 DEF CliRan, Cli!SviAfter, Cli!AddressesAfter
    <3>3. addresses' = {}
      BY <1>1, <2>8, <3>2 DEF CliTypes, Cli!CliAddresses
    <3>4. cliTodo' = <<add>>
      BY <2>8, <3>1
    <3> QED
      BY <2>3, <2>5, <3>1, <3>2, <3>3, <3>4
  <2>9. CASE svi = "there" /\ cliTodo = <<add>> /\ addresses = {}
    <3>1. Cli!AddressesAfter(add) = {a}
      BY <2>3, <2>9 DEF Cli!AddressesAfter
    <3> QED
      BY <1>2, <1>4, <2>1, <2>3, <2>9, <3>1
  <2> QED
    BY <2>4, <2>6, <2>7, <2>8, <2>9
<1> QED
  BY <1>3, <1>4

LEMMA CliStep == CliIInv /\ [Cli!Next]_cliVars => CliIInv'
<1> SUFFICES ASSUME CliIInv, [Cli!Next]_cliVars PROVE CliIInv'
  OBVIOUS
<1>1. CASE UNCHANGED cliVars
  <2>1. UNCHANGED <<vendor, admin, vlan, fec, svi, addresses, cliCall, cliTodo, cliAnswer>>
    BY <1>1 DEF cliVars
  <2>2. CliTypes' /\ CliCallShape' /\ CliDone'
    BY <2>1 DEF CliIInv, CliTypes, CliCallShape, CliDone
  <2>3. (Cli!SetPortFec(cliCall.value))' = Cli!SetPortFec(cliCall.value)
    BY <2>1 DEF Cli!SetPortFec
  <2>4. AdminTodo' = AdminTodo /\ VlanTodo' = VlanTodo
    BY <2>1 DEF AdminTodo, VlanTodo
  <2>5. FecTodo' = FecTodo
    BY <2>1, <2>3 DEF FecTodo
  <2>6. SviTodo' = SviTodo
    BY <2>1 DEF SviTodo
  <2> QED
    BY <2>1, <2>2, <2>4, <2>5, <2>6 DEF CliIInv, CliProgress
<1>2. CASE Cli!Run
  <2>0. cliTodo # <<>>
    BY <1>2 DEF Cli!Run
  <2>1. cliCall.op \in {"admin", "vlan", "fec", "svi"}
    BY <2>0 DEF CliIInv, CliCallShape
  <2> QED
    BY <1>2, <2>1, AdminOrVlanRuns, FecRuns, SviRuns
<1>3. CASE Cli!Refused
  BY <1>3, CliRefused
<1> QED
  BY <1>1, <1>2, <1>3, CliBegins DEF Cli!Next, FecValues, SviValues

-----------------------------------------------------------------------------
(* LldpReads: the numbering of the data ports of one switch.               *)

Names == [prefix : STRING, slot : Nat, cage : Nat, sub : Int]
PortNotations == {"swp", "Et", "Ethernet"}
DataNames == {n \in Names : n.prefix \in PortNotations}
Numbered(D) == IsFiniteSet(D) /\ D \subseteq DataNames
Less(m, n) ==
    \/ Lldp!Rank(m) < Lldp!Rank(n)
    \/ m.prefix = n.prefix /\ m.slot < n.slot
    \/ m.prefix = n.prefix /\ m.slot = n.slot /\ m.cage < n.cage
    \/ m.prefix = n.prefix /\ m.slot = n.slot /\ m.cage = n.cage /\ m.sub < n.sub
UpTo(D, n) == {m \in D : Lldp!Precedes(m, n)}

\* The prefixes of data ports have ranks of their own.
LEMMA RankTellsPrefix ==
    ASSUME NEW m \in DataNames, NEW n \in DataNames
    PROVE  /\ Lldp!Rank(m) \in Nat /\ Lldp!Rank(n) \in Nat
           /\ Lldp!Rank(m) = Lldp!Rank(n) <=> m.prefix = n.prefix
BY DEF DataNames, PortNotations, Lldp!Rank

\* The sort key compares prefix, slot, cage and subport.
LEMMA BeforeIsLess ==
    ASSUME NEW m \in DataNames, NEW n \in DataNames
    PROVE  Lldp!Before(m, n) <=> Less(m, n)
<1> DEFINE a == Lldp!SortKey(m)  b == Lldp!SortKey(n)
<1>1. /\ a[1] = Lldp!Rank(m) /\ a[2] = m.slot /\ a[3] = m.cage /\ a[4] = m.sub
      /\ b[1] = Lldp!Rank(n) /\ b[2] = n.slot /\ b[3] = n.cage /\ b[4] = n.sub
  BY DEF Lldp!SortKey
<1>2. a[1] = b[1] <=> m.prefix = n.prefix
  BY <1>1, RankTellsPrefix
<1> HIDE DEF a, b
<1>3. Lldp!Before(m, n) <=> \E i \in 1..4 : a[i] < b[i] /\ \A j \in 1..(i - 1) : a[j] = b[j]
  BY DEF Lldp!Before, a, b
<1>4. ASSUME NEW i \in 1..4, a[i] < b[i], \A j \in 1..(i - 1) : a[j] = b[j]
      PROVE  Less(m, n)
  <2>1. CASE i = 1
    BY <1>1, <1>4, <2>1 DEF Less
  <2>2. CASE i = 2
    <3>1. a[1] = b[1]
      BY <1>4, <2>2
    <3> QED
      BY <1>1, <1>2, <1>4, <2>2, <3>1 DEF Less
  <2>3. CASE i = 3
    <3>1. a[1] = b[1] /\ a[2] = b[2]
      BY <1>4, <2>3
    <3> QED
      BY <1>1, <1>2, <1>4, <2>3, <3>1 DEF Less
  <2>4. CASE i = 4
    <3>1. a[1] = b[1] /\ a[2] = b[2] /\ a[3] = b[3]
      BY <1>4, <2>4
    <3> QED
      BY <1>1, <1>2, <1>4, <2>4, <3>1 DEF Less
  <2> QED
    BY <2>1, <2>2, <2>3, <2>4
<1>5. ASSUME NEW k \in 1..4, a[k] < b[k], \A j \in 1..(k - 1) : a[j] = b[j]
      PROVE  Lldp!Before(m, n)
  BY <1>3, <1>5
<1>6. ASSUME Less(m, n) PROVE Lldp!Before(m, n)
  <2>0. CASE a[1] < b[1]
    <3>1. \A j \in 1..(1 - 1) : a[j] = b[j]
      OBVIOUS
    <3> QED
      BY <1>5, <2>0, <3>1
  <2>1. CASE a[1] = b[1] /\ a[2] < b[2]
    <3>1. \A j \in 1..(2 - 1) : a[j] = b[j]
      BY <2>1
    <3> QED
      BY <1>5, <2>1, <3>1
  <2>2. CASE a[1] = b[1] /\ a[2] = b[2] /\ a[3] < b[3]
    <3>1. \A j \in 1..(3 - 1) : a[j] = b[j]
      BY <2>2
    <3> QED
      BY <1>5, <2>2, <3>1
  <2>3. CASE a[1] = b[1] /\ a[2] = b[2] /\ a[3] = b[3] /\ a[4] < b[4]
    <3>1. \A j \in 1..(4 - 1) : a[j] = b[j]
      BY <2>3
    <3> QED
      BY <1>5, <2>3, <3>1
  <2> QED
    BY <1>1, <1>2, <1>6, <2>0, <2>1, <2>2, <2>3 DEF Less
<1> QED
  BY <1>3, <1>4, <1>6

\* Less is a strict total order of data ports.
LEMMA LessOrders ==
    ASSUME NEW l \in DataNames, NEW m \in DataNames, NEW n \in DataNames
    PROVE  /\ ~Less(m, m)
           /\ Less(l, m) /\ Less(m, n) => Less(l, n)
           /\ Less(m, n) \/ Less(n, m) \/ m = n
<1>1. /\ l.slot \in Nat /\ l.cage \in Nat /\ l.sub \in Int
      /\ m.slot \in Nat /\ m.cage \in Nat /\ m.sub \in Int
      /\ n.slot \in Nat /\ n.cage \in Nat /\ n.sub \in Int
  BY DEF DataNames, Names
<1>r. /\ Lldp!Rank(l) \in Nat /\ Lldp!Rank(m) \in Nat /\ Lldp!Rank(n) \in Nat
      /\ Lldp!Rank(l) = Lldp!Rank(m) <=> l.prefix = m.prefix
      /\ Lldp!Rank(m) = Lldp!Rank(n) <=> m.prefix = n.prefix
      /\ Lldp!Rank(l) = Lldp!Rank(n) <=> l.prefix = n.prefix
  BY RankTellsPrefix
<1>2. ~Less(m, m)
  BY <1>1, <1>r DEF Less
<1>3. Less(l, m) /\ Less(m, n) => Less(l, n)
  BY <1>1, <1>r DEF Less
<1>4. Less(m, n) \/ Less(n, m) \/ (m.prefix = n.prefix /\ m.slot = n.slot /\ m.cage = n.cage /\ m.sub = n.sub)
  BY <1>1, <1>r DEF Less
<1>5. m.prefix = n.prefix /\ m.slot = n.slot /\ m.cage = n.cage /\ m.sub = n.sub => m = n
  BY DEF DataNames, Names
<1> QED
  BY <1>2, <1>3, <1>4, <1>5

\* A port's number is its place in port order.
LEMMA PlaceOf ==
    ASSUME NEW D, Numbered(D), NEW n \in D
    PROVE  /\ Cardinality(UpTo(D, n)) \in Nat \ {0}
           /\ Cardinality(UpTo(D, n)) <= Cardinality(D)
<1>1. IsFiniteSet(UpTo(D, n)) /\ Cardinality(UpTo(D, n)) <= Cardinality(D)
  BY FS_Subset DEF Numbered, UpTo
<1>2. n \in UpTo(D, n)
  BY DEF UpTo, Lldp!Precedes
<1>3. Cardinality(UpTo(D, n)) \in Nat /\ Cardinality(UpTo(D, n)) # 0
  BY <1>1, <1>2, FS_CardinalityType, FS_EmptySet
<1> QED
  BY <1>1, <1>3

LEMMA PlacesGrow ==
    ASSUME NEW D, Numbered(D), NEW m \in D, NEW n \in D, Lldp!Before(m, n)
    PROVE  Cardinality(UpTo(D, m)) < Cardinality(UpTo(D, n))
<1>1. \A a, b \in D : Lldp!Before(a, b) <=> Less(a, b)
  BY BeforeIsLess DEF Numbered
<1>2. \A a, b, c \in D : ~Less(a, a) /\ (Less(a, b) /\ Less(b, c) => Less(a, c))
  BY LessOrders DEF Numbered
<1>3. UpTo(D, m) \subseteq UpTo(D, n)
  BY <1>1, <1>2 DEF UpTo, Lldp!Precedes
<1>4. n \in UpTo(D, n) /\ n \notin UpTo(D, m)
  BY <1>1, <1>2 DEF UpTo, Lldp!Precedes
<1>5. IsFiniteSet(UpTo(D, n)) /\ IsFiniteSet(UpTo(D, m))
  BY FS_Subset DEF Numbered, UpTo
<1>6. Cardinality(UpTo(D, m)) <= Cardinality(UpTo(D, n)) /\
      (Cardinality(UpTo(D, m)) = Cardinality(UpTo(D, n)) => UpTo(D, m) = UpTo(D, n))
  BY <1>3, <1>5, FS_Subset
<1>7. Cardinality(UpTo(D, m)) \in Nat /\ Cardinality(UpTo(D, n)) \in Nat
  BY <1>5, FS_CardinalityType
<1> QED
  BY <1>4, <1>6, <1>7

LEMMA SameCardinality == \A S : Lldp!Cardinality(S) = Cardinality(S)
BY DEF Lldp!Cardinality, Cardinality

\* The data ports of a layout can be numbered.
LEMMA DataPortsNumbered ==
    ASSUME NEW v \in Lldp!Vendors, NEW l \in Layouts[v]
    PROVE  /\ Numbered(Lldp!DataPorts(v, l)) /\ Lldp!DataPorts(v, l) \subseteq l
           /\ \A n \in l : n.prefix # "Eth"
<1>1. IsFiniteSet(l) /\ l \subseteq Names /\ \A n \in l : n.prefix # "Eth"
  BY SwitchAssumption DEF Lldp!Vendors, Names
<1>2. /\ Lldp!DataPorts(v, l) \subseteq l
      /\ \A n \in Lldp!DataPorts(v, l) : n.prefix \in PortNotations
  <2>1. CASE v = "nvue"
    BY <2>1 DEF Lldp!DataPorts, Lldp!NvueDataPorts, PortNotations
  <2>2. CASE v = "eos"
    BY <2>2 DEF Lldp!DataPorts, Lldp!EosDataPorts, PortNotations
  <2>3. CASE v = "nxos"
    BY <2>3 DEF Lldp!DataPorts, Lldp!NxosDataPorts, PortNotations
  <2> QED
    BY <2>1, <2>2, <2>3 DEF Lldp!Vendors
<1>3. IsFiniteSet(Lldp!DataPorts(v, l))
  BY <1>1, <1>2, FS_Subset
<1> QED
  BY <1>1, <1>2, <1>3 DEF Numbered, DataNames

\* What is reported of the names of a table, with the ports that were learned.
LEMMA Reports ==
    ASSUME NEW D, Numbered(D), NEW T, NEW R, R = Lldp!WithPortIds(T, Lldp!Learn(<<>>, D))
    PROVE  /\ {x.interface : x \in R} = D \intersect T
           /\ \A x \in R : x.interface \in D /\ x.port = Cardinality(UpTo(D, x.interface))
<1> DEFINE id(n) == Lldp!PortId(Lldp!Learn(<<>>, D), n)
<1>1. ASSUME NEW n PROVE /\ n \in D => id(n) = Cardinality(UpTo(D, n)) /\ id(n) # 0
                         /\ n \notin D => id(n) = 0
  <2>1. CASE D = {}
    <3>1. Lldp!Learn(<<>>, D) = <<>> /\ DOMAIN <<>> = {}
      BY <2>1 DEF Lldp!Learn
    <3> QED
      BY <2>1, <3>1 DEF Lldp!PortId
  <2>2. CASE D # {}
    <3>1. Lldp!Learn(<<>>, D) = [p \in D |-> Lldp!Cardinality({m \in D : Lldp!Precedes(m, p)})]
      BY <2>2 DEF Lldp!Learn
    <3>2. id(n) = IF n \in D THEN Lldp!Cardinality(UpTo(D, n)) ELSE 0
      BY <3>1 DEF Lldp!PortId, UpTo
    <3>3. n \in D => Cardinality(UpTo(D, n)) # 0
      BY PlaceOf
    <3> QED
      BY <3>2, <3>3, SameCardinality
  <2> QED
    BY <2>1, <2>2
<1>2. R = {[interface |-> n, port |-> id(n)] : n \in {m \in T : id(m) # 0}}
  BY DEF Lldp!WithPortIds
<1> HIDE DEF id
<1>3. {m \in T : id(m) # 0} = D \intersect T
  BY <1>1
<1>4. R = {[interface |-> n, port |-> id(n)] : n \in D \intersect T}
  BY <1>2, <1>3
<1>5. ASSUME NEW x \in R PROVE x.interface \in D \intersect T /\ x.port = id(x.interface)
  BY <1>4
<1>6. ASSUME NEW n \in D \intersect T PROVE \E x \in R : x.interface = n
  <2>1. [interface |-> n, port |-> id(n)] \in R
    BY <1>4
  <2> QED
    BY <2>1
<1> QED
  BY <1>1, <1>5, <1>6

\* So the report tells ports apart, whatever the table.
LEMMA ReportsTellApart ==
    ASSUME NEW D, Numbered(D), NEW T, NEW R, R = Lldp!WithPortIds(T, Lldp!Learn(<<>>, D))
    PROVE  /\ \A x, y \in R : x.interface # y.interface =>
                 (x.port < y.port <=> Lldp!Before(x.interface, y.interface)) /\ x.port # y.port
           /\ \A x \in R : x.port \in Nat \ {0} /\ x.port <= Cardinality(D)
<1>1. \A x \in R : x.interface \in D /\ x.port = Cardinality(UpTo(D, x.interface))
  BY Reports
<1>2. \A x \in R : x.port \in Nat \ {0} /\ x.port <= Cardinality(D)
  BY <1>1, PlaceOf
<1>3. ASSUME NEW x \in R, NEW y \in R, x.interface # y.interface
      PROVE  (x.port < y.port <=> Lldp!Before(x.interface, y.interface)) /\ x.port # y.port
  <2>1. PICK m \in D, n \in D : m = x.interface /\ n = y.interface
    BY <1>1, <1>3
  <2>2. x.port = Cardinality(UpTo(D, m)) /\ y.port = Cardinality(UpTo(D, n))
    BY <1>1, <2>1
  <2>3. Lldp!Before(m, n) \/ Lldp!Before(n, m)
    <3>1. m \in DataNames /\ n \in DataNames
      BY DEF Numbered
    <3>2. Less(m, n) \/ Less(n, m)
      BY <1>3, <2>1, <3>1, LessOrders
    <3> QED
      BY <3>1, <3>2, BeforeIsLess
  <2>4. /\ Lldp!Before(m, n) => x.port < y.port
        /\ Lldp!Before(n, m) => y.port < x.port
    BY <2>2, PlacesGrow
  <2>5. x.port \in Nat /\ y.port \in Nat
    BY <1>2
  <2> QED
    BY <2>1, <2>3, <2>4, <2>5
<1> QED
  BY <1>2, <1>3

LldpIInv ==
    /\ Lldp!TypeOK
    /\ lldpPc = "start" => reported = {}
    /\ lldpPc = "list" => lldpVendor # "nvue" /\ reported = {}
    /\ lldpVendor # "nxos" => \A n \in table : n.prefix # "Eth"
    /\ PortIdsTellApart

LEMMA LldpInit == Lldp!Init => LldpIInv
BY DEF Lldp!Init, LldpIInv, Lldp!TypeOK, PortIdsTellApart, Lldp!PortIdsTellApart

\* The call is over, with the neighbors of table T.
LEMMA LldpDone ==
    ASSUME lldpVendor \in Lldp!Vendors, layout \in Layouts[lldpVendor],
           UNCHANGED <<lldpVendor, layout>>, lldpPc' = "done",
           lldpVendor # "nxos" => \A n \in table' : n.prefix # "Eth",
           reported' = Lldp!WithPortIds({Lldp!FullName(n) : n \in table'},
                                        Lldp!Learn(<<>>, Lldp!DataPorts(lldpVendor, layout)))
    PROVE  LldpIInv'
<1> DEFINE D == Lldp!DataPorts(lldpVendor, layout)
           T == {Lldp!FullName(n) : n \in table'}
<1>1. Numbered(D)
  BY DataPortsNumbered
<1>2. reported' = Lldp!WithPortIds(T, Lldp!Learn(<<>>, D))
  OBVIOUS
<1>3. D' = D /\ (Lldp!DataPorts(lldpVendor, layout))' = D
  BY DEF Lldp!DataPorts, Lldp!NvueDataPorts, Lldp!EosDataPorts, Lldp!NxosDataPorts
<1> HIDE DEF D, T
<1>4. PICK R : R = reported'
  OBVIOUS
<1>5. {x.interface : x \in R} = D \intersect T
  BY <1>1, <1>2, <1>4, Reports
<1>6. /\ \A x, y \in R : x.interface # y.interface =>
            (x.port < y.port <=> Lldp!Before(x.interface, y.interface)) /\ x.port # y.port
      /\ \A x \in R : x.port \in Nat \ {0} /\ x.port <= Cardinality(D)
  BY <1>1, <1>2, <1>4, ReportsTellApart
<1>7. PortIdsTellApart'
  BY <1>3, <1>4, <1>5, <1>6, SameCardinality DEF PortIdsTellApart, Lldp!PortIdsTellApart, T
<1>8. Lldp!TypeOK'
  BY <1>4, <1>6 DEF Lldp!TypeOK
<1> QED
  BY <1>7, <1>8 DEF LldpIInv

LEMMA LldpStep == LldpIInv /\ [Lldp!Next]_lldpVars => LldpIInv'
<1> SUFFICES ASSUME LldpIInv, [Lldp!Next]_lldpVars PROVE LldpIInv'
  OBVIOUS
<1>1. lldpVendor \in Lldp!Vendors /\ layout \in Layouts[lldpVendor] /\ \A n \in layout : n.prefix # "Eth"
  BY DataPortsNumbered DEF LldpIInv, Lldp!TypeOK
<1>2. CASE UNCHANGED lldpVars
  <2>1. Lldp!TypeOK' = Lldp!TypeOK
    BY <1>2 DEF lldpVars, Lldp!TypeOK
  <2>2. PortIdsTellApart' = PortIdsTellApart
    BY <1>2 DEF lldpVars, PortIdsTellApart, Lldp!PortIdsTellApart, Lldp!DataPorts, Lldp!NvueDataPorts,
                Lldp!EosDataPorts, Lldp!NxosDataPorts
  <2> QED
    BY <1>2, <2>1, <2>2 DEF lldpVars, LldpIInv
<1>3. CASE Lldp!ReadTable
  <2>1. /\ lldpPc = "start" /\ reported = {} /\ UNCHANGED <<lldpVendor, layout>>
        /\ IF lldpVendor = "nvue" THEN reported' = Lldp!NvueNeighbors /\ lldpPc' = "done"
                                  ELSE lldpPc' = "list" /\ reported' = reported
    BY <1>3 DEF Lldp!ReadTable, LldpIInv
  <2>2. PICK ns \in SUBSET layout : table' = {Lldp!Abbreviated(n) : n \in ns}
    BY <1>3 DEF Lldp!ReadTable
  <2>3. lldpVendor # "nxos" => table' = ns /\ \A n \in table' : n.prefix # "Eth"
    BY <1>1, <2>2 DEF Lldp!Abbreviated
  <2>4. CASE lldpVendor = "nvue"
    <3>1. table' = {Lldp!FullName(n) : n \in table'}
      BY <2>3, <2>4 DEF Lldp!FullName
    <3>2. reported' = Lldp!WithPortIds(table', Lldp!Learn(<<>>, Lldp!DataPorts(lldpVendor, layout)))
      BY <2>1, <2>4 DEF Lldp!NvueNeighbors, Lldp!DataPorts
    <3> QED
      BY <1>1, <2>1, <2>3, <2>4, <3>1, <3>2, LldpDone
  <2>5. CASE lldpVendor # "nvue"
    BY <1>1, <2>1, <2>3, <2>5 DEF LldpIInv, Lldp!TypeOK, PortIdsTellApart, Lldp!PortIdsTellApart
  <2> QED
    BY <2>4, <2>5
<1>4. CASE Lldp!ReadInterfaces
  <2>1. /\ lldpPc = "list" /\ lldpPc' = "done" /\ UNCHANGED <<lldpVendor, layout, table>>
        /\ reported' = IF lldpVendor = "eos" THEN Lldp!EosNeighbors ELSE Lldp!NxosNeighbors
        /\ lldpVendor # "nvue" /\ (lldpVendor # "nxos" => \A n \in table : n.prefix # "Eth")
    BY <1>4 DEF Lldp!ReadInterfaces, LldpIInv
  <2>2. reported' = Lldp!WithPortIds({Lldp!FullName(n) : n \in table},
                                     Lldp!Learn(<<>>, Lldp!DataPorts(lldpVendor, layout)))
    <3>1. CASE lldpVendor = "eos"
      <4>1. table = {Lldp!FullName(n) : n \in table}
        BY <2>1, <3>1 DEF Lldp!FullName
      <4> QED
        BY <2>1, <3>1, <4>1 DEF Lldp!EosNeighbors, Lldp!DataPorts
    <3>2. CASE lldpVendor = "nxos"
      BY <2>1, <3>2 DEF Lldp!NxosNeighbors, Lldp!DataPorts
    <3> QED
      BY <1>1, <2>1, <3>1, <3>2 DEF Lldp!Vendors
  <2>3. {Lldp!FullName(n) : n \in table} = {Lldp!FullName(n) : n \in table'}
    BY <2>1
  <2> QED
    BY <1>1, <2>1, <2>2, <2>3, LldpDone
<1>5. CASE Lldp!Recabled
  BY <1>5 DEF Lldp!Recabled, LldpIInv, Lldp!TypeOK, PortIdsTellApart, Lldp!PortIdsTellApart
<1> QED
  BY <1>2, <1>3, <1>4, <1>5 DEF Lldp!Next

-----------------------------------------------------------------------------
(* The switches: a behaviour drives one of the three.                      *)

LEMMA SwitchPartSteps ==
    ASSUME [MCNext]_switchVars
    PROVE  [Next]_vars /\ [Cli!Next]_cliVars /\ [Lldp!Next]_lldpVars
BY DEF MCNext, switchVars

LEMMA SwitchesInv == MCSpec => [](NvueIInv /\ CliIInv /\ LldpIInv)
<1>1. MCInit => NvueIInv /\ CliIInv /\ LldpIInv
  BY NvueInit, CliInit, LldpInit DEF MCInit
<1>2. NvueIInv /\ CliIInv /\ LldpIInv /\ [MCNext]_switchVars => (NvueIInv /\ CliIInv /\ LldpIInv)'
  BY NvueStep, CliStep, LldpStep, SwitchPartSteps
<1> QED
  BY <1>1, <1>2, PTL DEF MCSpec

\* The types of the three drivers' states (nvidia_cumulus_switch.py, arista_eos_switch.py,
\* nxos_switch.py).
THEOREM SwitchTypeOKAlways == MCSpec => []SwitchTypeOK
<1>1. NvueIInv /\ CliIInv /\ LldpIInv => SwitchTypeOK
  BY NvueImplies, CliImplies DEF LldpIInv, SwitchTypeOK
<1> QED
  BY <1>1, SwitchesInv, PTL

\* A VLAN whose deletion was answered is gone from every port that nobody has put into it since the
\* call began, and a read answers what was there during the call, however requests fail and caches
\* age (nvidia_cumulus_switch.py).
THEOREM AnswersTrueAlways == MCSpec => []AnswersTrue
<1>1. NvueIInv => AnswersTrue
  BY NvueImplies
<1> QED
  BY <1>1, SwitchesInv, PTL

\* The changesets of an NVUE switch implement SwitchConfig: the configuration changes by whole edits
\* only, the ones handed over, on whatever configuration they are made (nvidia_cumulus_switch.py).
THEOREM ImplementsSwitchConfigAlways == MCSpec => ImplementsSwitchConfig
<1>1. MCInit => Abstract!Init
  BY RefinedInit DEF MCInit
<1>2. NvueIInv /\ [MCNext]_switchVars => [Abstract!Next]_(Abstract!vars)
  BY NvueRefines, SwitchPartSteps
<1> QED
  BY <1>1, <1>2, SwitchesInv, PTL DEF MCSpec, ImplementsSwitchConfig, Abstract!Spec

\* What a CLI call that returned has set is what the running config says, after edits that failed
\* half way too (arista_eos_switch.py, nxos_switch.py).
THEOREM CliReadsBackAlways == MCSpec => []CliReadsBack
<1>1. CliIInv => CliReadsBack
  BY CliImplies
<1> QED
  BY <1>1, SwitchesInv, PTL

\* The port IDs of lldp_neighbors tell interfaces apart and follow the port order, whatever subset of
\* them has neighbors (portname.py, lldp_neighbors of the three drivers).
THEOREM PortIdsTellApartAlways == MCSpec => []PortIdsTellApart
<1>1. LldpIInv => PortIdsTellApart
  BY DEF LldpIInv
<1> QED
  BY <1>1, SwitchesInv, PTL
=============================================================================
