----------------------------- MODULE NvueSwitch -----------------------------
(***************************************************************************)
(* NvidiaCumulusSwitch (switch/nvidia/nvidia_cumulus_switch.py): edits of  *)
(* a Cumulus switch through NVUE changesets, and reads through two caches. *)
(*                                                                         *)
(* An edit creates a revision, writes into it request by request, asks for *)
(* it to be applied and polls.  A request can fail, with or without effect *)
(* on the switch; a DELETE or GET whose answer is lost is repeated by the  *)
(* session's Retry, a POST or PATCH is not.  Meanwhile other editors       *)
(* change the switch, which applies submitted revisions when it likes.     *)
(***************************************************************************)
EXTENDS Naturals, FiniteSets

CONSTANTS
    Ports, Vlans, Addresses, Encodings,
    InitConfigs,        \* configurations the switch may be found in
    MaxCalls,           \* bound: calls made
    MaxOthers           \* bound: edits made by others


Calls == 1..MaxCalls

VARIABLES
    config,         \* the switch's applied configuration
    revs,           \* the revision each call has created
    pc, call,       \* the request the call is at; its operation and arguments
    todo,           \* the writes it has still to make, a set
    appliedCache,   \* _interfaces_applied_cache: each port's VLANs
    operCache,      \* _interfaces_config_cache: each port's state
    view,           \* what a read of VLANs has so far
    answer,         \* what the last call returned
    expired,        \* the apply deadline has passed
    calls, others,  \* how many calls were made, and edits by others
    seen, joined    \* configurations there were during a read; memberships others made since a call began

driverVars == <<pc, call, todo, appliedCache, operCache, view, answer, expired, calls>>
vars == <<config, revs, driverVars, others, seen, joined>>

Abstract == INSTANCE SwitchConfig WITH
    pending <- [i \in Calls |-> IF revs[i].state = "submitted" THEN revs[i].edit ELSE [op |-> "none"]]

\* "no_svi" stands for no SVI.
ASSUME NvueAssumption ==
    /\ MaxCalls \in Nat \ {0} /\ MaxOthers \in Nat
    /\ "no_svi" \notin Addresses
    /\ InitConfigs \subseteq Abstract!Configs

NoCache == <<>>
NoRevision == [state |-> "none"]
NoView == [vlans |-> {}, member |-> NoCache, admin |-> NoCache]
Members(m, v) == {p \in Ports : v \in m[p]}

EditCalls ==
    [op : {"delete_vlan"}, vlan : Vlans] \union [op : {"set_svi"}, address : Addresses]
    \union [op : {"remove_svi"}] \union [op : {"set_admin"}, port : Ports, up : BOOLEAN]
    \union [op : {"set_fec"}, port : Ports, fec : Encodings]
ReadCalls == [op : {"vlans"}] \union [op : {"vlan"}, vlan : Vlans]

Init ==
    /\ config \in InitConfigs
    /\ revs = [i \in Calls |-> NoRevision]
    /\ pc = "idle" /\ call = [op |-> "none"] /\ todo = {}
    /\ appliedCache = NoCache /\ operCache = NoCache /\ view = NoView
    /\ answer = "none" /\ expired = FALSE /\ calls = 0 /\ others = 0
    /\ seen = {} /\ joined = {}

-----------------------------------------------------------------------------
(* NVUE: a revision is what is deleted, and what is then patched.  A       *)
(* DELETE of something that is not there is answered 404.                  *)

Delete(what, port, vlan) == [write |-> "delete", what |-> what, port |-> port, vlan |-> vlan]
Patch(edit) == [write |-> "patch", edit |-> edit]

\* Configuration c without what the writes delete, and with what they patch.
Without(writes, c) ==
    [c EXCEPT !.vlans = {v \in @ : Delete("vlan", "none", v) \notin writes},
              !.member = [p \in Ports |-> {v \in @[p] : Delete("member", p, v) \notin writes}],
              !.svi = IF Delete("svi", "none", "none") \in writes THEN Abstract!NoSvi
                      ELSE IF Delete("addresses", "none", "none") \in writes /\ @ # Abstract!NoSvi THEN {}
                      ELSE @]
Performed(writes, c) ==
    IF \E w \in writes : w.write = "patch"
    THEN Abstract!Edited((CHOOSE w \in writes : w.write = "patch").edit, Without(writes, c))
    ELSE Without(writes, c)

Found(w, c) ==
    \/ w.write = "patch"
    \/ w.write = "delete" /\ CASE w.what = "member" -> w.vlan \in c.member[w.port]
                               [] w.what = "vlan" -> w.vlan \in c.vlans
                               [] w.what = "addresses" -> c.svi \notin {Abstract!NoSvi, {}}
                               [] w.what = "svi" -> c.svi # Abstract!NoSvi

\* The configuration, and with it what was there during a call, changes.
Becomes(c) ==
    /\ config' = c
    /\ seen' = IF seen # {} /\ pc # "idle" THEN seen \union {c} ELSE seen

\* What the switch made of a revision, if anybody will ask for it; one that nobody will apply or ask
\* about any more has no further effect.
Decided(i, state) ==
    revs' = [revs EXCEPT ![i] = IF pc = "poll" /\ i = calls THEN [@ EXCEPT !.state = state] ELSE NoRevision]

\* The switch makes the writes of a submitted revision, or finds fault with it.
SwitchApplies(i) ==
    /\ revs[i].state = "submitted"
    /\ Becomes(Performed(revs[i].writes, config))
    /\ Decided(i, "applied")
    /\ UNCHANGED <<driverVars, others, joined>>

SwitchRefuses(i) ==
    /\ revs[i].state = "submitted"
    /\ Decided(i, "failed")
    /\ UNCHANGED <<config, driverVars, others, seen, joined>>

OthersEdit ==
    /\ others < MaxOthers
    /\ others' = others + 1
    /\ \/ \E p \in Ports, v \in Vlans :
             \/ Becomes(Abstract!Join(p, v)) /\ joined' = joined \union {<<p, v>>}
             \/ Becomes(Abstract!Leave(p, v)) /\ UNCHANGED joined
       \/ \E a \in Addresses : Becomes(Abstract!AddAddress(a)) /\ UNCHANGED joined
    /\ UNCHANGED <<revs, driverVars>>

-----------------------------------------------------------------------------
(* Calls                                                                   *)

Refresh == appliedCache' = NoCache /\ operCache' = NoCache
Answers(a) == pc' = "idle" /\ answer' = a
\* An exception leaves the call where it is raised: the refresh at its end does not happen.
Raises == Answers("raised") /\ UNCHANGED <<appliedCache, operCache>>

Begins(c, at) ==
    /\ pc = "idle" /\ calls < MaxCalls
    /\ calls' = calls + 1
    /\ pc' = at /\ call' = c
    /\ answer' = "none" /\ view' = NoView /\ expired' = FALSE
    /\ joined' = {}
    /\ UNCHANGED <<config, revs, todo, others>>

BeginDelete(v) == Begins([op |-> "delete_vlan", vlan |-> v], "members") /\ Refresh /\ seen' = {}
BeginEdit(c) ==
    /\ c.op # "delete_vlan" /\ Begins(c, "create") /\ seen' = {}
    /\ UNCHANGED <<appliedCache, operCache>>

\* _interfaces_applied_config, through its cache; the GET may fail for good.
FetchApplied == appliedCache' = IF appliedCache = NoCache THEN config.member ELSE appliedCache

ReadMembers ==
    /\ pc = "members"
    /\ \/ FetchApplied /\ pc' = "create" /\ UNCHANGED <<operCache, answer>>
       \/ appliedCache = NoCache /\ Raises
    /\ UNCHANGED <<config, revs, call, todo, view, expired, calls, others, seen, joined>>

\* The edit as callers see it, and the writes it is made of, one request each.
Edit ==
    CASE call.op = "delete_vlan" ->
            [op |-> "delete_vlan", vlan |-> call.vlan, ports |-> Members(appliedCache, call.vlan)]
      [] call.op = "set_svi" ->
            [op |-> "set_svi", address |-> call.address, known |-> config.svi \notin {Abstract!NoSvi, {}}]
      [] call.op = "remove_svi" -> [op |-> "remove_svi", known |-> config.svi # Abstract!NoSvi]
      [] OTHER -> call

DeleteWrites ==
    {Delete("member", p, call.vlan) : p \in Members(appliedCache, call.vlan)}
    \union {Delete("vlan", "none", call.vlan)}
SviWrites ==
    IF call.op = "remove_svi" THEN {Delete("svi", "none", "none")}
    ELSE {Delete("addresses", "none", "none"), Patch([op |-> "set_svi", address |-> call.address, known |-> FALSE])}
Writes ==
    CASE call.op = "delete_vlan" -> DeleteWrites
      [] call.op \in {"set_svi", "remove_svi"} -> SviWrites
      [] OTHER -> {Patch(call)}
\* Ports come before the VLAN, and what is deleted before what is patched.
Place(w) == IF w.write = "patch" THEN 3 ELSE IF w.what = "member" THEN 1 ELSE 2
IsNext(w) == w \in todo /\ \A x \in todo : Place(w) <= Place(x)

Create ==
    /\ pc = "create"
    /\ \/ /\ pc' = "write" /\ todo' = Writes
          /\ revs' = [revs EXCEPT ![calls] =
                        [state |-> "open", base |-> config, writes |-> {}, edit |-> Edit]]
          /\ UNCHANGED <<appliedCache, operCache, answer>>
       \/ Raises /\ UNCHANGED <<revs, todo>>
    /\ UNCHANGED <<config, call, view, expired, calls, others, seen, joined>>

Optional(w) == w.write = "delete" /\ w.what \in {"addresses", "svi"}     \* _delete_if_present

Recorded(w) == revs' = [revs EXCEPT ![calls].writes = @ \union {w}]
Proceeds(w) == todo' = todo \ {w} /\ UNCHANGED <<pc, appliedCache, operCache, answer>>
Fails == Raises /\ todo' = {} /\ revs' = [revs EXCEPT ![calls] = NoRevision]

\* Answered; answered 404, by the first request or by one that repeats a request whose answer was
\* lost; failed, with or without effect on a revision that nobody will apply.
Write ==
    /\ pc = "write"
    /\ \E w \in todo :
          LET found == Found(w, Performed(revs[calls].writes, revs[calls].base))
          IN  /\ IsNext(w)
              /\ \/ found /\ Recorded(w) /\ Proceeds(w)
                 \/ /\ Optional(w) /\ Proceeds(w)
                    /\ IF found THEN Recorded(w) ELSE UNCHANGED revs
                 \/ Fails
    /\ UNCHANGED <<config, call, view, expired, calls, others, seen, joined>>

\* Mutant of Submit: the changeset is applied when its last write is still to be made.
SubmitEarly ==
    /\ pc = "write" /\ Cardinality(todo) <= 1
    /\ revs' = [revs EXCEPT ![calls].state = "submitted"]
    /\ pc' = "poll" /\ expired' = FALSE
    /\ UNCHANGED <<config, call, todo, appliedCache, operCache, view, answer, calls, others, seen, joined>>

\* PATCH of the revision: asked to apply, with or without an answer, or not asked.
Submit ==
    /\ pc = "write" /\ todo = {}
    /\ \/ /\ revs' = [revs EXCEPT ![calls].state = "submitted"]
          /\ \/ pc' = "poll" /\ UNCHANGED <<answer, appliedCache, operCache>>
             \/ Raises
          /\ UNCHANGED todo
       \/ Fails
    /\ UNCHANGED <<config, call, view, expired, calls, others, seen, joined>>

\* The poll ends: a decided revision is done with, a submitted one is still with the switch.
Asked ==
    /\ expired' = FALSE
    /\ revs' = IF revs[calls].state = "submitted" THEN revs ELSE [revs EXCEPT ![calls] = NoRevision]
    /\ UNCHANGED <<config, call, todo, view, calls, others, seen, joined>>

\* Mutant of Poll: the deadline is not looked at.
PollForEver ==
    /\ pc = "poll"
    /\ \/ revs[calls].state = "applied" /\ Answers("ok") /\ Refresh
       \/ revs[calls].state = "failed" /\ Raises
    /\ Asked

\* One turn of the loop of _apply_revision that ends it.
Poll ==
    /\ pc = "poll"
    /\ \/ revs[calls].state = "applied" /\ Answers("ok") /\ Refresh
       \/ revs[calls].state = "failed" /\ Raises
       \/ revs[calls].state = "submitted" /\ expired /\ Raises
    /\ Asked

\* The GET of a turn fails for good.
PollFails ==
    /\ pc = "poll" /\ Raises
    /\ Asked

DeadlinePasses ==
    /\ pc = "poll" /\ ~expired
    /\ expired' = TRUE
    /\ UNCHANGED <<config, revs, pc, call, todo, appliedCache, operCache, view, answer, calls, others, seen, joined>>

\* vlans and vlan(id): three GETs, the last two through the caches.
BeginReadKeepsCaches(c) == Begins(c, "vlans") /\ seen' = {config} /\ UNCHANGED <<appliedCache, operCache>>
BeginRead(c) == Begins(c, "vlans") /\ seen' = {config} /\ Refresh

Wanted == IF call.op = "vlans" THEN config.vlans ELSE config.vlans \intersect {call.vlan}

ReadVlans ==
    /\ pc = "vlans"
    /\ \/ /\ call.op = "vlan" => Wanted # {}
          /\ view' = [view EXCEPT !.vlans = Wanted]
          /\ pc' = "membership" /\ UNCHANGED <<answer, appliedCache, operCache>>
       \/ Raises /\ UNCHANGED view
    /\ UNCHANGED <<config, revs, call, todo, expired, calls, others, seen, joined>>

ReadMembership ==
    /\ pc = "membership"
    /\ \/ /\ FetchApplied
          /\ view' = [view EXCEPT !.member = [p \in Ports |-> appliedCache'[p] \intersect view.vlans]]
          /\ IF view.vlans = {} THEN Answers("ok") ELSE pc' = "ports" /\ UNCHANGED answer
          /\ UNCHANGED operCache
       \/ appliedCache = NoCache /\ Raises /\ UNCHANGED view
    /\ UNCHANGED <<config, revs, call, todo, expired, calls, others, seen, joined>>

\* _interfaces_config: operational state of the member ports.
ReadPorts ==
    /\ pc = "ports"
    /\ \/ /\ operCache' = IF operCache = NoCache THEN config.admin ELSE operCache
          /\ view' = [view EXCEPT !.admin = operCache']
          /\ Answers("ok") /\ UNCHANGED appliedCache
       \/ operCache = NoCache /\ Raises /\ UNCHANGED view
    /\ UNCHANGED <<config, revs, call, todo, expired, calls, others, seen, joined>>

Driver ==
    \/ ReadMembers \/ Create \/ Write \/ Submit \/ Poll
    \/ ReadVlans \/ ReadMembership \/ ReadPorts
Next ==
    \/ \E v \in Vlans : BeginDelete(v)
    \/ \E c \in EditCalls : BeginEdit(c)
    \/ \E c \in ReadCalls : BeginRead(c)
    \/ Driver \/ PollFails \/ DeadlinePasses \/ OthersEdit
    \/ \E i \in Calls : SwitchApplies(i) \/ SwitchRefuses(i)

Spec == Init /\ [][Next]_vars
\* The calling thread runs, and the clock does.
FairSpec == Spec /\ WF_vars(Driver) /\ WF_vars(DeadlinePasses)

-----------------------------------------------------------------------------
TypeOK ==
    /\ config \in Abstract!Configs
    /\ \A i \in Calls : revs[i].state \in {"none", "open", "submitted", "applied", "failed"}
    /\ \A i \in Calls : revs[i] # NoRevision =>
          revs[i].base \in Abstract!Configs /\ revs[i].edit \in Abstract!Edits
    /\ pc \in {"idle", "members", "create", "write", "poll", "vlans", "membership", "ports"}
    /\ appliedCache \in [Ports -> SUBSET Vlans] \union {NoCache}
    /\ operCache \in [Ports -> BOOLEAN] \union {NoCache}
    /\ answer \in {"none", "ok", "raised"}
    /\ joined \subseteq Ports \X Vlans

\* The switch's configuration changes by whole edits, the ones callers asked for: however requests
\* fail or are repeated, no part of a VLAN's deletion or of an SVI's new address is applied alone.
ImplementsSwitchConfig == Abstract!Spec

\* What a call that returned stands for: a deleted VLAN has no member left that nobody has put back
\* since the call began, and what a read answers was there during the call, piece by piece, however
\* old the caches are.
DeletedEverywhere ==
    answer = "ok" /\ call.op = "delete_vlan" =>
        /\ \A p \in Members(config.member, call.vlan) : <<p, call.vlan>> \in joined
        /\ call.vlan \in config.vlans => \E p \in Ports : <<p, call.vlan>> \in joined
ReadsFresh ==
    answer = "ok" /\ call.op \in {"vlans", "vlan"} =>
        /\ \E c \in seen : view.vlans \subseteq c.vlans /\ (call.op = "vlans" => view.vlans = c.vlans)
        /\ \E c \in seen : \A p \in Ports : view.member[p] = c.member[p] \intersect view.vlans
        /\ view.vlans # {} => \E c \in seen : view.admin = c.admin
AnswersTrue == DeletedEverywhere /\ ReadsFresh

\* A call comes back, whatever the switch does with the revision: the poll has a deadline.
CallsEnd == [](pc # "idle" => <>(pc = "idle"))
=============================================================================
