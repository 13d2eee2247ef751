------------------------------ MODULE Economics ------------------------------
(***************************************************************************)
(* The per-chip table of agentx/gpu_economics.py, what InferenceX          *)
(* publishes applied to it chip by chip, and the inputs and metrics of a   *)
(* run resolved from it.  Numbers are small, and none is negative but None.    *)
(***************************************************************************)
EXTENDS Integers, FiniteSets, Functions

CONSTANTS
    Tables,             \* what the file may hold: by key, the entry's fields
    Fetches,            \* what InferenceX may publish: by key, a chip with a label
    Requests,           \* resolve_economics' arguments: a GPU's name, a list price or none, overrides
    Throughputs,        \* tokens a second a run may have had, or None
    MaxUpdates          \* bound: calls of update_gpu_economics

VARIABLES
    table,              \* GPU_ECONOMICS
    todo, updates,      \* chips of a fetch not applied yet; fetches so far
    request, inputs     \* the arguments of the last resolution, and its answer

vars == <<table, todo, updates, request, inputs>>

None == -1
Nothing == << >>
NoChip == "none"
HostWatts == 3
Pue == 2
Estimate(tdp, host, pue) == (tdp + host) * pue

-----------------------------------------------------------------------------
(* The table. *)

\* An entry that states its power says where it is from; else it is estimated.
GpuEntry(entry) ==
    [aliases |-> entry.aliases, tdp |-> entry.tdp, owning |-> entry.owning, rental |-> entry.rental,
     watts |-> IF entry.watts = None THEN Estimate(entry.tdp, HostWatts, Pue) ELSE entry.watts,
     estimated |-> entry.watts = None]

NamesOf(key, gpu) == {key} \union gpu.aliases
NamesUnique(gpus) ==
    \A k, l \in DOMAIN gpus : k # l => NamesOf(k, gpus[k]) \intersect NamesOf(l, gpus[l]) = {}

\* A file with a name twice raises.
LoadGpuEconomics == {[k \in DOMAIN t |-> GpuEntry(t[k])] : t \in {u \in Tables : NamesUnique(u)}}

Named(name) == {k \in DOMAIN table : name \in NamesOf(k, table[k])}
Found(name) == Named(name) # {}
LookupGpu(name) == CHOOSE k \in Named(name) : TRUE

Init ==
    /\ table \in LoadGpuEconomics
    /\ todo = << >> /\ updates = 0 /\ request = Nothing /\ inputs = Nothing

-----------------------------------------------------------------------------
(* update_gpu_economics. *)

Fetch ==
    /\ DOMAIN todo = {} /\ updates < MaxUpdates /\ updates' = updates + 1
    /\ todo' \in Fetches
    /\ request' = Nothing /\ inputs' = Nothing
    /\ UNCHANGED table

\* Published power wins; an estimate is made anew from the new TDP; other power is kept.
Power(ours, chip) ==
    CASE ~chip.estimated -> [watts |-> chip.watts, estimated |-> FALSE]
      [] chip.estimated /\ ours.estimated ->
            [watts |-> Estimate(chip.tdp, HostWatts, Pue), estimated |-> TRUE]
      [] OTHER -> [watts |-> ours.watts, estimated |-> FALSE]

UpdateChip(ours, chip) ==
    LET power == Power(table[ours], chip)
    IN  table' = [table EXCEPT ![ours] =
            [aliases |-> @.aliases, tdp |-> chip.tdp, owning |-> chip.owning, rental |-> chip.rental,
             watts |-> power.watts, estimated |-> power.estimated]]
AddChip(key, chip) ==
    table' = [k \in DOMAIN table \union {key} |->
        IF k # key THEN table[k]
        ELSE [aliases |-> {chip.label} \ {key}, tdp |-> chip.tdp, owning |-> chip.owning,
              rental |-> chip.rental, watts |-> chip.watts, estimated |-> chip.estimated]]

\* By its key, or else by its label.
ApplyChip ==
    /\ \E key \in DOMAIN todo :
          LET chip == todo[key]
          IN  /\ todo' = Restrict(todo, DOMAIN todo \ {key})
              /\ \/ Found(key) /\ UpdateChip(LookupGpu(key), chip)
                 \/ ~Found(key) /\ Found(chip.label) /\ UpdateChip(LookupGpu(chip.label), chip)
                 \/ ~Found(key) /\ ~Found(chip.label) /\ AddChip(key, chip)
    /\ UNCHANGED <<updates, request, inputs>>

-----------------------------------------------------------------------------
(* resolve_economics. *)

Has(o, key) == key \in DOMAIN o

\* Watts per GPU, and what they were computed from.
ResolvedPower(key, o) ==
    CASE Has(o, "all_in") -> [watts |-> o.all_in, from |-> "override"]
      [] ~Has(o, "all_in") /\ Has(o, "server") ->
            [watts |-> (o.server * (IF Has(o, "pue") THEN o.pue ELSE Pue)) \div o.gpus, from |-> "server"]
      [] ~Has(o, "all_in") /\ ~Has(o, "server") /\ key # NoChip ->
            IF Has(o, "host") \/ Has(o, "pue") \/ table[key].estimated
            THEN [watts |-> Estimate(table[key].tdp, IF Has(o, "host") THEN o.host ELSE HostWatts,
                                     IF Has(o, "pue") THEN o.pue ELSE Pue),
                  from |-> "tdp"]
            ELSE [watts |-> table[key].watts, from |-> "table"]
      [] OTHER -> [watts |-> None, from |-> "none"]

Other(basis) == IF basis = "owning" THEN "rental" ELSE "owning"

\* The rate of that basis; the other's when it has none, and then the basis is the other.
ResolvedCost(key, o) ==
    LET basis == IF Has(o, "basis") THEN o.basis ELSE "owning"
        rate == IF key = NoChip THEN None ELSE table[key][basis]
    IN  CASE Has(o, "cost") -> [cost |-> o.cost, basis |-> basis, from |-> "override"]
          [] ~Has(o, "cost") /\ key # NoChip /\ rate = None /\ table[key][Other(basis)] # None ->
                [cost |-> table[key][Other(basis)], basis |-> Other(basis), from |-> "table"]
          [] OTHER -> [cost |-> rate, basis |-> basis, from |-> IF rate = None THEN "none" ELSE "table"]

\* server_watts without gpus_per_server, or with 0, raises, and so does an unknown cost basis.
Raises(o) == Has(o, "server") /\ ~Has(o, "all_in") /\ (Has(o, "gpus") => o.gpus = 0)
ResolveEconomics ==
    /\ DOMAIN todo = {}
    /\ \E r \in Requests :
          LET key == IF Found(r.gpu) THEN LookupGpu(r.gpu) ELSE NoChip
          IN  /\ request' = r
              /\ inputs' = IF Raises(r.overrides) THEN Nothing
                           ELSE [gpu |-> key, power |-> ResolvedPower(key, r.overrides),
                                 cost |-> ResolvedCost(key, r.overrides), price |-> r.price]
    /\ UNCHANGED <<table, todo, updates>>

Next == Fetch \/ ApplyChip \/ ResolveEconomics
Spec == Init /\ [][Next]_vars

-----------------------------------------------------------------------------
(* economics_metrics, for tps tokens a second of one kind.  A ratio is a pair; an hour and a million *)
(* are small.                                                                                      *)

Hour == 6
Million == 10

Ratio(n, d) == IF n = None \/ d <= 0 THEN Nothing ELSE <<n, d>>
Times(tps, k) == IF tps = None THEN None ELSE tps * k
TokensPerDollar(tps) == Ratio(Times(tps, Hour), inputs.cost.cost)
DollarsPerMillion(tps) == Ratio(Times(inputs.cost.cost, Million), Times(tps, Hour))
TokensPerSecondPerMw(tps) == Ratio(Times(tps, Million), inputs.power.watts)
JoulesPerToken(tps) == Ratio(inputs.power.watts, tps)

-----------------------------------------------------------------------------
TypeOK ==
    /\ \A k \in DOMAIN table : table[k].tdp \in Nat /\ table[k].estimated \in BOOLEAN
    /\ inputs # Nothing => inputs.gpu \in DOMAIN table \union {NoChip} /\ inputs.cost.basis \in {"owning", "rental"}

\* Whatever was fetched, in whatever order it is applied: a name names one chip, and power said to be
\* an estimate is one of the TDP beside it.  Of what is computed for a run, figures that are each
\* other's inverse agree, and of a run that had tokens are missing together but for a cost of zero.
Reciprocal(a, b, product) == a # Nothing /\ b # Nothing => a[1] * b[1] = product * a[2] * b[2]
EconomicsAgree ==
    /\ NamesUnique(table)
    /\ \A k \in DOMAIN table : table[k].estimated => table[k].watts = Estimate(table[k].tdp, HostWatts, Pue)
    /\ inputs # Nothing => \A tps \in Throughputs :
          /\ Reciprocal(TokensPerDollar(tps), DollarsPerMillion(tps), Million)
          /\ Reciprocal(TokensPerSecondPerMw(tps), JoulesPerToken(tps), Million)
          /\ tps > 0 /\ inputs.cost.cost # 0 =>
                (TokensPerDollar(tps) = Nothing <=> DollarsPerMillion(tps) = Nothing)
\* What a run's figures say of where they are from is so: a cost from the table is the rate of the
\* basis reported, it is missing only where neither basis has any, and power never for a known chip.
RatesAsSaid ==
    inputs # Nothing /\ inputs.gpu # NoChip =>
        LET gpu == table[inputs.gpu]
        IN  /\ inputs.cost.from = "table" => inputs.cost.cost = gpu[inputs.cost.basis]
            /\ inputs.cost.from = "none" => gpu.owning = None /\ gpu.rental = None
            /\ inputs.power.watts # None
=============================================================================
