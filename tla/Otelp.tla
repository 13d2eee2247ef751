-------------------------------- MODULE Otelp --------------------------------
(***************************************************************************)
(* Otelp (telemetry/otelp.py): initialize reaches a collector and makes a  *)
(* meter provider, instruments are made once by name and kept, cleanup     *)
(* shuts the provider down and forgets them.  The object may be used       *)
(* again.  Its calls come from one thread; the collector comes and goes.   *)
(***************************************************************************)
EXTENDS Naturals, FiniteSets

CONSTANTS
    Names,              \* metric names
    MaxProviders        \* bound: meter providers made

VARIABLES
    connected,          \* is_connected
    provider, meter,    \* _meter_provider, and the provider _meter is of; 0 before
    instruments,        \* by name: the kind and provider of the instrument kept
    live, made,         \* providers that export; providers made
    given,              \* the instrument last handed out
    clean,              \* no initialize came on top of another without a cleanup
    fresh               \* none came since the last cleanup; the last three for the properties

vars == <<connected, provider, meter, instruments, live, made, given, clean, fresh>>

Nothing == [name |-> "none", kind |-> "none", of |-> 0]

Init ==
    /\ connected = FALSE /\ provider = 0 /\ meter = 0
    /\ instruments = {} /\ live = {} /\ made = 0
    /\ given = Nothing /\ clean = TRUE /\ fresh = TRUE

-----------------------------------------------------------------------------
(* initialize. *)

\* _init_meter_provider: raises before the provider is there or after, or makes its meter.
InitMeterProvider ==
    \/ connected' = FALSE /\ UNCHANGED <<provider, meter, live, made>>
    \/ /\ made < MaxProviders /\ made' = made + 1
       /\ provider' = made' /\ live' = live \union {made'}
       /\ \/ meter' = made' /\ connected' = TRUE
          \/ UNCHANGED meter /\ connected' = FALSE

\* An endpoint that cannot be parsed or reached leaves the object unconnected, and all else alone.
TestOtlpConnectivity == BOOLEAN

Initialize ==
    /\ \E reached \in TestOtlpConnectivity :
          IF reached THEN InitMeterProvider
          ELSE connected' = FALSE /\ UNCHANGED <<provider, meter, live, made>>
    /\ clean' = (clean /\ fresh) /\ fresh' = FALSE
    /\ given' = Nothing
    /\ UNCHANGED instruments

-----------------------------------------------------------------------------
(* Instruments. *)

CheckInitialized == connected /\ meter # 0

\* As if nothing were kept by name.
CreateAnew(kind) ==
    /\ CheckInitialized
    /\ \E n \in Names :
          given' = [name |-> n, kind |-> kind, of |-> meter] /\ instruments' = instruments \union {given'}
    /\ UNCHANGED <<connected, provider, meter, live, made, clean, fresh>>
\* The one of that name, of whatever kind it is, or a new one.
Create(kind) ==
    /\ CheckInitialized
    /\ \E n \in Names :
          \/ \E i \in instruments : i.name = n /\ given' = i /\ UNCHANGED instruments
          \/ /\ \A i \in instruments : i.name # n
             /\ given' = [name |-> n, kind |-> kind, of |-> meter]
             /\ instruments' = instruments \union {given'}
    /\ UNCHANGED <<connected, provider, meter, live, made, clean, fresh>>

CreateCounter == Create("counter")
CreateUpDownCounter == Create("up_down_counter")
CreateHistogram == Create("histogram")
CreateObservableGauge == Create("observable_gauge")
CreateObservableCounter == Create("observable_counter")
CreateObservableUpDownCounter == Create("observable_up_down_counter")

\* None for one that is not there.
GetInstrument ==
    /\ \E i \in instruments : given' = i
    /\ UNCHANGED <<connected, provider, meter, instruments, live, made, clean, fresh>>

-----------------------------------------------------------------------------
(* cleanup. *)

\* Instruments outlive the provider they are of.
CleanupKeeps ==
    /\ live' = live \ {provider} /\ connected' = FALSE /\ fresh' = TRUE
    /\ given' = Nothing
    /\ UNCHANGED <<provider, meter, instruments, made, clean>>
\* A flush or shutdown that fails is logged, the provider is shut down all the same.
Cleanup ==
    /\ instruments' = {}
    /\ live' = live \ {provider} /\ connected' = FALSE /\ fresh' = TRUE
    /\ given' = Nothing
    /\ UNCHANGED <<provider, meter, made, clean>>

Next ==
    \/ Initialize \/ Cleanup
    \/ CreateCounter \/ CreateUpDownCounter \/ CreateHistogram
    \/ CreateObservableGauge \/ CreateObservableCounter \/ CreateObservableUpDownCounter
    \/ GetInstrument
Spec == Init /\ [][Next]_vars

-----------------------------------------------------------------------------
TypeOK ==
    /\ provider \in 0..made /\ meter \in 0..made /\ live \subseteq 1..made
    /\ Cardinality({i.name : i \in instruments}) = Cardinality(instruments)

\* As long as every initialize but the first followed a cleanup, an instrument that is handed out
\* while connected is of the provider that exports, whatever failed before; no older provider goes
\* on exporting; and after a cleanup none does.
InstrumentsLive ==
    clean =>
        /\ connected => provider = meter /\ live = {provider}
        /\ connected /\ given # Nothing => given.of = provider
        /\ fresh => live = {} /\ ~connected
=============================================================================
