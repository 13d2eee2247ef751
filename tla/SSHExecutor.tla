----------------------------- MODULE SSHExecutor -----------------------------
(***************************************************************************)
(* SSHExecutor (ssh.py:132-334): one cached SSH connection, reused while   *)
(* it is to the host asked for and its transport is active, replaced       *)
(* otherwise.  A client is a connection ever made; it is open until this   *)
(* side closes it, and active until that or until the network drops it.    *)
(*                                                                         *)
(* This module holds the executor's state and operations for the modules   *)
(* that use one; like the executor, it has one caller at a time.           *)
(***************************************************************************)
EXTENDS Naturals, FiniteSets

CONSTANTS
    Hosts, DefaultHost,     \* config.host is the default of every call
    MaxClients              \* bound: connections made

ASSUME SshAssumption == DefaultHost \in Hosts /\ MaxClients \in Nat \ {0}

Clients == 1..MaxClients
NoClient == 0
NoHost == "none"

VARIABLES
    client, currentHost,    \* _client, _current_host
    hostOf,                 \* the host of each client made, NoHost for those not made yet
    open, active            \* clients not closed; clients whose transport is active

sshVars == <<client, currentHost, hostOf, open, active>>

SshTypeOK ==
    /\ client \in Clients \union {NoClient}
    /\ currentHost \in Hosts \union {NoHost}
    /\ hostOf \in [Clients -> Hosts \union {NoHost}]
    /\ open \subseteq Clients
    /\ active \subseteq open

SshInit ==
    /\ client = NoClient /\ currentHost = NoHost
    /\ hostOf = [c \in Clients |-> NoHost]
    /\ open = {} /\ active = {}

\* _get_client finds a client it can reuse.
Cached(h) == client # NoClient /\ currentHost = h /\ client \in active

\* The cached client is of host h but its transport is gone: the one case that forgets the host.
Stale(h) == client # NoClient /\ currentHost = h /\ client \notin active

\* Clients that can be made next: numbered in the order they are made.
Fresh == {c \in Clients : hostOf[c] = NoHost /\ \A d \in 1..(c - 1) : hostOf[d] # NoHost}

\* Mutant of Connects: a client for another host replaces the cached one without closing it.
ConnectsUnclosed(h) ==
    /\ ~Cached(h)
    /\ \E c \in Fresh :
          /\ client' = c /\ currentHost' = h
          /\ hostOf' = [hostOf EXCEPT ![c] = h]
          /\ LET closed == IF Stale(h) THEN {client} ELSE {}
             IN  open' = (open \ closed) \union {c} /\ active' = (active \ closed) \union {c}

\* Neither a dead client nor one to another host survives a new connection.
Connects(h) ==
    /\ ~Cached(h)
    /\ \E c \in Fresh :
          /\ client' = c /\ currentHost' = h
          /\ hostOf' = [hostOf EXCEPT ![c] = h]
          /\ open' = (open \ {client}) \union {c}
          /\ active' = (active \ {client}) \union {c}

\* The old client is gone all the same; its host is forgotten only if it was the stale one.
ConnectFails(h) ==
    /\ ~Cached(h)
    /\ client' = NoClient
    /\ currentHost' = IF Stale(h) THEN NoHost ELSE currentHost
    /\ open' = open \ {client}
    /\ active' = active \ {client}
    /\ UNCHANGED hostOf

\* _get_client returns a client for h.
GetClient(h) == (Cached(h) /\ UNCHANGED sshVars) \/ Connects(h)

\* run: the command is executed and answered; it is executed, and the connection dies or the
\* time is up before its answer; or it is not executed.  The last two look the same to the caller.
Ran(h, outcome) ==
    \/ outcome \in {"answered", "lost", "not_run"} /\ GetClient(h)
    \/ outcome = "not_run" /\ ConnectFails(h)

Close ==
    /\ client # NoClient
    /\ client' = NoClient /\ currentHost' = NoHost
    /\ open' = open \ {client}
    /\ active' = active \ {client}
    /\ UNCHANGED hostOf

\* The network drops a connection; nobody notices before the next use.
ConnectionDrops(c) ==
    /\ c \in active
    /\ active' = active \ {c}
    /\ UNCHANGED <<client, currentHost, hostOf, open>>

-----------------------------------------------------------------------------
\* A host remembered from an earlier connection never passes for the host of the cached one, and
\* no connection but the cached one is left open.
OneConnection ==
    /\ client # NoClient => client \in open /\ hostOf[client] = currentHost
    /\ open \subseteq {client}
=============================================================================
