------------------------------- MODULE Polling -------------------------------
(***************************************************************************)
(* The waits of the framework, and what is waited for.  poll_until probes  *)
(* before it looks at the clock; wait_for and wait_for_tcp_connectivity    *)
(* count attempts; the pings and logins stop at the deadline.  Probes take *)
(* time, and what they look for comes and goes meanwhile.                  *)
(***************************************************************************)
EXTENDS Integers

CONSTANTS
    Items,              \* dashboards, panels, rows: what a probe finds
    Timeouts, Interval,
    MaxProbe,           \* bound: how long a probe takes
    MaxChanges          \* bound: changes of what is waited for

VARIABLES
    use, timeout,       \* who waits, and how long
    pc, now, from,      \* the loop; the clock, from the start; when the probe or sleep began
    attempts, answer,
    shown, troubled,    \* what there is; what of it is loading, or in error
    since, ever, changes    \* since when the condition is as it is, whether it ever held, changes

vars == <<use, timeout, pc, now, from, attempts, answer, shown, troubled, since, ever, changes>>
world == <<shown, troubled, since, ever, changes>>

PollUntilUses == {"http_ok", "health", "listener", "dashboards", "panel_data", "panels"}
CountedUses == {"wait_for", "tcp"}
DeadlineUses == {"ping", "ssh_login"}

-----------------------------------------------------------------------------
(* What the probes look for. *)

Answers == shown # {}
\* `ss` lists the port.  (Without an `ss` the probe answers True.)
Listening == shown # {}
Provisioned == shown = Items
PanelLoaded == troubled = {} /\ shown # {}
PanelsSettled == shown # {} /\ troubled = {}

Condition ==
    CASE use = "listener" -> Listening
      [] use = "dashboards" -> Provisioned
      [] use = "panel_data" -> PanelLoaded
      [] use = "panels" -> PanelsSettled
      [] OTHER -> Answers

\* It changes, before, between and in the middle of probes.
Change ==
    /\ UNCHANGED <<use, timeout, pc, now, from, attempts, answer>>
    /\ changes < MaxChanges /\ changes' = changes + 1
    /\ \E s \in SUBSET Items : \E t \in SUBSET s : <<s, t>> # <<shown, troubled>> /\ shown' = s /\ troubled' = t
    /\ since' = IF Condition' = Condition THEN since ELSE now
    /\ ever' = (ever \/ Condition')

Init ==
    /\ use \in PollUntilUses \union CountedUses \union DeadlineUses /\ timeout \in Timeouts
    /\ pc = (IF use \in PollUntilUses THEN "probe" ELSE "check")
    /\ now = 0 /\ from = 0 /\ attempts = 0 /\ answer = "none"
    /\ shown \in SUBSET Items /\ troubled = {} /\ since = 0 /\ ever = Condition /\ changes = 0

-----------------------------------------------------------------------------
(* The loops. *)

Begin == pc' = "probe" /\ from' = now /\ attempts' = attempts + 1 /\ UNCHANGED answer
End(a) == answer' = a /\ pc' = "done" /\ UNCHANGED <<from, attempts>>
Sleep == pc' = "sleep" /\ from' = now /\ UNCHANGED <<attempts, answer>>

WaitForGoesOn == attempts < timeout \div Interval
WaitForTcpGoesOn == attempts < timeout \div Interval
WaitForPingGoesOn == now < timeout
WaitForSshGoesOn == now < timeout
PollUntilGoesOn == now < timeout

Check ==
    /\ pc = "check"
    /\ IF CASE use = "wait_for" -> WaitForGoesOn
            [] use = "tcp" -> WaitForTcpGoesOn
            [] use = "ping" -> WaitForPingGoesOn
            [] use = "ssh_login" -> WaitForSshGoesOn
            [] OTHER -> PollUntilGoesOn
       THEN Begin ELSE End("no")
    /\ UNCHANGED <<use, timeout, now, world>>

\* What a probe may answer: what was so all along, or either when it changed meanwhile.
Seen == IF since <= from THEN {Condition} ELSE BOOLEAN
SeenBy == Seen \union (IF use = "listener" THEN {TRUE} ELSE {})

\* poll_until looks at the clock here, the others after the sleep.
ProbeEnds ==
    /\ pc = "probe"
    /\ \E seen \in SeenBy :
          IF seen THEN End("yes")
          ELSE IF use \in PollUntilUses /\ ~PollUntilGoesOn THEN End("no") ELSE Sleep
    /\ UNCHANGED <<use, timeout, now, world>>

LooksAgain == "check"
Awakes == IF use \in PollUntilUses THEN "probe" ELSE "check"
Wake ==
    /\ pc = "sleep" /\ now = from + Interval
    /\ pc' = Awakes /\ from' = now
    /\ UNCHANGED <<use, timeout, now, attempts, answer, world>>

Tick ==
    /\ \/ pc = "probe" /\ now < from + MaxProbe
       \/ pc = "sleep" /\ now < from + Interval
    /\ now' = now + 1
    /\ UNCHANGED <<use, timeout, pc, from, attempts, answer, world>>

Next == Check \/ ProbeEnds \/ Wake \/ Tick \/ Change
Spec == Init /\ [][Next]_vars

-----------------------------------------------------------------------------
TypeOK ==
    /\ pc \in {"check", "probe", "sleep", "done"}
    /\ troubled \subseteq shown /\ shown \subseteq Items
    /\ since <= now /\ from <= now

\* The last moment at which a probe is sure to look.
LastLook ==
    CASE use \in PollUntilUses -> timeout - MaxProbe
      [] use \in CountedUses -> (timeout \div Interval) * Interval - Interval
      [] use \in DeadlineUses -> timeout - Interval - MaxProbe
LatestEnd ==
    CASE use \in CountedUses -> (timeout \div Interval) * (Interval + MaxProbe)
      [] OTHER -> timeout + Interval + MaxProbe

\* A wait that answers no has not missed a condition that came true in time and stayed: poll_until
\* looks until its deadline, a probe under way included, the others a sleep less, or as often as they
\* count.  One that answers yes saw the condition.  And a wait is over in bounded time, past its
\* timeout by a sleep and a probe at most, though counted attempts stretch it by every probe.
WaitsKeepTheirWord ==
    pc = "done" =>
        /\ answer = "no" => ~Condition \/ since >= LastLook
        /\ answer = "yes" => ever \/ use = "listener"
        /\ now <= LatestEnd
=============================================================================
