---------------------------- MODULE DashboardPage ----------------------------
(***************************************************************************)
(* A dashboard as the API tells it and as a browser shows it               *)
(* (grafana.py): dashboard_panels flattens its rows, load_all_panels       *)
(* scrolls it step by step.  Grafana mounts a panel once it has been in    *)
(* view, within the time the code leaves it at every position, and keeps   *)
(* it.                                                                     *)
(***************************************************************************)
EXTENDS Integers, Sequences

CONSTANTS
    Dashboards,         \* lists of entries, as Grafana saves them
    PanelHeight, Viewport,
    ScrollStep, MaxSteps    \* SCROLL_STEP_PX, SCROLL_MAX_STEPS

VARIABLES
    entries,            \* "panels" of the dashboard
    entryAt, row, collapsed, panels,    \* dashboard_panels: the entry it is at, the row it is under, its result
    pagePc,             \* dashboard_panels, open_dashboard, then load_all_panels
    top, steps,         \* of the view; scrolls so far
    mounted

flattened == <<entryAt, row, collapsed, panels>>
vars == <<entries, flattened, pagePc, top, steps, mounted>>

Smaller(a, b) == IF a < b THEN a ELSE b
Larger(a, b) == IF a < b THEN b ELSE a

-----------------------------------------------------------------------------
(* dashboard_panels.  A collapsed row holds its panels; those of another follow it. *)

Panel(title, under, hidden) == [title |-> title, row |-> under, collapsed |-> hidden]

Flatten ==
    /\ pagePc = "flatten" /\ entryAt <= Len(entries)
    /\ LET e == entries[entryAt]
       IN  IF e.type = "row"
           THEN /\ row' = e.title /\ collapsed' = e.collapsed
                /\ panels' = panels \union {Panel(t, e.title, TRUE) : t \in e.panels}
           ELSE panels' = panels \union {Panel(e.title, row, collapsed)} /\ UNCHANGED <<row, collapsed>>
    /\ entryAt' = entryAt + 1
    /\ UNCHANGED <<entries, pagePc, top, steps, mounted>>

DashboardPanels ==
    /\ pagePc = "flatten" /\ entryAt > Len(entries)
    /\ pagePc' = "open"
    /\ UNCHANGED <<entries, flattened, top, steps, mounted>>

-----------------------------------------------------------------------------
(* The page: every entry takes its place, a collapsed row's panels none. *)

Height == Len(entries) * PanelHeight
InView == {entries[i].title : i \in {j \in DOMAIN entries :
              entries[j].type = "panel" /\ (j - 1) * PanelHeight < top + Viewport /\ j * PanelHeight > top}}
Settle == mounted' = mounted \union InView

Init ==
    /\ entries \in Dashboards
    /\ entryAt = 1 /\ row = "" /\ collapsed = FALSE /\ panels = {}
    /\ pagePc = "flatten" /\ top = 0 /\ steps = 0 /\ mounted = {}

\* It raises when no panel comes into sight in time.
OpenDashboard ==
    /\ pagePc = "open"
    /\ IF InView # {} THEN pagePc' = "settle" ELSE pagePc' = "raised"
    /\ mounted' \in (IF InView = {} THEN {{}} ELSE SUBSET InView \ {{}})
    /\ UNCHANGED <<entries, flattened, top, steps>>

WaitAndScroll ==
    /\ pagePc = "settle" /\ steps < MaxSteps
    /\ Settle /\ steps' = steps + 1
    /\ top' = Smaller(top + ScrollStep, Larger(Height - Viewport, 0))
    /\ pagePc' = IF top' + Viewport < Height - 1 THEN "settle" ELSE "last"
    /\ UNCHANGED <<entries, flattened>>

\* At the end of the page, or after the last step; then it is back at the top.
SettleAtEnd ==
    /\ \/ pagePc = "last"
       \/ pagePc = "settle" /\ steps = MaxSteps
    /\ Settle /\ top' = 0 /\ pagePc' = "loaded"
    /\ UNCHANGED <<entries, flattened, steps>>

Next == Flatten \/ DashboardPanels \/ OpenDashboard \/ WaitAndScroll \/ SettleAtEnd
Spec == Init /\ [][Next]_vars

\* panel_states: what is mounted.
RenderedPanelTitles == mounted

-----------------------------------------------------------------------------
TypeOK ==
    /\ mounted \subseteq {entries[i].title : i \in DOMAIN entries} /\ steps \in 0..MaxSteps
    /\ entryAt \in 1..(Len(entries) + 1)
    /\ pagePc \in {"flatten", "open", "settle", "last", "loaded", "raised"}

\* Once all is loaded, what the browser shows is what the API's dashboard says is not under a
\* collapsed row: unless the page is taller than all steps together reach, and then a part of it from
\* the top.  Each panel is told under the row that it is drawn below.
Reached == MaxSteps * ScrollStep + Viewport
DrawnUnder(i, title) ==
    LET rows == {j \in 1..i : entries[j].type = "row"}
    IN  IF rows = {} THEN title = ""
        ELSE \E j \in rows : title = entries[j].title /\ \A k \in rows : k <= j
PanelsSeen ==
    /\ pagePc = "loaded" =>
          LET shown == {p.title : p \in {q \in panels : ~q.collapsed}}
          IN  /\ RenderedPanelTitles \subseteq shown
              /\ Height <= Reached => RenderedPanelTitles = shown
    /\ pagePc = "raised" => InView = {}
    /\ pagePc # "flatten" => \A i \in DOMAIN entries : entries[i].type = "panel" =>
          \E p \in panels : p.title = entries[i].title /\ DrawnUnder(i, p.row)
=============================================================================
