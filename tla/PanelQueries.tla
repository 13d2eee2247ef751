---------------------------- MODULE PanelQueries ----------------------------
(***************************************************************************)
(* dashboard_panel_results (grafana.py): every panel of a dashboard has    *)
(* its queries run, one panel after the other, and what came of each is    *)
(* kept by a label made of its title.                                      *)
(***************************************************************************)
EXTENDS Naturals, Sequences, FiniteSets, Functions

CONSTANTS
    Titles, Refs,       \* titles of panels: <<k>> is one, <<k, n>> the same with " (n)"; refIds of targets
    Panels              \* bound: panels of a dashboard

VARIABLES
    panels,             \* their titles, and their targets by refId: "shown" or "hidden"
    at, raised,         \* the panel the loop is at; a request that got no answer ended it
    seen, errors, rows, \* by title, how many; by label, the refIds in error, and the rows
    answers             \* by panel: its label and response, if any; for the properties

vars == <<panels, at, raised, seen, errors, rows, answers>>

Panel == [title : Titles, targets : UNION {[S -> {"shown", "hidden"}] : S \in SUBSET Refs}]

Init ==
    /\ panels \in [1..Panels -> Panel]
    /\ at = 1 /\ raised = FALSE
    /\ seen = [t \in Titles |-> 0] /\ errors = << >> /\ rows = << >>
    /\ answers = <<>>

\* The body for /api/ds/query; its data sources and defaults are left out.
Queries(p) == {r \in DOMAIN p.targets : p.targets[r] # "hidden"}

\* Rejected as a whole, or answered by refId: an error, of one shape or another, or rows.  A refId
\* may have no answer.
Responses(refs) ==
    {[rejected |-> TRUE, results |-> << >>]}
        \union {[rejected |-> FALSE, results |-> f] : f \in UNION {[S -> {"error", "empty", "rows"}] : S \in SUBSET refs}}

RequestError == "request"
QueryResults(response) == IF response.rejected THEN << >> ELSE response.results
QueryErrors(response) ==
    IF response.rejected THEN {RequestError}
    ELSE {r \in DOMAIN response.results : response.results[r] = "error"}
\* The queries that have rows stand for the rows they have; one in error has none.
RowTotal(response) ==
    Cardinality({r \in DOMAIN QueryResults(response) : QueryResults(response)[r] = "rows"})

\* The title, and from its second panel on a number.
Label(title, n) == IF n = 1 THEN title ELSE Append(title, n)

Kept(f, label, value) == [l \in DOMAIN f \union {label} |-> IF l = label THEN value ELSE f[l]]

RunPanel ==
    /\ at <= Len(panels) /\ ~raised
    /\ Queries(panels[at]) # {}
    /\ LET title == panels[at].title
           label == Label(title, seen[title] + 1)
       IN  \E response \in Responses(Queries(panels[at])) :
              /\ seen' = [seen EXCEPT ![title] = @ + 1]
              /\ errors' = (IF QueryErrors(response) = {} THEN errors
                            ELSE Kept(errors, label, QueryErrors(response)))
              /\ rows' = Kept(rows, label, RowTotal(response))
              /\ answers' = Append(answers, [title |-> title, response |-> response])
    /\ at' = at + 1
    /\ UNCHANGED <<panels, raised>>

\* A panel with nothing to run is none of the results.
SkipPanel ==
    /\ at <= Len(panels) /\ ~raised
    /\ Queries(panels[at]) = {}
    /\ at' = at + 1
    /\ UNCHANGED <<panels, raised, seen, errors, rows, answers>>

\* A RequestException is the caller's.
RequestRaises ==
    /\ at <= Len(panels) /\ ~raised
    /\ Queries(panels[at]) # {}
    /\ raised' = TRUE
    /\ UNCHANGED <<panels, at, seen, errors, rows, answers>>

Next == RunPanel \/ SkipPanel \/ RequestRaises
Spec == Init /\ [][Next]_vars

-----------------------------------------------------------------------------
TypeOK ==
    /\ at \in 1..(Len(panels) + 1) /\ Len(answers) < at
    /\ DOMAIN errors \subseteq DOMAIN rows

\* No panel's title is the label of another one, as "a (2)" is of the second panel "a".
Labels(t) == {Label(t, n) : n \in 1..seen[t]}
Unambiguous == \A t, u \in Titles : seen[u] > 0 /\ u \in Labels(t) => u = t

\* "One of them failing must not be hidden by the other succeeding": of panels of one title, as many
\* are reported in error, and with rows or without, as were, unless a title has the form of a label.
Failed(response) == response.rejected \/ \E r \in DOMAIN response.results : response.results[r] = "error"
PanelFailuresShown ==
    Unambiguous => \A t \in Titles :
        LET its == {i \in DOMAIN answers : answers[i].title = t}
        IN  /\ Cardinality(Labels(t) \intersect DOMAIN errors)
                 = Cardinality({i \in its : Failed(answers[i].response)})
            /\ Cardinality(Labels(t) \intersect DOMAIN rows) = Cardinality(its)
            /\ Cardinality({l \in Labels(t) \intersect DOMAIN rows : rows[l] > 0 /\ l \notin DOMAIN errors})
                 = Cardinality({i \in its : ~Failed(answers[i].response)
                       /\ "rows" \in Range(answers[i].response.results)})
=============================================================================
