------------------------------ MODULE Reporter ------------------------------
(***************************************************************************)
(* The report of a pytest session (reporting/report.py, report_plugin.py): *)
(* the plugin records what pytest says of each phase of a test, tests add  *)
(* tables to the section opened last, and every change writes the file     *)
(* anew.                                                                   *)
(***************************************************************************)
EXTENDS Integers, Sequences, SequencesExt

CONSTANTS
    Tests, Titles,      \* node ids; titles of header tables
    MaxRuns,            \* bound: tests run, reruns included
    MaxItems            \* bound: tables and notes added to one section

VARIABLES
    writesFile,         \* there is a report file
    outcomes, sections, headerTables,
    file,               \* what the file shows
    test, phase,        \* what pytest runs
    opened,             \* this run has opened its test's section
    phases              \* by run: its test, the outcome of each phase, and how many had been recorded;
                        \* for the properties

vars == <<writesFile, outcomes, sections, headerTables, file, test, phase, opened, phases>>
pytest == <<test, phase, opened, phases>>

NoTest == "none"
TestPhases == {"setup", "call", "teardown"}
Nothing == [outcomes |-> <<>>, sections |-> <<>>, headerTables |-> {}]

Init ==
    /\ writesFile \in BOOLEAN
    /\ outcomes = <<>> /\ sections = <<>> /\ headerTables = {} /\ file = Nothing
    /\ test = NoTest /\ phase = "out" /\ opened = FALSE /\ phases = <<>>

\* flush: the whole report is rendered and written, when there is a file.
Flush ==
    file' = IF writesFile
            THEN [outcomes |-> outcomes', sections |-> sections', headerTables |-> headerTables'] ELSE file

-----------------------------------------------------------------------------
(* What tests add. *)

Section(nodeid) ==
    IF \E s \in ToSet(sections) : s.test = nodeid THEN sections
    ELSE Append(sections, [test |-> nodeid, items |-> <<>>])

\* The reporter fixture.
StartTest ==
    /\ phase = "setup"
    /\ sections' = (IF writesFile THEN Section(test) ELSE sections)
    /\ opened' = TRUE
    /\ UNCHANGED <<writesFile, outcomes, headerTables, file, test, phase, phases>>

\* note, output, figure, table: to the last section, whosever it is.
Opened == IF sections = <<>> THEN <<[test |-> NoTest, items |-> <<>>]>> ELSE sections
AppendItem ==
    /\ phase \in TestPhases
    /\ Len(Opened[Len(Opened)].items) < MaxItems
    /\ sections' = (IF writesFile
                    THEN [Opened EXCEPT ![Len(Opened)].items = Append(@, [by |-> test, opened |-> opened])]
                    ELSE sections)
    /\ UNCHANGED <<writesFile, outcomes, headerTables, pytest>>
    /\ Flush

\* The first of a title stays.
AddHeaderTable ==
    /\ phase # "out"
    /\ \E t \in Titles :
          /\ \A h \in headerTables : h.title # t
          /\ headerTables' = headerTables \union {[title |-> t, by |-> test]}
    /\ UNCHANGED <<writesFile, outcomes, sections, pytest>>
    /\ Flush

-----------------------------------------------------------------------------
(* pytest's phases, and pytest_runtest_logreport. *)

RecordOutcome(outcome) == outcomes' = Append(outcomes, [test |-> test, outcome |-> outcome]) /\ Flush

BeginTest ==
    /\ phase = "out" /\ Len(phases) < MaxRuns
    /\ test' \in Tests /\ phase' = "setup" /\ opened' = FALSE
    /\ phases' = Append(phases, [test |-> test', from |-> Len(outcomes), of |-> [p \in TestPhases |-> "none"]])
    /\ UNCHANGED <<writesFile, outcomes, sections, headerTables, file>>

\* As if only a setup could end in error.
LogReportBefore(result) ==
    CASE phase = "call" -> RecordOutcome(result)
      [] phase = "setup" /\ result = "failed" -> RecordOutcome("error")
      [] phase = "setup" /\ result = "skipped" -> RecordOutcome("skipped")
      [] OTHER -> UNCHANGED <<outcomes, file>>
LogReport(result) ==
    CASE phase = "call" -> RecordOutcome(result)
      [] phase # "call" /\ result = "failed" -> RecordOutcome("error")
      [] phase = "setup" /\ result = "skipped" -> RecordOutcome("skipped")
      [] OTHER -> UNCHANGED <<outcomes, file>>

EndPhase ==
    /\ phase # "out"
    /\ \E result \in {"passed", "failed", "skipped"} :
          /\ phases' = [phases EXCEPT ![Len(phases)].of[phase] = result]
          /\ UNCHANGED <<writesFile, sections, headerTables>>
          /\ LogReport(result)
          /\ phase' = CASE phase = "setup" -> IF result = "passed" THEN "call" ELSE "teardown"
                        [] phase = "call" -> "teardown"
                        [] phase = "teardown" -> "out"
    /\ UNCHANGED <<test, opened>>

Next == StartTest \/ AppendItem \/ AddHeaderTable \/ BeginTest \/ EndPhase
Spec == Init /\ [][Next]_vars

-----------------------------------------------------------------------------
TypeOK ==
    /\ phase \in {"out", "setup", "call", "teardown"} /\ test \in Tests \union {NoTest}
    /\ file.headerTables \subseteq headerTables /\ Len(file.outcomes) <= Len(outcomes)

\* Between tests, the file tells of every run how it ended, once, and of each teardown that failed
\* besides; what failed in any phase is among the failures, and nothing else is.
Shown(p) ==
    CASE p.of["call"] # "none" -> <<p.of["call"]>>
      [] p.of["call"] = "none" /\ p.of["setup"] = "failed" -> <<"error">>
      [] OTHER -> <<"skipped">>
TornDown(p) == IF p.of["teardown"] = "failed" THEN <<"error">> ELSE <<>>
\* The outcomes from those a run found to those the next one did are the run's, and all it should have.
Tells(i, shown) ==
    /\ Len(shown) = (IF i < Len(phases) THEN phases[i + 1].from ELSE Len(outcomes)) - phases[i].from
    /\ \A j \in 1..Len(shown) :
          outcomes[phases[i].from + j] = [test |-> phases[i].test, outcome |-> shown[j]]
OutcomesShown ==
    phase = "out" =>
        /\ IF phases = <<>> THEN outcomes = <<>> ELSE phases[1].from = 0
        /\ \A i \in DOMAIN phases : Tells(i, Shown(phases[i]) \o TornDown(phases[i]))
        /\ writesFile => file.outcomes = outcomes /\ file.headerTables = headerTables
\* As long as no test ran twice, what one adds once it has its section is found there.
ItemsUnderTheirTest ==
    (\A i, j \in DOMAIN phases : phases[i].test = phases[j].test => i = j) =>
        \A s \in ToSet(sections) : \A i \in ToSet(s.items) : i.opened => i.by = s.test
=============================================================================
