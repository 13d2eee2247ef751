--------------------------- MODULE EnvironmentCheck ---------------------------
(***************************************************************************)
(* EnvironmentCheck (env_vars.py): which of the declared environment       *)
(* variables apply to the targets used so far.  Declarations come from a   *)
(* file, by directory and for all below it, or from declare, for one       *)
(* directory; targets come in any order between them.                      *)
(***************************************************************************)
EXTENDS Naturals

CONSTANTS
    Directories, Parents,       \* Parents[d]: the directories above d
    VariableNames, Fixtures,    \* names of variables; names a target may use
    Files,              \* what a declarations file may hold: sets of entries by directory
    Computed,           \* entries that may be declared
    MaxDeclares         \* bound: calls of declare

VARIABLES
    fromFile, declared, \* entries by directory: name, required, usedBy ({} when not scoped)
    scoped,             \* by directory used: its scoped entries
    selected,           \* by name: "no", "optional" or "required"
    environment,        \* variables that are set
    declares,
    targets             \* what was used, with the entries its directory had at first; for the properties

vars == <<fromFile, declared, scoped, selected, environment, declares, targets>>

Init ==
    /\ fromFile \in Files /\ declared = [d \in Directories |-> {}]
    /\ scoped = [d \in {} |-> {}] /\ selected = [n \in VariableNames |-> "no"]
    /\ environment = {} /\ declares = 0 /\ targets = {}

-----------------------------------------------------------------------------
Declare ==
    /\ declares < MaxDeclares /\ declares' = declares + 1
    /\ \E d \in Directories, e \in Computed :
          e \notin declared[d] /\ declared' = [declared EXCEPT ![d] = @ \union {e}]
    /\ UNCHANGED <<fromFile, scoped, selected, environment, targets>>

\* _entries: the file's, for the directory and those above it, and what was declared for it.
EntriesOf(d) == (UNION {fromFile[w] : w \in {d} \union Parents[d]}) \union declared[d]

\* _select of each entry: one that is there already stays.
SelectFirst(entries) ==
    [n \in VariableNames |->
        LET its == {e \in entries : e.name = n}
        IN  CASE its = {} \/ selected[n] # "no" -> selected[n]
              [] \E e \in its : e.required -> "required"
              [] OTHER -> "optional"]
\* The first of its name, or one that is required after one that is not.
Select(entries) ==
    [n \in VariableNames |->
        LET its == {e \in entries : e.name = n}
        IN  CASE its = {} \/ selected[n] = "required" -> selected[n]
              [] \E e \in its : e.required -> "required"
              [] OTHER -> "optional"]

\* The unscoped entries when the directory is used first, and of the scoped those of these names.
Use ==
    /\ \E d \in Directories, names \in SUBSET Fixtures :
          LET first == d \notin DOMAIN scoped
              entries == EntriesOf(d)
              its == IF first THEN {e \in entries : e.usedBy # {}} ELSE scoped[d]
              plain == IF first THEN entries \ its ELSE {}
          IN  /\ scoped' = [w \in DOMAIN scoped \union {d} |-> IF w = d THEN its ELSE scoped[w]]
              /\ selected' = Select(plain \union {e \in its : e.usedBy \intersect names # {}})
              /\ targets' = targets \union
                    {[names |-> names,
                      entries |-> IF first THEN entries ELSE (CHOOSE t \in targets : t.directory = d).entries,
                      directory |-> d]}
    /\ UNCHANGED <<fromFile, declared, environment, declares>>

\* os.environ is the process's; tests set and unset variables.
SetVariable ==
    /\ \E n \in VariableNames :
          environment' \in {environment \union {n}, environment \ {n}} /\ environment' # environment
    /\ UNCHANGED <<fromFile, declared, scoped, selected, declares, targets>>

Missing == {n \in VariableNames : selected[n] = "required" /\ n \notin environment}
\* enforce raises.
Enforce == Missing # {}

Next == Declare \/ Use \/ SetVariable
Spec == Init /\ [][Next]_vars

-----------------------------------------------------------------------------
TypeOK ==
    /\ selected \in [VariableNames -> {"no", "optional", "required"}]
    /\ environment \subseteq VariableNames
    /\ DOMAIN scoped = {t.directory : t \in targets}

\* Whatever order targets came in, and declarations between them: a variable applies exactly when some
\* target's directory declared it for all, or for a name that target uses, and "when a variable is
\* declared both optional and required, required wins" (env_vars.py:181-182); enforce raises just
\* when one of those is unset.
Applies(e) == \E t \in targets : e \in t.entries /\ (e.usedBy = {} \/ e.usedBy \intersect t.names # {})
AllEntries == UNION {t.entries : t \in targets}
RequiredWins ==
    /\ \A n \in VariableNames :
          LET its == {e \in AllEntries : e.name = n /\ Applies(e)}
          IN  selected[n] = CASE its = {} -> "no"
                              [] \E e \in its : e.required -> "required"
                              [] OTHER -> "optional"
    /\ Enforce <=> \E e \in AllEntries : Applies(e) /\ e.required /\ e.name \notin environment
=============================================================================
