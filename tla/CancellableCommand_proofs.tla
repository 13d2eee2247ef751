----------------------- MODULE CancellableCommand_proofs -----------------------
(***************************************************************************)
(* Theorems about CancellableCommand, for any number of children and of    *)
(* changes of the event: what a call leaves behind, and that it implements *)
(* CommandRun.                                                             *)
(***************************************************************************)
EXTENDS CancellableCommand, TLAPS

\* The input is withdrawn once a communicate() has had it.
InputGivenOnce == ~InputRefused

\* Nothing runs before the launch.
LaunchedFirst == pc = "launch" => forked = {}

\* SIGKILL has emptied the group of all but those out of the caller's reach; nobody else can be
\* born into it.
SurvivorsAreForeign == pc = "kill_wait" => alive \intersect group \subseteq foreign

\* A terminated command that was answered for: its group is dead but for those out of reach, or
\* its pipes are closed.
TerminatedIsOver ==
    pc = "returned" /\ verdict \in {"cancel", "timeout"}
        => alive \intersect group \subseteq foreign \/ alive \intersect pipes = {}

\* An error is answered at once, and with the command dead unless its input did not encode.
ErrorIsLate ==
    verdict = "error" => pc = "returned" /\ (Leader \notin alive \/ pending = "unencodable")

IInv == TypeOK /\ InputGivenOnce /\ LaunchedFirst /\ SurvivorsAreForeign /\ TerminatedIsOver /\ ErrorIsLate

LEMMA InitHolds == Init => IInv
<1> SUFFICES ASSUME Init PROVE IInv
  OBVIOUS
<1>1. flips \in 0..MaxTicks
  BY ProcessAssumption DEF Init
<1>2. TypeOK
  BY <1>1 DEF Init, TypeOK, Inputs
<1>3. InputGivenOnce
  BY DEF Init, InputGivenOnce, InputRefused
<1>4. LaunchedFirst /\ SurvivorsAreForeign /\ TerminatedIsOver /\ ErrorIsLate
  BY DEF Init, LaunchedFirst, SurvivorsAreForeign, TerminatedIsOver, ErrorIsLate
<1> QED
  BY <1>2, <1>3, <1>4 DEF IInv

-----------------------------------------------------------------------------
\* The steps of the function's own thread.
LEMMA FunctionPreserves == IInv /\ Function => IInv'
<1> SUFFICES ASSUME IInv, Function PROVE IInv'
  OBVIOUS
<1> USE DEF IInv, TypeOK, Inputs, InputGivenOnce, InputRefused, LaunchedFirst, SurvivorsAreForeign,
      TerminatedIsOver, ErrorIsLate, worldVars
<1>1. CASE Launch
  BY <1>1 DEF Launch, Procs
<1>2. CASE Poll
  <2>1. alive' \subseteq alive
    BY <1>2 DEF Poll, Terminated
  <2> QED
    BY <1>2, <2>1 DEF Poll
<1>3. CASE WaitRaises
  BY <1>3 DEF WaitRaises, Drained
<1>4. CASE WaitExit
  BY <1>4 DEF WaitExit
<1>5. CASE WaitSlice
  BY <1>5 DEF WaitSlice
<1>6. CASE TermWait
  BY <1>6 DEF TermWait, Drained, KilledBySigkill
<1>7. CASE KillWait
  BY <1>7 DEF KillWait
<1> QED
  BY <1>1, <1>2, <1>3, <1>4, <1>5, <1>6, <1>7 DEF Function

\* What the processes do: a group or pipes nobody alive holds are taken up by nobody again.
LEMMA ProcessesPreserve ==
    ASSUME IInv, NEW p \in Procs,
           (\E c \in Children : Fork(p, c)) \/ LeaveGroup(p) \/ ClosePipes(p) \/ ChangeUser(p) \/ Exit(p)
    PROVE  IInv'
<1> USE DEF IInv, TypeOK, Inputs, InputGivenOnce, InputRefused, LaunchedFirst, SurvivorsAreForeign,
      TerminatedIsOver, ErrorIsLate, callVars
<1>1. ASSUME NEW c \in Children, Fork(p, c) PROVE IInv'
  <2>1. c # Leader /\ c \in Procs
    BY ProcessAssumption DEF Procs
  <2>2. alive \intersect group \subseteq foreign => alive' \intersect group' \subseteq foreign'
    BY <1>1 DEF Fork
  <2>3. alive \intersect pipes = {} => alive' \intersect pipes' = {}
    BY <1>1 DEF Fork

      <2>4. alive' \subseteq forked' /\ forked' \subseteq Procs /\ group' \subseteq forked' /\ pipes' \subseteq forked'
            /\ foreign' \subseteq forked'
    BY <1>1, <2>1 DEF Fork
  <2> QED
    BY <1>1, <2>1, <2>2, <2>3, <2>4 DEF Fork
<1>2. CASE LeaveGroup(p)
  BY <1>2 DEF LeaveGroup
<1>3. CASE ClosePipes(p)
  BY <1>3 DEF ClosePipes
<1>4. CASE ChangeUser(p)
  BY <1>4 DEF ChangeUser
<1>5. CASE Exit(p)
  BY <1>5 DEF Exit
<1> QED
  BY <1>1, <1>2, <1>3, <1>4, <1>5

LEMMA IInvPreserved == IInv /\ [Next]_vars => IInv'
<1> SUFFICES ASSUME IInv, [Next]_vars PROVE IInv'
  OBVIOUS
<1>1. CASE Expire \/ FlipEvent
  <2>1. UNCHANGED <<callVars, worldVars>>
    BY <1>1 DEF Expire, FlipEvent
  <2>2. cancelEvent' \in BOOLEAN /\ expired' \in BOOLEAN
    BY <1>1 DEF Expire, FlipEvent, IInv, TypeOK
  <2>3. flips' \in 0..MaxTicks
    BY <1>1, ProcessAssumption DEF Expire, FlipEvent, IInv, TypeOK
  <2> QED
    BY <2>1, <2>2, <2>3
       DEF callVars, worldVars, IInv, TypeOK, InputGivenOnce, InputRefused, LaunchedFirst,
           SurvivorsAreForeign, TerminatedIsOver, ErrorIsLate
<1>2. CASE UNCHANGED vars
  BY <1>2 DEF vars, callVars, worldVars, IInv, TypeOK, InputGivenOnce, InputRefused, LaunchedFirst,
              SurvivorsAreForeign, TerminatedIsOver, ErrorIsLate
<1> QED
  BY <1>1, <1>2, FunctionPreserves, ProcessesPreserve DEF Next

\* The inductive invariant holds throughout.
THEOREM IInvAlways == Spec => []IInv
BY InitHolds, IInvPreserved, PTL DEF Spec

\* The state of a call is of its type, whatever processes it starts.
THEOREM TypeCorrect == Spec => []TypeOK
<1>1. IInv => TypeOK
  BY DEF IInv
<1> QED
  BY <1>1, IInvAlways, PTL

\* A call that has answered for a stop or a timeout leaves no process of the group with the pipes
\* but those the caller may not have been allowed to kill, and after an error no command but one
\* whose input did not encode.
THEOREM NothingLeftBehindAlways == Spec => []NothingLeftBehind
<1>1. IInv => NothingLeftBehind
  BY DEF IInv, TerminatedIsOver, ErrorIsLate, NothingLeftBehind, GroupReleasesPipes,
         ErrorLeavesNoCommand
<1> QED
  BY <1>1, IInvAlways, PTL

-----------------------------------------------------------------------------
(* The refinement.                                                         *)

LEMMA InitRefines == Init => CR!Init
BY DEF Init, CR!Init

\* A step of the function is one of the abstract run, or none.
LEMMA FunctionRefines ==
    ASSUME Function
    PROVE  CR!Next \/ UNCHANGED CR!vars
<1> USE DEF CR!vars
<1>1. CASE Launch
  <2>1. CR!Launch
    BY <1>1 DEF Launch, CR!Launch
  <2> QED
    BY <2>1 DEF CR!Next
<1>2. CASE Poll
  <2>1. CR!Poll
    BY <1>2 DEF Poll, CR!Poll
  <2> QED
    BY <2>1 DEF CR!Next
<1>3. CASE WaitRaises \/ WaitExit \/ WaitSlice
  <2>1. CR!Wait
    BY <1>3 DEF WaitRaises, WaitExit, WaitSlice, CR!Wait
  <2> QED
    BY <2>1 DEF CR!Next
<1>4. CASE TermWait
  <2>1. CASE pc' = "returned"
    BY <1>4, <2>1 DEF TermWait, CR!Terminate, CR!Next
  <2>2. CASE pc' = "kill_wait"
    BY <1>4, <2>2 DEF TermWait
  <2> QED
    BY <1>4, <2>1, <2>2 DEF TermWait
<1>5. CASE KillWait
  <2>1. CR!Terminate
    BY <1>5 DEF KillWait, CR!Terminate
  <2> QED
    BY <2>1 DEF CR!Next
<1> QED
  BY <1>1, <1>2, <1>3, <1>4, <1>5 DEF Function

LEMMA NextRefines ==
    ASSUME IInv, [Next]_vars
    PROVE  CR!Next \/ UNCHANGED CR!vars
<1>1. CASE Expire \/ FlipEvent
  BY <1>1 DEF Expire, FlipEvent, callVars, IInv, TypeOK, CR!Environment, CR!Next
<1>2. ASSUME NEW p \in Procs,
             (\E c \in Children : Fork(p, c)) \/ LeaveGroup(p) \/ ClosePipes(p) \/ ChangeUser(p) \/ Exit(p)
      PROVE  UNCHANGED CR!vars
  BY <1>2 DEF Fork, LeaveGroup, ClosePipes, ChangeUser, Exit, callVars, CR!vars
<1>3. CASE UNCHANGED vars
  BY <1>3 DEF vars, callVars, CR!vars
<1> QED
  BY <1>1, <1>2, <1>3, FunctionRefines DEF Next

\* run_cancellable_command is the run its callers reckon with.
THEOREM RefinesCommandRun == Spec => ImplementsCommandRun
<1>1. IInv /\ [Next]_vars => [CR!Next]_(CR!vars)
  BY NextRefines
<1> QED
  BY <1>1, InitRefines, IInvAlways, PTL DEF Spec, ImplementsCommandRun, CR!Spec
=============================================================================
