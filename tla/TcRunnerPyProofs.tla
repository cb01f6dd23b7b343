-------------------------- MODULE TcRunnerPyProofs --------------------------
(***************************************************************************)
(* Proofs about tc-runner.py, for any number of programs and hosts: each   *)
(* os.wait() of a stop has a child to wait for, and a stop that returns    *)
(* has reaped every child.  Both rest on a count: in the loop there is one *)
(* child more than visits to come when the runner waits, and as many when  *)
(* it does not, whichever children it has got.                             *)
(***************************************************************************)
EXTENDS TcRunnerPy, FiniteSetTheorems, TLAPS

USE TcRunnerAssumption

LEMMA InitInv == Init => Inv
<1> SUFFICES ASSUME Init PROVE Inv
  OBVIOUS
<1>1. Launched = {} /\ Children = {}
  BY DEF Init, Launched, Children
<1>2. TypeOK
  BY <1>1 DEF Init, TypeOK, Pc, ChildState
<1>3. WaitsAreCounted
  BY <1>1, FS_EmptySet DEF Init, WaitsAreCounted
<1> QED BY <1>2, <1>3 DEF Init, Inv, ConnectedOrLost

-----------------------------------------------------------------------------
(* Steps of a child change its state but keep it launched and unreaped.    *)

LEMMA ChildTypes == ASSUME Inv, NEW c \in Cmd, Child(c) PROVE TypeOK' /\ Children' = Children
<1> USE DEF Inv, TypeOK, ChildState, Launched, Children
<1>1. CASE Exec(c)
  BY <1>1 DEF Exec, runnerVars, remoteVars
<1>2. CASE ExecFails(c)
  BY <1>2 DEF ExecFails, runnerVars, remoteVars
<1>3. CASE StopInChild(c)
  BY <1>3 DEF StopInChild, KillOn, RunningOn, runnerVars
<1>4. CASE Connect(c)
  BY <1>4 DEF Connect, runnerVars
<1>5. CASE ConnectFails(c)
  BY <1>5 DEF ConnectFails, runnerVars, remoteVars
<1>6. CASE ConnectionBreaks(c)
  BY <1>6 DEF ConnectionBreaks, runnerVars
<1>7. CASE ProgramEnds(c)
  BY <1>7 DEF ProgramEnds, runnerVars, childVars
<1>8. CASE SshExits(c)
  BY <1>8 DEF SshExits, runnerVars, remoteVars
<1> QED BY <1>1, <1>2, <1>3, <1>4, <1>5, <1>6, <1>7, <1>8 DEF Child

LEMMA ChildConnected == ASSUME Inv, NEW c \in Cmd, Child(c) PROVE ConnectedOrLost'
<1> USE DEF Inv, TypeOK, ConnectedOrLost
<1>1. CASE Exec(c)
  BY <1>1 DEF Exec, remoteVars
<1>2. CASE ExecFails(c)
  BY <1>2 DEF ExecFails, remoteVars
<1>3. CASE StopInChild(c)
  BY <1>3 DEF StopInChild, KillOn, RunningOn
<1>4. CASE Connect(c)
  BY <1>4 DEF Connect
<1>5. CASE ConnectFails(c)
  BY <1>5 DEF ConnectFails, remoteVars
<1>6. CASE ConnectionBreaks(c)
  BY <1>6 DEF ConnectionBreaks
<1>7. CASE ProgramEnds(c)
  BY <1>7 DEF ProgramEnds, childVars
<1>8. CASE SshExits(c)
  BY <1>8 DEF SshExits, remoteVars
<1> QED BY <1>1, <1>2, <1>3, <1>4, <1>5, <1>6, <1>7, <1>8 DEF Child

LEMMA ChildStep == ASSUME Inv, NEW c \in Cmd, Child(c) PROVE Inv'
<1>1. UNCHANGED runnerVars
  BY DEF Child, Exec, ExecFails, StopInChild, Connect, ConnectFails, ConnectionBreaks,
         ProgramEnds, SshExits
<1>2. TypeOK' /\ Children' = Children
  BY ChildTypes
<1>3. WaitsAreCounted'
  BY <1>1, <1>2 DEF Inv, WaitsAreCounted, runnerVars
<1> QED BY <1>2, <1>3, ChildConnected DEF Inv

-----------------------------------------------------------------------------
(* Steps of the runner.                                                    *)

LEMMA ReadConfigurationStep == ASSUME Inv, ReadConfiguration PROVE Inv'
<1> USE DEF ReadConfiguration, Inv, childVars, remoteVars
<1>1. Children' = Children /\ Launched' = Launched
  BY DEF Children, Launched
<1>2. TypeOK'
  BY <1>1 DEF TypeOK, Pc
<1>3. WaitsAreCounted'
  BY <1>1 DEF WaitsAreCounted
<1> QED BY <1>2, <1>3 DEF ConnectedOrLost

LEMMA ForkStep == ASSUME Inv, NEW c \in Cmd, Fork(c) PROVE Inv'
<1> USE DEF Fork, Inv, remoteVars
<1>1. Children' = Children \union {c} /\ Launched' = Launched \union {c}
  BY DEF TypeOK, Children, Launched
<1>2. TypeOK'
  BY <1>1 DEF TypeOK, ChildState, Launched
<1>3. WaitsAreCounted'
  BY <1>1, FS_AddElement DEF WaitsAreCounted
<1>4. ConnectedOrLost'
  BY DEF TypeOK, ConnectedOrLost
<1> QED BY <1>2, <1>3, <1>4

LEMMA StopCalledStep == ASSUME Inv, StopCalled PROVE Inv'
<1> USE DEF StopCalled, Visits, Inv, childVars, remoteVars
<1>1. Children' = Children /\ Launched' = Launched
  BY DEF Children, Launched
<1>2. TypeOK'
  BY <1>1 DEF TypeOK, Pc
<1>3. WaitsAreCounted'
  BY <1>1 DEF WaitsAreCounted
<1> QED BY <1>2, <1>3 DEF ConnectedOrLost

LEMMA VisitStep == ASSUME Inv, NEW c \in Cmd, Visit(c) PROVE Inv'
<1> USE DEF Visit, Inv, childVars
<1>1. Children' = Children /\ Launched' = Launched
  BY DEF Children, Launched
<1>2. TypeOK'
  BY <1>1 DEF TypeOK, Pc, KillOn, RunningOn, LeftOn
<1>3. WaitsAreCounted'
  <2>1. IsFiniteSet(todo)
    BY FS_Subset DEF TypeOK, WaitsAreCounted
  <2>2. Cardinality(todo) \in Nat /\ Cardinality(todo') = Cardinality(todo) - 1
    BY <2>1, FS_RemoveElement, FS_CardinalityType
  <2> QED BY <1>1, <2>2 DEF WaitsAreCounted
<1>4. ConnectedOrLost'
  BY DEF ConnectedOrLost, KillOn
<1> QED BY <1>2, <1>3, <1>4

LEMMA WaitStep == ASSUME Inv, NEW c \in Cmd, Wait(c) PROVE Inv'
<1> USE DEF Wait, Exited, Inv, remoteVars
<1>1. Children' = Children \ {c} /\ Launched' = Launched
  BY DEF TypeOK, Children, Launched
<1>2. TypeOK'
  BY <1>1 DEF TypeOK, Pc, ChildState
<1>3. WaitsAreCounted'
  <2>1. IsFiniteSet(Children) /\ IsFiniteSet(todo)
    BY FS_Subset DEF TypeOK, WaitsAreCounted
  <2>2. /\ Cardinality(Children) \in Nat /\ Cardinality(todo) \in Nat
        /\ Cardinality(Children') = Cardinality(Children) - 1
    BY <1>1, <2>1, FS_RemoveElement, FS_CardinalityType
  <2> QED BY <1>1, <2>2 DEF WaitsAreCounted
<1>4. ConnectedOrLost'
  BY DEF TypeOK, ConnectedOrLost
<1> QED BY <1>2, <1>3, <1>4

(* At the end of the loop nothing is left to visit, so no child is left.   *)
LEMMA StopReturnsStep == ASSUME Inv, StopReturns PROVE Inv'
<1> USE DEF StopReturns, ForgetPids, Inv, childVars, remoteVars
<1>1. Children' = Children /\ Launched' = Launched
  BY DEF Children, Launched
<1>2. Children = {}
  BY FS_Subset, FS_EmptySet DEF WaitsAreCounted
<1>3. TypeOK'
  BY <1>1 DEF TypeOK, Pc
<1>4. WaitsAreCounted'
  BY <1>1, <1>2, FS_EmptySet DEF WaitsAreCounted
<1> QED BY <1>3, <1>4 DEF ConnectedOrLost

LEMMA NextInv == Inv /\ [Next]_vars => Inv'
<1> SUFFICES ASSUME Inv, [Next]_vars PROVE Inv'
  OBVIOUS
<1>1. CASE Runner
  BY <1>1, ReadConfigurationStep, ForkStep, StopCalledStep, VisitStep, WaitStep, StopReturnsStep
     DEF Runner, Stop
<1>2. CASE \E c \in Cmd : Child(c)
  BY <1>2, ChildStep
<1>3. CASE UNCHANGED vars
  BY <1>3 DEF vars, runnerVars, childVars, remoteVars, Inv, TypeOK, WaitsAreCounted,
              ConnectedOrLost, Children, Launched
<1> QED BY <1>1, <1>2, <1>3 DEF Next

THEOREM Invariance == Spec => []Inv
BY InitInv, NextInv, PTL DEF Spec

-----------------------------------------------------------------------------
(* The variables of the runner, its children and the programs keep their   *)
(* types, however many programs a test case starts on however many hosts.  *)
THEOREM Typing == Spec => []TypeOK
<1>1. Inv => TypeOK
  BY DEF Inv
<1> QED BY <1>1, Invariance, PTL

(* No os.wait() of stop_remote_processes() (line 185) is called without a  *)
(* child: it never raises, and the loop is never cut short.                *)
THEOREM ChildForEachWait == Spec => []AlwaysAChild
<1>1. Inv => AlwaysAChild
  <2> SUFFICES ASSUME Inv, pc = "wait", Children = {} PROVE FALSE
    BY DEF AlwaysAChild
  <2>1. IsFiniteSet(todo)
    BY FS_Subset DEF Inv, TypeOK, WaitsAreCounted
  <2> QED BY <2>1, FS_CardinalityType, FS_EmptySet DEF Inv, WaitsAreCounted
<1> QED BY <1>1, Invariance, PTL

(* A program that is not recorded any more has no ssh left, and runs only  *)
(* where its connection broke, whichever kills failed or came too early.   *)
THEOREM AllReaped == Spec => []NothingLeft
<1>1. Inv => NothingLeft
  BY DEF Inv, WaitsAreCounted, ConnectedOrLost, NothingLeft, Children, Launched
<1> QED BY <1>1, Invariance, PTL

=============================================================================
