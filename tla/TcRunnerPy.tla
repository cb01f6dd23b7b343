----------------------------- MODULE TcRunnerPy -----------------------------
(***************************************************************************)
(* tc-runner.py: the runner of Python test cases.  A test case starts      *)
(* programs on other hosts; for each the runner forks a child that becomes *)
(* ssh and lets tc-remote.py run the program there.  stop_remote_processes *)
(* visits the recorded children in the order of a dict: it has             *)
(* tc-kill-remote.py kill every tc-remote.py of the child's host, ignores  *)
(* whether that worked, and waits for some child, not for the visited one. *)
(***************************************************************************)
EXTENDS Integers, FiniteSets

CONSTANTS Cmd,             \* the calls of run_remote() of a test case
          Host,            \* the hosts of tc-runner.cfg
          HostOf           \* the host each call names

ASSUME TcRunnerAssumption == HostOf \in [Cmd -> Host]

VARIABLES
    pc,                    \* where tc-runner.py is
    verdict,               \* what it prints about the test case
    pids,                  \* self.pids, each child named by its call
    todo,                  \* the keys of pids the loop has not visited
    child,                 \* the forked process of each call
    inherited,             \* the copy of self.pids in the forked process
    remote,                \* the tc-remote.py of each call and its program
    lost,                  \* history: calls whose ssh ended before its program
    missed                 \* history: calls the visits of a stop left behind

runnerVars == <<pc, verdict, pids, todo, missed>>
childVars == <<child, inherited>>
remoteVars == <<remote, lost>>
vars == <<runnerVars, childVars, remoteVars>>

Pc == {"config", "test", "kill", "wait", "ended"}
ChildState == {"none", "forked", "connecting", "connected", "finally", "exited", "reaped"}

Launched == {c \in Cmd : child[c] # "none"}
Children == {c \in Launched : child[c] # "reaped"}
RunningOn(h) == {c \in Cmd : HostOf[c] = h /\ remote[c] = "running"}

Init ==
    /\ pc = "config"
    /\ verdict = "none"
    /\ pids = {}
    /\ todo = {}
    /\ child = [c \in Cmd |-> "none"]
    /\ inherited = [c \in Cmd |-> {}]
    /\ remote = [c \in Cmd |-> "none"]
    /\ lost = {}
    /\ missed = {}

-----------------------------------------------------------------------------
(* The runner.  Without a configuration tc_runner is not bound and both    *)
(* the except and the finally clause end in a NameError.                   *)

ReadConfiguration ==
    /\ pc = "config"
    /\ pc' \in {"test", "ended"}
    /\ UNCHANGED <<verdict, pids, todo, missed, childVars, remoteVars>>

Fork(c) ==
    /\ pc = "test"
    /\ child[c] = "none"
    /\ child' = [child EXCEPT ![c] = "forked"]
    /\ inherited' = [inherited EXCEPT ![c] = pids]
    /\ pids' = pids \union {c}
    /\ UNCHANGED <<pc, verdict, todo, missed, remoteVars>>

(* Slips: a visit for each host, or for all that was ever launched.        *)
OnePerHost == {CHOOSE c \in pids : HostOf[c] = h : h \in {HostOf[c] : c \in pids}}
EverLaunched == Launched
Visits == pids

(* The test case stops the programs itself, comes to its end or raises an  *)
(* exception, as assert_log() does; the finally clause stops them as well. *)
StopCalled ==
    /\ pc = "test"
    /\ verdict' \in {"none", "OK", "FAILED"}
    /\ todo' = Visits
    /\ pc' = IF pids # {} THEN "kill" ELSE IF verdict' = "none" THEN "test" ELSE "ended"
    /\ UNCHANGED <<pids, missed, childVars, remoteVars>>

(* tc-kill-remote.py kills in the order of ps and itself, too, since its   *)
(* command line has "python" and "tc-remote.py": what comes later in the   *)
(* list goes on running, as does everything if ssh fails.                  *)
KillOn(h, killed) ==
    /\ killed \subseteq RunningOn(h)
    /\ remote' = [c \in Cmd |-> IF c \in killed THEN "ended" ELSE remote[c]]

LeftOn(h, killed) ==
    {c \in Cmd : /\ HostOf[c] = h
                 /\ \/ child[c] \in {"forked", "connecting"}
                    \/ child[c] = "connected" /\ remote[c] = "running" /\ c \notin killed}

Visit(c) ==
    /\ pc = "kill"
    /\ c \in todo
    /\ \E killed \in SUBSET RunningOn(HostOf[c]) :
          /\ KillOn(HostOf[c], killed)
          /\ missed' = missed \union LeftOn(HostOf[c], killed)
    /\ todo' = todo \ {c}
    /\ pc' = "wait"
    /\ UNCHANGED <<verdict, pids, childVars, lost>>

(* Slip: the next visit waits for all children instead of any.             *)
AllExited(c) == \A d \in Children : child[d] = "exited"
Exited(c) == child[c] = "exited"

(* os.wait() gives any child that has ended.                               *)
Wait(c) ==
    /\ pc = "wait"
    /\ c \in Children /\ Exited(c)
    /\ child' = [child EXCEPT ![c] = "reaped"]
    /\ pc' = "kill"
    /\ UNCHANGED <<verdict, pids, todo, missed, inherited, remoteVars>>

(* Slip: the pids stay for the next stop.                                  *)
KeepPids == pids
ForgetPids == {}

StopReturns ==
    /\ pc = "kill"
    /\ todo = {}
    /\ pids' = ForgetPids
    /\ missed' = {}
    /\ pc' = IF verdict = "none" THEN "test" ELSE "ended"
    /\ UNCHANGED <<verdict, todo, childVars, remoteVars>>

Stop == \E c \in Cmd : Visit(c) \/ Wait(c)

Runner == ReadConfiguration \/ StopCalled \/ StopReturns \/ Stop \/ \E c \in Cmd : Fork(c)

-----------------------------------------------------------------------------
(* The forked process.  If execv() fails, the exception passes through the *)
(* test case and main of the child, whose finally clause has the pids of   *)
(* the moment of the fork: the child kills the programs of one of them,    *)
(* and its own os.wait() fails, for it has no children.                    *)

Exec(c) ==
    /\ child[c] = "forked"
    /\ child' = [child EXCEPT ![c] = "connecting"]
    /\ inherited' = [inherited EXCEPT ![c] = {}]
    /\ UNCHANGED <<runnerVars, remoteVars>>

ExecFails(c) ==
    /\ child[c] = "forked"
    /\ child' = [child EXCEPT ![c] = IF inherited[c] = {} THEN "exited" ELSE "finally"]
    /\ UNCHANGED <<runnerVars, inherited, remoteVars>>

StopInChild(c) ==
    /\ child[c] = "finally"
    /\ \E d \in inherited[c] : \E killed \in SUBSET RunningOn(HostOf[d]) :
          KillOn(HostOf[d], killed)
    /\ child' = [child EXCEPT ![c] = "exited"]
    /\ inherited' = [inherited EXCEPT ![c] = {}]
    /\ UNCHANGED <<runnerVars, lost>>

-----------------------------------------------------------------------------
(* ssh and tc-remote.py: ssh starts tc-remote.py and ends with it, unless  *)
(* it does not get there or the connection breaks.                         *)

Connect(c) ==
    /\ child[c] = "connecting"
    /\ child' = [child EXCEPT ![c] = "connected"]
    /\ remote' = [remote EXCEPT ![c] = "running"]
    /\ UNCHANGED <<runnerVars, inherited, lost>>

ConnectFails(c) ==
    /\ child[c] = "connecting"
    /\ child' = [child EXCEPT ![c] = "exited"]
    /\ UNCHANGED <<runnerVars, inherited, remoteVars>>

ConnectionBreaks(c) ==
    /\ child[c] = "connected"
    /\ remote[c] = "running"
    /\ child' = [child EXCEPT ![c] = "exited"]
    /\ lost' = lost \union {c}
    /\ UNCHANGED <<runnerVars, inherited, remote>>

ProgramEnds(c) ==
    /\ remote[c] = "running"
    /\ remote' = [remote EXCEPT ![c] = "ended"]
    /\ UNCHANGED <<runnerVars, childVars, lost>>

SshExits(c) ==
    /\ child[c] = "connected"
    /\ remote[c] = "ended"
    /\ child' = [child EXCEPT ![c] = "exited"]
    /\ UNCHANGED <<runnerVars, inherited, remoteVars>>

Child(c) ==
    \/ Exec(c) \/ ExecFails(c) \/ StopInChild(c)
    \/ Connect(c) \/ ConnectFails(c) \/ ConnectionBreaks(c)
    \/ ProgramEnds(c) \/ SshExits(c)

Next == Runner \/ \E c \in Cmd : Child(c)

Spec == Init /\ [][Next]_vars

(* The runner and its children are scheduled, a kill over ssh comes to an  *)
(* end one way or the other, and ssh ends after tc-remote.py has.  A       *)
(* program need never end, nor a test case call stop, nor ssh connect.     *)
Fairness ==
    /\ WF_vars(Stop)
    /\ WF_vars(StopReturns)
    /\ \A c \in Cmd : WF_vars(SshExits(c)) /\ WF_vars(StopInChild(c))

FairSpec == Spec /\ Fairness

-----------------------------------------------------------------------------
TypeOK ==
    /\ pc \in Pc
    /\ verdict \in {"none", "OK", "FAILED"}
    /\ pids \subseteq Launched
    /\ todo \subseteq pids
    /\ child \in [Cmd -> ChildState]
    /\ inherited \in [Cmd -> SUBSET Cmd]
    /\ remote \in [Cmd -> {"none", "running", "ended"}]
    /\ lost \subseteq Cmd
    /\ missed \subseteq Cmd

(* Each visit of stop_remote_processes() reaps one child, whichever it is: *)
(* there is a child for each os.wait(), which so never raises.             *)
AlwaysAChild == pc = "wait" => Children # {}

(* A stop that has returned leaves no ssh of its programs and no program,  *)
(* except where a connection broke: whatever kills failed or came before   *)
(* the program, and in whatever order the children were reaped.            *)
NothingLeft == \A c \in Launched \ pids :
    child[c] = "reaped" /\ (remote[c] = "running" => c \in lost)

(* stop_remote_processes() comes back if its kills missed nothing that     *)
(* ran or was still to run on their hosts: with os.wait() giving any child,*)
(* each wait has a child whose program a visit before it has killed.       *)
StopComesBack == (pc \in {"kill", "wait"}) ~> (pc \in {"test", "ended"} \/ missed # {})

-----------------------------------------------------------------------------
(* What makes these invariants inductive: outside a stop the children are  *)
(* those recorded, in it there is one for each os.wait() still to come,    *)
(* and a program runs under its ssh or without any.                        *)
WaitsAreCounted ==
    /\ IsFiniteSet(pids)
    /\ Children \subseteq pids
    /\ pc \notin {"kill", "wait"} => Children = pids
    /\ pc = "kill" => Cardinality(Children) = Cardinality(todo)
    /\ pc = "wait" => Cardinality(Children) = Cardinality(todo) + 1

ConnectedOrLost == \A c \in Cmd : remote[c] = "running" => child[c] = "connected" \/ c \in lost

Inv == TypeOK /\ WaitsAreCounted /\ ConnectedOrLost

=============================================================================
