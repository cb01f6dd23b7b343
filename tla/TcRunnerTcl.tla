---------------------------- MODULE TcRunnerTcl ----------------------------
(***************************************************************************)
(* tc-runner.tcl, run again and again on one test case, and the tc-exe.tcl *)
(* it starts over ssh.  A test case that fails ends the runner at once and *)
(* leaves its programs behind for the next run to meet.  tc-exe.tcl writes *)
(* what a program prints into the log that grep_check reads; the logs are  *)
(* on a file system all hosts share.                                       *)
(***************************************************************************)
EXTENDS Integers, Sequences, FiniteSets, TLC

CONSTANTS Cmd,             \* the calls of run_exe of the test case
          Hits,            \* the calls whose programs `pkill $prog` of a call finds
          Runs,            \* bound: how often the test case is run
          MaxCalls,        \* bound: calls of run_exe in all runs together
          MaxLines         \* bound: lines a program prints

ASSUME TclAssumption ==
    /\ Hits \in [Cmd -> SUBSET Cmd]
    /\ Runs \in Nat \ {0}
    /\ {MaxCalls, MaxLines} \subseteq Nat

Run == 1..Runs
Task == Run \X Cmd         \* a call of run_exe in one of the runs

VARIABLES
    run,                   \* the current run
    pc,                    \* where its tc-runner.tcl is
    verdict,               \* what it has printed of the test case
    pids,                  \* TCR(pids)
    todo,                  \* what the foreach of stop_all_procs has before it
    passed,                \* the hits of the last grep_check of each log
    ssh,                   \* the background ssh of each task
    exe,                   \* its tc-exe.tcl and program on the other host
    printed,               \* lines its program has printed
    piped,                 \* those tc-exe.tcl has not read yet
    file,                  \* the log of each call
    spared,                \* history: calls of this run whose program outlived its pkill
    late                   \* history: tasks begun after a newer run's call

runnerVars == <<run, pc, verdict, pids, todo, passed>>
exeVars == <<exe, printed, piped>>
histVars == <<spared, late>>
vars == <<runnerVars, ssh, exeVars, file, histVars>>

Pc == {"start", "test", "stop", "kill", "ended"}
SshState == {"none", "connecting", "connected", "gone"}
ExeState == {"none", "requested", "running", "over", "ended", "failed"}

(* A log: the runs that have opened it, and the lines each has in it.      *)
NoLines == [r \in Run |-> 0]
Log == [exists : BOOLEAN, writers : SUBSET Run, lines : [Run -> 0..MaxLines]]
NoFile == [exists |-> FALSE, writers |-> {}, lines |-> NoLines]

Init ==
    /\ run = 1
    /\ pc = "start"
    /\ verdict = "none"
    /\ pids = <<>>
    /\ todo = <<>>
    /\ passed = [c \in Cmd |-> 0]
    /\ ssh = [t \in Task |-> "none"]
    /\ exe = [t \in Task |-> "none"]
    /\ printed = [t \in Task |-> 0]
    /\ piped = [t \in Task |-> 0]
    /\ file = [c \in Cmd |-> NoFile]
    /\ spared = {}
    /\ late = {}

-----------------------------------------------------------------------------
(* tc-runner.tcl                                                           *)

(* Arguments, configuration, directory and tc.tcl are there, or it exits.  *)
Start ==
    /\ pc = "start"
    /\ pc' \in {"test", "ended"}
    /\ verdict' = IF pc' = "ended" THEN "FAILURE" ELSE "none"
    /\ UNCHANGED <<run, pids, todo, passed, ssh, exeVars, file, histVars>>

(* Slips: the old log stays; the list is set where it should be extended.  *)
KeepLog(c) == UNCHANGED file
RemoveLog(c) == file' = [file EXCEPT ![c] = NoFile]
RecordLast(c) == <<c>>
Recorded(c) == Append(pids, c)

run_exe(c) ==
    /\ pc = "test"
    /\ ssh[<<run, c>>] = "none"
    /\ Cardinality({t \in Task : ssh[t] # "none"}) < MaxCalls
    /\ RemoveLog(c)
    /\ ssh' = [ssh EXCEPT ![<<run, c>>] = "connecting"]
    /\ pids' = Recorded(c)
    /\ UNCHANGED <<run, pc, verdict, todo, passed, exeVars, histVars>>

(* Without ssh run_exe returns 1, an ordinary value to the test case.      *)
RunExeFails(c) ==
    /\ pc = "test"
    /\ ssh[<<run, c>>] = "none"
    /\ RemoveLog(c)
    /\ UNCHANGED <<runnerVars, ssh, exeVars, histVars>>

(* Every line is a hit.  No file will do only if no hit is wanted.         *)
LinesIn(log) == {l \in Run \X (1..MaxLines) : l[2] <= log.lines[l[1]]}
HitsIn(c) == Cardinality(LinesIn(file[c]))

grep_check(c, num) ==
    /\ pc = "test"
    /\ ssh[<<run, c>>] # "none"
    /\ HitsIn(c) = num
    /\ passed' = [passed EXCEPT ![c] = num]
    /\ UNCHANGED <<run, pc, verdict, pids, todo, ssh, exeVars, file, histVars>>

(* A grep_check that disagrees, or any error of the script: nothing is     *)
(* stopped.                                                                *)
TestFails ==
    /\ pc = "test"
    /\ pc' = "ended"
    /\ verdict' = "FAILURE"
    /\ UNCHANGED <<run, pids, todo, passed, ssh, exeVars, file, histVars>>

(* stop_all_procs is called by the test case and after its success.        *)
StopCalled ==
    /\ pc = "test"
    /\ pc' = "stop"
    /\ verdict' \in {"none", "SUCCESS"}
    /\ todo' = pids
    /\ UNCHANGED <<run, pids, passed, ssh, exeVars, file, histVars>>

(* The shell runs the first line of the command, pkill $prog, and refuses  *)
(* the second, `; pkill tclsh`.  ssh may fail, and what pkill finds may    *)
(* ignore the signal.                                                      *)
Pkill(c) ==
    /\ pc = "stop"
    /\ todo # <<>>
    /\ c = Head(todo)
    /\ pc' = "kill"
    /\ \E killed \in SUBSET {t \in Run \X Hits[c] : exe[t] = "running"} :
          exe' = [t \in Task |-> IF t \in killed THEN "over" ELSE exe[t]]
    /\ spared' = IF exe'[<<run, c>>] \in {"over", "ended", "failed"}
                 THEN spared ELSE spared \union {c}
    /\ UNCHANGED <<run, verdict, pids, todo, passed, ssh, printed, piped, file, late>>

KillSsh(c) ==
    /\ pc = "kill"
    /\ c = Head(todo)
    /\ pc' = "stop"
    /\ todo' = Tail(todo)
    /\ ssh' = [ssh EXCEPT ![<<run, c>>] = "gone"]
    /\ UNCHANGED <<run, verdict, pids, passed, exeVars, file, histVars>>

StopReturns ==
    /\ pc = "stop"
    /\ todo = <<>>
    /\ pc' = IF verdict = "SUCCESS" THEN "ended" ELSE "test"
    /\ pids' = <<>>
    /\ UNCHANGED <<run, verdict, todo, passed, ssh, exeVars, file, histVars>>

(* Someone runs the test case again.                                       *)
RunAgain ==
    /\ pc = "ended"
    /\ run < Runs
    /\ run' = run + 1
    /\ pc' = "start"
    /\ verdict' = "none"
    /\ pids' = <<>>
    /\ passed' = [c \in Cmd |-> 0]
    /\ spared' = {}
    /\ UNCHANGED <<todo, ssh, exeVars, file, late>>

Runner ==
    \/ Start \/ TestFails \/ StopCalled \/ StopReturns \/ RunAgain
    \/ \E c \in Cmd : run_exe(c) \/ RunExeFails(c) \/ Pkill(c) \/ KillSsh(c)
    \/ \E c \in Cmd, num \in 0..MaxLines : grep_check(c, num)

-----------------------------------------------------------------------------
(* ssh and the network                                                     *)

SendRequest(t) ==
    /\ ssh[t] = "connecting"
    /\ ssh' = [ssh EXCEPT ![t] = "connected"]
    /\ exe' = [exe EXCEPT ![t] = "requested"]
    /\ UNCHANGED <<runnerVars, printed, piped, file, histVars>>

(* It cannot connect.  An ssh that ends by itself later, its remote        *)
(* command over or its connection lost, changes nothing on the other host  *)
(* and is left for KillSsh to find gone.                                   *)
ConnectFails(t) ==
    /\ ssh[t] = "connecting"
    /\ ssh' = [ssh EXCEPT ![t] = "gone"]
    /\ UNCHANGED <<runnerVars, exeVars, file, histVars>>

-----------------------------------------------------------------------------
(* tc-exe.tcl and its program                                              *)

(* open $log "w" makes the log or empties the one there is.                *)
Opened(t) ==
    [file EXCEPT ![t[2]] = [exists |-> TRUE, lines |-> NoLines,
                            writers |-> @.writers \union {t[1]}]]

Overtaken(t) == \E r \in Run : r > t[1] /\ ssh[<<r, t[2]>>] # "none"

StartExe(t) ==
    /\ exe[t] = "requested"
    /\ exe' = [exe EXCEPT ![t] = "running"]
    /\ file' = Opened(t)
    /\ late' = IF Overtaken(t) THEN late \union {t} ELSE late
    /\ UNCHANGED <<runnerVars, ssh, printed, piped, spared>>

(* The log cannot be opened, or the program not be started.                *)
StartFails(t) ==
    /\ exe[t] = "requested"
    /\ exe' = [exe EXCEPT ![t] = "failed"]
    /\ file' \in {file, Opened(t)}
    /\ UNCHANGED <<runnerVars, ssh, printed, piped, histVars>>

PrintLine(t) ==
    /\ exe[t] = "running"
    /\ printed[t] < MaxLines
    /\ printed' = [printed EXCEPT ![t] = @ + 1]
    /\ piped' = [piped EXCEPT ![t] = @ + 1]
    /\ UNCHANGED <<runnerVars, ssh, exe, file, histVars>>

ProgramEnds(t) ==
    /\ exe[t] = "running"
    /\ exe' = [exe EXCEPT ![t] = "over"]
    /\ UNCHANGED <<runnerVars, ssh, printed, piped, file, histVars>>

(* Into a removed log nothing can be seen to be written; what others have  *)
(* written into the same log may be overwritten.                           *)
Put(t, n) ==
    LET log == file[t[2]] IN
    IF t[1] \notin log.writers THEN UNCHANGED file
    ELSE \E kept \in [Run -> 0..MaxLines] :
           /\ \A r \in Run : kept[r] <= log.lines[r]
           /\ file' = [file EXCEPT ![t[2]].lines = [kept EXCEPT ![t[1]] = log.lines[t[1]] + n]]

(* Slips: at the end nothing is written; what was read is read again; the  *)
(* end is missed on an empty read.                                         *)
TakenBeforeEof(t) == IF exe[t] = "over" THEN 0 ELSE piped[t]
TakenAgain(t) == printed[t]
Taken(t) == piped[t]
AtEofWithData(t) == exe[t] = "over" /\ piped[t] > 0
AtEof(t) == exe[t] = "over"

handleRead(t) ==
    /\ exe[t] \in {"running", "over"}
    /\ piped[t] > 0 \/ exe[t] = "over"
    /\ Put(t, Taken(t))
    /\ piped' = [piped EXCEPT ![t] = 0]
    /\ exe' = [exe EXCEPT ![t] = IF AtEof(t) THEN "ended" ELSE @]
    /\ UNCHANGED <<runnerVars, ssh, printed, histVars>>

(* read raises: the pipe is closed, which ends a program that writes on.   *)
ReadFails(t) ==
    /\ exe[t] \in {"running", "over"}
    /\ exe' = [exe EXCEPT ![t] = "failed"]
    /\ piped' = [piped EXCEPT ![t] = 0]
    /\ UNCHANGED <<runnerVars, ssh, printed, file, histVars>>

Remote(t) ==
    \/ SendRequest(t) \/ ConnectFails(t) \/ StartExe(t) \/ StartFails(t)
    \/ PrintLine(t) \/ ProgramEnds(t) \/ handleRead(t) \/ ReadFails(t)

Next == Runner \/ \E t \in Task : Remote(t)

Spec == Init /\ [][Next]_vars

(* A pipe that can be read wakes the event loop of its tc-exe.tcl.         *)
FairSpec == Spec /\ \A t \in Task : WF_vars(handleRead(t))

-----------------------------------------------------------------------------
TypeOK ==
    /\ run \in Run
    /\ pc \in Pc
    /\ verdict \in {"none", "SUCCESS", "FAILURE"}
    /\ pids \in Seq(Cmd) /\ todo \in Seq(Cmd)
    /\ passed \in [Cmd -> Nat]
    /\ ssh \in [Task -> SshState]
    /\ exe \in [Task -> ExeState]
    /\ printed \in [Task -> 0..MaxLines]
    /\ piped \in [Task -> 0..MaxLines]
    /\ file \in [Cmd -> Log]
    /\ spared \subseteq Cmd /\ late \subseteq Task

(* A test case that succeeds ends with every ssh it started gone, and of   *)
(* its programs only those go on that outlived their own pkill: begun      *)
(* after it, missed by it, or not ended by it.                             *)
LeftOnlyIfSpared ==
    pc = "ended" /\ verdict = "SUCCESS" =>
        \A c \in Cmd :
            /\ ssh[<<run, c>>] \in {"none", "gone"}
            /\ exe[<<run, c>>] \in {"requested", "running"} => c \in spared

(* A grep_check that passes has counted lines of this run only, although   *)
(* the programs of failed runs still write: their logs were removed under  *)
(* them.  Only a tc-exe.tcl that begins after the newer call can spoil it. *)
CountsOwnLines ==
    \A c \in Cmd :
        (\A r \in Run : <<r, c>> \notin late) => passed[c] <= printed[<<run, c>>]

(* A tc-exe.tcl that has ended, and was the only one to write its log, has *)
(* written every line its program printed: the last are not lost at eof.   *)
LogComplete ==
    \A t \in Task :
        exe[t] = "ended" /\ file[t[2]].writers = {t[1]}
            => file[t[2]].lines[t[1]] = printed[t]

(* pkill tclsh never runs and a kill of ssh does not reach tc-exe.tcl, but *)
(* the end of its program ends it.                                         *)
TcExeEnds ==
    \A t \in Task : exe[t] = "over" ~> exe[t] \in {"ended", "failed"}

-----------------------------------------------------------------------------
(* What makes these inductive.  A line is in the pipe or in the log, once; *)
(* a program is started by an ssh, once; and every ssh and program of this *)
(* run is in the list that is being worked off, or has been dealt with.    *)
LinesInOrder == \A t \in Task :
    /\ file[t[2]].lines[t[1]] + piped[t] <= printed[t]
    /\ exe[t] \in {"none", "requested"} => printed[t] = 0
    /\ exe[t] = "ended" => piped[t] = 0
    /\ exe[t] \in {"running", "over", "ended"} /\ file[t[2]].writers = {t[1]}
          => file[t[2]].lines[t[1]] + piped[t] = printed[t]

StartedOnce == \A t \in Task :
    /\ ssh[t] \in {"none", "connecting"} => exe[t] = "none"
    /\ t[1] > run \/ (t[1] = run /\ pc = "start") => ssh[t] = "none"

Pending == IF pc \in {"stop", "kill"} THEN todo ELSE pids
Listed(c) == \E i \in 1..Len(Pending) : Pending[i] = c
Over == {"over", "ended", "failed"}

StopsAll ==
    /\ pc = "start" => pids = <<>>
    /\ pc = "ended" /\ verdict = "SUCCESS" => pids = <<>>
    /\ pc = "test" => verdict # "SUCCESS"
    /\ pc = "kill" => todo # <<>> /\ (exe[<<run, Head(todo)>>] \in Over \/ Head(todo) \in spared)
    /\ pc # "ended" \/ verdict = "SUCCESS" =>
          \A c \in Cmd :
             /\ ssh[<<run, c>>] \in {"connecting", "connected"} => Listed(c)
             /\ exe[<<run, c>>] \in {"requested", "running"} => Listed(c) \/ c \in spared

Inv == TypeOK /\ LinesInOrder /\ StartedOnce /\ StopsAll

(* And what keeps the lines of failed runs out of a log: run_exe makes it  *)
(* a new one, no writer of which is an older tc-exe.tcl that still writes. *)
(* Only calls of this run are in the list stop_all_procs works off.        *)
ListedStarted == \A i \in 1..Len(Pending) : ssh[<<run, Pending[i]>>] # "none"

Stale(r, c) == /\ r \in file[c].writers
               /\ exe[<<r, c>>] \in {"running", "over"}
OwnLog(c) ==
    (\A r \in Run : <<r, c>> \notin late) /\ ssh[<<run, c>>] # "none" =>
        \A r \in Run \ {run} : file[c].lines[r] = 0 /\ ~Stale(r, c)

LogsInv ==
    /\ ListedStarted
    /\ \A c \in Cmd : OwnLog(c)
    /\ CountsOwnLines

=============================================================================
