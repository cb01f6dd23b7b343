------------------------- MODULE TcRunnerTclProofs -------------------------
(***************************************************************************)
(* Proofs about tc-runner.tcl and tc-exe.tcl, for any calls and programs,  *)
(* any number of runs and any lines: what a successful test case leaves    *)
(* behind, that a log is complete when its tc-exe.tcl has ended, and that  *)
(* a grep_check counts the lines of its own run only.                      *)
(***************************************************************************)
EXTENDS TcRunnerTcl, FiniteSetTheorems, TLAPS

USE TclAssumption

LEMMA LinesAreNatural == MaxLines \in Nat
OBVIOUS

-----------------------------------------------------------------------------
LEMMA RunsAreNumbers == Run \subseteq Nat /\ 1 \in Run
BY DEF Run

LEMMA TaskIsPair ==
    /\ \A t \in Task : t[1] \in Run /\ t[2] \in Cmd /\ t = <<t[1], t[2]>>
    /\ \A r \in Run, c \in Cmd : <<r, c>> \in Task
BY DEF Task

(* What is in a list when something is appended, or its head is taken off. *)
LEMMA Appended ==
    ASSUME NEW q \in Seq(Cmd), NEW c \in Cmd
    PROVE  /\ Append(q, c) \in Seq(Cmd)
           /\ \E i \in 1..Len(Append(q, c)) : Append(q, c)[i] = c
           /\ \A i \in 1..Len(q) : i \in 1..Len(Append(q, c)) /\ Append(q, c)[i] = q[i]
<1>1. Len(q) + 1 \in 1..Len(Append(q, c)) /\ Append(q, c)[Len(q) + 1] = c
  OBVIOUS
<1> QED BY <1>1

LEMMA TakenOff ==
    ASSUME NEW q \in Seq(Cmd), q # <<>>
    PROVE  /\ Head(q) \in Cmd /\ Tail(q) \in Seq(Cmd)
           /\ \A i \in 1..Len(q) :
                 q[i] = Head(q) \/ \E j \in 1..Len(Tail(q)) : Tail(q)[j] = q[i]
<1>1. Head(q) \in Cmd /\ Tail(q) \in Seq(Cmd) /\ Len(Tail(q)) = Len(q) - 1 /\ Head(q) = q[1]
  OBVIOUS
<1>2. ASSUME NEW i \in 1..Len(q), i # 1
      PROVE  i - 1 \in 1..Len(Tail(q)) /\ Tail(q)[i - 1] = q[i]
  BY <1>1, <1>2
<1> QED BY <1>1, <1>2

LEMMA EmptyIsNatural == NoLines \in [Run -> 0..MaxLines] /\ NoFile \in Log
BY LinesAreNatural DEF NoLines, NoFile, Log

-----------------------------------------------------------------------------
LEMMA InitInv == ASSUME Init PROVE Inv
<1>1. TypeOK
  BY RunsAreNumbers, EmptyIsNatural, LinesAreNatural
  DEF Init, TypeOK, Pc, SshState, ExeState
<1>2. LinesInOrder
  BY TaskIsPair DEF Init, LinesInOrder, NoFile, NoLines
<1>3. StartedOnce
  BY DEF Init, StartedOnce
<1>4. StopsAll
  BY TaskIsPair, RunsAreNumbers DEF Init, StopsAll
<1> QED BY <1>1, <1>2, <1>3, <1>4 DEF Inv

-----------------------------------------------------------------------------
(* Steps of the runner alone: ssh, programs and logs stay as they are.     *)

LEMMA LinesStay ==
    ASSUME LinesInOrder, UNCHANGED <<exeVars, file>> PROVE LinesInOrder'
BY DEF LinesInOrder, exeVars

LEMMA StartKeeps == ASSUME Inv, Start PROVE Inv'
<1> USE DEF Inv
<1>1. TypeOK'
  BY DEF Start, TypeOK, Pc, exeVars, histVars
<1>2. LinesInOrder'
  BY LinesStay DEF Start
<1>3. StartedOnce'
  BY DEF Start, StartedOnce, exeVars
<1>4. StopsAll'
  <2>1. \A c \in Cmd : ssh[<<run, c>>] = "none" /\ exe[<<run, c>>] = "none"
    BY TaskIsPair DEF Start, StartedOnce, TypeOK
  <2> QED BY <2>1 DEF Start, StopsAll, exeVars
<1> QED BY <1>1, <1>2, <1>3, <1>4

LEMMA TestFailsKeeps == ASSUME Inv, TestFails PROVE Inv'
<1> USE DEF Inv
<1>1. TypeOK'
  BY DEF TestFails, TypeOK, Pc, exeVars, histVars
<1>2. LinesInOrder'
  BY LinesStay DEF TestFails
<1>3. StartedOnce'
  BY DEF TestFails, StartedOnce, exeVars
<1> QED BY <1>1, <1>2, <1>3 DEF TestFails, StopsAll

LEMMA GrepKeeps ==
    ASSUME Inv, NEW c \in Cmd, NEW num \in 0..MaxLines, grep_check(c, num) PROVE Inv'
<1> USE DEF Inv
<1>1. /\ UNCHANGED <<run, pc, verdict, pids, todo, ssh, exeVars, file, histVars>>
      /\ passed' = [passed EXCEPT ![c] = num]
  BY DEF grep_check
<1>2. TypeOK'
  BY <1>1, LinesAreNatural DEF TypeOK, exeVars, histVars
<1>3. LinesInOrder'
  BY <1>1, LinesStay
<1>4. StartedOnce'
  BY <1>1 DEF StartedOnce, exeVars
<1>5. StopsAll'
  BY <1>1 DEF StopsAll, Listed, Pending, exeVars, histVars
<1> QED BY <1>2, <1>3, <1>4, <1>5

(* The list to be worked off is TCR(pids), with nothing left out.          *)
LEMMA StopCalledKeeps == ASSUME Inv, StopCalled PROVE Inv'
<1> USE DEF Inv
<1>1. /\ UNCHANGED <<run, pids, passed, ssh, exeVars, file, histVars>>
      /\ pc = "test" /\ pc' = "stop" /\ todo' = pids /\ verdict' \in {"none", "SUCCESS"}
  BY DEF StopCalled
<1>2. TypeOK'
  BY <1>1 DEF TypeOK, Pc, exeVars, histVars
<1>3. LinesInOrder'
  BY <1>1, LinesStay
<1>4. StartedOnce'
  BY <1>1 DEF StartedOnce, exeVars
<1>5. StopsAll'
  BY <1>1 DEF StopsAll, Listed, Pending, exeVars, histVars
<1> QED BY <1>2, <1>3, <1>4, <1>5

(* With the list worked off nothing is pending any more.                   *)
LEMMA StopReturnsKeeps == ASSUME Inv, StopReturns PROVE Inv'
<1> USE DEF Inv
<1>1. /\ UNCHANGED <<run, verdict, todo, passed, ssh, exeVars, file, histVars>>
      /\ pc = "stop" /\ todo = <<>> /\ pids' = <<>>
      /\ pc' = IF verdict = "SUCCESS" THEN "ended" ELSE "test"
  BY DEF StopReturns
<1>2. TypeOK'
  BY <1>1 DEF TypeOK, Pc, exeVars, histVars
<1>3. LinesInOrder'
  BY <1>1, LinesStay
<1>4. StartedOnce'
  BY <1>1 DEF StartedOnce, exeVars
<1>5. StopsAll'
  <2>1. \A c \in Cmd : ~Listed(c)
    BY <1>1 DEF Listed, Pending
  <2> QED BY <1>1, <2>1 DEF StopsAll, exeVars, histVars
<1> QED BY <1>2, <1>3, <1>4, <1>5

LEMMA RunAgainKeeps == ASSUME Inv, RunAgain PROVE Inv'
<1> USE DEF Inv
<1>1. /\ UNCHANGED <<todo, ssh, exeVars, file, late>>
      /\ run < Runs /\ run' = run + 1 /\ pc' = "start" /\ verdict' = "none"
      /\ pids' = <<>> /\ passed' = [c \in Cmd |-> 0] /\ spared' = {}
  BY DEF RunAgain
<1>2. run \in Nat /\ run' \in Run /\ run' > run
  BY <1>1 DEF TypeOK, Run
<1>3. TypeOK'
  BY <1>1, <1>2 DEF TypeOK, Pc, exeVars
<1>4. LinesInOrder'
  BY <1>1, LinesStay
<1>5. StartedOnce'
  BY <1>1, <1>2, TaskIsPair, RunsAreNumbers DEF StartedOnce, exeVars
<1>6. StopsAll'
  <2>1. \A c \in Cmd : ssh[<<run', c>>] = "none" /\ exe[<<run', c>>] = "none"
    BY <1>2, TaskIsPair DEF StartedOnce
  <2> QED BY <1>1, <2>1 DEF StopsAll, exeVars
<1> QED BY <1>3, <1>4, <1>5, <1>6

-----------------------------------------------------------------------------
(* Steps of the runner that reach programs, their ssh or their logs.       *)

(* A removed log has no writer, so nothing is claimed to be complete.      *)
LEMMA RemoveLogKeeps ==
    ASSUME TypeOK, LinesInOrder, NEW c \in Cmd, RemoveLog(c), UNCHANGED exeVars
    PROVE  file' \in [Cmd -> Log] /\ LinesInOrder'
<1>1. file' = [file EXCEPT ![c] = NoFile] /\ file \in [Cmd -> Log]
  BY DEF RemoveLog, TypeOK
<1>2. file' \in [Cmd -> Log]
  BY <1>1, EmptyIsNatural
<1>3. ASSUME NEW t \in Task
      PROVE  /\ file'[t[2]] = file[t[2]] \/ file'[t[2]] = NoFile
             /\ NoFile.writers # {t[1]} /\ NoFile.lines[t[1]] = 0
             /\ file[t[2]].lines[t[1]] \in Nat /\ piped[t] \in Nat /\ printed[t] \in Nat
  <2>1. t[1] \in Run /\ t[2] \in Cmd
    BY TaskIsPair
  <2>2. file[t[2]].lines \in [Run -> 0..MaxLines]
    BY <1>1, <2>1 DEF Log
  <2>3. file'[t[2]] = file[t[2]] \/ file'[t[2]] = NoFile
    BY <1>1, <2>1
  <2>4. NoFile.writers = {} /\ NoFile.lines = NoLines /\ NoLines[t[1]] = 0
    BY <2>1 DEF NoFile, NoLines
  <2>5. {} # {t[1]}
    OBVIOUS
  <2>6. file[t[2]].lines[t[1]] \in Nat /\ piped[t] \in Nat /\ printed[t] \in Nat
    BY <2>1, <2>2, LinesAreNatural DEF TypeOK
  <2> QED BY <2>3, <2>4, <2>5, <2>6
<1>4. LinesInOrder'
  BY <1>3 DEF LinesInOrder, exeVars
<1> QED BY <1>2, <1>4

LEMMA RunExeFailsKeeps == ASSUME Inv, NEW c \in Cmd, RunExeFails(c) PROVE Inv'
<1> USE DEF Inv
<1>1. RemoveLog(c) /\ UNCHANGED <<runnerVars, ssh, exeVars, histVars>>
  BY DEF RunExeFails
<1>2. file' \in [Cmd -> Log] /\ LinesInOrder'
  BY <1>1, RemoveLogKeeps
<1>3. TypeOK'
  BY <1>1, <1>2 DEF TypeOK, runnerVars, exeVars, histVars
<1>4. StartedOnce' /\ StopsAll'
  BY <1>1 DEF StartedOnce, StopsAll, Listed, Pending, runnerVars, exeVars, histVars
<1> QED BY <1>2, <1>3, <1>4

(* What is started is in TCR(pids) from then on.                           *)
LEMMA RunExeKeeps == ASSUME Inv, NEW c \in Cmd, run_exe(c) PROVE Inv'
<1> USE DEF Inv
<1>1. /\ UNCHANGED <<run, pc, verdict, todo, passed, exeVars, histVars>>
      /\ pc = "test" /\ RemoveLog(c) /\ pids' = Append(pids, c)
      /\ ssh' = [ssh EXCEPT ![<<run, c>>] = "connecting"] /\ ssh[<<run, c>>] = "none"
  BY DEF run_exe, Recorded
<1>2. <<run, c>> \in Task /\ pids \in Seq(Cmd) /\ ssh \in [Task -> SshState] /\ run \in Run
  BY TaskIsPair DEF TypeOK
<1>3. file' \in [Cmd -> Log] /\ LinesInOrder'
  BY <1>1, RemoveLogKeeps
<1>4. TypeOK'
  BY <1>1, <1>2, <1>3, Appended DEF TypeOK, SshState, exeVars, histVars
<1>5. StartedOnce'
  <2>1. <<run, c>>[1] = run
    OBVIOUS
  <2>2. run \in Nat /\ ~(run > run)
    BY <1>2, RunsAreNumbers
  <2> QED BY <1>1, <1>2, <2>1, <2>2 DEF StartedOnce, exeVars
<1>6. StopsAll'
  <2>1. ASSUME NEW d \in Cmd
        PROVE  (Listed(d) => Listed(d)') /\ (d = c => Listed(d)')
    <3>1. pids' = Append(pids, c) /\ Pending = pids /\ Pending' = pids'
      BY <1>1 DEF Pending
    <3>2. Listed(d) => Listed(d)'
      <4>1. ASSUME NEW i \in 1..Len(pids), pids[i] = d PROVE Listed(d)'
        BY <1>2, <3>1, <4>1, Appended DEF Listed
      <4> QED BY <3>1, <4>1 DEF Listed
    <3>3. Listed(c)'
      BY <1>2, <3>1, Appended DEF Listed
    <3> QED BY <3>2, <3>3
  <2>2. \A d \in Cmd : d # c => ssh'[<<run, d>>] = ssh[<<run, d>>]
    BY <1>1, <1>2, TaskIsPair
  <2> QED BY <1>1, <2>1, <2>2 DEF StopsAll, exeVars, histVars
<1> QED BY <1>3, <1>4, <1>5, <1>6

(* A program that is over is left alone; another one is over, or spared.   *)
LEMMA PkillKeeps == ASSUME Inv, NEW c \in Cmd, Pkill(c) PROVE Inv'
<1> USE DEF Inv
<1>1. /\ UNCHANGED <<run, verdict, pids, todo, passed, ssh, printed, piped, file, late>>
      /\ pc = "stop" /\ pc' = "kill" /\ todo # <<>> /\ c = Head(todo)
      /\ spared' = IF exe'[<<run, c>>] \in {"over", "ended", "failed"}
                   THEN spared ELSE spared \union {c}
  BY DEF Pkill
<1>2. PICK killed \in SUBSET {t \in Run \X Hits[c] : exe[t] = "running"} :
          exe' = [t \in Task |-> IF t \in killed THEN "over" ELSE exe[t]]
  BY DEF Pkill
<1>3. \A t \in Task : exe'[t] = exe[t] \/ (exe[t] = "running" /\ exe'[t] = "over")
  BY <1>2
<1>4. TypeOK'
  <2>1. exe' \in [Task -> ExeState]
    BY <1>2, <1>3 DEF TypeOK, ExeState
  <2> QED BY <1>1, <2>1 DEF TypeOK, Pc
<1>5. LinesInOrder'
  BY <1>1, <1>3 DEF LinesInOrder
<1>6. StartedOnce'
  BY <1>1, <1>3 DEF StartedOnce
<1>7. StopsAll'
  <2>1. \A d \in Cmd : <<run, d>> \in Task
    BY TaskIsPair DEF TypeOK
  <2>2. \A d \in Cmd : Listed(d) => Listed(d)'
    BY <1>1 DEF Listed, Pending
  <2>3. \A d \in Cmd : exe'[<<run, d>>] \in {"requested", "running"}
                          => exe[<<run, d>>] \in {"requested", "running"}
    BY <1>3, <2>1
  <2>4. spared \subseteq spared' /\ (exe'[<<run, c>>] \in Over \/ c \in spared')
    BY <1>1 DEF Over
  <2> QED BY <1>1, <2>2, <2>3, <2>4 DEF StopsAll
<1> QED BY <1>4, <1>5, <1>6, <1>7

LEMMA KillSshKeeps == ASSUME Inv, NEW c \in Cmd, KillSsh(c) PROVE Inv'
<1> USE DEF Inv
<1>1. /\ UNCHANGED <<run, verdict, pids, passed, exeVars, file, histVars>>
      /\ pc = "kill" /\ pc' = "stop" /\ c = Head(todo) /\ todo' = Tail(todo)
      /\ ssh' = [ssh EXCEPT ![<<run, c>>] = "gone"]
  BY DEF KillSsh
<1>2. todo # <<>> /\ todo \in Seq(Cmd) /\ (exe[<<run, c>>] \in Over \/ c \in spared)
  BY <1>1 DEF StopsAll, TypeOK
<1>3. <<run, c>> \in Task /\ ssh \in [Task -> SshState] /\ run \in Run
  BY TaskIsPair DEF TypeOK
<1>4. TypeOK'
  BY <1>1, <1>2, <1>3, TakenOff DEF TypeOK, Pc, SshState, exeVars, histVars
<1>5. LinesInOrder'
  BY <1>1, LinesStay
<1>6. StartedOnce'
  <2>1. <<run, c>>[1] = run /\ run \in Nat /\ ~(run > run)
    BY <1>3, RunsAreNumbers
  <2> QED BY <1>1, <1>3, <2>1 DEF StartedOnce, exeVars
<1>7. StopsAll'
  <2>1. ASSUME NEW d \in Cmd, Listed(d), d # c PROVE Listed(d)'
    <3>1. Pending = todo /\ Pending' = Tail(todo)
      BY <1>1 DEF Pending
    <3>2. PICK i \in 1..Len(todo) : todo[i] = d
      BY <2>1, <3>1 DEF Listed
    <3>3. PICK j \in 1..Len(Tail(todo)) : Tail(todo)[j] = d
      BY <1>1, <1>2, <2>1, <3>2, TakenOff
    <3> QED BY <3>1, <3>3 DEF Listed
  <2>2. \A d \in Cmd : d # c => ssh'[<<run, d>>] = ssh[<<run, d>>]
    BY <1>1, <1>3, TaskIsPair
  <2>3. ssh'[<<run, c>>] = "gone"
    BY <1>1, <1>3
  <2> QED BY <1>1, <1>2, <2>1, <2>2, <2>3 DEF StopsAll, Over, exeVars, histVars
<1> QED BY <1>4, <1>5, <1>6, <1>7

-----------------------------------------------------------------------------
(* Steps of ssh, of tc-exe.tcl and of its program.                         *)

LEMMA ListStays ==
    ASSUME StopsAll, UNCHANGED <<runnerVars, spared>>,
           \A t \in Task : ssh'[t] \in {"connecting", "connected"}
                              => ssh[t] \in {"connecting", "connected"},
           \A t \in Task : exe'[t] \in {"requested", "running"}
                              => \/ exe[t] \in {"requested", "running"}
                                 \/ ssh[t] \in {"connecting", "connected"},
           \A t \in Task : exe[t] \in Over => exe'[t] \in Over,
           TypeOK
    PROVE  StopsAll'
<1>1. \A c \in Cmd : <<run, c>> \in Task
  BY TaskIsPair DEF TypeOK
<1>2. \A c \in Cmd : Listed(c)' <=> Listed(c)
  BY DEF Listed, Pending, runnerVars
<1>3. pc = "kill" => Head(todo) \in Cmd
  BY TakenOff DEF TypeOK, StopsAll
<1> QED BY <1>1, <1>2, <1>3 DEF StopsAll, runnerVars

(* Nothing of a task is printed before its program has been started.       *)
LEMMA SendRequestKeeps == ASSUME Inv, NEW t \in Task, SendRequest(t) PROVE Inv'
<1> USE DEF Inv
<1>1. /\ UNCHANGED <<runnerVars, printed, piped, file, histVars>>
      /\ ssh[t] = "connecting" /\ exe[t] = "none"
      /\ ssh' = [ssh EXCEPT ![t] = "connected"] /\ exe' = [exe EXCEPT ![t] = "requested"]
  BY DEF SendRequest, StartedOnce
<1>2. TypeOK'
  BY <1>1 DEF TypeOK, SshState, ExeState, runnerVars, histVars
<1>3. \A u \in Task : /\ u # t => ssh'[u] = ssh[u] /\ exe'[u] = exe[u]
                      /\ ssh'[t] = "connected" /\ exe'[t] = "requested"
  BY <1>1 DEF TypeOK
<1>4. LinesInOrder'
  BY <1>1, <1>3 DEF LinesInOrder
<1>5. StartedOnce'
  BY <1>1, <1>3 DEF StartedOnce, runnerVars
<1>6. StopsAll'
  BY <1>1, <1>3, ListStays DEF Over, histVars
<1> QED BY <1>2, <1>4, <1>5, <1>6

LEMMA ConnectFailsKeeps == ASSUME Inv, NEW t \in Task, ConnectFails(t) PROVE Inv'
<1> USE DEF Inv
<1>1. /\ UNCHANGED <<runnerVars, exeVars, file, histVars>>
      /\ ssh[t] = "connecting" /\ ssh' = [ssh EXCEPT ![t] = "gone"]
  BY DEF ConnectFails
<1>2. TypeOK'
  BY <1>1 DEF TypeOK, SshState, runnerVars, exeVars, histVars
<1>3. \A u \in Task : (u # t => ssh'[u] = ssh[u]) /\ ssh'[t] = "gone"
  BY <1>1 DEF TypeOK
<1>4. LinesInOrder'
  BY <1>1, LinesStay
<1>5. StartedOnce'
  BY <1>1, <1>3 DEF StartedOnce, runnerVars, exeVars
<1>6. StopsAll'
  BY <1>1, <1>3, ListStays DEF Over, exeVars, histVars
<1> QED BY <1>2, <1>4, <1>5, <1>6

(* The steps of a task that go on from where SendRequest has left it.      *)
LEMMA OnlyExe ==
    ASSUME Inv, NEW t \in Task, NEW e \in ExeState \ {"none"},
           UNCHANGED <<runnerVars, ssh, spared>>,
           exe' = [exe EXCEPT ![t] = e],
           exe[t] \in {"requested", "running", "over"},
           exe[t] = "over" => e \in Over
    PROVE  /\ exe' \in [Task -> ExeState] /\ StartedOnce' /\ StopsAll'
           /\ \A u \in Task : u # t => exe'[u] = exe[u]
           /\ exe'[t] = e
<1> USE DEF Inv
<1>1. exe' \in [Task -> ExeState]
  BY DEF TypeOK
<1>2. \A u \in Task : (u # t => exe'[u] = exe[u]) /\ exe'[t] = e
  BY DEF TypeOK
<1>3. StartedOnce'
  BY <1>2 DEF StartedOnce, runnerVars
<1>4. \A u \in Task : exe[u] \in Over => exe'[u] \in Over
  BY <1>2 DEF Over
<1>5. \A u \in Task : exe'[u] \in {"requested", "running"}
                         => exe[u] \in {"requested", "running"}
  BY <1>2 DEF Over
<1>6. StopsAll'
  BY <1>4, <1>5, ListStays
<1> QED BY <1>1, <1>2, <1>3, <1>6

(* A log that is opened has its writer for one, and no lines.              *)
LEMMA OpenedLog ==
    ASSUME TypeOK, NEW t \in Task
    PROVE  /\ Opened(t) \in [Cmd -> Log]
           /\ \A c \in Cmd : c # t[2] => Opened(t)[c] = file[c]
           /\ Opened(t)[t[2]].lines = NoLines
           /\ t[1] \in Opened(t)[t[2]].writers
<1> DEFINE log == [exists |-> TRUE, lines |-> NoLines,
                   writers |-> file[t[2]].writers \union {t[1]}]
<1>1. t[1] \in Run /\ t[2] \in Cmd /\ file \in [Cmd -> Log]
  BY TaskIsPair DEF TypeOK
<1>2. log \in Log
  BY <1>1, EmptyIsNatural DEF Log
<1>3. Opened(t) = [file EXCEPT ![t[2]] = log]
  BY DEF Opened
<1> QED BY <1>1, <1>2, <1>3

LEMMA StartExeKeeps ==
    ASSUME Inv, NEW t \in Task, StartExe(t) \/ StartFails(t) PROVE Inv'
<1> USE DEF Inv
<1>1. /\ UNCHANGED <<runnerVars, ssh, printed, piped, spared>>
      /\ exe[t] = "requested" /\ printed[t] = 0 /\ piped[t] = 0
      /\ file' = file \/ file' = Opened(t)
      /\ late' \subseteq Task
  BY LinesAreNatural, TaskIsPair
  DEF StartExe, StartFails, TypeOK, Log, LinesInOrder, histVars
<1>2. PICK e \in {"running", "failed"} :
          exe' = [exe EXCEPT ![t] = e] /\ (e = "running" => file' = Opened(t))
  BY DEF StartExe, StartFails
<1>3. /\ exe' \in [Task -> ExeState] /\ StartedOnce' /\ StopsAll'
      /\ \A u \in Task : u # t => exe'[u] = exe[u]
      /\ exe'[t] = e
  BY <1>1, <1>2, OnlyExe DEF ExeState
<1>4. TypeOK'
  BY <1>1, <1>3, OpenedLog DEF TypeOK, runnerVars
<1>5. LinesInOrder'
  <2>1. ASSUME NEW u \in Task
        PROVE  /\ file'[u[2]].lines[u[1]] + piped'[u] <= printed'[u]
               /\ exe'[u] \in {"none", "requested"} => printed'[u] = 0
               /\ exe'[u] = "ended" => piped'[u] = 0
               /\ exe'[u] \in {"running", "over", "ended"} /\ file'[u[2]].writers = {u[1]}
                     => file'[u[2]].lines[u[1]] + piped'[u] = printed'[u]
    <3>1. u[1] \in Run /\ u[2] \in Cmd /\ NoLines[u[1]] = 0
      BY TaskIsPair DEF NoLines
    <3>2. /\ file[u[2]].lines[u[1]] \in Nat /\ piped[u] \in Nat /\ printed[u] \in Nat
      BY <3>1, LinesAreNatural DEF TypeOK, Log
    <3>3. CASE file'[u[2]] = file[u[2]]
      <4>1. CASE u = t
        BY <1>1, <1>2, <1>3, <3>2, <3>3, <4>1, OpenedLog DEF LinesInOrder
      <4>2. CASE u # t
        BY <1>1, <1>3, <3>3, <4>2 DEF LinesInOrder
      <4> QED BY <4>1, <4>2
    <3>4. CASE file' = Opened(t) /\ u[2] = t[2]
      <4>1. file'[u[2]].lines[u[1]] = 0 /\ t[1] \in file'[u[2]].writers
        BY <3>1, <3>4, OpenedLog
      <4>2. CASE u = t
        BY <1>1, <1>2, <1>3, <4>1, <4>2
      <4>3. CASE u # t
        <5>1. u[1] # t[1]
          BY <3>4, <4>3, TaskIsPair
        <5>2. file'[u[2]].writers # {u[1]}
          BY <4>1, <5>1
        <5> QED BY <1>1, <1>3, <3>2, <4>1, <4>3, <5>2 DEF LinesInOrder
      <4> QED BY <4>2, <4>3
    <3> QED BY <1>1, <3>1, <3>3, <3>4, OpenedLog
  <2> QED BY <2>1 DEF LinesInOrder
<1> QED BY <1>3, <1>4, <1>5

LEMMA PrintLineKeeps == ASSUME Inv, NEW t \in Task, PrintLine(t) PROVE Inv'
<1> USE DEF Inv
<1>1. /\ UNCHANGED <<runnerVars, ssh, exe, file, histVars>>
      /\ exe[t] = "running" /\ printed[t] < MaxLines
      /\ printed' = [printed EXCEPT ![t] = @ + 1] /\ piped' = [piped EXCEPT ![t] = @ + 1]
  BY DEF PrintLine
<1>2. \A u \in Task : printed[u] \in Nat /\ piped[u] \in Nat /\ file[u[2]].lines[u[1]] \in Nat
  BY TaskIsPair, LinesAreNatural DEF TypeOK, Log
<1>3. \A u \in Task : /\ u # t => printed'[u] = printed[u] /\ piped'[u] = piped[u]
                      /\ printed'[t] = printed[t] + 1 /\ piped'[t] = piped[t] + 1
  BY <1>1 DEF TypeOK
<1>4. piped[t] <= printed[t]
  BY <1>2 DEF LinesInOrder
<1>5. TypeOK'
  <2>1. printed[t] + 1 \in 0..MaxLines /\ piped[t] + 1 \in 0..MaxLines
    BY <1>1, <1>2, <1>4, LinesAreNatural
  <2> QED BY <1>1, <2>1 DEF TypeOK, runnerVars, histVars
<1>6. LinesInOrder'
  <2>1. ASSUME NEW u \in Task
        PROVE  /\ file[u[2]].lines[u[1]] + piped'[u] <= printed'[u]
               /\ exe[u] \in {"none", "requested"} => printed'[u] = 0
               /\ exe[u] = "ended" => piped'[u] = 0
               /\ exe[u] \in {"running", "over", "ended"} /\ file[u[2]].writers = {u[1]}
                     => file[u[2]].lines[u[1]] + piped'[u] = printed'[u]
    <3>1. CASE u = t
      BY <1>1, <1>2, <1>3, <3>1 DEF LinesInOrder
    <3>2. CASE u # t
      BY <1>3, <3>2 DEF LinesInOrder
    <3> QED BY <3>1, <3>2
  <2> QED BY <1>1, <2>1 DEF LinesInOrder
<1>7. StartedOnce' /\ StopsAll'
  BY <1>1 DEF StartedOnce, StopsAll, Listed, Pending, runnerVars, histVars
<1> QED BY <1>5, <1>6, <1>7

LEMMA ProgramEndsKeeps == ASSUME Inv, NEW t \in Task, ProgramEnds(t) PROVE Inv'
<1> USE DEF Inv
<1>1. /\ UNCHANGED <<runnerVars, ssh, printed, piped, file, histVars>>
      /\ exe[t] = "running" /\ exe' = [exe EXCEPT ![t] = "over"]
  BY DEF ProgramEnds
<1>2. /\ exe' \in [Task -> ExeState] /\ StartedOnce' /\ StopsAll'
      /\ \A u \in Task : u # t => exe'[u] = exe[u]
      /\ exe'[t] = "over"
  BY <1>1, OnlyExe DEF ExeState, Over, histVars
<1>3. TypeOK'
  BY <1>1, <1>2 DEF TypeOK, runnerVars, histVars
<1>4. LinesInOrder'
  BY <1>1, <1>2 DEF LinesInOrder
<1> QED BY <1>2, <1>3, <1>4

LEMMA ReadFailsKeeps == ASSUME Inv, NEW t \in Task, ReadFails(t) PROVE Inv'
<1> USE DEF Inv
<1>1. /\ UNCHANGED <<runnerVars, ssh, printed, file, histVars>>
      /\ exe[t] \in {"running", "over"} /\ exe' = [exe EXCEPT ![t] = "failed"]
      /\ piped' = [piped EXCEPT ![t] = 0]
  BY DEF ReadFails
<1>2. /\ exe' \in [Task -> ExeState] /\ StartedOnce' /\ StopsAll'
      /\ \A u \in Task : u # t => exe'[u] = exe[u]
      /\ exe'[t] = "failed"
  BY <1>1, OnlyExe DEF ExeState, Over, histVars
<1>3. TypeOK'
  BY <1>1, <1>2, LinesAreNatural DEF TypeOK, runnerVars, histVars
<1>4. \A u \in Task : (u # t => piped'[u] = piped[u]) /\ piped'[t] = 0
  BY <1>1 DEF TypeOK
<1>5. \A u \in Task : printed[u] \in Nat /\ piped[u] \in Nat /\ file[u[2]].lines[u[1]] \in Nat
  BY TaskIsPair, LinesAreNatural DEF TypeOK, Log
<1>6. LinesInOrder'
  BY <1>1, <1>2, <1>4, <1>5 DEF LinesInOrder
<1> QED BY <1>2, <1>3, <1>6

(* What is put into a log is added to the lines of its writer; of others   *)
(* nothing is added.                                                       *)
LEMMA PutAdds ==
    ASSUME TypeOK, NEW t \in Task, NEW n \in Nat, Put(t, n),
           file[t[2]].lines[t[1]] + n <= MaxLines
    PROVE  /\ file' \in [Cmd -> Log]
           /\ \A u \in Task :
                 /\ file'[u[2]].writers = file[u[2]].writers
                 /\ u # t => /\ file'[u[2]].lines[u[1]] <= file[u[2]].lines[u[1]]
                             /\ u[2] # t[2] => file'[u[2]] = file[u[2]]
           /\ file'[t[2]].lines[t[1]] \in {file[t[2]].lines[t[1]], file[t[2]].lines[t[1]] + n}
           /\ t[1] \in file[t[2]].writers
                 => file'[t[2]].lines[t[1]] = file[t[2]].lines[t[1]] + n
           /\ t[1] \notin file[t[2]].writers => file' = file
<1>1. /\ t[1] \in Run /\ t[2] \in Cmd /\ file \in [Cmd -> Log]
      /\ file[t[2]].lines \in [Run -> 0..MaxLines] /\ file[t[2]] \in Log
  BY TaskIsPair DEF TypeOK, Log
<1>2. \A u \in Task : u[1] \in Run /\ u[2] \in Cmd /\ file[u[2]].lines[u[1]] \in Nat
  BY <1>1, TaskIsPair, LinesAreNatural DEF Log
<1>3. CASE t[1] \notin file[t[2]].writers
  <2>1. file' = file
    BY <1>3 DEF Put
  <2> QED BY <1>1, <1>2, <1>3, <2>1
<1>4. CASE t[1] \in file[t[2]].writers
  <2>1. PICK kept \in [Run -> 0..MaxLines] :
            /\ \A r \in Run : kept[r] <= file[t[2]].lines[r]
            /\ file' = [file EXCEPT ![t[2]].lines =
                          [kept EXCEPT ![t[1]] = file[t[2]].lines[t[1]] + n]]
    BY <1>4 DEF Put
  <2> DEFINE new == [kept EXCEPT ![t[1]] = file[t[2]].lines[t[1]] + n]
  <2>2. file[t[2]].lines[t[1]] + n \in 0..MaxLines
    BY <1>2, LinesAreNatural
  <2>3. new \in [Run -> 0..MaxLines] /\ new[t[1]] = file[t[2]].lines[t[1]] + n
    BY <1>1, <2>1, <2>2
  <2>4. \A r \in Run : r # t[1] => new[r] <= file[t[2]].lines[r]
    BY <1>1, <2>1
  <2>5. file'[t[2]] = [file[t[2]] EXCEPT !.lines = new]
    BY <1>1, <2>1
  <2> HIDE DEF new
  <2>6. file'[t[2]].lines = new /\ file'[t[2]].writers = file[t[2]].writers
    BY <1>1, <2>5 DEF Log
  <2>7. file'[t[2]] \in Log
    BY <1>1, <2>3, <2>5 DEF Log
  <2>8. \A c \in Cmd : c # t[2] => file'[c] = file[c]
    BY <1>1, <2>1
  <2>9. file' \in [Cmd -> Log]
    BY <1>1, <2>1, <2>7, <2>8
  <2>10. ASSUME NEW u \in Task
         PROVE  /\ file'[u[2]].writers = file[u[2]].writers
                /\ u # t => /\ file'[u[2]].lines[u[1]] <= file[u[2]].lines[u[1]]
                            /\ u[2] # t[2] => file'[u[2]] = file[u[2]]
    <3>1. CASE u[2] = t[2]
      <4>1. u # t => u[1] # t[1]
        BY <3>1, TaskIsPair
      <4> QED BY <1>2, <2>4, <2>6, <3>1, <4>1
    <3>2. CASE u[2] # t[2]
      BY <1>2, <2>8, <3>2
    <3> QED BY <3>1, <3>2
  <2> QED BY <1>4, <2>3, <2>6, <2>9, <2>10
<1> QED BY <1>3, <1>4

(* What is read from the pipe is in the log of its only writer.            *)
LEMMA HandleReadKeeps == ASSUME Inv, NEW t \in Task, handleRead(t) PROVE Inv'
<1> USE DEF Inv
<1>1. /\ UNCHANGED <<runnerVars, ssh, printed, histVars>>
      /\ exe[t] \in {"running", "over"} /\ Put(t, piped[t])
      /\ piped' = [piped EXCEPT ![t] = 0]
      /\ exe' = [exe EXCEPT ![t] = IF exe[t] = "over" THEN "ended" ELSE @]
  BY DEF handleRead, Taken, AtEof
<1>2. PICK e \in {"running", "ended"} :
          exe' = [exe EXCEPT ![t] = e] /\ (exe[t] = "over" <=> e = "ended")
  BY <1>1
<1>3. /\ exe' \in [Task -> ExeState] /\ StartedOnce' /\ StopsAll'
      /\ \A u \in Task : u # t => exe'[u] = exe[u]
      /\ exe'[t] = e
  BY <1>1, <1>2, OnlyExe DEF ExeState, Over, histVars
<1>4. \A u \in Task : /\ u # t => piped'[u] = piped[u]
                      /\ piped'[t] = 0
  BY <1>1 DEF TypeOK
<1>5. \A u \in Task : /\ printed[u] \in Nat /\ piped[u] \in Nat
                      /\ file[u[2]].lines[u[1]] \in Nat /\ printed[u] <= MaxLines
  BY TaskIsPair, LinesAreNatural DEF TypeOK, Log
<1>6. /\ file[t[2]].lines[t[1]] + piped[t] <= printed[t]
      /\ file[t[2]].lines[t[1]] + piped[t] <= MaxLines
  BY <1>5, LinesAreNatural DEF LinesInOrder
<1>7. /\ file' \in [Cmd -> Log]
      /\ \A u \in Task :
            /\ file'[u[2]].writers = file[u[2]].writers
            /\ u # t => /\ file'[u[2]].lines[u[1]] <= file[u[2]].lines[u[1]]
                        /\ u[2] # t[2] => file'[u[2]] = file[u[2]]
      /\ file'[t[2]].lines[t[1]] \in {file[t[2]].lines[t[1]],
                                      file[t[2]].lines[t[1]] + piped[t]}
      /\ t[1] \in file[t[2]].writers
            => file'[t[2]].lines[t[1]] = file[t[2]].lines[t[1]] + piped[t]
      /\ t[1] \notin file[t[2]].writers => file' = file
  BY <1>1, <1>5, <1>6, PutAdds
<1>8. TypeOK'
  BY <1>1, <1>3, <1>7, LinesAreNatural DEF TypeOK, runnerVars, histVars
<1>9. LinesInOrder'
  <2>1. ASSUME NEW u \in Task
        PROVE  /\ file'[u[2]].lines[u[1]] + piped'[u] <= printed[u]
               /\ exe'[u] \in {"none", "requested"} => printed[u] = 0
               /\ exe'[u] = "ended" => piped'[u] = 0
               /\ exe'[u] \in {"running", "over", "ended"} /\ file'[u[2]].writers = {u[1]}
                     => file'[u[2]].lines[u[1]] + piped'[u] = printed[u]
    <3>1. CASE u = t
      <4>1. file'[t[2]].lines[t[1]] \in Nat /\ file'[t[2]].lines[t[1]] <= printed[t]
        BY <1>5, <1>6, <1>7
      <4>2. file'[t[2]].writers = {t[1]} => file'[t[2]].lines[t[1]] = printed[t]
        <5>1. file'[t[2]].writers = {t[1]} => t[1] \in file[t[2]].writers
                                              /\ file[t[2]].writers = {t[1]}
          BY <1>7
        <5> QED BY <1>1, <1>7, <5>1 DEF LinesInOrder
      <4> QED BY <1>2, <1>3, <1>4, <1>5, <3>1, <4>1, <4>2
    <3>2. CASE u # t
      <4>1. /\ file[u[2]].lines[u[1]] + piped[u] <= printed[u]
            /\ file'[u[2]].lines[u[1]] <= file[u[2]].lines[u[1]]
            /\ file'[u[2]].lines[u[1]] \in Nat
        BY <1>7, <3>2, TaskIsPair, LinesAreNatural DEF LinesInOrder, Log
      <4>2. file'[u[2]].lines[u[1]] + piped'[u] <= printed[u]
        BY <1>4, <1>5, <3>2, <4>1
      <4>3. file'[u[2]].writers = {u[1]} => file'[u[2]] = file[u[2]]
        <5>1. CASE u[2] # t[2]
          BY <1>7, <3>2, <5>1
        <5>2. CASE u[2] = t[2]
          <6>1. u[1] # t[1]
            BY <3>2, <5>2, TaskIsPair
          <6>2. file'[u[2]].writers = {u[1]} => t[1] \notin file[t[2]].writers
            BY <1>7, <5>2, <6>1
          <6> QED BY <1>7, <6>2
        <5> QED BY <5>1, <5>2
      <4> QED BY <1>3, <1>4, <3>2, <4>2, <4>3 DEF LinesInOrder
    <3> QED BY <3>1, <3>2
  <2> QED BY <1>1, <2>1 DEF LinesInOrder
<1> QED BY <1>3, <1>8, <1>9

-----------------------------------------------------------------------------
LEMMA NextInv == ASSUME Inv, [Next]_vars PROVE Inv'
<1>1. CASE Runner
  BY <1>1, StartKeeps, TestFailsKeeps, StopCalledKeeps, StopReturnsKeeps, RunAgainKeeps,
     RunExeKeeps, RunExeFailsKeeps, PkillKeeps, KillSshKeeps, GrepKeeps DEF Runner
<1>2. ASSUME NEW t \in Task, Remote(t) PROVE Inv'
  BY <1>2, SendRequestKeeps, ConnectFailsKeeps, StartExeKeeps, PrintLineKeeps,
     ProgramEndsKeeps, HandleReadKeeps, ReadFailsKeeps DEF Remote
<1>3. CASE UNCHANGED vars
  <2>1. UNCHANGED <<runnerVars, ssh, exeVars, file, histVars>>
    BY <1>3 DEF vars
  <2>2. TypeOK'
    BY <2>1 DEF Inv, TypeOK, runnerVars, exeVars, histVars
  <2>3. LinesInOrder'
    BY <2>1, LinesStay DEF Inv
  <2>4. StartedOnce' /\ StopsAll'
    BY <2>1 DEF Inv, StartedOnce, StopsAll, Listed, Pending, runnerVars, exeVars, histVars
  <2> QED BY <2>2, <2>3, <2>4 DEF Inv
<1> QED BY <1>1, <1>2, <1>3 DEF Next

(* The state of the runner, its programs and logs has its types: no log    *)
(* ever holds more lines of a program than it has printed.                 *)
THEOREM Typing == Spec => []TypeOK
<1>1. Inv => TypeOK
  BY DEF Inv
<1> QED BY InitInv, NextInv, <1>1, PTL DEF Spec

(* tc-exe.tcl, handleRead: when it has ended, and no other has written the *)
(* log, every line of its program is there, whatever was removed, opened   *)
(* again, killed or broken before.                                         *)
THEOREM Complete == Spec => []LogComplete
<1>1. Inv => LogComplete
  BY TaskIsPair, LinesAreNatural DEF Inv, LogComplete, LinesInOrder, TypeOK, Log
<1> QED BY InitInv, NextInv, <1>1, PTL DEF Spec

(* stop_all_procs: a test case that succeeds leaves no ssh, and of its     *)
(* programs only those their own pkill has spared.                         *)
THEOREM Stopped == Spec => []LeftOnlyIfSpared
<1>1. Inv => LeftOnlyIfSpared
  <2>1. ASSUME Inv, pc = "ended", verdict = "SUCCESS", NEW c \in Cmd
        PROVE  /\ ssh[<<run, c>>] \in {"none", "gone"}
               /\ exe[<<run, c>>] \in {"requested", "running"} => c \in spared
    <3>1. <<run, c>> \in Task
      BY <2>1, TaskIsPair DEF Inv, TypeOK
    <3>2. ssh[<<run, c>>] \in SshState
      BY <2>1, <3>1 DEF Inv, TypeOK
    <3>3. ~Listed(c)
      BY <2>1 DEF Inv, StopsAll, Listed, Pending
    <3> QED BY <2>1, <3>2, <3>3 DEF Inv, StopsAll, SshState
  <2> QED BY <2>1 DEF LeftOnlyIfSpared
<1> QED BY InitInv, NextInv, <1>1, PTL DEF Spec

-----------------------------------------------------------------------------
(* What grep_check counts.                                                 *)

(* If only one run has lines in a log, they are counted, each once.        *)
LEMMA OneWriter ==
    ASSUME NEW log \in Log, NEW s \in Run, \A r \in Run \ {s} : log.lines[r] = 0
    PROVE  Cardinality(LinesIn(log)) = log.lines[s]
<1> DEFINE n == log.lines[s]
           f == [i \in 1..n |-> <<s, i>>]
<1>1. n \in 0..MaxLines /\ log.lines \in [Run -> 0..MaxLines] /\ n \in Nat
  BY LinesAreNatural DEF Log
<1>2. ASSUME NEW l \in LinesIn(log) PROVE l[2] \in 1..n /\ f[l[2]] = l
  <2>1. l \in Run \X (1..MaxLines) /\ l[2] <= log.lines[l[1]]
    BY DEF LinesIn
  <2>2. l[1] \in Run /\ l[2] \in 1..MaxLines /\ l = <<l[1], l[2]>>
    BY <2>1
  <2>3. l[1] = s
    BY <1>1, <2>1, <2>2, LinesAreNatural
  <2> QED BY <1>1, <2>1, <2>2, <2>3, LinesAreNatural
<1>3. ASSUME NEW i \in 1..n PROVE f[i] \in LinesIn(log)
  <2>1. i \in 1..MaxLines
    BY <1>1, LinesAreNatural
  <2> QED BY <2>1 DEF LinesIn
<1>4. f \in Surjection(1..n, LinesIn(log)) /\ f \in Injection(1..n, LinesIn(log))
  <2>1. f \in [1..n -> LinesIn(log)]
    BY <1>3
  <2>2. \A l \in LinesIn(log) : \E i \in 1..n : f[i] = l
    BY <1>2
  <2>3. \A i, j \in 1..n : f[i] = f[j] => i = j
    OBVIOUS
  <2> QED BY <2>1, <2>2, <2>3 DEF Surjection, Injection, IsInjective
<1> HIDE DEF f, n
<1>5. IsFiniteSet(1..n) /\ Cardinality(1..n) = n
  <2>1. 1 \in Int /\ n \in Int
    BY <1>1
  <2>2. IsFiniteSet(1..n) /\ Cardinality(1..n) = IF 1 > n THEN 0 ELSE n - 1 + 1
    BY <2>1, FS_Interval, Zenon
  <2> QED BY <1>1, <2>2
<1>6. Cardinality(LinesIn(log)) = Cardinality(1..n)
  BY <1>4, <1>5, FS_Surjection
<1> QED BY <1>5, <1>6 DEF n

LEMMA InitLogs == ASSUME Init PROVE LogsInv
<1>1. \A c \in Cmd : <<run, c>> \in Task
  BY TaskIsPair, RunsAreNumbers DEF Init
<1>2. ListedStarted
  BY DEF Init, ListedStarted, Pending
<1>3. \A c \in Cmd : OwnLog(c)
  BY <1>1 DEF Init, OwnLog
<1>4. CountsOwnLines
  BY <1>1 DEF Init, CountsOwnLines
<1> QED BY <1>2, <1>3, <1>4 DEF LogsInv

(* A log stays this run's own if no other tc-exe.tcl adds to it, and one   *)
(* that opens it too late is put down as late.                             *)
LEMMA OwnLogStays ==
    ASSUME NEW c \in Cmd, OwnLog(c), run' = run, late \subseteq late',
           ssh'[<<run, c>>] # "none" => ssh[<<run, c>>] # "none",
           \A r \in Run \ {run} :
              /\ file[c].lines[r] = 0 => file'[c].lines[r] = 0
              /\ Stale(r, c)' => Stale(r, c) \/ (ssh[<<run, c>>] # "none" => <<r, c>> \in late')
    PROVE  OwnLog(c)'
BY DEF OwnLog

LEMMA CountStays ==
    ASSUME TypeOK, TypeOK', CountsOwnLines, run' = run, passed' = passed, late \subseteq late',
           \A t \in Task : printed[t] <= printed'[t]
    PROVE  CountsOwnLines'
<1>1. ASSUME NEW c \in Cmd, \A r \in Run : <<r, c>> \notin late'
      PROVE  passed'[c] <= printed'[<<run', c>>]
  <2>1. <<run, c>> \in Task
    BY TaskIsPair DEF TypeOK
  <2>2. passed[c] <= printed[<<run, c>>] /\ printed[<<run, c>>] <= printed'[<<run, c>>]
    BY <1>1, <2>1 DEF CountsOwnLines
  <2>3. passed[c] \in Nat /\ printed[<<run, c>>] \in Nat /\ printed'[<<run, c>>] \in Nat
    BY <2>1, LinesAreNatural DEF TypeOK
  <2> QED BY <2>2, <2>3
<1> QED BY <1>1 DEF CountsOwnLines

(* Steps of the runner that touch neither ssh nor a program nor a log.     *)
LEMMA ListKeepsLogs ==
    ASSUME Inv, Inv', LogsInv, Start \/ TestFails \/ StopCalled \/ StopReturns
    PROVE  LogsInv'
<1>1. UNCHANGED <<run, passed, ssh, exe, printed, file, late>>
  BY DEF Start, TestFails, StopCalled, StopReturns, exeVars, histVars
<1>2. ListedStarted'
  <2>1. Pending' = Pending \/ Pending' = <<>>
    BY DEF Start, TestFails, StopCalled, StopReturns, Pending, Inv, StopsAll
  <2> QED BY <1>1, <2>1 DEF LogsInv, ListedStarted
<1>3. \A c \in Cmd : OwnLog(c)'
  BY <1>1 DEF LogsInv, OwnLog, Stale
<1>4. CountsOwnLines'
  BY <1>1 DEF LogsInv, CountsOwnLines
<1> QED BY <1>2, <1>3, <1>4 DEF LogsInv

(* A new run has started nothing and counted nothing yet.                  *)
LEMMA RunAgainKeepsLogs ==
    ASSUME Inv, Inv', LogsInv, RunAgain PROVE LogsInv'
<1>1. /\ run' \in Run /\ pc' = "start" /\ pids' = <<>> /\ passed' = [c \in Cmd |-> 0]
      /\ UNCHANGED <<ssh, printed>>
  BY DEF RunAgain, Inv, TypeOK, exeVars
<1>2. \A c \in Cmd : <<run', c>> \in Task /\ ssh'[<<run', c>>] = "none"
  BY <1>1, TaskIsPair DEF Inv, StartedOnce
<1>3. ListedStarted'
  BY <1>1 DEF ListedStarted, Pending
<1>4. \A c \in Cmd : OwnLog(c)'
  BY <1>2 DEF OwnLog
<1>5. CountsOwnLines'
  BY <1>1, <1>2, LinesAreNatural DEF CountsOwnLines, Inv, TypeOK
<1> QED BY <1>3, <1>4, <1>5 DEF LogsInv

(* run_exe: the log is removed as its program is started, so no line of a  *)
(* failed run is left in it, and no tc-exe.tcl of one can add to it.       *)
LEMMA RunExeKeepsLogs ==
    ASSUME Inv, Inv', LogsInv, NEW c \in Cmd, run_exe(c) \/ RunExeFails(c)
    PROVE  LogsInv'
<1>1. /\ UNCHANGED <<run, pc, todo, passed, exe, printed, late>>
      /\ pc = "test" /\ pids \in Seq(Cmd) /\ run \in Run /\ ssh \in [Task -> SshState]
      /\ file' = [file EXCEPT ![c] = NoFile] /\ file \in [Cmd -> Log]
  BY DEF run_exe, RunExeFails, RemoveLog, runnerVars, exeVars, histVars, Inv, TypeOK
<1>2. /\ <<run, c>> \in Task /\ ssh[<<run, c>>] = "none"
      /\ \/ pids' = Append(pids, c) /\ ssh' = [ssh EXCEPT ![<<run, c>>] = "connecting"]
         \/ pids' = pids /\ ssh' = ssh
  BY <1>1, TaskIsPair DEF run_exe, RunExeFails, Recorded, runnerVars
<1>3. ListedStarted'
  <2>1. Pending = pids /\ Pending' = pids'
    BY <1>1 DEF Pending
  <2>2. \A i \in 1..Len(pids) : pids[i] \in Cmd /\ ssh[<<run, pids[i]>>] # "none"
    BY <1>1, <2>1 DEF LogsInv, ListedStarted
  <2>3. CASE pids' = pids /\ ssh' = ssh
    BY <1>1, <2>1, <2>2, <2>3 DEF ListedStarted
  <2>4. CASE pids' = Append(pids, c) /\ ssh' = [ssh EXCEPT ![<<run, c>>] = "connecting"]
    <3>1. ASSUME NEW i \in 1..Len(pids') PROVE ssh'[<<run, pids'[i]>>] # "none"
      <4>1. pids'[i] = c \/ (i \in 1..Len(pids) /\ pids'[i] = pids[i])
        BY <1>1, <2>4
      <4>2. ssh'[<<run, c>>] = "connecting"
        BY <1>1, <1>2, <2>4
      <4>3. ASSUME NEW d \in Cmd, d # c PROVE ssh'[<<run, d>>] = ssh[<<run, d>>]
        BY <1>1, <2>4, <4>3, TaskIsPair
      <4> QED BY <2>2, <4>1, <4>2, <4>3
    <3> QED BY <1>1, <2>1, <3>1 DEF ListedStarted
  <2> QED BY <1>2, <2>3, <2>4
<1>4. ASSUME NEW d \in Cmd PROVE OwnLog(d)'
  <2>1. CASE d = c
    <3>1. file'[c] = NoFile
      BY <1>1
    <3>2. \A r \in Run : NoFile.lines[r] = 0 /\ r \notin NoFile.writers
      BY DEF NoFile, NoLines
    <3> QED BY <1>1, <2>1, <3>1, <3>2 DEF OwnLog, Stale
  <2>2. CASE d # c
    <3>1. file'[d] = file[d] /\ ssh'[<<run, d>>] = ssh[<<run, d>>]
      BY <1>1, <1>2, <2>2, TaskIsPair
    <3>2. OwnLog(d)
      BY DEF LogsInv
    <3> QED BY <1>1, <3>1, <3>2 DEF OwnLog, Stale
  <2> QED BY <2>1, <2>2
<1>5. CountsOwnLines'
  BY <1>1 DEF LogsInv, CountsOwnLines
<1> QED BY <1>3, <1>4, <1>5 DEF LogsInv

(* grep_check: the lines counted are those of the run's own program.       *)
LEMMA GrepKeepsLogs ==
    ASSUME Inv, Inv', LogsInv, NEW c \in Cmd, NEW num \in 0..MaxLines, grep_check(c, num)
    PROVE  LogsInv'
<1>1. /\ UNCHANGED <<run, pc, pids, todo, ssh, exe, printed, piped, file, late>>
      /\ ssh[<<run, c>>] # "none" /\ HitsIn(c) = num
      /\ passed' = [passed EXCEPT ![c] = num] /\ passed \in [Cmd -> Nat]
  BY DEF grep_check, exeVars, histVars, Inv, TypeOK
<1>2. ListedStarted' /\ \A d \in Cmd : OwnLog(d)'
  BY <1>1 DEF LogsInv, ListedStarted, Pending, OwnLog, Stale
<1>3. ASSUME NEW d \in Cmd, \A r \in Run : <<r, d>> \notin late
      PROVE  passed'[d] <= printed[<<run, d>>]
  <2>1. CASE d = c
    <3>1. run \in Run /\ <<run, c>> \in Task /\ file[c] \in Log
      BY TaskIsPair DEF Inv, TypeOK
    <3>2. \A r \in Run \ {run} : file[c].lines[r] = 0
      BY <1>1, <1>3, <2>1 DEF LogsInv, OwnLog
    <3>3. num = file[c].lines[run]
      BY <1>1, <3>1, <3>2, OneWriter DEF HitsIn
    <3>4. file[c].lines[run] + piped[<<run, c>>] <= printed[<<run, c>>]
      BY <3>1 DEF Inv, LinesInOrder
    <3>5. /\ piped[<<run, c>>] \in Nat /\ printed[<<run, c>>] \in Nat
          /\ num \in Nat
      BY <3>1, LinesAreNatural DEF Inv, TypeOK
    <3> QED BY <1>1, <2>1, <3>3, <3>4, <3>5
  <2>2. CASE d # c
    BY <1>1, <1>3, <2>2 DEF LogsInv, CountsOwnLines
  <2> QED BY <2>1, <2>2
<1>4. CountsOwnLines'
  BY <1>1, <1>3 DEF CountsOwnLines
<1> QED BY <1>2, <1>4 DEF LogsInv

(* stop_all_procs ends programs and kills the ssh of calls it has listed.  *)
LEMMA StopKeepsLogs ==
    ASSUME Inv, Inv', LogsInv, NEW c \in Cmd, Pkill(c) \/ KillSsh(c)
    PROVE  LogsInv'
<1>1. /\ UNCHANGED <<run, passed, printed, file, late>>
      /\ c = Head(todo) /\ pc \in {"stop", "kill"} /\ pc' \in {"stop", "kill"}
      /\ todo # <<>> /\ todo \in Seq(Cmd)
  BY DEF Pkill, KillSsh, exeVars, histVars, Inv, TypeOK, StopsAll
<1>2. \A t \in Task : exe'[t] \in {"running", "over"} => exe[t] \in {"running", "over"}
  BY DEF Pkill, KillSsh, exeVars
<1>3. Pending = todo /\ Pending' = todo' /\ (todo' = todo \/ todo' = Tail(todo))
  BY <1>1 DEF Pkill, KillSsh, Pending
<1>4. \A i \in 1..Len(todo) : ssh[<<run, todo[i]>>] # "none"
  BY <1>3 DEF LogsInv, ListedStarted
<1>5. /\ <<run, c>> \in Task /\ ssh \in [Task -> SshState]
      /\ ssh[<<run, c>>] # "none"
      /\ ssh' = ssh \/ ssh' = [ssh EXCEPT ![<<run, c>>] = "gone"]
  <2>1. 1 \in 1..Len(todo) /\ todo[1] = c
    BY <1>1
  <2> QED BY <1>4, <2>1, TaskIsPair DEF Pkill, KillSsh, Inv, TypeOK
<1>6. \A t \in Task : ssh'[t] = "none" <=> ssh[t] = "none"
  BY <1>5
<1>7. \A r \in Run, d \in Cmd : <<r, d>> \in Task
  BY TaskIsPair
<1>8. run \in Run
  BY DEF Inv, TypeOK
<1>9. ListedStarted'
  <2>1. ASSUME NEW i \in 1..Len(todo') PROVE ssh'[<<run, todo'[i]>>] # "none"
    <3>1. PICK j \in 1..Len(todo) : todo'[i] = todo[j]
      BY <1>1, <1>3
    <3>2. todo[j] \in Cmd
      BY <1>1
    <3> QED BY <1>4, <1>6, <1>7, <1>8, <3>1, <3>2
  <2> QED BY <1>1, <1>3, <2>1 DEF ListedStarted
<1>10. \A d \in Cmd : OwnLog(d)'
  BY <1>1, <1>2, <1>6, <1>7, <1>8 DEF LogsInv, OwnLog, Stale
<1>11. CountsOwnLines'
  BY <1>1 DEF LogsInv, CountsOwnLines
<1> QED BY <1>9, <1>10, <1>11 DEF LogsInv

(* ssh and the network: no log and no program that writes is touched.      *)
LEMMA SshKeepsLogs ==
    ASSUME Inv, Inv', LogsInv, NEW t \in Task, SendRequest(t) \/ ConnectFails(t)
    PROVE  LogsInv'
<1>1. /\ UNCHANGED <<run, pc, pids, todo, passed, printed, file, late>>
      /\ \A u \in Task : ssh'[u] = "none" <=> ssh[u] = "none"
      /\ \A u \in Task : exe'[u] \in {"running", "over"} => exe[u] \in {"running", "over"}
  BY DEF SendRequest, ConnectFails, runnerVars, exeVars, histVars, Inv, TypeOK
<1>2. run \in Run /\ \A r \in Run, d \in Cmd : <<r, d>> \in Task
  BY TaskIsPair DEF Inv, TypeOK
<1>3. ListedStarted'
  <2>1. Pending' = Pending /\ Pending \in Seq(Cmd)
    BY <1>1 DEF Pending, Inv, TypeOK
  <2>2. \A i \in 1..Len(Pending) : Pending[i] \in Cmd
    BY <2>1
  <2> QED BY <1>1, <1>2, <2>1, <2>2 DEF LogsInv, ListedStarted
<1>4. \A d \in Cmd : OwnLog(d)'
  BY <1>1, <1>2 DEF LogsInv, OwnLog, Stale
<1>5. CountsOwnLines'
  BY <1>1 DEF LogsInv, CountsOwnLines
<1> QED BY <1>3, <1>4, <1>5 DEF LogsInv

(* tc-exe.tcl: the log it opens is empty; if it does so after a newer call *)
(* it is late, and if it fails it writes nothing.                          *)
LEMMA StartExeKeepsLogs ==
    ASSUME Inv, Inv', LogsInv, NEW t \in Task, StartExe(t) \/ StartFails(t)
    PROVE  LogsInv'
<1>1. /\ UNCHANGED <<run, pc, pids, todo, passed, ssh, printed>>
      /\ late \subseteq late' /\ exe[t] = "requested"
      /\ file' = file \/ file' = Opened(t)
      /\ \A u \in Task : u # t => exe'[u] = exe[u]
      /\ exe'[t] = "running" => late' = IF Overtaken(t) THEN late \union {t} ELSE late
  BY DEF StartExe, StartFails, runnerVars, histVars, Inv, TypeOK
<1>2. /\ t[1] \in Run /\ t[2] \in Cmd /\ t = <<t[1], t[2]>>
      /\ run \in Run /\ \A r \in Run, d \in Cmd : <<r, d>> \in Task
  BY TaskIsPair DEF Inv, TypeOK
<1>3. exe'[t] \in {"running", "failed"} /\ exe'[t] # "over"
  BY DEF StartExe, StartFails, Inv, TypeOK
<1>4. ListedStarted'
  BY <1>1 DEF LogsInv, ListedStarted, Pending
<1>5. ASSUME NEW d \in Cmd PROVE OwnLog(d)'
  <2>1. ASSUME NEW r \in Run \ {run}
        PROVE  /\ file[d].lines[r] = 0 => file'[d].lines[r] = 0
               /\ Stale(r, d)' => Stale(r, d) \/ (ssh[<<run, d>>] # "none" => <<r, d>> \in late')
    <3>1. CASE <<r, d>> = t
      <4>1. r = t[1] /\ d = t[2]
        BY <3>1
      <4>2. file'[d].lines[r] = 0 \/ file' = file
        <5>1. CASE file' = Opened(t)
          BY <1>2, <4>1, <5>1, OpenedLog DEF NoLines, Inv
        <5> QED BY <1>1, <5>1
      <4>3. Stale(r, d)' /\ ssh[<<run, d>>] # "none" => t \in late'
        <5>1. ASSUME Stale(r, d)', ssh[<<run, d>>] # "none" PROVE Overtaken(t)
          <6>1. ~(r > run)
            BY <1>1, <1>2, <3>1, <4>1 DEF Inv, StartedOnce
          <6>2. run > r
            BY <1>2, <6>1, RunsAreNumbers
          <6> QED BY <1>2, <4>1, <5>1, <6>2 DEF Overtaken
        <5> QED BY <1>1, <1>3, <3>1, <5>1 DEF Stale
      <4> QED BY <3>1, <4>2, <4>3
    <3>2. CASE <<r, d>> # t
      <4>1. exe'[<<r, d>>] = exe[<<r, d>>]
        BY <1>1, <1>2, <3>2
      <4>2. /\ file'[d].lines[r] = file[d].lines[r] \/ file'[d].lines[r] = 0
            /\ r \in file'[d].writers => r \in file[d].writers
        <5>1. CASE file' = Opened(t) /\ d = t[2]
          <6>1. r # t[1]
            BY <1>2, <3>2, <5>1
          <6>2. Opened(t)[d] = [exists |-> TRUE, lines |-> NoLines,
                                writers |-> file[d].writers \union {t[1]}]
            BY <5>1 DEF Opened, Inv, TypeOK
          <6> QED BY <5>1, <6>1, <6>2 DEF NoLines
        <5>2. CASE file' = Opened(t) /\ d # t[2]
          BY <5>2, OpenedLog DEF Inv
        <5> QED BY <1>1, <5>1, <5>2
      <4> QED BY <4>1, <4>2 DEF Stale
    <3> QED BY <3>1, <3>2
  <2>2. OwnLog(d)
    BY DEF LogsInv
  <2> QED BY <1>1, <2>1, <2>2, OwnLogStays
<1>6. CountsOwnLines'
  <2>1. \A u \in Task : printed[u] <= printed'[u]
    BY <1>1, LinesAreNatural DEF Inv, TypeOK
  <2> QED BY <1>1, <2>1, CountStays DEF Inv, LogsInv
<1> QED BY <1>4, <1>5, <1>6 DEF LogsInv

(* A program only prints more, ends, or has its pipe closed.               *)
LEMMA ProgramKeepsLogs ==
    ASSUME Inv, Inv', LogsInv, NEW t \in Task,
           PrintLine(t) \/ ProgramEnds(t) \/ ReadFails(t)
    PROVE  LogsInv'
<1>1. /\ UNCHANGED <<run, pc, pids, todo, passed, ssh, file, late>>
      /\ \A u \in Task : exe'[u] \in {"running", "over"} => exe[u] \in {"running", "over"}
  BY DEF PrintLine, ProgramEnds, ReadFails, runnerVars, histVars, Inv, TypeOK
<1>2. \A u \in Task : printed[u] <= printed'[u]
  <2>1. printed \in [Task -> 0..MaxLines] /\ \A u \in Task : printed[u] \in Nat
    BY LinesAreNatural DEF Inv, TypeOK
  <2>2. printed' = printed \/ printed' = [printed EXCEPT ![t] = printed[t] + 1]
    BY DEF PrintLine, ProgramEnds, ReadFails
  <2> QED BY <2>1, <2>2
<1>3. ListedStarted'
  BY <1>1 DEF LogsInv, ListedStarted, Pending
<1>4. \A d \in Cmd : OwnLog(d)'
  BY <1>1, TaskIsPair DEF LogsInv, OwnLog, Stale, Inv, TypeOK
<1>5. CountsOwnLines'
  BY <1>1, <1>2, CountStays DEF Inv, LogsInv
<1> QED BY <1>3, <1>4, <1>5 DEF LogsInv

(* handleRead: only a writer of the log that still runs adds to it.        *)
LEMMA HandleReadKeepsLogs ==
    ASSUME Inv, Inv', LogsInv, NEW t \in Task, handleRead(t) PROVE LogsInv'
<1>1. /\ UNCHANGED <<run, pc, pids, todo, passed, ssh, printed, late>>
      /\ exe[t] \in {"running", "over"} /\ Put(t, piped[t])
      /\ \A u \in Task : exe'[u] \in {"running", "over"} => exe[u] \in {"running", "over"}
  BY DEF handleRead, Taken, AtEof, runnerVars, histVars, Inv, TypeOK
<1>2. /\ t[1] \in Run /\ t[2] \in Cmd /\ t = <<t[1], t[2]>>
      /\ run \in Run /\ \A r \in Run, d \in Cmd : <<r, d>> \in Task
  BY TaskIsPair DEF Inv, TypeOK
<1>3. piped[t] \in Nat /\ file[t[2]].lines[t[1]] + piped[t] <= MaxLines
  <2>1. /\ piped[t] \in Nat /\ printed[t] \in Nat /\ printed[t] <= MaxLines
        /\ file[t[2]].lines[t[1]] \in Nat
    BY TaskIsPair, LinesAreNatural DEF Inv, TypeOK, Log
  <2>2. file[t[2]].lines[t[1]] + piped[t] <= printed[t]
    BY DEF Inv, LinesInOrder
  <2> QED BY <2>1, <2>2, LinesAreNatural
<1>4. /\ \A u \in Task :
            /\ file'[u[2]].writers = file[u[2]].writers
            /\ u # t => file'[u[2]].lines[u[1]] <= file[u[2]].lines[u[1]]
      /\ t[1] \notin file[t[2]].writers => file' = file
  BY <1>1, <1>3, PutAdds DEF Inv
<1>5. ListedStarted'
  BY <1>1 DEF LogsInv, ListedStarted, Pending
<1>6. ASSUME NEW d \in Cmd PROVE OwnLog(d)'
  <2>1. SUFFICES ASSUME \A r \in Run : <<r, d>> \notin late, ssh[<<run, d>>] # "none",
                        NEW r \in Run \ {run}
                 PROVE  file'[d].lines[r] = 0 /\ ~Stale(r, d)'
    BY <1>1 DEF OwnLog
  <2>2. file[d].lines[r] = 0 /\ ~Stale(r, d)
    BY <2>1 DEF LogsInv, OwnLog
  <2> DEFINE u == <<r, d>>
  <2>3. u \in Task /\ u[1] = r /\ u[2] = d
    BY <1>2
  <2>4. file'[d].writers = file[d].writers
    BY <1>4, <2>3
  <2>5. ~Stale(r, d)'
    BY <1>1, <2>2, <2>3, <2>4 DEF Stale
  <2>6. file'[d].lines[r] = 0
    <3>1. CASE u = t
      <4>1. file' = file
        BY <1>1, <1>4, <2>2, <2>3, <3>1 DEF Stale
      <4> QED BY <2>2, <4>1
    <3>2. CASE u # t
      <4>1. file'[d].lines[r] <= 0
        BY <1>4, <2>2, <2>3, <3>2
      <4>2. file'[d].lines[r] \in Nat
        BY LinesAreNatural DEF Inv, TypeOK, Log
      <4> QED BY <4>1, <4>2
    <3> QED BY <3>1, <3>2
  <2> QED BY <2>5, <2>6
<1>7. CountsOwnLines'
  BY <1>1 DEF LogsInv, CountsOwnLines
<1> QED BY <1>5, <1>6, <1>7 DEF LogsInv

LEMMA NextLogs == ASSUME Inv, Inv', LogsInv, [Next]_vars PROVE LogsInv'
<1>1. CASE Runner
  BY <1>1, ListKeepsLogs, RunAgainKeepsLogs, RunExeKeepsLogs, GrepKeepsLogs, StopKeepsLogs
  DEF Runner
<1>2. ASSUME NEW t \in Task, Remote(t) PROVE LogsInv'
  BY <1>2, SshKeepsLogs, StartExeKeepsLogs, ProgramKeepsLogs, HandleReadKeepsLogs DEF Remote
<1>3. CASE UNCHANGED vars
  BY <1>3 DEF vars, runnerVars, exeVars, histVars, LogsInv, ListedStarted, Pending, OwnLog,
              Stale, CountsOwnLines
<1> QED BY <1>1, <1>2, <1>3 DEF Next

(* grep_check: one that passes has counted lines of this run's program     *)
(* only, whatever failed runs have left running, unless a tc-exe.tcl of    *)
(* one of them began after the newer call had removed the log.             *)
THEOREM OwnLinesCounted == Spec => []CountsOwnLines
<1>1. LogsInv => CountsOwnLines
  BY DEF LogsInv
<1> QED BY InitInv, NextInv, InitLogs, NextLogs, <1>1, PTL DEF Spec

=============================================================================
