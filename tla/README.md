# threet in TLA+

threet is a set of test tools: `conntest` pushes traffic over many concurrent
connections and measures it, `aggregator` sums up what many conntest processes
measure, `fstest` measures file reads and writes, and `tc-runner` starts
programs on remote hosts for a test case. This directory models the parts
where several threads or processes meet, checks the models with TLC and proves
the central facts with TLAPS. File references are relative to the repository.

## 1. The system

| component | state it keeps | operations | hard parts |
|---|---|---|---|
| counters and meter (`conntest.h`, `common.c`, `tp_thread` of `server.c` and `client.c`) | per connection `numSinceMeasure`, `numSinceStart`, a mutex; a table of pointers | a thread adds what it received or sent; once a second `report_statistics()` sums up all counters, resets one of the two and reports | a sum-and-reset against concurrent increments; the table grows while it is scanned; two figures computed from different sums |
| UDP server (`server.c`, `server_udp.c`) | one object, socket and thread per port | create ports, receive, report | receivers run before they are in the table; creation fails half way; uninitialized `addrLen`; empty datagrams |
| TCP server (`server.c`, `server_tcp.c`) | listening socket, `gServers`, `gAdded`, a thread per connection, open descriptors | accept, receive, report | connections come and go during scans; objects come from `malloc()` uncleared; no descriptor is ever closed |
| client (`client.c`) | `gClients`, `gMutex` as a start barrier, `gDoExit`, `gBytesToSend` | connect, start all senders together, send, report, adjust the rate, end on a signal | senders write counters without the mutex; a signal at any moment; a failure between two thread creations |
| aggregator (`aggregator.c`, sending side in `common.c`) | per client id the last sample and a flag; the sum of all totals; a round counter | register, report, close a round, stop at the limit | datagrams lost, reordered between processes, sent before the socket is bound; fast and slow clients; equal ids |
| deployment (`ReadMe.txt`, `start_*.sh`) | processes of one host, two aggregators | start, `pkill conntest` | one aggregator kills the processes of the other |
| arguments (`conntest.c`, `main` of `aggregator.c`, the scripts) | `gAppArgs`; `gNumClients`, `gPort`, `gNumMeasurements` | parse | widths of `-z` and `-p`, an `-id` check that cannot fail, ids and ports that have to agree over many command lines |
| fstest (`fstest.c`) | sizes, byte counts, the test file | parse sizes, read test, write test | 32-bit products, short and failing writes, what is counted |
| tc-runner, Python | pids of forked ssh processes | run remotely, stop all, wait | `os.wait()` on the wrong child, kills that hit the wrong process |
| tc-runner, Tcl, and `tc-exe.tcl` | `TCR(pids)`, the logs, the verdict; a pipe and a log per program | run remotely, grep a log, stop all; read the pipe | programs of a failed run that go on running and writing, kills that come too early, the end of a pipe with data in it |

How they interact: a client sends a byte stream or datagrams to a server; both
run the meter; both send their figures as datagrams to an aggregator; the
aggregator ends them by `pkill`, which the client handles as SIGTERM by setting
`gDoExit`. Threads of a process share `gServers`/`gClients` and the counters.

What makes each correct:

* meter: a byte is counted once and reported once; the average and the interval
  figures are about the same bytes; a scan never hangs;
* UDP server: what is received is reported, whichever start-up step failed;
* TCP server: each connection has a slot of its own, each byte is in one place;
* client: senders start together, a signal ends the process, the rate is
  corrected in the right direction;
* aggregator: a total is made of one report of each client, nothing received
  is counted twice or forgotten;
* deployment: ids, ports and numbers of the command lines agree, so that rounds
  are closed; processes are killed only by an aggregator that is done;
* fstest: a pass stays inside the file and the buffer, the test ends, the
  printed figure is what was moved;
* tc-runner: after a success nothing it started is still there, but what the
  kills missed; a check counts lines of its own run; a log is complete.

## 2. Modules

| module | what it is |
|---|---|
| `ByteLedger` | abstract specification of the figures: per connection a total of bytes counted and a total of bytes reported; a report raises the second to the first; both servers implement it |
| `Meter` | the counters, their mutex, the receiver's critical section, `report_statistics()`; extended by the three modules below |
| `UdpServer` | `conntest -s -udp`, complete with start-up failures |
| `TcpServer` | `conntest -s`, with clients, accept, descriptors |
| `ConntestArgs` | operators: what `main()` of `conntest` and of `aggregator` make of a command line, and the command lines of the scripts |
| `Client` | `conntest -c`, TCP or UDP, from the command line on, with `adjust_traffic()` |
| `Aggregator`, `AggregatorLedger` | the aggregator and the processes that report to it; the second adds history variables |
| `Deployment` | the processes of a host and two instances of `Aggregator`, told what to do by command lines |
| `FsTest` | both tests of `fstest` |
| `TcRunnerPy` | `tc-runner.py` with its forked ssh processes, `tc-remote.py` and `tc-kill-remote.py` |
| `TcRunnerTcl` | `tc-runner.tcl`, run several times on a test case, and `tc-exe.tcl` |
| `MeterProofs`, `UdpServerProofs`, `TcpServerProofs`, `FsTestProofs`, `TcRunnerPyProofs`, `TcRunnerTclProofs` | theorems about the module they are named after |
| `ClientProofs` | theorems about `ConntestArgs`, then about `Client` |
| `AggregatorProofs` | theorems about `Aggregator` and `AggregatorLedger`, then about `Deployment` |
| `MC*` | the constants for TLC |

How state and actions correspond to the code:

* **Granularity.** Each action is at most one access to shared memory. `x += n`
  outside a lock is a load and a store (`LoadSinceMeasure`, `StoreSinceMeasure`
  of `Client`); inside a lock too (`LoadCounters`/`StoreCounters`,
  `TakeSlot`/`ResetSlot`), so that it is the mutex that keeps them together and
  not the model. A register (`reg`, `tpTook`) holds what was loaded.
* **Threads** are program counters: `mainPc` for the main thread, `pc[d]` for
  the thread of object `d`, `tpPc`/`tpSlot` for `tp_thread`. A thread that does
  not exist yet is `"none"`.
* **Objects** (`client_data_t`) are the elements of `Data`; `slots` is
  `gServers` or `gClients`, of `TableSize` slots where the code has 0xFFFF;
  `NumData` is `-n`.
* **Undefined behaviour** is a choice over what the build can do: garbage from
  `malloc()` is any value of `Garbage`; the uninitialized `addrLen` is negative
  or not; `pthread_join()` of a detached thread may return at once or never.
* **Failures** are actions: socket, bind, listen, accept, thread creation, full
  socket buffers. `pthread_create()` fails with a positive number, so where the
  code tests `< 0` the model goes on as if it had succeeded, without a thread.
* **History variables** (`counted`, `taken`, `emitted`, `garbage`, `atWake`,
  `moved`, `lost`, `missed`, `stopped`, `spared`, `late`, those of
  `AggregatorLedger`) are only written, never read by a guard,
  except where they carry a bound that is named below.
* **Processes of `TcRunnerPy`.** A call of `run_remote()` names its forked child
  (`child`: forked, connecting, connected, ended, reaped) and the program on the
  other host (`remote`). A kill over ssh is one step that ends any of the
  `tc-remote.py` of a host: the kill may fail, and since `tc-kill-remote.py` finds
  itself in the output of `ps` it may kill itself before others. A child whose
  `execv()` fails runs the finally clause of the parent with a copy of its pids
  (`ExecFails`, `StopInChild`).
* **Composition of `Deployment`.** `C` and `S` are `Aggregator` with variables of
  their own; they share `running`, which the last round of either empties
  (`pkill conntest`). Which process reports to which, with which id, and what
  the aggregators wait for is computed from the command lines by
  `ConntestArgs`, so a wrong script shows as a wrong behaviour. In `Aggregator`
  the other aggregator is the action `KilledByOther`: at any moment it may have
  all processes killed.
* **Command lines** are sequences of `Option`: a name and what `sscanf()` makes of
  the word behind it. The loops of both `main()` are functions on the positions of
  the line; `Ended` is what they do behind the last option.
* **Arithmetic of `adjust_traffic()`.** The doubles of the code become whole
  numbers by multiplying with their denominators (`Unit`), so comparisons and the
  cut towards zero are those of the code. An interval of a sleep counts as one
  second or two.
* **Tasks of `TcRunnerTcl`.** A call of `run_exe` in one of the runs names its ssh,
  its `tc-exe.tcl` with the program (`exe`) and the lines on their way (`printed`,
  `piped`). A log has the runs that have opened it and how many lines of each are
  in it; a writer whose log was removed goes on writing into nothing.
* **Slips.** An operator whose comment begins with "Slip" is not part of the
  specification. It is a mistake that could be made in the operator after it;
  putting it in its place must break the property it belongs to.

Left out of the modules: text output, the average in kbps, the skipping of
objects whose descriptor is 0 (standard input closed at start-up),
`SO_REUSEADDR`, DNS lookup. In `Aggregator`, message bytes are records and a
throughput is a small number.

## 3. What the runs check

Runs that pass:

| run | instance | what it shows |
|---|---|---|
| `udp_server` (`MCUdpServer.cfg`) | 2 ports, up to 2 datagrams per port of 1 byte or empty | `NoByteLostOrDoubled`: every counted byte is in the counter or in a report. `AverageMatchesIntervals`: at the end of a scan the sum behind the average equals all intervals printed. `LedgerImplemented`: refinement of `ByteLedger`. `ReceivedIsReported` and `ReportsKeepComing` under fairness |
| `tcp_server` (`MCTcpServer.cfg`) | 2 connections of 1 byte, 5 slots of which 3 are scanned, 5 descriptors, counters that start at 3 | `StreamConserved`: of each byte sent it is known whether it is in the stream, in hand, in the counter or in a report, and it is in one of them only. `OneSlotPerConnection`. `LedgerImplemented`: refinement of `ByteLedger`, where what `malloc()` left in a counter does not count as reported. `AverageMatchesIntervals`: at the end of a scan the average and the intervals are of the same bytes, if no connection has different garbage in its two counters (`LeftAlike`). Under fairness `ScannedIsReported` and `ReportsKeepComing` |
| `aggregator_ledger` | 2 clients, a third process with an id outside, 3 reports each, buffer of 1, limit of 2 rounds, kills by another aggregator at any moment | `RoundInProgress`, `NoReportCountedTwice`, `AverageConserved`, over lost, overtaking and overwritten reports |
| `deployment` (`MCDeployment.cfg`) | `start_clients.sh` for 2 clients and 2 measurements, `start_servers.sh` for 1 server and 1 measurement, buffers of 1 | `KilledAtTheLimit`: nobody is killed but by an aggregator that has all its measurements. `FirstFinishes`, `RoundsClose` under fairness |
| `client` (`MCClient.cfg`) | 2 senders; TCP, UDP with dirty memory, a fixed packet size, a refused command line | `StartTogether`. `AverageOfBytesSent`: what a scan has added up for the average is at least all that had been sent when it began, at most all that has been sent when it ends. `InterruptEnds` under fairness. `RateMovesRight` |
| `fstest` (`MCFsTest.cfg`) | words of 6 bits, a kilo of 4, 2 seconds of at most 2 passes | `PassStaysInFile`, `ReadIsReported`, `TestEnds`. `WrittenIsCounted`: the figure of the write test is off by whole passes and nothing else |
| `tc_runner_py` (`MCTcRunnerPy.cfg`) | 3 programs, two of them on one host, each started at most once, any number of stops | `AlwaysAChild`: no `os.wait()` without a child. `NothingLeft`: a stop that returned has reaped every ssh. `StopComesBack` under fairness |
| `tc_runner_tcl` (`MCTcRunnerTcl.cfg`) | 2 programs, one that `pkill` finds by name and one it does not; 2 runs, 2 calls, 1 line each | `LeftOnlyIfSpared`: after a success no ssh is left and no program but those its pkill missed. `CountsOwnLines`: `grep_check` counts no line of an earlier run, unless that run's `tc-exe.tcl` started late. `LogComplete`. `TcExeEnds` under fairness |

Each module but `Deployment` has one type invariant, `TypeOK`. It is not only about types:
in `UdpServer` it bounds the table index, in `TcpServer` the descriptors and
`gAdded`, in `Aggregator` the rounds, in `FsTest` the 32-bit words.

Runs in which TLC finds that the code does not do what its text says:

| run | property | what happens |
|---|---|---|
| `tcp_server_last_slot` | `ConnectionsAreScanned` | `gServers[++gAdded]` fills slots from 1, the scan visits 0..n-1: the n-th connection is never measured |
| `deployment_second` | `BothFinish` | Example 1 of `ReadMe.txt` on one host: the aggregator that finishes first kills the processes of the other, which waits for ever |
| `client_race` | `OnlySentIsReported` | the unlocked `numSinceMeasure += res` undoes a reset: bytes are displayed twice |
| `client_rate` | `RateIsFollowed` | a sender reads `gBytesToSend` once, so `adjust_traffic()` has no effect: with `-t 4` for two connections the rate is lowered after the first interval and settles there, because half a byte more for each is cut to none, while both senders keep the rate of the start and `tp_thread` goes on measuring |

Other disagreements met while modelling, visible in the models but without a
run: each report leaves a socket open (`common.c:90`), and when none is left
reports are dropped with their bytes already reset (`OpenReportSocket`; a
property of it would only repeat the result of `socket()`); Example 2 of
`ReadMe.txt` starts both clients with `-id 0`, so that a round of two is never
complete (`RoundsClose` with such command lines fails as it does with the slip
`SameId`); `start_clients.sh` says port 10000 in its comment and uses 30000; a
packet size of 65554 passes the check and is stored as 18 (`Stored`); `-id -1`
is refused as "not specified" while a process without `-id` has 0
(`ParseConntest`); a rate of 0 is raised to 1 by too much traffic
(`CutToRate`); the counters of a TCP connection start with garbage
(`server_tcp.c:156`, history variable `garbage`); the server leaves its
"eternal loop" when `accept()` fails (`AcceptFails`); a throughput thread that
cannot be created goes unnoticed (`StartMeterFails`); an empty datagram ends a
UDP receiver (`RecvfromEmpty`); a client whose sender cannot be created joins
detached threads (`JoinReturns`); `fstest` takes `4194305k` for 1024 bytes
(`get_size`), does not notice that `dd` failed (`CreateFile`), and prints
twice the bytes of each complete write pass (`WriteBlock`); a child of
`tc-runner.py` that cannot become ssh kills programs of the running test case
(`StopInChild`). `pkill tclsh` in `tc-runner.tcl:134` stands after a line
break and a `;`, which a shell refuses, so it is never run (`Pkill`);
`run_exe` returns 1 when it cannot start a program, which a test case takes
for any value (`RunExeFails`).

### Bounds

* `MaxDatagrams`, `MaxBytes`: arrivals per port or connection. The hazard of the
  counters needs one increment in flight and one scan; a second arrival gives
  an increment on a counter that was reset in between. Scans are not bounded:
  the accumulators cannot grow beyond what arrived.
* Two connections: the scan needs one behind and one ahead of it; the slots of
  two connections suffice for an overwritten or a doubled one. The scan visits
  a NULL slot, slot 0, before a used one. One byte each is enough there because
  the counters start dirty: the scan has something to reset before the byte is
  counted. `-n` is 3, so that the slots 1 and 2 are both scanned and a report is
  the sum of two connections. The two counters start alike there (`LeftAlike`);
  `FiguresAgree` in section 4 covers those that do not. The theorems of section 4 hold for any number of bytes.
* `TableSize` = 5 in the TCP server, as many as descriptors: `MaxFds <= TableSize`
  is assumed, as a system allows fewer descriptors than the 0xFFFF slots of the
  code. `server_add()` never looks at the end of the table; that it stays inside
  follows from this assumption, and only from it, because no descriptor is ever
  closed (`Typing` in section 4).
* `MaxFds` = 5: the listening socket, the registration, two connections and one
  report; each of them can be the one that finds no descriptor.
* `MaxQueue`: a buffer of one datagram makes loss frequent; a report is then lost
  whenever the aggregator has not yet read the one before.
* `deployment`: two clients make rounds that wait for each other, one server
  makes an aggregator that may be first or last; the limits differ so that
  either can finish first. `MaxClients` is the number of clients: `IdOf` never
  leaves the arrays. Throughputs 0 and 1, buffers of one.
* `client`: `Kilo` = 1 and rates up to 2 let the correction cross zero, cut and
  clamp; the theorem about it is for all numbers. `MaxRate` stops no step: a
  rate raised beyond it counts as `MaxRate` (`AtMost`) and `tp_thread` goes on.
* `client_rate`: the rate starts at `MaxRate` and is never raised, as what is
  missing to the aim is less than a byte for each connection even when nothing
  is sent; so the bound is never reached from below. `MaxBytes` = 1: after that
  sends only fail, as for a peer that has stopped reading.
* `Runs` = 2, `MaxCalls` = 2: the second run meets programs of the first, with
  either program called first; one line tells an empty log from a full one.
* `MaxReports`, `NumMeasurements`: three reports per client against two rounds,
  so that a client can be ahead by one report of a round and of the limit.
* `Tps`: 0 (rounds that are skipped) and one or two other values.
* `Word`, `Kilo`: `n * Kilo^2` wraps to a small size, `n * Kilo^3` to zero and a
  size with the top bit set is negative, as 2^32 and 1024 do in the code.
* `PassesPerSecond`: a second passes at the latest after so many passes.
* Three programs on two hosts: one kill can end the programs of two children, a
  child can be reaped in the turn of another, and a program can be started
  between two stops.

`CHECK_DEADLOCK FALSE` is used where processes end, or where all traffic may
stop and a thread only sleeps and polls.

### Fairness

Threads are scheduled by the system, so each has weak fairness: it takes a step
if it can take one for ever. That is not enough at a mutex that another thread
takes again and again. The scan holds the mutex of a connection for a few
instructions once in a second and sleeps in between, so a waiting receiver gets
it: strong fairness of `LockCounters`. In the client the senders have strong
fairness because they pass through `gMutex` one by one. The environment has
none: datagrams, connections, signals and failures may or may not come, and
nothing is assumed of the join of detached threads. In `Aggregator` each process
reports once a second and the aggregator empties its buffer in far less, so
no process finds the buffer full each time: strong fairness of a report that
finds room (in `Deployment`, of both sides). The aggregators themselves have
weak fairness; `Aggregator` alone states none. In `TcRunnerPy` the loop of
a stop goes on, a forked child comes to its end, and ssh ends after the
`tc-remote.py` it runs; that the ssh of a kill comes to its end needs the keys
`tc-ssh-setup.tcl` sets up, as a password would be asked for. Programs need not
end, so `StopComesBack` promises a return only if no kill missed a program that
ran, or was still to be started, on its host. One that starts after the kill, or
that a failed kill leaves, can hold the runner for as long as it runs.

In `TcRunnerTcl` only `tc-exe.tcl` has fairness, of its event loop: a pipe that can
be read is read. Programs, ssh, the test case and who runs it have none.

## 4. What is proved

`MeterProofs` shows that each step of `Meter` keeps `MeterInv` and leaves
`Surplus(d)` (bytes in counter and reports, less bytes counted) as it is.
`MeterInv` is the inductive core: `MutexOwned` ties the mutex of an object to
the program counters, so receiver and scan are never in their critical sections
on one object together; `LoadedIsCurrent` follows from it: what a thread has
loaded is still what the counter holds when it stores. Neither types nor the
conservation law are inductive without these two.

`UdpServerProofs` adds the order of the start-up (`MainInOrder`: no scan before
the table is complete, no receiver for a port not yet reached) and proves, for
any number of ports and any datagrams, without the bounds of the runs:

* `Typing`: `Spec => []TypeOK`;
* `Conservation`: `Spec => []NoByteLostOrDoubled`;
* `FiguresAgree`: `Spec => []AverageMatchesIntervals`;
* `Refinement`: `Spec => LedgerImplemented`, the server implements `ByteLedger`;
* `ScanReportsAll`: what was counted before a scan is in the report it ends with.

They rest on `MeterAssumption` and `UdpAssumption` only: NULL is not an object,
`-n` fits the table, object i belongs to port i, datagrams have a length.

`AverageMatchesIntervals` compares two sums over the table. No induction over the
table is needed: `FiguresOK` of `MeterProofs` says that there is a function of
partial sums, `part[i]` being what was reported of the slots before `i`, which
ends in what the intervals add up to and is, at the slot the scan has come to,
what it has added up for the average. The reset of a counter raises the function
behind its slot. For that step a server has to show `VisitedOnce` (no object in
two slots the scan visits) and `SameBytes` (what is added for the average is what
the reports then hold of the object), for the others that a slot is only filled
by an object of which nothing is reported (`FiguresStay`).

`ScanReportsAll` is the part of `ReceivedIsReported` that is no liveness: what a
receiver has counted when no scan is under way cannot be missed by the next one.
It is a statement about two moments, `[](P => []Q)`. What carries it from the
first to the second is `CountedFor` of `MeterProofs`: the bytes are counted, and
either the scan has not passed the slot (and its mutex) or the reports hold them
already. The scan establishes the second half at the reset (`ScanTakesAll`); other
threads only count more (`OthersTakeNothing`); and a scan at its end has passed
every slot (`ScanComplete`). For the UDP server the slot of a port has to be
filled while a scan may run, which is `PortsPublished`. With it, all that
`ReceivedIsReported` has left to TLC is that scans come and end.

`TcpServerProofs` stands on the same lemmas of `MeterProofs`. Here objects appear
while the scan runs, so the invariant `Inv` also says what main() may rely on:
`MainInOrder` (an object being added has no thread yet; a slot handed out has
cost a descriptor) and `SlotsInOrder` (slots are used in order; an object in no
slot has not been scanned, one without a thread has counted nothing). The first
makes the slot `server_add()` fills a slot of the table, the second makes it a free
one and lets `Accept` overwrite the counters without losing a byte. Proved from
`TcpAssumption`, for any `Data`, `Garbage`, `MaxFds` and `MaxBytes`: `Typing`,
`Conservation` (`[]StreamConserved`), `OneSlot` (`[]OneSlotPerConnection`),
`FiguresAgree` (`[]AverageMatchesIntervals`),
`Refinement` (`LedgerImplemented`) and `ScanReportsAll`, for a connection whose
slot is one of those that are scanned: connections that come while the scan runs
take other slots (`NextInSlot`). `FiguresAgree` needs that `LeftAlike`, once
lost, is lost for good (`WasAlike`): what is left in the counters of an object
in the table never changes. The refinement maps `reported` to `ReportedBytes`,
what the reports hold less the garbage; `StreamConserved` makes a reset raise it
to exactly `counted`, `SlotsInOrder` makes `Accept` stutter although it chooses
new garbage.

`ClientProofs`: `Typing`, `Barrier` (`[]StartTogether`), `AverageInBounds`
(`[]AverageOfBytesSent`) and `RateRight` (`RateMovesRight`, an action property
that rests on a lemma about the cut and the clamp, `CutIsRight`).
`BarrierHolds` ties `gMutex` to where main() is, so no sender is past the
barrier while main() creates others; `NothingCountedYet` says that the
counters `Connect` fills have counted no byte. `SendersPass` looks at the lock
after that: with main() in its loop and no exit requested, it is free or one
sender is about to let go of it. `HeldByOne` is its invariant; "unless an exit is
requested" cannot be dropped, as a sender then ends with the lock held. That each
sender gets through is liveness and needs the strong fairness.

`AverageInBounds` is about the sum over all connections, for any number of them: what
the average is computed from is no less than what they had all sent before the
scan and no more than what they have sent after it, on top of what `malloc()`
left, while the interval figure next to it can be wrong either way
(`client_race`). In the middle of a scan this is said of the connections passed
so far: `NotBelow` and `NotAbove` compare the sum with any partial sums
(`SumsUp`) of values below or above the counters. `SumSteps` says what a step
does to the sum, `CountedGrows` that `counted` never falls, `SinceStartExact` that
`numSinceStart` is `counted` on top of the garbage. `TotalSumsUp` says that the
recursive function `Total` is such a partial sum, by induction over the set of the
numbers of connections for which it is (`NatInductionSet`).

The same module first speaks of command lines. `ParsedTyped`: whatever sequence of
options `conntest` is called with, `ParseConntest` gives arguments of their types,
so of its command lines `Client` assumes only that one that starts is that of a
client with `NumData` connections. The parser is a recursive function over the
positions of the line; that there is one for every line (`ParsedDefined`) and that
each of its values has the type is shown by induction with a set
(`NatInductionSet`). `ScriptsAgree`: for any number of processes and any base port,
`start_clients.sh` and `start_servers.sh` start two aggregators that wait for as
many processes as there are, on different ports, and on either side processes with
the ids 0..num-1 that report to their own aggregator, client i with the port and
number of connections of server i. That is what `Deployment` and the assumption of
`Aggregator` on ids take for granted; the run `deployment` does the same with 2
clients and 1 server. Ports have 16 bits, so they differ as long as there are no
more servers than ports. The proof follows a line option by option (`Read`).

`AggregatorProofs`: `Rounds` (`Spec => []RoundInProgress`), `OwnReports`
(`LedgerSpec => []NoReportCountedTwice`), `Typing` (`Spec => []TypeOK`),
`AverageExact` (`LedgerSpec => []AverageConserved`) and, for two aggregators on
one host, `KilledTogether` (`Spec` of `Deployment` `=> []KilledAtTheLimit`) and
`SidesAreAggregators`. `RoundInProgress` is inductive with the shape of the datagrams (`RoundOK`); the second needs `RoundsCovered`: a client
whose flag is set has been heard once more than rounds were closed. The
assumption that ids are inside the arrays (`AggregatorAssumption`) is used; that
they differ is not.

`Typing` and `AverageExact` speak of the sum over the clients that closes a round.
The module first proves, by induction on the size of the set, what
`SumFunctionOnSet` does for any finite set: its value does not depend on the order
(`SumDefined`), it is a number (`SetInduction` does the induction), it is zero of
zeros (`SumZero`), and it changes by what one value changes by (`SumChange`). The
library's induction theorems need an operator for the predicate; the same
induction with a set for it (`NatInductionSet`) is derived from the well-founded
order of the numbers. With that, `TotalsOK` (the figures are numbers) makes
`AverageConserved` inductive. `TypeOK` bounds the measurements, which needs
`ExitsAtLimit`: no report is handled after the last one asked for.

`KilledTogether` uses no assumption at all, so it holds of any command lines.
`LimitInv` strengthens the property: whoever has had the processes killed has
exited, hence its count of measurements never leaves the limit again. Without
"has exited" the step of an aggregator that goes on would break it.

`SidesAreAggregators` is the refinement that relates the composition to its parts:
`Spec` of `Deployment` implies `C!Spec` and `S!Spec`. A step of one side is a step
of its aggregator, and for the other one it is a stutter, the end of a process
(`Stops`) or, when it is the last step, `KilledByOther`; without this action
`Aggregator` would promise more than it keeps on a host with two. So `Typing` and
`Rounds`, with the constants and variables of a side put in, say of either side
of a `Deployment` what they say of one aggregator, where its ids are inside the
arrays. (This last substitution is by hand.)

`FsTestProofs`: `Typing`, `InsideFile` (`[]PassStaysInFile`), `ReadExact`
(`[]ReadIsReported`) and `WriteExact` (`[]WrittenIsCounted`), for any width of
a word. `PassInOrder` ties the position to what is left, which keeps the
unsigned subtraction from wrapping; `ReadIsCounted` says that `bytesRead` is
all that was read but for the current pass, and goes from pass to pass by a
lemma on sums modulo a word (`SumInWords`).

`TcRunnerPyProofs`: `Typing`, `ChildForEachWait` (`[]AlwaysAChild`) and `AllReaped`
(`[]NothingLeft`), for any programs and hosts. The loop of
`stop_remote_processes()` visits one child and waits for another, so neither is
inductive; `WaitsAreCounted` is: as many children are left as there are visits
to come, and one more while the runner waits. At the end of the loop there are
none. `ConnectedOrLost` says a program runs under its ssh, or without any.

`TcRunnerTclProofs`: `Typing`, `Complete` (`[]LogComplete`), `Stopped`
(`[]LeftOnlyIfSpared`) and `OwnLinesCounted` (`[]CountsOwnLines`), for any calls, programs, runs and lines. `LinesInOrder` says
that a printed line is in the pipe or in the log, and not in both, for the only
writer of a log; it also keeps the logs within their type. `StopsAll` says that
every ssh and program of the current run is in the list being worked off, or
was dealt with, and `StartedOnce` that what is over does not start again.
`CountsOwnLines` is about one moment, the end of a `grep_check`; what holds all the
time is `OwnLog`: from the moment this run has called a program, its log has no
line of another run, and no `tc-exe.tcl` of another run that still writes has it
open. `run_exe` establishes it by removing the log, an ssh of an earlier run that
only then starts its `tc-exe.tcl` (`late`) is what can break it, and `ListedStarted`
says that a check only looks at programs of this run. `OneWriter` then counts the
lines.

Only model-checked: everything about liveness (`ReceivedIsReported`,
`ScannedIsReported`, `ReportsKeepComing`, `FirstFinishes`, `RoundsClose`,
`InterruptEnds`, `TestEnds`, `StopComesBack`, `TcExeEnds`), as no prover handles
fairness here. Every invariant and every action property of the passing runs has
a theorem. `Deployment` has no type invariant of its own: its variables are
those of two aggregators, of which `Typing` of `AggregatorProofs` speaks.

## 5. What is left

Not modelled:

* the text output, usage and version messages, `debug.h`, the Makefiles;
* `tc-utils.tcl` and the procedures of `tc-runner.tcl` that only print or wait;
  `tc-ssh-setup.tcl`, a straight-line script; the example test cases;
* dead code: `recv_thread()` and `server_remove()` of `server.c`, the
  `send_msg_to_aggregator()` of `conntest.c` that shadows the one in `common.c`;
* an interval of 0 seconds and the division by it (`common.c:146`): `usleep()` lasts
  at least a second, so the clock would have to be set back;
* numbers outside an `int` on a command line, and the 32-bit wrap of `-t`;
* ids past the end of the aggregator's arrays (`aggregator.c:214`), excluded by
  an assumption; a `recvfrom()` whose uninitialized `addrLen` makes it fail is
  modelled (`RecvfromFails`), but nothing is promised of it beyond that what was
  received is reported;
* in `TcRunnerTcl`, a `grep` that reads while `tc-exe.tcl` writes half a line, a pid
  that another process got before `kill $ppid`, and test cases that call `exit`.

What could come next: the log files of `tc-runner.py`, which `tc-remote.py` opens
only when it has started.
