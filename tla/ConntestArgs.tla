---------------------------- MODULE ConntestArgs ----------------------------
(***************************************************************************)
(* What main() of conntest.c and main() of aggregator.c make of a command  *)
(* line, and the command lines that start_clients.sh and start_servers.sh  *)
(* give them.  A command line is a sequence of options, each with the word *)
(* behind it: a number (the int sscanf() stores), another text, or none.   *)
(***************************************************************************)
EXTENDS Integers, Sequences

Missing == [kind |-> "none"]
Text == [kind |-> "text"]
Number(n) == [kind |-> "number", val |-> n]

Flag(opt) == [opt |-> opt, word |-> Missing]
With(opt, word) == [opt |-> opt, word |-> word]
Value(o) == o.word.val

(* An option with what sscanf() can make of its word; -t is unsigned.      *)
Option == {o \in [opt : STRING, word : {Missing, Text} \union [kind : {"number"}, val : Int]] :
             o.opt = "-t" /\ o.word.kind = "number" => Value(o) >= 0}

Word16 == 65536
EthHeaderSize == 14 + 4

-----------------------------------------------------------------------------
(* conntest                                                                *)

(* gAppArgs after memset(); the field state says how far main() comes.     *)
NoArgs == [state |-> "parsing", isServer |-> FALSE, useUdp |-> FALSE, processId |-> 0,
           aggregatorPort |-> 0, numConnections |-> 0, wantedThroughput |-> 0,
           packetSize |-> 0, usedPacketSize |-> 0, serverPort |-> 0]

(* The fields set as they are parsed; -z and -p have 16 bits for it.       *)
FieldOf == [opt \in {"-id", "-a", "-n", "-t", "-z", "-p"} |->
              CASE opt = "-id" -> "processId"      [] opt = "-a" -> "aggregatorPort"
                [] opt = "-n" -> "numConnections"  [] opt = "-t" -> "wantedThroughput"
                [] opt = "-z" -> "packetSize"      [] opt = "-p" -> "serverPort"]
Stored(o) == IF o.opt \in {"-z", "-p"} THEN Value(o) % Word16 ELSE Value(o)

(* A packet has to be longer than its header; the test is on the int.      *)
TooShort(o) == o.opt = "-z" /\ Value(o) - EthHeaderSize <= 0

ParseOption(a, o) ==
    CASE a.state # "parsing"                 -> a
      [] o.opt \in {"-h", "-v"}              -> [a EXCEPT !.state = "shown"]
      [] o.opt = "-s"                        -> [a EXCEPT !.isServer = TRUE]
      [] o.opt = "-c"                        -> [a EXCEPT !.isServer = FALSE]
      [] o.opt = "-udp"                      -> [a EXCEPT !.useUdp = TRUE]
      [] o.opt = "-l" /\ o.word # Missing    -> a
      [] o.opt \in DOMAIN FieldOf /\ o.word.kind = "number" /\ ~TooShort(o)
                                             -> [a EXCEPT ![FieldOf[o.opt]] = Stored(o)]
      [] OTHER                               -> [a EXCEPT !.state = "refused"]

(* The end of the line: an empty one gets the usage, and one that lacks an *)
(* argument that is needed, with -1 for none, is refused.                  *)
Ended(a, needed, line) ==
    IF a.state # "parsing" THEN a
    ELSE [a EXCEPT !.state = IF line = <<>> THEN "shown"
                             ELSE IF needed = -1 THEN "refused" ELSE "started"]

(* The options in their order, later ones over earlier ones.  A processId  *)
(* of -1 stands for none, although memset() leaves 0.                      *)
ParseConntest(line) ==
    LET parsed[i \in 0..Len(line)] ==
            IF i = 0 THEN NoArgs ELSE ParseOption(parsed[i - 1], line[i])
        a == parsed[Len(line)]
    IN  Ended(a, a.processId, line)

-----------------------------------------------------------------------------
(* aggregator                                                              *)

NoAggregatorArgs == [state |-> "parsing", gNumClients |-> -1, gPort |-> -1,
                     gNumMeasurements |-> 60]

AggregatorField == [opt \in {"-n", "-p", "-m"} |->
                      CASE opt = "-n" -> "gNumClients"  [] opt = "-p" -> "gPort"
                        [] opt = "-m" -> "gNumMeasurements"]

ParseAggregatorOption(a, o) ==
    CASE a.state # "parsing" -> a
      [] o.opt = "-h"        -> [a EXCEPT !.state = "shown"]
      [] o.opt \in DOMAIN AggregatorField /\ o.word.kind = "number"
                             -> [a EXCEPT ![AggregatorField[o.opt]] = Value(o)]
      [] OTHER               -> [a EXCEPT !.state = "refused"]

ParseAggregator(line) ==
    LET parsed[i \in 0..Len(line)] ==
            IF i = 0 THEN NoAggregatorArgs ELSE ParseAggregatorOption(parsed[i - 1], line[i])
        a == parsed[Len(line)]
    IN  Ended(a, a.gPort, line)

-----------------------------------------------------------------------------
(* The scripts: an aggregator and num processes with the ids 0..num-1.     *)

(* Slip: id is not incremented.                                            *)
SameId(i) == 0
IdOf(i) == i

start_clients(num, basePort, tputTotal, numMeasure) ==
    [aggregator |-> <<With("-n", Number(num)), With("-p", Number(30000)),
                      With("-m", Number(numMeasure))>>,
     processes |-> [i \in 0..(num - 1) |->
         <<Flag("-c"), With("-id", Number(IdOf(i))), With("-l", Text),
           With("-t", Number(tputTotal \div num)), With("-n", Number(64)),
           With("-p", Number(basePort + IdOf(i))), With("-a", Number(30000))>>]]

start_servers(num, basePort, numMeasure) ==
    [aggregator |-> <<With("-n", Number(num)), With("-p", Number(30001)),
                      With("-m", Number(numMeasure))>>,
     processes |-> [i \in 0..(num - 1) |->
         <<With("-id", Number(IdOf(i))), Flag("-s"), With("-t", Number(1)),
           With("-n", Number(64)), With("-p", Number(basePort + IdOf(i))),
           With("-a", Number(30001))>>]]

=============================================================================
