---------------------------- MODULE ClientProofs ----------------------------
(***************************************************************************)
(* Proofs about command lines and about the client.  What main() parses    *)
(* has its types, and the two scripts start what fits together.  For any   *)
(* number of connections, command line, throughput and signal, senders     *)
(* start together and pass the lock one by one, the bytes behind a figure  *)
(* of the average are no fewer than were sent before its scan and no more  *)
(* than are sent after it, and the rate is set towards the throughput      *)
(* aimed for.                                                              *)
(***************************************************************************)
EXTENDS Client, WellFoundedInduction, TLAPS

-----------------------------------------------------------------------------
(* The command line.                                                       *)

(* Induction over a set of naturals.                                       *)
LEMMA NatInductionSet ==
    ASSUME NEW N, 0 \in N, \A n \in Nat : n \in N => n + 1 \in N
    PROVE  Nat \subseteq N
<1>1. SUFFICES ASSUME Nat \ N # {} PROVE FALSE
  OBVIOUS
<1>2. PICK m \in Nat \ N : \A k \in Nat \ N : <<k, m>> \notin OpToRel(<, Nat)
  BY <1>1, WFMin, NatLessThanWellFounded, Zenon
<1>3. \A k \in Nat \ N : ~(k < m)
  BY <1>2 DEF OpToRel
<1>4. m # 0 /\ m \in Nat
  OBVIOUS
<1>5. m - 1 \in Nat /\ m - 1 < m /\ (m - 1) + 1 = m
  BY <1>4
<1>6. m - 1 \in N
  BY <1>3, <1>5
<1> QED BY <1>5, <1>6

(* An option, right or wrong, leaves arguments of their types.             *)
LEMMA OptionKeepsType ==
    ASSUME NEW a \in AppArgs, NEW o \in Option
    PROVE  ParseOption(a, o) \in AppArgs
<1> DEFINE Others == {a, [a EXCEPT !.state = "shown"], [a EXCEPT !.state = "refused"],
                      [a EXCEPT !.isServer = TRUE], [a EXCEPT !.isServer = FALSE],
                      [a EXCEPT !.useUdp = TRUE]}
           n == Stored(o)
<1>1. Others \subseteq AppArgs
  BY DEF AppArgs
<1>2. ASSUME o.opt \in DOMAIN FieldOf, o.word.kind = "number"
      PROVE  [a EXCEPT ![FieldOf[o.opt]] = n] \in AppArgs
  <2>1. o.opt \in {"-id", "-a", "-n", "-t", "-z", "-p"}
    BY <1>2 DEF FieldOf
  <2>2. n \in Int /\ (o.opt \in {"-t", "-z", "-p"} => n \in Nat)
    BY <1>2 DEF Option, Missing, Text, Value, Stored, Word16
  <2> HIDE DEF n
  <2>3. IF o.opt \in {"-t", "-z", "-p"}
        THEN FieldOf[o.opt] \in {"wantedThroughput", "packetSize", "serverPort"}
        ELSE FieldOf[o.opt] \in {"processId", "aggregatorPort", "numConnections"}
    BY <2>1 DEF FieldOf
  <2>4. \A f \in {"processId", "aggregatorPort", "numConnections"} :
          [a EXCEPT ![f] = n] \in AppArgs
    BY <2>2 DEF AppArgs
  <2>5. n \in Nat => \A f \in {"wantedThroughput", "packetSize", "serverPort"} :
          [a EXCEPT ![f] = n] \in AppArgs
    BY DEF AppArgs
  <2> QED BY <2>2, <2>3, <2>4, <2>5
<1>3. CASE o.opt \in DOMAIN FieldOf /\ o.word.kind = "number" /\ ~TooShort(o)
  <2>1. ParseOption(a, o) \in {a, [a EXCEPT ![FieldOf[o.opt]] = n]}
    BY <1>3 DEF ParseOption, FieldOf
  <2> QED BY <2>1, <1>2, <1>3
<1>4. CASE ~(o.opt \in DOMAIN FieldOf /\ o.word.kind = "number" /\ ~TooShort(o))
  <2>1. ParseOption(a, o) \in Others
    BY <1>4 DEF ParseOption, FieldOf
  <2> QED BY <2>1, <1>1
<1> QED BY <1>3, <1>4

(* The loop of main(): what the array of its intermediate results is of.   *)
Parsed(g, line) ==
    [i \in 0..Len(line) |-> IF i = 0 THEN NoArgs ELSE ParseOption(g[i - 1], line[i])]

(* There is such an array, whatever the line.                              *)
LEMMA ParsedDefined ==
    ASSUME NEW line, Len(line) \in Nat
    PROVE  \E g : g = Parsed(g, line)
<1> DEFINE Upto(n, g) == /\ g = [i \in 0..Len(line) |-> g[i]]
                         /\ \A i \in 0..Len(line) : i <= n => g[i] = Parsed(g, line)[i]
           N == {n \in Nat : \E g : Upto(n, g)}
<1>1. 0 \in N
  <2> DEFINE g == [i \in 0..Len(line) |-> NoArgs]
  <2>1. Upto(0, g)
    BY DEF Parsed
  <2> QED BY <2>1
<1>2. ASSUME NEW n \in Nat, n \in N PROVE n + 1 \in N
  <2>1. PICK g : Upto(n, g)
    BY <1>2
  <2> DEFINE h == [i \in 0..Len(line) |-> IF i <= n THEN g[i] ELSE Parsed(g, line)[i]]
  <2>2. ASSUME NEW i \in 0..Len(line), i <= n + 1 PROVE h[i] = Parsed(h, line)[i]
    <3>1. h[i] = Parsed(g, line)[i]
      BY <2>1
    <3>2. i # 0 => i - 1 \in 0..Len(line) /\ i - 1 <= n
      BY <2>2
    <3>3. i # 0 => h[i - 1] = g[i - 1]
      BY <3>2
    <3> QED BY <3>1, <3>3 DEF Parsed
  <2>3. h = [i \in 0..Len(line) |-> h[i]]
    OBVIOUS
  <2>4. Upto(n + 1, h)
    <3> HIDE DEF h
    <3> QED BY <2>2, <2>3
  <2> HIDE DEF h, Upto
  <2> QED BY <2>4
<1>3. PICK g : Upto(Len(line), g)
  <2> HIDE DEF N
  <2>1. Len(line) \in N
    BY <1>1, <1>2, NatInductionSet
  <2> QED BY <2>1 DEF N
<1>4. \A i \in 0..Len(line) : g[i] = Parsed(g, line)[i]
  BY <1>3
<1>5. Parsed(g, line) = [i \in 0..Len(line) |-> Parsed(g, line)[i]]
  BY DEF Parsed
<1>6. g = Parsed(g, line)
  <2>1. g = [i \in 0..Len(line) |-> g[i]]
    BY <1>3
  <2> QED BY <2>1, <1>4, <1>5, Zenon
<1> QED BY <1>6

(* So main() runs through it, and ends behind the last option.             *)
LEMMA ConntestLoop ==
    ASSUME NEW line, Len(line) \in Nat
    PROVE  \E g : /\ g = Parsed(g, line)
                  /\ ParseConntest(line) = Ended(g[Len(line)], g[Len(line)].processId, line)
<1> DEFINE It == CHOOSE g : g = Parsed(g, line)
<1>1. It = Parsed(It, line)
  BY ParsedDefined
<1>2. ParseConntest(line) = Ended(It[Len(line)], It[Len(line)].processId, line)
  BY DEF ParseConntest, Parsed
<1> HIDE DEF It
<1> QED BY <1>1, <1>2

(* Whatever it is called with, main() of conntest makes arguments of their *)
(* types: a port and a packet size have 16 bits, and -t is no negative.    *)
THEOREM ParsedTyped ==
    ASSUME NEW line \in Seq(Option)
    PROVE  ParseConntest(line) \in AppArgs
<1>1. PICK g : /\ g = Parsed(g, line)
               /\ ParseConntest(line) = Ended(g[Len(line)], g[Len(line)].processId, line)
  <2>1. Len(line) \in Nat
    OBVIOUS
  <2> QED BY <2>1, ConntestLoop
<1> DEFINE N == {n \in Nat : n <= Len(line) => g[n] \in AppArgs}
<1>2. 0 \in N
  <2>1. g[0] = NoArgs
    BY <1>1 DEF Parsed
  <2>2. NoArgs \in AppArgs
    BY DEF NoArgs, AppArgs
  <2> QED BY <2>1, <2>2
<1>3. ASSUME NEW n \in Nat, n \in N PROVE n + 1 \in N
  <2>1. SUFFICES ASSUME n + 1 <= Len(line) PROVE g[n + 1] \in AppArgs
    OBVIOUS
  <2>2. g[n] \in AppArgs /\ line[n + 1] \in Option
    BY <2>1, <1>3
  <2>3. g[n + 1] = ParseOption(g[n], line[n + 1])
    <3>1. n + 1 \in 0..Len(line) /\ n + 1 # 0 /\ (n + 1) - 1 = n
      BY <2>1
    <3> QED BY <1>1, <3>1 DEF Parsed
  <2> QED BY <2>2, <2>3, OptionKeepsType
<1>4. g[Len(line)] \in AppArgs
  <2> HIDE DEF N
  <2>1. Len(line) \in N
    BY <1>2, <1>3, NatInductionSet
  <2> QED BY <2>1 DEF N
<1> QED BY <1>1, <1>4 DEF Ended, AppArgs

-----------------------------------------------------------------------------
(* What the scripts start.                                                 *)

(* The arguments as far as they are parsed, and those of what starts.      *)
Read(a, side, id, agg, n, tput, port) ==
    /\ a \in AppArgs /\ a.state = "parsing"
    /\ IF side = "server" THEN a.isServer ELSE ~a.isServer
    /\ a.processId = id /\ a.aggregatorPort = agg /\ a.numConnections = n
    /\ a.wantedThroughput = tput /\ a.serverPort = port

StartedWith(a, side, id, agg, n, tput, port) ==
    /\ a.state = "started"
    /\ IF side = "server" THEN a.isServer ELSE ~a.isServer
    /\ a.processId = id /\ a.aggregatorPort = agg /\ a.numConnections = n
    /\ a.wantedThroughput = tput /\ a.serverPort = port

(* The options of the scripts that have no number.                         *)
LEMMA SideOption ==
    ASSUME NEW a, NEW s, NEW id, NEW agg, NEW n, NEW t, NEW p,
           Read(a, s, id, agg, n, t, p)
    PROVE  /\ Read(ParseOption(a, Flag("-c")), "client", id, agg, n, t, p)
           /\ Read(ParseOption(a, Flag("-s")), "server", id, agg, n, t, p)
           /\ Read(ParseOption(a, With("-l", Text)), s, id, agg, n, t, p)
<1>1. a \in AppArgs /\ a.state = "parsing"
  BY DEF Read
<1>2. ParseOption(a, Flag("-c")) = [a EXCEPT !.isServer = FALSE]
  BY <1>1 DEF ParseOption, Flag, FieldOf
<1>3. ParseOption(a, Flag("-s")) = [a EXCEPT !.isServer = TRUE]
  BY <1>1 DEF ParseOption, Flag, FieldOf
<1>4. ParseOption(a, With("-l", Text)) = a
  BY <1>1 DEF Text, Missing, ParseOption, With, FieldOf
<1>5. Read([a EXCEPT !.isServer = FALSE], "client", id, agg, n, t, p)
  BY DEF Read, AppArgs
<1>6. Read([a EXCEPT !.isServer = TRUE], "server", id, agg, n, t, p)
  BY DEF Read, AppArgs
<1> QED BY <1>2, <1>3, <1>4, <1>5, <1>6

(* The options of the scripts that have one.                               *)
LEMMA NumberOption ==
    ASSUME NEW a, NEW s, NEW id, NEW agg, NEW n, NEW t, NEW p,
           Read(a, s, id, agg, n, t, p), NEW v \in Nat
    PROVE  /\ Read(ParseOption(a, With("-id", Number(v))), s, v, agg, n, t, p)
           /\ Read(ParseOption(a, With("-a", Number(v))), s, id, v, n, t, p)
           /\ Read(ParseOption(a, With("-n", Number(v))), s, id, agg, v, t, p)
           /\ Read(ParseOption(a, With("-t", Number(v))), s, id, agg, n, v, p)
           /\ Read(ParseOption(a, With("-p", Number(v))), s, id, agg, n, t, v % Word16)
<1> DEFINE o(opt) == With(opt, Number(v))
           w == v % Word16
<1>1. a \in AppArgs /\ a.state = "parsing"
  BY DEF Read
<1>2. \A opt \in {"-id", "-a", "-n", "-t", "-p"} :
        ParseOption(a, o(opt)) = [a EXCEPT ![FieldOf[opt]] = Stored(o(opt))]
  BY <1>1 DEF Number, FieldOf, TooShort, ParseOption, With
<1>3. /\ FieldOf["-id"] = "processId" /\ FieldOf["-a"] = "aggregatorPort"
      /\ FieldOf["-n"] = "numConnections" /\ FieldOf["-t"] = "wantedThroughput"
      /\ FieldOf["-p"] = "serverPort"
  BY DEF FieldOf
<1>4. /\ \A opt \in {"-id", "-a", "-n", "-t"} : Stored(o(opt)) = v
      /\ Stored(o("-p")) = w
  BY DEF Stored, Value, Number, With
<1>5. w \in Nat
  BY DEF Word16
<1> HIDE DEF o, w
<1>6. /\ ParseOption(a, o("-id")) = [a EXCEPT !.processId = v]
      /\ ParseOption(a, o("-a")) = [a EXCEPT !.aggregatorPort = v]
      /\ ParseOption(a, o("-n")) = [a EXCEPT !.numConnections = v]
      /\ ParseOption(a, o("-t")) = [a EXCEPT !.wantedThroughput = v]
      /\ ParseOption(a, o("-p")) = [a EXCEPT !.serverPort = w]
  BY <1>2, <1>3, <1>4
<1>7. /\ Read([a EXCEPT !.processId = v], s, v, agg, n, t, p)
      /\ Read([a EXCEPT !.aggregatorPort = v], s, id, v, n, t, p)
      /\ Read([a EXCEPT !.numConnections = v], s, id, agg, v, t, p)
      /\ Read([a EXCEPT !.wantedThroughput = v], s, id, agg, n, v, p)
      /\ Read([a EXCEPT !.serverPort = w], s, id, agg, n, t, w)
  BY <1>5 DEF Read, AppArgs
<1> QED BY <1>6, <1>7 DEF o, w

(* The loop, option by option.                                             *)
LEMMA EachOption ==
    ASSUME NEW line, Len(line) \in Nat
    PROVE  \E g : /\ Read(g[0], "client", 0, 0, 0, 0, 0)
                  /\ \A k \in 1..Len(line) : g[k] = ParseOption(g[k - 1], line[k])
                  /\ ParseConntest(line) = Ended(g[Len(line)], g[Len(line)].processId, line)
<1>1. PICK g : /\ g = Parsed(g, line)
               /\ ParseConntest(line) = Ended(g[Len(line)], g[Len(line)].processId, line)
  BY ConntestLoop
<1>2. g[0] = NoArgs /\ Read(NoArgs, "client", 0, 0, 0, 0, 0)
  BY <1>1 DEF Parsed, Read, NoArgs, AppArgs
<1>3. \A k \in 1..Len(line) : g[k] = ParseOption(g[k - 1], line[k])
  BY <1>1 DEF Parsed
<1> QED BY <1>1, <1>2, <1>3

(* A line that gives an id, and is not refused, starts the process.        *)
LEMMA EndOfLine ==
    ASSUME NEW a, NEW s, NEW id \in Nat, NEW agg, NEW n, NEW t, NEW p,
           Read(a, s, id, agg, n, t, p), NEW line, line # <<>>
    PROVE  StartedWith(Ended(a, a.processId, line), s, id, agg, n, t, p)
<1>1. a \in AppArgs /\ a.state = "parsing" /\ a.processId # -1
  BY DEF Read
<1>2. Ended(a, a.processId, line) = [a EXCEPT !.state = "started"]
  BY <1>1 DEF Ended
<1> QED BY <1>1, <1>2 DEF Read, StartedWith, AppArgs

(* The line of a client.                                                   *)
LEMMA ClientOptions ==
    ASSUME NEW L, NEW i \in Nat, NEW T \in Nat, NEW N \in Nat, NEW P \in Nat, NEW A \in Nat,
           L = <<Flag("-c"), With("-id", Number(i)), With("-l", Text), With("-t", Number(T)),
                 With("-n", Number(N)), With("-p", Number(P)), With("-a", Number(A))>>
    PROVE  StartedWith(ParseConntest(L), "client", i, A, N, T, P % Word16)
<1>1. Len(L) = 7 /\ L # <<>>
  OBVIOUS
<1>2. PICK g : /\ Read(g[0], "client", 0, 0, 0, 0, 0)
               /\ \A k \in 1..Len(L) : g[k] = ParseOption(g[k - 1], L[k])
               /\ ParseConntest(L) = Ended(g[Len(L)], g[Len(L)].processId, L)
  <2>1. Len(L) \in Nat
    BY <1>1
  <2>2. \A l : Len(l) \in Nat =>
          \E g : /\ Read(g[0], "client", 0, 0, 0, 0, 0)
                 /\ \A k \in 1..Len(l) : g[k] = ParseOption(g[k - 1], l[k])
                 /\ ParseConntest(l) = Ended(g[Len(l)], g[Len(l)].processId, l)
    BY EachOption
  <2> QED BY <2>1, <2>2, Zenon
<1>3. /\ g[1] = ParseOption(g[0], Flag("-c"))
      /\ g[2] = ParseOption(g[1], With("-id", Number(i)))
      /\ g[3] = ParseOption(g[2], With("-l", Text))
      /\ g[4] = ParseOption(g[3], With("-t", Number(T)))
      /\ g[5] = ParseOption(g[4], With("-n", Number(N)))
      /\ g[6] = ParseOption(g[5], With("-p", Number(P)))
      /\ g[7] = ParseOption(g[6], With("-a", Number(A)))
  BY <1>1, <1>2
<1>4. Read(g[2], "client", i, 0, 0, 0, 0)
  <2>1. Read(g[1], "client", 0, 0, 0, 0, 0)
    BY <1>2, <1>3, SideOption
  <2> QED BY <2>1, <1>3, NumberOption
<1>5. Read(g[4], "client", i, 0, 0, T, 0)
  <2>1. Read(g[3], "client", i, 0, 0, 0, 0)
    BY <1>3, <1>4, SideOption
  <2> QED BY <2>1, <1>3, NumberOption
<1>6. Read(g[5], "client", i, 0, N, T, 0)
  BY <1>3, <1>5, NumberOption
<1>7. Read(g[7], "client", i, A, N, T, P % Word16)
  <2>1. Read(g[6], "client", i, 0, N, T, P % Word16)
    BY <1>3, <1>6, NumberOption
  <2> QED BY <2>1, <1>3, NumberOption
<1>8. StartedWith(Ended(g[7], g[7].processId, L), "client", i, A, N, T, P % Word16)
  <2> DEFINE w == P % Word16
  <2>1. Read(g[7], "client", i, A, N, T, w)
    BY <1>7
  <2> HIDE DEF w
  <2>2. StartedWith(Ended(g[7], g[7].processId, L), "client", i, A, N, T, w)
    BY <1>1, <2>1, EndOfLine
  <2> QED BY <2>2 DEF w
<1> QED BY <1>1, <1>2, <1>8

(* A client of start_clients.sh.                                           *)
LEMMA ClientLine ==
    ASSUME NEW num \in Nat \ {0}, NEW basePort \in Nat, NEW tputTotal \in Nat,
           NEW numMeasure, NEW i \in 0..(num - 1)
    PROVE  StartedWith(ParseConntest(
                           start_clients(num, basePort, tputTotal, numMeasure).processes[i]),
                       "client", i, 30000, 64, tputTotal \div num, (basePort + i) % Word16)
<1> DEFINE A == 30000
           N == 64
           T == tputTotal \div num
           P == basePort + i
           L == <<Flag("-c"), With("-id", Number(i)), With("-l", Text), With("-t", Number(T)),
                  With("-n", Number(N)), With("-p", Number(P)), With("-a", Number(A))>>
<1>1. i \in Nat /\ A \in Nat /\ N \in Nat /\ T \in Nat /\ P \in Nat
  OBVIOUS
<1>2. start_clients(num, basePort, tputTotal, numMeasure).processes[i] = L
  BY DEF start_clients, IdOf
<1> HIDE DEF A, N, T, P
<1>3. StartedWith(ParseConntest(L), "client", i, A, N, T, P % Word16)
  BY <1>1, ClientOptions
<1> QED BY <1>2, <1>3 DEF A, N, T, P

(* The line of a server.                                                   *)
LEMMA ServerOptions ==
    ASSUME NEW L, NEW i \in Nat, NEW T \in Nat, NEW N \in Nat, NEW P \in Nat, NEW A \in Nat,
           L = <<With("-id", Number(i)), Flag("-s"), With("-t", Number(T)),
                 With("-n", Number(N)), With("-p", Number(P)), With("-a", Number(A))>>
    PROVE  StartedWith(ParseConntest(L), "server", i, A, N, T, P % Word16)
<1>1. Len(L) = 6 /\ L # <<>>
  OBVIOUS
<1>2. PICK g : /\ Read(g[0], "client", 0, 0, 0, 0, 0)
               /\ \A k \in 1..Len(L) : g[k] = ParseOption(g[k - 1], L[k])
               /\ ParseConntest(L) = Ended(g[Len(L)], g[Len(L)].processId, L)
  <2>1. Len(L) \in Nat
    BY <1>1
  <2>2. \A l : Len(l) \in Nat =>
          \E g : /\ Read(g[0], "client", 0, 0, 0, 0, 0)
                 /\ \A k \in 1..Len(l) : g[k] = ParseOption(g[k - 1], l[k])
                 /\ ParseConntest(l) = Ended(g[Len(l)], g[Len(l)].processId, l)
    BY EachOption
  <2> QED BY <2>1, <2>2, Zenon
<1>3. /\ g[1] = ParseOption(g[0], With("-id", Number(i)))
      /\ g[2] = ParseOption(g[1], Flag("-s"))
      /\ g[3] = ParseOption(g[2], With("-t", Number(T)))
      /\ g[4] = ParseOption(g[3], With("-n", Number(N)))
      /\ g[5] = ParseOption(g[4], With("-p", Number(P)))
      /\ g[6] = ParseOption(g[5], With("-a", Number(A)))
  BY <1>1, <1>2
<1>4. Read(g[2], "server", i, 0, 0, 0, 0)
  <2>1. Read(g[1], "client", i, 0, 0, 0, 0)
    BY <1>2, <1>3, NumberOption
  <2> QED BY <2>1, <1>3, SideOption
<1>5. Read(g[3], "server", i, 0, 0, T, 0)
  BY <1>3, <1>4, NumberOption
<1>6. Read(g[4], "server", i, 0, N, T, 0)
  BY <1>3, <1>5, NumberOption
<1>7. Read(g[6], "server", i, A, N, T, P % Word16)
  <2>1. Read(g[5], "server", i, 0, N, T, P % Word16)
    BY <1>3, <1>6, NumberOption
  <2> QED BY <2>1, <1>3, NumberOption
<1>8. StartedWith(Ended(g[6], g[6].processId, L), "server", i, A, N, T, P % Word16)
  <2> DEFINE w == P % Word16
  <2>1. Read(g[6], "server", i, A, N, T, w)
    BY <1>7
  <2> HIDE DEF w
  <2>2. StartedWith(Ended(g[6], g[6].processId, L), "server", i, A, N, T, w)
    BY <1>1, <2>1, EndOfLine
  <2> QED BY <2>2 DEF w
<1> QED BY <1>1, <1>2, <1>8

(* A server of start_servers.sh.                                           *)
LEMMA ServerLine ==
    ASSUME NEW num \in Nat \ {0}, NEW basePort \in Nat, NEW numMeasure, NEW i \in 0..(num - 1)
    PROVE  StartedWith(ParseConntest(start_servers(num, basePort, numMeasure).processes[i]),
                       "server", i, 30001, 64, 1, (basePort + i) % Word16)
<1> DEFINE A == 30001
           N == 64
           T == 1
           P == basePort + i
           L == <<With("-id", Number(i)), Flag("-s"), With("-t", Number(T)),
                  With("-n", Number(N)), With("-p", Number(P)), With("-a", Number(A))>>
<1>1. i \in Nat /\ A \in Nat /\ N \in Nat /\ T \in Nat /\ P \in Nat
  OBVIOUS
<1>2. start_servers(num, basePort, numMeasure).processes[i] = L
  BY DEF start_servers, IdOf
<1> HIDE DEF A, N, T, P
<1>3. StartedWith(ParseConntest(L), "server", i, A, N, T, P % Word16)
  BY <1>1, ServerOptions
<1> QED BY <1>2, <1>3 DEF A, N, T, P

(* The loop of the aggregator's main(), and its arguments underway.        *)
ParsedForAggregator(g, L) ==
    [i \in 0..Len(L) |-> IF i = 0 THEN NoAggregatorArgs
                          ELSE ParseAggregatorOption(g[i - 1], L[i])]
AggregatorArgs(n, p, m) ==
    [state |-> "parsing", gNumClients |-> n, gPort |-> p, gNumMeasurements |-> m]

(* Its options.                                                            *)
LEMMA AggregatorOptions ==
    ASSUME NEW n, NEW p, NEW m, NEW v \in Nat
    PROVE  /\ ParseAggregatorOption(AggregatorArgs(n, p, m), With("-n", Number(v)))
                 = AggregatorArgs(v, p, m)
           /\ ParseAggregatorOption(AggregatorArgs(n, p, m), With("-p", Number(v)))
                 = AggregatorArgs(n, v, m)
           /\ ParseAggregatorOption(AggregatorArgs(n, p, m), With("-m", Number(v)))
                 = AggregatorArgs(n, p, v)
<1> DEFINE a == AggregatorArgs(n, p, m)
<1>1. a.state = "parsing"
  BY DEF AggregatorArgs
<1>2. /\ [a EXCEPT !.gNumClients = v] = AggregatorArgs(v, p, m)
      /\ [a EXCEPT !.gPort = v] = AggregatorArgs(n, v, m)
      /\ [a EXCEPT !.gNumMeasurements = v] = AggregatorArgs(n, p, v)
  BY DEF AggregatorArgs
<1> HIDE DEF a
<1>3. /\ ParseAggregatorOption(a, With("-n", Number(v))) = [a EXCEPT !.gNumClients = v]
      /\ ParseAggregatorOption(a, With("-p", Number(v))) = [a EXCEPT !.gPort = v]
      /\ ParseAggregatorOption(a, With("-m", Number(v))) = [a EXCEPT !.gNumMeasurements = v]
  BY <1>1 DEF ParseAggregatorOption, AggregatorField, With, Number, Value
<1> QED BY <1>2, <1>3 DEF a

(* The line both scripts give an aggregator.                               *)
LEMMA AggregatorLine ==
    ASSUME NEW L, NEW n \in Nat, NEW p \in Nat, NEW m \in Nat,
           L = <<With("-n", Number(n)), With("-p", Number(p)), With("-m", Number(m))>>
    PROVE  ParseAggregator(L) = [AggregatorArgs(n, p, m) EXCEPT !.state = "started"]
<1> DEFINE h == [i \in 0..3 |-> IF i = 0 THEN NoAggregatorArgs
                                ELSE IF i = 1 THEN AggregatorArgs(n, -1, 60)
                                ELSE IF i = 2 THEN AggregatorArgs(n, p, 60)
                                ELSE AggregatorArgs(n, p, m)]
           It == CHOOSE g : g = ParsedForAggregator(g, L)
<1>1. /\ Len(L) = 3 /\ L # <<>>
      /\ L[1] = With("-n", Number(n)) /\ L[2] = With("-p", Number(p))
      /\ L[3] = With("-m", Number(m))
  OBVIOUS
<1>2. /\ ParseAggregatorOption(NoAggregatorArgs, L[1]) = AggregatorArgs(n, -1, 60)
      /\ ParseAggregatorOption(AggregatorArgs(n, -1, 60), L[2]) = AggregatorArgs(n, p, 60)
      /\ ParseAggregatorOption(AggregatorArgs(n, p, 60), L[3]) = AggregatorArgs(n, p, m)
  <2>1. NoAggregatorArgs = AggregatorArgs(-1, -1, 60)
    BY DEF NoAggregatorArgs, AggregatorArgs
  <2> QED BY <2>1, <1>1, AggregatorOptions
<1>3. h = ParsedForAggregator(h, L)
  <2>1. \A i \in 0..3 : h[i] = IF i = 0 THEN NoAggregatorArgs
                               ELSE ParseAggregatorOption(h[i - 1], L[i])
    <3> TAKE i \in 0..3
    <3>1. i = 0 \/ i = 1 \/ i = 2 \/ i = 3
      OBVIOUS
    <3>2. /\ h[0] = NoAggregatorArgs /\ h[1] = AggregatorArgs(n, -1, 60)
          /\ h[2] = AggregatorArgs(n, p, 60) /\ h[3] = AggregatorArgs(n, p, m)
      OBVIOUS
    <3> HIDE DEF h
    <3> QED BY <1>2, <3>1, <3>2
  <2>2. h = [i \in 0..3 |-> h[i]]
    OBVIOUS
  <2> HIDE DEF h
  <2> QED BY <1>1, <2>1, <2>2 DEF ParsedForAggregator
<1>4. It = ParsedForAggregator(It, L)
  <2> HIDE DEF h
  <2> QED BY <1>3
<1>5. ParseAggregator(L) = Ended(It[3], It[3].gPort, L)
  BY <1>1 DEF ParseAggregator, ParsedForAggregator
<1> HIDE DEF It
<1>6. /\ It[0] = NoAggregatorArgs /\ It[1] = ParseAggregatorOption(It[0], L[1])
      /\ It[2] = ParseAggregatorOption(It[1], L[2])
      /\ It[3] = ParseAggregatorOption(It[2], L[3])
  BY <1>1, <1>4 DEF ParsedForAggregator
<1>7. It[3] = AggregatorArgs(n, p, m)
  BY <1>2, <1>6, Zenon
<1>8. AggregatorArgs(n, p, m).state = "parsing" /\ AggregatorArgs(n, p, m).gPort # -1
  BY DEF AggregatorArgs
<1> QED BY <1>1, <1>5, <1>7, <1>8 DEF Ended

(* Ports less than 2^16 apart are different with 16 bits, too.             *)
LEMMA Distinct ==
    ASSUME NEW a \in Nat, NEW b \in Nat, a < b, b - a < 65536
    PROVE  a % 65536 # b % 65536
OBVIOUS

(* What start_clients.sh and start_servers.sh start fits together, for any *)
(* number of processes.  Both aggregators start, on ports of their own,    *)
(* and wait for num processes; process i of either side starts, as what it *)
(* should be, with id i (so the ids are those the arrays of its aggregator *)
(* are for) and sends to the aggregator of its side; client i has server   *)
(* i's port and number of connections; and no two servers have one port,   *)
(* unless there are more of them than ports.                               *)
THEOREM ScriptsAgree ==
    ASSUME NEW num \in Nat \ {0}, NEW basePort \in Nat, NEW tputTotal \in Nat,
           NEW numMeasure \in Nat
    PROVE  LET clients == start_clients(num, basePort, tputTotal, numMeasure)
               servers == start_servers(num, basePort, numMeasure)
               client(i) == ParseConntest(clients.processes[i])
               server(i) == ParseConntest(servers.processes[i])
               ofClients == ParseAggregator(clients.aggregator)
               ofServers == ParseAggregator(servers.aggregator)
           IN  /\ \A a \in {ofClients, ofServers} :
                     a.state = "started" /\ a.gNumClients = num
                     /\ a.gNumMeasurements = numMeasure
               /\ ofClients.gPort # ofServers.gPort
               /\ \A i \in 0..(num - 1) :
                     /\ client(i).state = "started" /\ ~client(i).isServer
                     /\ server(i).state = "started" /\ server(i).isServer
                     /\ client(i).processId = i /\ server(i).processId = i
                     /\ client(i).aggregatorPort = ofClients.gPort
                     /\ server(i).aggregatorPort = ofServers.gPort
                     /\ client(i).serverPort = server(i).serverPort
                     /\ client(i).numConnections = server(i).numConnections
               /\ num <= Word16 =>
                     \A i, j \in 0..(num - 1) :
                        i # j => server(i).serverPort # server(j).serverPort
<1> DEFINE A == 30000
           B == 30001
           N == 64
           T == 1
           clients == start_clients(num, basePort, tputTotal, numMeasure)
           servers == start_servers(num, basePort, numMeasure)
           client(i) == ParseConntest(clients.processes[i])
           server(i) == ParseConntest(servers.processes[i])
           ofClients == ParseAggregator(clients.aggregator)
           ofServers == ParseAggregator(servers.aggregator)
<1>1. A \in Nat /\ B \in Nat /\ A # B
  OBVIOUS
<1>2. ASSUME NEW i \in 0..(num - 1)
      PROVE  StartedWith(client(i), "client", i, A, N, tputTotal \div num,
                         (basePort + i) % Word16)
  BY ClientLine
<1>3. ASSUME NEW i \in 0..(num - 1)
      PROVE  StartedWith(server(i), "server", i, B, N, T, (basePort + i) % Word16)
  BY ServerLine
<1>4. /\ clients.aggregator = <<With("-n", Number(num)), With("-p", Number(A)),
                                With("-m", Number(numMeasure))>>
      /\ servers.aggregator = <<With("-n", Number(num)), With("-p", Number(B)),
                                With("-m", Number(numMeasure))>>
  BY DEF start_clients, start_servers
<1> HIDE DEF A, B, N, T
<1>5. /\ ofClients = [AggregatorArgs(num, A, numMeasure) EXCEPT !.state = "started"]
      /\ ofServers = [AggregatorArgs(num, B, numMeasure) EXCEPT !.state = "started"]
  <2> HIDE DEF clients, servers
  <2> QED BY <1>1, <1>4, AggregatorLine
<1> HIDE DEF client, server, ofClients, ofServers
<1>6. /\ ofClients.state = "started" /\ ofClients.gNumClients = num /\ ofClients.gPort = A
      /\ ofClients.gNumMeasurements = numMeasure
      /\ ofServers.state = "started" /\ ofServers.gNumClients = num /\ ofServers.gPort = B
      /\ ofServers.gNumMeasurements = numMeasure
  BY <1>5 DEF AggregatorArgs
<1>7. ASSUME NEW i \in 0..(num - 1)
      PROVE  /\ client(i).state = "started" /\ ~client(i).isServer
             /\ server(i).state = "started" /\ server(i).isServer
             /\ client(i).processId = i /\ server(i).processId = i
             /\ client(i).aggregatorPort = A /\ server(i).aggregatorPort = B
             /\ client(i).serverPort = (basePort + i) % Word16
             /\ server(i).serverPort = (basePort + i) % Word16
             /\ client(i).numConnections = server(i).numConnections
  BY <1>2, <1>3 DEF StartedWith
<1>8. ASSUME num <= Word16, NEW i \in 0..(num - 1), NEW j \in 0..(num - 1), i < j
      PROVE  server(i).serverPort # server(j).serverPort
  <2>1. (basePort + i) % 65536 # (basePort + j) % 65536
    BY <1>8, Distinct DEF Word16
  <2> QED BY <2>1, <1>7 DEF Word16
<1>9. num <= Word16 =>
         \A i, j \in 0..(num - 1) : i # j => server(i).serverPort # server(j).serverPort
  <2> SUFFICES ASSUME num <= Word16, NEW i \in 0..(num - 1), NEW j \in 0..(num - 1), i # j
               PROVE  server(i).serverPort # server(j).serverPort
    OBVIOUS
  <2>1. CASE i < j
    BY <1>8, <2>1
  <2>2. CASE j < i
    BY <1>8, <2>2
  <2> QED BY <2>1, <2>2
<1> QED
  BY <1>1, <1>6, <1>7, <1>9 DEF client, server, ofClients, ofServers

-----------------------------------------------------------------------------
(* The client.                                                             *)

(* The parameters, without the numbering of the objects.                   *)
LEMMA Parameters ==
    /\ Garbage \subseteq Nat /\ MaxRate \in Nat /\ FirstRate \in 0..MaxRate
    /\ Kilo \in Nat \ {0} /\ NumData >= 1 /\ MaxBytes \in Nat
    /\ \A l \in CommandLines : ParseConntest(l) \in AppArgs
BY ClientAssumption, ParsedTyped

USE MeterAssumption, Parameters

LEMMA NaturalValues ==
    Garbage \union {0} \subseteq Nat
OBVIOUS
USE DEF Lock, Free, Unlock, ResetCounter, FreshSums, HoldBarrier, ExitSeen

LEMMA InitInv == ASSUME Init PROVE Inv
<1>1. TypeOK
  <2>1. /\ slots \in [Slot -> Data \union {NoData}]
        /\ mutex \in [Data -> {"free", "tp"}]
        /\ pc \in [Data -> SendPc]
        /\ tpPc \in TpPc /\ mainPc \in MainPc
    BY DEF Init, MeterInit, SendPc, TpPc, MainPc
  <2>2. /\ garbage \in [Data -> Garbage \union {0}]
        /\ atWake \in [Data -> 0..MaxBytes]
        /\ bytesToSend \in [Data -> Nat]
        /\ counted \in [Data -> 0..MaxBytes]
    BY DEF Init, MeterInit
  <2>3. /\ numSinceMeasure \in [Data -> Nat] /\ numSinceStart \in [Data -> Nat]
        /\ res \in [Data -> Nat] /\ reg \in [Data -> Nat] /\ taken \in [Data -> Nat]
    BY DEF Init, MeterInit
  <2>4. /\ tpSlot \in 0..NumData /\ next \in 0..NumData
        /\ tpTook = 0 /\ numBytes = 0 /\ numBytesSinceStart = 0 /\ emitted = 0
        /\ gMutex = "free" /\ gDoExit = FALSE /\ gBytesToSend \in 0..MaxRate
    BY DEF Init, MeterInit
  <2>5. gAppArgs \in AppArgs
    BY DEF Init, NoArgs, AppArgs
  <2> QED BY <2>1, <2>2, <2>3, <2>4, <2>5 DEF TypeOK
<1>2. BarrierHolds /\ NothingCountedYet /\ ScanHasObject
  BY DEF Init, MeterInit, BarrierHolds, NothingCountedYet, ScanHasObject, InSection,
         NotStarted
<1>3. StartTogether /\ SinceStartExact
  BY DEF Init, MeterInit, StartTogether, SinceStartExact
<1> QED BY <1>1, <1>2, <1>3 DEF Inv

-----------------------------------------------------------------------------
(* The main thread and the handler of the signals.                         *)

(* The command line is parsed before anything else is there.               *)
LEMMA ParseKeeps == ASSUME Inv, ParseArgs PROVE Inv'
<1> USE DEF Inv
<1>1. gAppArgs' \in AppArgs
  <2>1. PICK l \in CommandLines : gAppArgs' = ForClient(ParseConntest(l))
    BY DEF ParseArgs
  <2>2. DEFINE a == ParseConntest(l)
  <2>3. a \in AppArgs
    OBVIOUS
  <2> HIDE DEF a
  <2>4. (a.packetSize - EthHeaderSize) % Word16 \in Nat
    BY <2>3 DEF AppArgs, EthHeaderSize, Word16
  <2>5. ForClient(a) \in AppArgs
    BY <2>3, <2>4 DEF ForClient, AppArgs
  <2> QED BY <2>1, <2>5 DEF a
<1>2. /\ mainPc = "parse" /\ mainPc' \in {"connect", "exited"}
      /\ UNCHANGED <<meterVars, next, gMutex, gDoExit, gBytesToSend, bytesToSend, atWake, garbage>>
  BY DEF ParseArgs
<1>3. TypeOK'
  BY <1>1, <1>2 DEF TypeOK, MainPc, meterVars, counterVars, recvVars, tpVars
<1>4. BarrierHolds' /\ StartTogether'
  BY <1>2 DEF BarrierHolds, StartTogether, meterVars, recvVars
<1> QED BY <1>2, <1>3, <1>4 DEF NothingCountedYet, ScanHasObject, SinceStartExact, Current,
           meterVars, counterVars, recvVars, tpVars

(* Objects are put into the slots before there is a thread, and what is in *)
(* their counters then is what was there before any byte was counted.      *)
LEMMA ConnectKeeps == ASSUME Inv, Connect PROVE Inv'
<1> USE DEF Inv
<1>1. /\ \A d \in Data : pc[d] = "none" /\ counted[d] = 0
      /\ garbage' \in [Data -> Garbage \union {0}]
      /\ numSinceMeasure' = garbage' /\ numSinceStart' = garbage'
  BY DEF Connect, BarrierHolds, NothingCountedYet, NotStarted
<1>2. garbage' \in [Data -> Nat]
  BY <1>1, NaturalValues
<1>3. slots' \in [Slot -> Data \union {NoData}]
  BY ClientAssumption DEF Connect, Slot
<1>4. TypeOK'
  <2>1. /\ numSinceMeasure' \in [Data -> Nat] /\ numSinceStart' \in [Data -> Nat]
        /\ mainPc' \in MainPc
    BY <1>1, <1>2 DEF Connect, MainPc
  <2>2. UNCHANGED <<mutex, recvVars, tpVars, next, gMutex, gDoExit, rateVars, atWake>>
    BY DEF Connect
  <2> QED BY <1>1, <1>3, <2>1, <2>2 DEF TypeOK, recvVars, tpVars, rateVars
<1>5. ScanHasObject'
  <2>1. tpSlot' = tpSlot /\ tpPc' = tpPc
    BY DEF Connect, tpVars
  <2>2. tpSlot < NumData => slots'[tpSlot] = tpSlot /\ tpSlot \in Data
    BY ClientAssumption DEF Connect, TypeOK, Slot
  <2> QED BY <2>1, <2>2 DEF ScanHasObject, Current
<1>6. BarrierHolds' /\ NothingCountedYet' /\ StartTogether'
  BY <1>1 DEF Connect, BarrierHolds, NothingCountedYet, StartTogether, recvVars
<1>7. SinceStartExact'
  BY <1>1, <1>2 DEF Connect, SinceStartExact, recvVars
<1> QED BY <1>4, <1>5, <1>6, <1>7

(* The other steps of the main thread: gMutex is taken before the first    *)
(* sender is created and let go of after the last one.                     *)
LEMMA MainKeeps == ASSUME Inv, Main \/ JoinReturns \/ client_exit PROVE Inv'
<1> USE DEF Inv
<1>0. CASE ParseArgs
  BY <1>0, ParseKeeps
<1>1. CASE Connect
  BY <1>1, ConnectKeeps
<1>2. CASE ConnectFails \/ JoinReturns \/ LeaveLoop \/ client_exit
  <2>1. UNCHANGED <<meterVars, next, gMutex, rateVars, atWake, garbage>>
    BY <1>2 DEF ConnectFails, JoinReturns, LeaveLoop, client_exit, startVars
  <2>2. TypeOK' /\ BarrierHolds' /\ StartTogether'
    BY <1>2, <2>1 DEF ConnectFails, JoinReturns, LeaveLoop, client_exit, startVars,
       TypeOK, BarrierHolds, StartTogether, MainPc, meterVars, counterVars, recvVars,
       tpVars, rateVars
  <2> QED BY <2>1, <2>2 DEF NothingCountedYet, ScanHasObject, SinceStartExact, Current,
             meterVars, counterVars, recvVars, tpVars
<1>3. CASE HoldSenders \/ ReleaseSenders
  <2>1. UNCHANGED <<meterVars, next, gDoExit, rateVars, atWake, garbage>>
    BY <1>3 DEF HoldSenders, ReleaseSenders
  <2>2. TypeOK' /\ BarrierHolds' /\ StartTogether'
    BY <1>3, <2>1 DEF HoldSenders, ReleaseSenders, TypeOK, BarrierHolds, StartTogether,
       MainPc, meterVars, counterVars, recvVars, tpVars, rateVars
  <2> QED BY <2>1, <2>2 DEF NothingCountedYet, ScanHasObject, SinceStartExact, Current,
             meterVars, counterVars, recvVars, tpVars
<1>4. CASE StartMeter
  <2>1. TypeOK' /\ BarrierHolds' /\ StartTogether'
    BY <1>4 DEF StartMeter, TypeOK, BarrierHolds, StartTogether, MainPc, TpPc,
       counterVars, recvVars, rateVars
  <2>2. NothingCountedYet' /\ ScanHasObject' /\ SinceStartExact'
    BY <1>4 DEF StartMeter, NothingCountedYet, ScanHasObject, SinceStartExact, InSection,
       counterVars, recvVars
  <2> QED BY <2>1, <2>2
<1>5. CASE SpawnSender
  <2>0. /\ next \in Data /\ pc \in [Data -> SendPc]
        /\ \A d \in Data : pc[d] \in {"none", "barrier"}
        /\ pc' = [pc EXCEPT ![next] = "barrier"]
    BY <1>5, ClientAssumption DEF SpawnSender, TypeOK, BarrierHolds
  <2>1. \A d \in Data : pc'[d] \in {"none", "barrier"}
    BY <2>0
  <2>2. TypeOK'
    BY <1>5, <2>0 DEF SpawnSender, TypeOK, SendPc, counterVars, tpVars, rateVars
  <2>3. BarrierHolds' /\ StartTogether'
    BY <1>5, <2>1 DEF SpawnSender, BarrierHolds, StartTogether
  <2>4. NothingCountedYet'
    BY <1>5, <2>0, <2>1 DEF SpawnSender, NothingCountedYet, NotStarted
  <2>5. ScanHasObject' /\ SinceStartExact'
    BY <1>5 DEF SpawnSender, ScanHasObject, SinceStartExact, Current, counterVars, tpVars
  <2> QED BY <2>2, <2>3, <2>4, <2>5
<1>6. CASE SpawnFails
  BY <1>6 DEF SpawnFails, TypeOK, BarrierHolds, StartTogether, MainPc, NothingCountedYet,
     ScanHasObject, SinceStartExact, Current, meterVars, counterVars, recvVars, tpVars,
     rateVars
<1> QED BY <1>0, <1>1, <1>2, <1>3, <1>4, <1>5, <1>6 DEF Main, StartUp

-----------------------------------------------------------------------------
(* A sender.  As long as main() holds gMutex it stays where it is.         *)

LEMMA SenderWaits ==
    ASSUME Inv, NEW d \in Data, Sender(d)
    PROVE  /\ mainPc = "loop" /\ next = NumData
           /\ UNCHANGED <<slots, tpVars, mainPc, next, gDoExit, gAppArgs, gBytesToSend, atWake, garbage>>
<1>1. UNCHANGED <<slots, tpVars, mainPc, next, gDoExit, gAppArgs, gBytesToSend, atWake, garbage>>
  BY DEF Sender
<1>2. pc[d] # "none" /\ (pc[d] = "barrier" => gMutex = "free") /\ mainPc # "exited"
  BY DEF Sender, Running, EnterBarrier, LeaveBarrier, ReadRate, CheckExit, SendBytes,
         SendNothing, CountSinceStart, LoadSinceMeasure, StoreSinceMeasure
<1>3. mainPc = "loop"
  BY <1>2 DEF Inv, BarrierHolds, TypeOK, MainPc
<1> QED BY <1>1, <1>3 DEF Inv, BarrierHolds

LEMMA SenderTypeOK == ASSUME Inv, NEW d \in Data, Sender(d) PROVE TypeOK'
<1> USE DEF Inv, TypeOK
<1>0. UNCHANGED <<slots, tpVars, mainPc, next, gDoExit, gAppArgs, gBytesToSend, atWake, garbage>>
  BY DEF Sender
<1>1. CASE EnterBarrier(d) \/ LeaveBarrier(d) \/ CheckExit(d) \/ SendNothing(d)
  BY <1>0, <1>1 DEF EnterBarrier, LeaveBarrier, CheckExit, SendNothing, SendPc,
     counterVars, tpVars
<1>2. CASE ReadRate(d)
  <2>1. gAppArgs.packetSize \in Nat
    BY DEF AppArgs
  <2> QED BY <1>0, <1>2, <2>1 DEF ReadRate, SendPc, counterVars, tpVars
<1>3. CASE SendBytes(d)
  <2>1. bytesToSend[d] \in Nat
    OBVIOUS
  <2>2. PICK n \in 1..bytesToSend[d] : res' = [res EXCEPT ![d] = n]
    BY <1>3 DEF SendBytes
  <2>3. n \in Nat
    BY <2>1
  <2>4. res' \in [Data -> Nat]
    BY <2>2, <2>3
  <2> QED BY <1>0, <1>3, <2>4 DEF SendBytes, SendPc, counterVars, tpVars
<1>4. CASE CountSinceStart(d)
  <2>1. counted[d] + res[d] \in 0..MaxBytes
    BY <1>4 DEF CountSinceStart, NothingCountedYet
  <2> QED BY <1>0, <1>4, <2>1 DEF CountSinceStart, SendPc, tpVars
<1>5. CASE LoadSinceMeasure(d)
  BY <1>0, <1>5 DEF LoadSinceMeasure, SendPc, counterVars, tpVars
<1>6. CASE StoreSinceMeasure(d)
  BY <1>0, <1>6 DEF StoreSinceMeasure, SendPc, tpVars
<1> QED BY <1>1, <1>2, <1>3, <1>4, <1>5, <1>6 DEF Sender

LEMMA SenderKeeps == ASSUME Inv, NEW d \in Data, Sender(d) PROVE Inv'
<1>1. TypeOK'
  BY SenderTypeOK
<1>2. BarrierHolds' /\ StartTogether'
  BY SenderWaits DEF BarrierHolds, StartTogether
<1>3. ScanHasObject'
  BY SenderWaits DEF Inv, ScanHasObject, Current, tpVars
<1> USE DEF Inv, TypeOK, NothingCountedYet, SinceStartExact
<1>4. CASE EnterBarrier(d) \/ LeaveBarrier(d)
  <2>1. NothingCountedYet'
    BY <1>4 DEF EnterBarrier, LeaveBarrier, NotStarted
  <2>2. SinceStartExact'
    BY <1>4, SenderWaits DEF EnterBarrier, LeaveBarrier, counterVars
  <2> QED BY <1>1, <1>2, <1>3, <2>1, <2>2
<1>5. CASE ReadRate(d) \/ CheckExit(d) \/ SendNothing(d) \/ LoadSinceMeasure(d)
           \/ StoreSinceMeasure(d)
  <2>1. NothingCountedYet'
    BY <1>5 DEF ReadRate, CheckExit, SendNothing, LoadSinceMeasure, StoreSinceMeasure,
       NotStarted
  <2>2. SinceStartExact'
    BY <1>5, SenderWaits DEF ReadRate, CheckExit, SendNothing, LoadSinceMeasure,
       StoreSinceMeasure, counterVars
  <2> QED BY <1>1, <1>2, <1>3, <2>1, <2>2
<1>6. CASE SendBytes(d)
  <2>1. NothingCountedYet'
    BY <1>6 DEF SendBytes, NotStarted
  <2>2. SinceStartExact'
    BY <1>6, SenderWaits DEF SendBytes, counterVars
  <2> QED BY <1>1, <1>2, <1>3, <2>1, <2>2
<1>7. CASE CountSinceStart(d)
  <2>1. NothingCountedYet'
    BY <1>7 DEF CountSinceStart, NotStarted
  <2>2. SinceStartExact'
    <3>1. /\ numSinceStart' = [numSinceStart EXCEPT ![d] = @ + res[d]]
          /\ counted' = [counted EXCEPT ![d] = @ + res[d]]
          /\ garbage' = garbage
      BY <1>7, SenderWaits DEF CountSinceStart
    <3>2. ASSUME NEW e \in Data PROVE numSinceStart'[e] = garbage'[e] + counted'[e]
      <4>1. /\ numSinceStart[e] = garbage[e] + counted[e]
            /\ counted[e] \in Nat /\ res[e] \in Nat
            /\ numSinceStart \in [Data -> Nat] /\ counted \in [Data -> 0..MaxBytes]
        OBVIOUS
      <4>2. garbage[e] \in Nat
        BY NaturalValues
      <4> QED BY <3>1, <4>1, <4>2
    <3> QED BY <3>2
  <2> QED BY <1>1, <1>2, <1>3, <2>1, <2>2
<1> QED BY <1>4, <1>5, <1>6, <1>7 DEF Sender

-----------------------------------------------------------------------------
(* The throughput thread: it resets the other counter only.                *)

(* adjust_traffic(): what it sets is natural, and on the right side.       *)
LEMMA CutIsRight ==
    ASSUME NEW x \in Int, NEW g \in Nat, Unit \in Nat \ {0}
    PROVE  LET n == g * Unit - x IN
           /\ CutToRate(n) \in Nat
           /\ CutToRate(n) > g => x < 0 \/ g = 0
           /\ CutToRate(n) < g => x > 0
<1> DEFINE n == g * Unit - x
           q == n \div Unit
<1>1. n \in Int /\ g * Unit \in Nat
  OBVIOUS
<1>2. CASE n <= -Unit
  BY <1>1, <1>2 DEF CutToRate
<1>3. CASE n < 0 /\ ~(n <= -Unit)
  BY <1>1, <1>3 DEF CutToRate
<1>4. CASE ~(n < 0)
  <2>1. q \in Nat /\ Unit * q <= n /\ n < Unit * (q + 1)
    BY <1>1, <1>4
  <2>2. CutToRate(n) = q
    BY <1>1, <1>4 DEF CutToRate
  <2> HIDE DEF q
  <2>3. q > g => Unit * q >= Unit * (g + 1)
    BY <2>1
  <2>4. q < g => Unit * (q + 1) <= Unit * g
    BY <2>1
  <2>5. Unit * (g + 1) = g * Unit + Unit /\ Unit * g = g * Unit
    OBVIOUS
  <2>6. Unit * q \in Nat /\ Unit * (q + 1) \in Nat
    BY <2>1
  <2> QED BY <1>1, <2>1, <2>2, <2>3, <2>4, <2>5, <2>6
<1> QED BY <1>1, <1>2, <1>3, <1>4

LEMMA AdjustedIsRight ==
    ASSUME TypeOK, NEW elapsed \in {1, 2}
    PROVE  /\ AdjustedRate(elapsed) \in Nat
           /\ AdjustedRate(elapsed) > gBytesToSend => 4 * numBytes < Aim \/ gBytesToSend = 0
           /\ AdjustedRate(elapsed) < gBytesToSend => 8 * numBytes > Aim /\ Aim > 0
<1>1. Aim \in Nat /\ numBytes \in Nat /\ gBytesToSend \in Nat
  BY DEF TypeOK, AppArgs, Aim
<1>2. Unit \in Nat \ {0}
  <2>1. Kilo * NumData \in Nat \ {0}
    BY DEF Unit
  <2> QED BY <2>1 DEF Unit
<1>3. BitsPerSec(elapsed) \in Nat /\ Excess(elapsed) \in Int
  BY <1>1 DEF BitsPerSec, Excess
<1>4. /\ Excess(elapsed) < 0 => 4 * numBytes < Aim
      /\ Excess(elapsed) > 0 => 8 * numBytes > Aim
  BY <1>1 DEF BitsPerSec, Excess
<1>5. CASE gAppArgs.packetSize = 0 /\ IsOff(elapsed)
  <2>1. AdjustedRate(elapsed) = CutToRate(gBytesToSend * Unit - Excess(elapsed))
    BY <1>5 DEF AdjustedRate, Corrected
  <2>2. Aim > 0
    BY <1>5 DEF IsOff
  <2> QED BY <1>1, <1>2, <1>3, <1>4, <2>1, <2>2, CutIsRight
<1>6. CASE ~(gAppArgs.packetSize = 0 /\ IsOff(elapsed))
  BY <1>1, <1>6 DEF AdjustedRate
<1> QED BY <1>5, <1>6

LEMMA TpTypeOK == ASSUME Inv, TpThread PROVE TypeOK' /\ ScanHasObject'
<1> USE DEF Inv, TypeOK, ScanHasObject
<1>0. /\ UNCHANGED <<startVars, gDoExit, gAppArgs, bytesToSend, garbage>>
      /\ gBytesToSend' \in 0..MaxRate
      /\ atWake' \in [Data -> 0..MaxBytes]
  BY AdjustedIsRight DEF TpThread, TpWakes, TpExits, TpScans, TpReports, rateVars, AtMost
<1>1. CASE TpWakes
  BY <1>0, <1>1 DEF TpWakes, TpWake, TpPc, InSection, counterVars, recvVars, startVars
<1>2. CASE TpExits
  BY <1>0, <1>2 DEF TpExits, TpPc, InSection, counterVars, recvVars, startVars
<1>3. CASE TpReports
  BY <1>0, <1>3 DEF TpReports, SendReport, TpPc, InSection, counterVars, recvVars,
     startVars
<1>4. CASE SkipSlot
  BY <1>0, <1>4 DEF SkipSlot, InSection, counterVars, recvVars, startVars
<1>5. CASE LockSlot
  <2>1. Current \in Data
    BY <1>5 DEF LockSlot, Current, Slot
  <2>2. ScanHasObject'
    BY <1>5, <2>1 DEF LockSlot, Current
  <2> QED BY <1>0, <1>5, <2>1, <2>2 DEF LockSlot, TpPc, recvVars, startVars
<1>6. CASE TakeSlot
  <2>1. Current \in Data
    BY <1>6 DEF TakeSlot, InSection
  <2>2. ScanHasObject'
    BY <1>6, <2>1 DEF TakeSlot, Current, InSection
  <2>3. tpTook' \in Nat /\ numBytes' \in Nat
    BY <1>6, <2>1 DEF TakeSlot
  <2> QED BY <1>0, <1>6, <2>2, <2>3 DEF TakeSlot, TpPc, counterVars, recvVars, startVars
<1>7. CASE ResetSlot
  <2>1. Current \in Data
    BY <1>7 DEF ResetSlot, InSection
  <2>2. ScanHasObject'
    BY <1>7, <2>1 DEF ResetSlot, Current, InSection
  <2>3. numBytesSinceStart' \in Nat /\ numSinceMeasure' \in [Data -> Nat]
    BY <1>7, <2>1 DEF ResetSlot
  <2>4. taken' \in [Data -> Nat]
    BY <1>7, <2>1 DEF ResetSlot
  <2> QED BY <1>0, <1>7, <2>2, <2>3, <2>4 DEF ResetSlot, TpPc, recvVars, startVars
<1>8. CASE UnlockSlot
  <2>1. Current \in Data /\ tpSlot < NumData
    BY <1>8 DEF UnlockSlot, InSection
  <2> QED BY <1>0, <1>8, <2>1 DEF UnlockSlot, TpPc, InSection, recvVars, startVars
<1> QED BY <1>1, <1>2, <1>3, <1>4, <1>5, <1>6, <1>7, <1>8
        DEF TpThread, TpScans, ScanStep

LEMMA TpKeeps == ASSUME Inv, TpThread PROVE Inv'
<1>1. UNCHANGED <<recvVars, numSinceStart, startVars, gDoExit, garbage>>
  BY DEF TpThread, TpWakes, TpExits, TpScans, TpReports, TpWake, SendReport, ScanStep,
     SkipSlot, LockSlot, TakeSlot, ResetSlot, UnlockSlot, counterVars
<1>2. /\ BarrierHolds' /\ StartTogether'
      /\ NothingCountedYet' /\ SinceStartExact'
  BY <1>1 DEF Inv, BarrierHolds, StartTogether, NothingCountedYet, SinceStartExact,
     recvVars, startVars
<1> QED BY <1>2, TpTypeOK DEF Inv

-----------------------------------------------------------------------------
LEMMA NextInv == ASSUME Inv, [Next]_vars PROVE Inv'
<1>1. CASE UNCHANGED vars
  BY <1>1 DEF vars, Inv, TypeOK, BarrierHolds, NothingCountedYet, ScanHasObject,
     StartTogether, SinceStartExact, Current, meterVars, counterVars, recvVars, tpVars,
     startVars, rateVars
<1> QED BY <1>1, MainKeeps, SenderKeeps, TpKeeps DEF Next

(* Every variable of the client keeps its type.                            *)
THEOREM Typing == Spec => []TypeOK
<1>1. Inv => TypeOK
  BY DEF Inv
<1> QED BY InitInv, NextInv, <1>1, PTL DEF Spec

(* create_client_threads(): gMutex holds every sender back until the last  *)
(* one is created, and for good if one cannot be created.                  *)
THEOREM Barrier == Spec => []StartTogether
<1>1. Inv => StartTogether
  BY DEF Inv
<1> QED BY InitInv, NextInv, <1>1, PTL DEF Spec

(* adjust_traffic() moves the rate towards what is aimed for, for any      *)
(* throughput, number of connections and interval of one or two seconds.   *)
THEOREM RateRight == Spec => RateMovesRight
<1>1. ASSUME Inv, [Next]_vars
      PROVE  [/\ gBytesToSend' > gBytesToSend => 4 * numBytes < Aim \/ gBytesToSend = 0
              /\ gBytesToSend' < gBytesToSend => 8 * numBytes > Aim /\ Aim > 0]_vars
  <2>1. gBytesToSend \in Nat /\ TypeOK
    BY <1>1 DEF Inv, TypeOK
  <2>2. CASE gBytesToSend' = gBytesToSend
    BY <2>1, <2>2
  <2>3. CASE TpReports
    <3>1. PICK elapsed \in {1, 2} : gBytesToSend' = AtMost(MaxRate, AdjustedRate(elapsed))
      BY <2>3 DEF TpReports
    <3>2. gBytesToSend \in 0..MaxRate
      BY <2>1 DEF TypeOK
    <3> QED BY <2>1, <3>1, <3>2, AdjustedIsRight DEF AtMost
  <2>4. Next => TpReports \/ gBytesToSend' = gBytesToSend
    BY DEF Next, Main, StartUp, ParseArgs, Connect, ConnectFails, HoldSenders, StartMeter,
       SpawnSender, SpawnFails, ReleaseSenders, LeaveLoop, JoinReturns, client_exit,
       TpThread, TpWakes, TpExits, TpScans, Sender, rateVars
  <2>5. CASE UNCHANGED vars
    BY <2>1, <2>5 DEF vars, rateVars
  <2> QED BY <1>1, <2>2, <2>3, <2>4, <2>5
<1> QED BY InitInv, NextInv, <1>1, PTL DEF Spec, RateMovesRight

-----------------------------------------------------------------------------
(* The lock the senders pass through: main() has it only while it creates  *)
(* them, or has ended with it; one sender is inside at a time; and, unless *)
(* an exit is requested, a sender that has it is inside.                   *)
HeldByOne ==
    /\ gMutex = "main" => mainPc \in {"meter", "spawn", "join", "exited"}
    /\ \A d \in Data : pc[d] = "inside" => gMutex = "sender"
    /\ \A d, e \in Data : pc[d] = "inside" /\ pc[e] = "inside" => d = e
    /\ gMutex = "sender" /\ ~gDoExit => \E d \in Data : pc[d] = "inside"

(* Only main() and the senders take it and let go of it.                   *)
LEMMA HeldInit == ASSUME Init PROVE HeldByOne
BY DEF Init, MeterInit, HeldByOne

LEMMA MainHolds ==
    ASSUME Inv, HeldByOne, Main \/ JoinReturns \/ client_exit
    PROVE  HeldByOne'
<1>1. CASE HoldSenders
  <2>1. \A d \in Data : pc[d] = "none"
    BY <1>1 DEF HoldSenders, Inv, BarrierHolds
  <2> QED BY <1>1, <2>1 DEF HoldSenders, HeldByOne, meterVars, recvVars
<1>2. CASE ReleaseSenders
  <2>1. \A d \in Data : pc[d] # "inside"
    BY <1>2 DEF ReleaseSenders, Inv, BarrierHolds
  <2> QED BY <1>2, <2>1 DEF ReleaseSenders, HeldByOne, meterVars, recvVars
<1>3. CASE SpawnSender
  <2>1. /\ gMutex = "main" /\ \A d \in Data : pc[d] \in {"none", "barrier"}
        /\ pc \in [Data -> SendPc]
    BY <1>3 DEF SpawnSender, Inv, BarrierHolds, TypeOK
  <2>2. \A d \in Data : pc'[d] # "inside"
    BY <1>3, <2>1 DEF SpawnSender
  <2> QED BY <1>3, <2>1, <2>2 DEF SpawnSender, HeldByOne
<1>4. CASE ParseArgs \/ Connect \/ ConnectFails \/ StartMeter \/ SpawnFails
           \/ JoinReturns \/ LeaveLoop \/ client_exit
  <2>1. /\ UNCHANGED <<pc, gMutex>>
        /\ gDoExit => gDoExit'
        /\ gMutex = "main" => mainPc' \in {"meter", "spawn", "join", "exited"}
    BY <1>4 DEF ParseArgs, Connect, ConnectFails, StartMeter, SpawnFails, JoinReturns,
       LeaveLoop, client_exit, HeldByOne, meterVars, recvVars, startVars
  <2> QED BY <2>1 DEF HeldByOne, Inv, TypeOK
<1> QED BY <1>1, <1>2, <1>3, <1>4 DEF Main, StartUp

LEMMA SenderHolds ==
    ASSUME Inv, HeldByOne, NEW d \in Data, Sender(d)
    PROVE  HeldByOne'
<1>1. pc \in [Data -> SendPc] /\ UNCHANGED <<mainPc, gDoExit>> /\ gDoExit \in BOOLEAN
  BY DEF Sender, Inv, TypeOK
<1>2. CASE EnterBarrier(d)
  <2>1. gMutex' = "sender" /\ \A e \in Data : pc'[e] = "inside" <=> e = d
    BY <1>1, <1>2 DEF EnterBarrier, HeldByOne
  <2> QED BY <2>1 DEF HeldByOne
<1>3. CASE LeaveBarrier(d)
  <2>1. \A e \in Data : pc'[e] # "inside"
    BY <1>1, <1>3 DEF LeaveBarrier, HeldByOne
  <2>2. gMutex' # "main" /\ (gMutex' = "sender" => gDoExit')
    BY <1>1, <1>3 DEF LeaveBarrier, HeldByOne
  <2> QED BY <2>1, <2>2 DEF HeldByOne
<1>4. CASE ReadRate(d) \/ CheckExit(d) \/ SendBytes(d) \/ SendNothing(d)
           \/ CountSinceStart(d) \/ LoadSinceMeasure(d) \/ StoreSinceMeasure(d)
  <2>1. gMutex' = gMutex /\ \A e \in Data : pc'[e] = "inside" <=> pc[e] = "inside"
    BY <1>1, <1>4 DEF ReadRate, CheckExit, SendBytes, SendNothing, CountSinceStart,
       LoadSinceMeasure, StoreSinceMeasure
  <2> QED BY <1>1, <2>1 DEF HeldByOne
<1> QED BY <1>2, <1>3, <1>4 DEF Sender

LEMMA NextHolds == ASSUME Inv, HeldByOne, [Next]_vars PROVE HeldByOne'
<1>1. CASE UNCHANGED vars
  BY <1>1 DEF vars, HeldByOne, meterVars, recvVars, startVars
<1>2. CASE TpThread
  <2>1. UNCHANGED <<recvVars, startVars, gDoExit>>
    BY <1>2 DEF TpThread, TpWakes, TpExits, TpScans, TpReports, TpWake, SendReport,
       ScanStep, SkipSlot, LockSlot, TakeSlot, ResetSlot, UnlockSlot, counterVars
  <2> QED BY <2>1 DEF HeldByOne, recvVars, startVars
<1> QED BY <1>1, <1>2, MainHolds, SenderHolds DEF Next

(* create_client_threads() and send_thread(): once main() is in its loop,  *)
(* a sender is held back at gMutex only by one other sender that is about  *)
(* to let go of it, until an exit is requested.  (From then on a sender    *)
(* leaves with the lock, and those behind it never pass.)                  *)
THEOREM SendersPass ==
    Spec => [](mainPc = "loop" /\ ~gDoExit =>
                  gMutex = "free" \/ \E d \in Data : /\ pc[d] = "inside"
                                                     /\ \A e \in Data \ {d} : pc[e] # "inside")
<1> DEFINE Passing == mainPc = "loop" /\ ~gDoExit =>
                         gMutex = "free" \/ \E d \in Data :
                             /\ pc[d] = "inside"
                             /\ \A e \in Data \ {d} : pc[e] # "inside"
<1>1. Init => Inv /\ HeldByOne
  BY InitInv, HeldInit
<1>2. Inv /\ HeldByOne /\ [Next]_vars => Inv' /\ HeldByOne'
  BY NextInv, NextHolds
<1>3. Inv /\ HeldByOne => Passing
  BY DEF Inv, TypeOK, HeldByOne
<1> HIDE DEF Passing
<1>4. Spec => []Passing
  BY <1>1, <1>2, <1>3, PTL DEF Spec
<1> QED BY <1>4 DEF Passing


-----------------------------------------------------------------------------
(* The sum behind the average.  part[i] is what the objects before i hold, *)
(* if they hold c; Passed is the slot the scan has added all up before.    *)
SumsUp(part, c) ==
    /\ part \in [0..NumData -> Nat]
    /\ part[0] = 0
    /\ \A i \in Data : part[i + 1] = part[i] + c[i]
Passed == IF tpPc = "unlock" THEN tpSlot + 1 ELSE tpSlot
Scanning == tpPc \notin {"none", "sleep"}

(* Total() is the last of such partial sums: there are some.               *)
Summed(s, c) == [i \in 0..NumData |-> IF i = 0 THEN 0 ELSE s[i - 1] + c[i - 1]]

LEMMA SummedDefined == ASSUME NEW c PROVE \E s : s = Summed(s, c)
<1> DEFINE Upto(n, s) == /\ s = [i \in 0..NumData |-> s[i]]
                         /\ \A i \in 0..NumData : i <= n => s[i] = Summed(s, c)[i]
           N == {n \in Nat : \E s : Upto(n, s)}
<1>1. 0 \in N
  <2> DEFINE s == [i \in 0..NumData |-> 0]
  <2>1. Upto(0, s)
    BY DEF Summed
  <2> QED BY <2>1
<1>2. ASSUME NEW n \in Nat, n \in N PROVE n + 1 \in N
  <2>1. PICK s : Upto(n, s)
    BY <1>2
  <2> DEFINE t == [i \in 0..NumData |-> IF i <= n THEN s[i] ELSE Summed(s, c)[i]]
  <2>2. ASSUME NEW i \in 0..NumData, i <= n + 1 PROVE t[i] = Summed(t, c)[i]
    <3>1. t[i] = Summed(s, c)[i]
      BY <2>1
    <3>2. i # 0 => i - 1 \in 0..NumData /\ i - 1 <= n
      BY <2>2
    <3>3. i # 0 => t[i - 1] = s[i - 1]
      BY <3>2
    <3> QED BY <3>1, <3>3 DEF Summed
  <2>3. t = [i \in 0..NumData |-> t[i]]
    OBVIOUS
  <2>4. Upto(n + 1, t)
    <3> HIDE DEF t
    <3> QED BY <2>2, <2>3
  <2> HIDE DEF t, Upto
  <2> QED BY <2>4
<1>3. PICK s : Upto(NumData, s)
  <2> HIDE DEF N
  <2>1. NumData \in N
    BY <1>1, <1>2, NatInductionSet
  <2> QED BY <2>1 DEF N
<1>4. \A i \in 0..NumData : s[i] = Summed(s, c)[i]
  BY <1>3
<1>5. s = Summed(s, c)
  <2>1. s = [i \in 0..NumData |-> s[i]]
    BY <1>3
  <2>2. Summed(s, c) = [i \in 0..NumData |-> Summed(s, c)[i]]
    BY DEF Summed
  <2> QED BY <2>1, <2>2, <1>4, Zenon
<1> QED BY <1>5

LEMMA TotalSumsUp ==
    ASSUME NEW c \in [Data -> Nat]
    PROVE  \E part : SumsUp(part, c) /\ Total(c) = part[NumData]
<1> DEFINE s == CHOOSE s : s = Summed(s, c)
           N == {n \in Nat : n <= NumData => s[n] \in Nat}
<1>1. s = Summed(s, c) /\ Total(c) = s[NumData]
  BY SummedDefined DEF Total, Summed
<1> HIDE DEF s
<1>2. s[0] = 0 /\ \A i \in Data : s[i + 1] = s[i] + c[i]
  <2>1. ASSUME NEW i \in Data PROVE s[i + 1] = s[i] + c[i]
    <3>1. i + 1 \in 0..NumData /\ i + 1 # 0 /\ (i + 1) - 1 = i
      BY ClientAssumption
    <3> QED BY <1>1, <3>1 DEF Summed
  <2>2. s[0] = Summed(s, c)[0] /\ 0 \in 0..NumData
    BY <1>1
  <2> QED BY <2>1, <2>2 DEF Summed
<1>3. 0 \in N
  BY <1>2
<1>4. ASSUME NEW n \in Nat, n \in N PROVE n + 1 \in N
  <2>1. n + 1 <= NumData => n \in Data /\ c[n] \in Nat
    BY ClientAssumption
  <2> QED BY <1>2, <1>4, <2>1
<1>5. s \in [0..NumData -> Nat]
  <2>1. \A i \in 0..NumData : s[i] \in Nat
    <3> HIDE DEF N
    <3>1. Nat \subseteq N
      BY <1>3, <1>4, NatInductionSet
    <3> QED BY <3>1 DEF N
  <2> QED BY <1>1, <2>1 DEF Summed
<1> QED BY <1>1, <1>2, <1>5 DEF SumsUp

(* Objects are put into the slots before there is a throughput thread.     *)
ObjectsThere ==
    /\ mainPc \notin {"parse", "connect", "exited"} => \A i \in Data : slots[i] = i
    /\ tpPc # "none" => mainPc \notin {"parse", "connect"} /\ \A i \in Data : slots[i] = i

LEMMA ObjectsInit == ASSUME Init PROVE ObjectsThere
BY DEF Init, MeterInit, ObjectsThere

LEMMA NextObjects == ASSUME Inv, ObjectsThere, [Next]_vars PROVE ObjectsThere'
<1>1. CASE Connect
  BY <1>1, ClientAssumption DEF Connect, ObjectsThere, Slot, tpVars
<1>2. CASE StartMeter
  BY <1>2 DEF StartMeter, ObjectsThere
<1>3. CASE ParseArgs \/ ConnectFails \/ HoldSenders \/ SpawnSender \/ SpawnFails
           \/ ReleaseSenders \/ JoinReturns \/ LeaveLoop \/ client_exit
  BY <1>3 DEF ParseArgs, ConnectFails, HoldSenders, SpawnSender, SpawnFails, ReleaseSenders,
     JoinReturns, LeaveLoop, client_exit, ObjectsThere, meterVars, tpVars, startVars
<1>4. CASE TpThread
  <2>1. tpPc # "none" /\ UNCHANGED <<slots, mainPc>>
    BY <1>4 DEF TpThread, TpWakes, TpExits, TpScans, TpReports, TpWake, SendReport,
       ScanStep, SkipSlot, LockSlot, TakeSlot, ResetSlot, UnlockSlot, startVars
  <2> QED BY <2>1 DEF ObjectsThere
<1>5. CASE (\E d \in Data : Sender(d)) \/ UNCHANGED vars
  <2>1. UNCHANGED <<slots, mainPc, tpPc>>
    BY <1>5 DEF Sender, vars, meterVars, tpVars, startVars
  <2> QED BY <2>1 DEF ObjectsThere
<1> QED BY <1>1, <1>2, <1>3, <1>4, <1>5 DEF Next, Main, StartUp

(* What is counted of an object only grows, and while there are scans the  *)
(* counter behind the average grows with it.                               *)
LEMMA CountedGrows ==
    ASSUME Inv, [Next]_vars, NEW d \in Data
    PROVE  counted[d] \in Nat /\ counted'[d] \in Nat /\ counted[d] <= counted'[d]
<1>1. /\ counted \in [Data -> 0..MaxBytes] /\ counted' \in [Data -> 0..MaxBytes]
      /\ res \in [Data -> Nat]
  BY NextInv DEF Inv, TypeOK
<1>2. CASE \E e \in Data : CountSinceStart(e)
  <2>1. PICK e \in Data : counted' = [counted EXCEPT ![e] = @ + res[e]]
    BY <1>2 DEF CountSinceStart
  <2>2. counted[e] \in Nat /\ res[e] \in Nat
    BY <1>1
  <2> QED BY <1>1, <2>1, <2>2
<1>3. CASE ~\E e \in Data : CountSinceStart(e)
  <2>1. counted' = counted
    BY <1>3 DEF Next, Main, StartUp, ParseArgs, Connect, ConnectFails, HoldSenders,
       StartMeter, SpawnSender, SpawnFails, ReleaseSenders, LeaveLoop, JoinReturns,
       client_exit, TpThread, TpWakes, TpExits, TpScans, TpReports, TpWake, SendReport,
       ScanStep, SkipSlot, LockSlot, TakeSlot, ResetSlot, UnlockSlot, Sender,
       EnterBarrier, LeaveBarrier, ReadRate, CheckExit, SendBytes, SendNothing,
       LoadSinceMeasure, StoreSinceMeasure, vars, meterVars, recvVars
  <2> QED BY <1>1, <2>1
<1> QED BY <1>2, <1>3

LEMMA ScanningSteps ==
    ASSUME Inv, ObjectsThere, [Next]_vars, Scanning
    PROVE  /\ UNCHANGED garbage
           /\ Scanning' => UNCHANGED atWake
<1>1. mainPc # "connect" /\ tpPc \notin {"none", "sleep"}
  BY DEF Scanning, ObjectsThere
<1>2. UNCHANGED <<garbage, atWake>> \/ TpReports
  BY <1>1 DEF Next, Main, StartUp, ParseArgs, Connect, ConnectFails, HoldSenders,
     StartMeter, SpawnSender, SpawnFails, ReleaseSenders, LeaveLoop, JoinReturns,
     client_exit, TpThread, TpWakes, TpWake, TpExits, TpScans, Sender, vars
<1>3. TpReports => UNCHANGED garbage /\ ~Scanning'
  BY DEF TpReports, SendReport, Scanning
<1> QED BY <1>2, <1>3

(* What a step does to the sum: a scan begins with 0, the reset of a slot  *)
(* adds what its object holds, and the other steps of a scan add nothing.  *)
LEMMA SumSteps ==
    ASSUME Inv, ObjectsThere, [Next]_vars, Scanning'
    PROVE  \/ Passed' = 0 /\ numBytesSinceStart' = 0
           \/ Scanning /\ UNCHANGED <<Passed, numBytesSinceStart>>
           \/ /\ Scanning /\ Passed \in Data /\ Passed' = Passed + 1
              /\ numBytesSinceStart' = numBytesSinceStart + numSinceStart[Passed]
<1>1. CASE TpThread
  <2>0. tpSlot \in Nat
    BY DEF Inv, TypeOK
  <2>1. CASE TpWakes
    BY <2>1 DEF TpWakes, TpWake, Passed
  <2>2. CASE TpExits \/ TpReports
    BY <2>2 DEF TpExits, TpReports, SendReport, Scanning
  <2>3. CASE SkipSlot
    <3>1. tpPc = "scan" /\ tpSlot < NumData /\ slots[tpSlot] = NoData
      BY <2>3 DEF SkipSlot, Current
    <3>2. tpSlot \in Data
      BY <2>0, <3>1, ClientAssumption DEF Inv, TypeOK
    <3> QED BY <3>1, <3>2 DEF ObjectsThere
  <2>4. CASE LockSlot \/ TakeSlot \/ UnlockSlot
    BY <2>4 DEF LockSlot, TakeSlot, UnlockSlot, Scanning, Passed
  <2>5. CASE ResetSlot
    <3>1. tpSlot < NumData
      BY <2>5 DEF ResetSlot, Inv, ScanHasObject, InSection
    <3>2. tpSlot \in Data /\ Current = tpSlot
      BY <2>0, <2>5, <3>1, ClientAssumption DEF ResetSlot, ObjectsThere, Current
    <3> QED BY <2>5, <3>2 DEF ResetSlot, Scanning, Passed
  <2> QED BY <1>1, <2>1, <2>2, <2>3, <2>4, <2>5 DEF TpThread, TpScans, ScanStep
<1>2. CASE StartMeter
  BY <1>2 DEF StartMeter, Scanning
<1>3. CASE ~TpThread /\ ~StartMeter
  <2>1. UNCHANGED <<tpPc, tpSlot, numBytesSinceStart>>
    BY <1>3 DEF Next, Main, StartUp, ParseArgs, Connect, ConnectFails, HoldSenders,
       SpawnSender, SpawnFails, ReleaseSenders, LeaveLoop, JoinReturns, client_exit,
       Sender, vars, meterVars, tpVars, startVars
  <2> QED BY <2>1 DEF Scanning, Passed
<1> QED BY <1>1, <1>2, <1>3

(* While it scans, the sum is no less than what the objects it has passed  *)
(* had counted when it began, and no more than they hold by now.           *)
NotBelow ==
    /\ \A d \in Data : atWake[d] <= counted[d]
    /\ \A low : Scanning /\ SumsUp(low, Holding(atWake)) => low[Passed] <= numBytesSinceStart

NotAbove(c, high) ==
    Scanning /\ SumsUp(high, c) /\ (\A d \in Data : numSinceStart[d] <= c[d])
        => numBytesSinceStart <= high[Passed]

LEMMA Held ==
    ASSUME Inv, NEW d \in Data
    PROVE  /\ numSinceStart[d] = garbage[d] + counted[d]
           /\ garbage[d] \in Nat /\ counted[d] \in Nat /\ atWake[d] \in Nat
           /\ Holding(counted)[d] = garbage[d] + counted[d]
           /\ Holding(atWake)[d] = garbage[d] + atWake[d]
<1>1. garbage[d] \in Nat
  BY NaturalValues DEF Inv, TypeOK
<1> QED BY <1>1 DEF Inv, TypeOK, SinceStartExact, Holding

LEMMA NextNotBelow == ASSUME Inv, ObjectsThere, NotBelow, [Next]_vars PROVE NotBelow'
<1>1. ASSUME NEW d \in Data PROVE atWake'[d] <= counted'[d]
  <2>1. atWake' = atWake \/ atWake' = counted \/ atWake' = [e \in Data |-> 0]
    BY DEF Next, Main, StartUp, ParseArgs, Connect, ConnectFails, HoldSenders, StartMeter,
       SpawnSender, SpawnFails, ReleaseSenders, LeaveLoop, JoinReturns, client_exit,
       TpThread, TpWakes, TpExits, TpScans, TpReports, Sender, vars
  <2>2. /\ counted[d] \in Nat /\ counted'[d] \in Nat /\ counted[d] <= counted'[d]
        /\ atWake[d] \in Nat /\ atWake[d] <= counted[d]
    BY CountedGrows, Held DEF NotBelow
  <2> QED BY <2>1, <2>2
<1>2. ASSUME NEW low, Scanning', SumsUp(low, Holding(atWake)')
      PROVE  low[Passed'] <= numBytesSinceStart'
  <2>1. CASE Passed' = 0 /\ numBytesSinceStart' = 0
    BY <1>2, <2>1 DEF SumsUp
  <2>2. CASE Scanning /\ UNCHANGED <<Passed, numBytesSinceStart>>
    <3>1. Holding(atWake)' = Holding(atWake)
      BY <1>2, <2>2, ScanningSteps DEF Holding
    <3> QED BY <1>2, <2>2, <3>1 DEF NotBelow
  <2>3. CASE /\ Scanning /\ Passed \in Data /\ Passed' = Passed + 1
             /\ numBytesSinceStart' = numBytesSinceStart + numSinceStart[Passed]
    <3>1. Holding(atWake)' = Holding(atWake)
      BY <1>2, <2>3, ScanningSteps DEF Holding
    <3>2. /\ low[Passed'] = low[Passed] + Holding(atWake)[Passed]
          /\ low[Passed] <= numBytesSinceStart
      BY <1>2, <2>3, <3>1 DEF SumsUp, NotBelow
    <3>3. /\ Holding(atWake)[Passed] <= numSinceStart[Passed]
          /\ Holding(atWake)[Passed] \in Nat /\ numSinceStart[Passed] \in Nat
      BY <2>3, Held DEF NotBelow
    <3>4. low[Passed] \in Nat /\ numBytesSinceStart \in Nat
      BY <1>2, <2>3, ClientAssumption DEF SumsUp, Inv, TypeOK
    <3> QED BY <2>3, <3>2, <3>3, <3>4
  <2> QED BY <1>2, <2>1, <2>2, <2>3, SumSteps
<1> QED BY <1>1, <1>2 DEF NotBelow, SumsUp

LEMMA NextNotAbove ==
    ASSUME Inv, ObjectsThere, [Next]_vars, NEW c \in [Data -> Nat], NEW high,
           NotAbove(c, high)
    PROVE  NotAbove(c, high)'
<1>1. SUFFICES ASSUME Scanning', SumsUp(high, c), \A d \in Data : numSinceStart'[d] <= c[d]
               PROVE  numBytesSinceStart' <= high[Passed']
  BY DEF NotAbove, SumsUp
<1>2. CASE Passed' = 0 /\ numBytesSinceStart' = 0
  BY <1>1, <1>2 DEF SumsUp
<1>3. CASE Scanning /\ (\/ UNCHANGED <<Passed, numBytesSinceStart>>
                        \/ /\ Passed \in Data /\ Passed' = Passed + 1
                           /\ numBytesSinceStart' = numBytesSinceStart + numSinceStart[Passed])
  <2>1. \A d \in Data : numSinceStart[d] <= c[d] /\ numSinceStart[d] \in Nat
    <3> TAKE d \in Data
    <3>1. /\ numSinceStart[d] = garbage[d] + counted[d] /\ garbage[d] \in Nat
          /\ numSinceStart'[d] = garbage'[d] + counted'[d] /\ garbage' = garbage
      BY <1>3, Held, NextInv, ScanningSteps DEF Inv, SinceStartExact
    <3>2. counted[d] \in Nat /\ counted'[d] \in Nat /\ counted[d] <= counted'[d]
      BY CountedGrows
    <3>3. numSinceStart'[d] <= c[d] /\ c[d] \in Nat
      BY <1>1
    <3> QED BY <3>1, <3>2, <3>3
  <2>2. numBytesSinceStart <= high[Passed]
    BY <1>1, <1>3, <2>1 DEF NotAbove
  <2>3. CASE UNCHANGED <<Passed, numBytesSinceStart>>
    BY <2>2, <2>3
  <2>4. CASE /\ Passed \in Data /\ Passed' = Passed + 1
             /\ numBytesSinceStart' = numBytesSinceStart + numSinceStart[Passed]
    <3>1. high[Passed'] = high[Passed] + c[Passed] /\ c[Passed] \in Nat
      BY <1>1, <2>4 DEF SumsUp
    <3>2. high[Passed] \in Nat /\ numBytesSinceStart \in Nat
      BY <1>1, <2>4, ClientAssumption DEF SumsUp, Inv, TypeOK
    <3> QED BY <2>1, <2>2, <2>4, <3>1, <3>2
  <2> QED BY <1>3, <2>3, <2>4
<1> QED BY <1>1, <1>2, <1>3, SumSteps

(* tp_thread() and report_statistics() of a client: the bytes an average   *)
(* is computed from are no fewer than had been sent on all connections     *)
(* when its scan began, and no more than have been sent when it ends, for  *)
(* any number of connections, although senders count without the mutex     *)
(* and the interval figure next to it can be wrong either way.             *)
THEOREM AverageInBounds == Spec => []AverageOfBytesSent
<1> DEFINE NeverAbove == \A c \in [Data -> Nat] : \A high : NotAbove(c, high)
<1>1. Init => ObjectsThere /\ NotBelow /\ NeverAbove
  <2> SUFFICES ASSUME Init PROVE ObjectsThere /\ NotBelow /\ NeverAbove
    OBVIOUS
  <2>1. ~Scanning
    BY DEF Init, MeterInit, Scanning
  <2>2. NotBelow
    BY <2>1 DEF Init, MeterInit, NotBelow
  <2> QED BY <2>1, <2>2, ObjectsInit DEF NotAbove
<1>2. Inv /\ ObjectsThere /\ NotBelow /\ NeverAbove /\ [Next]_vars
         => Inv' /\ ObjectsThere' /\ NotBelow' /\ NeverAbove'
  BY NextInv, NextObjects, NextNotBelow, NextNotAbove
<1>3. ASSUME Inv, NotBelow, NeverAbove PROVE AverageOfBytesSent
  <2>1. SUFFICES ASSUME tpPc = "scan", tpSlot = NumData
                 PROVE  /\ Total(Holding(atWake)) <= numBytesSinceStart
                        /\ numBytesSinceStart <= Total(Holding(counted))
    BY DEF AverageOfBytesSent
  <2>2. Scanning /\ Passed = NumData
    BY <2>1 DEF Scanning, Passed
  <2>3. Holding(atWake) \in [Data -> Nat] /\ Holding(counted) \in [Data -> Nat]
    BY <1>3, Held DEF Holding
  <2>4. PICK low : SumsUp(low, Holding(atWake)) /\ Total(Holding(atWake)) = low[NumData]
    BY <2>3, TotalSumsUp
  <2>5. PICK high : SumsUp(high, Holding(counted)) /\ Total(Holding(counted)) = high[NumData]
    BY <2>3, TotalSumsUp
  <2>6. ASSUME NEW d \in Data PROVE numSinceStart[d] <= Holding(counted)[d]
    <3>1. /\ numSinceStart[d] = garbage[d] + counted[d]
          /\ Holding(counted)[d] = garbage[d] + counted[d]
          /\ garbage[d] \in Nat /\ counted[d] \in Nat
      BY <1>3, Held
    <3> QED BY <3>1
  <2>7. NotAbove(Holding(counted), high)
    BY <1>3, <2>3
  <2> QED BY <1>3, <2>2, <2>4, <2>5, <2>6, <2>7 DEF NotBelow, NotAbove
<1> HIDE DEF NeverAbove
<1> QED BY InitInv, <1>1, <1>2, <1>3, PTL DEF Spec

=============================================================================
