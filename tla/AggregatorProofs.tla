-------------------------- MODULE AggregatorProofs --------------------------
(***************************************************************************)
(* Proofs about the aggregator, for any processes, ids, number of clients, *)
(* limit, throughputs and buffer, and with no bound on the reports: what   *)
(* is kept between two datagrams belongs to one round, no round is closed  *)
(* with a report that has served an earlier one, and the average is made   *)
(* of all reports.  The lemmas on sums come first, two aggregators on one  *)
(* host last: one kills the processes of both only when it is done, and    *)
(* each of them does what it would do alone.                               *)
(***************************************************************************)
EXTENDS AggregatorLedger, FiniteSetTheorems, WellFoundedInduction, TLAPS

-----------------------------------------------------------------------------
(* Sums over a set, as start_aggregating() forms them in its loop over     *)
(* gNumClients: what SumFunctionOnSet is for every finite set.             *)

(* Induction with a set for the predicate, which the provers can use.      *)
LEMMA NatInductionSet ==
    ASSUME NEW N, 0 \in N, \A n \in Nat : n \in N => n + 1 \in N
    PROVE  Nat \subseteq N
<1>1. SUFFICES ASSUME Nat \ N # {} PROVE FALSE
  OBVIOUS
<1>2. PICK m \in Nat \ N : \A k \in Nat \ N : <<k, m>> \notin OpToRel(<, Nat)
  BY <1>1, WFMin, NatLessThanWellFounded, Zenon
<1>3. \A k \in Nat \ N : ~(k < m)
  BY <1>2 DEF OpToRel
<1>4. m # 0 /\ m \in Nat
  OBVIOUS
<1>5. m - 1 \in Nat /\ m - 1 < m /\ (m - 1) + 1 = m
  BY <1>4
<1>6. m - 1 \in N
  BY <1>3, <1>5
<1> QED BY <1>5, <1>6

(* The element SumFunctionOnSet takes first, and its equation: g gives the *)
(* sums of f over the subsets of a set.                                    *)
First(s) == CHOOSE x \in s : TRUE
Sum(g, f, s) == IF s = {} THEN 0 ELSE f[First(s)] + g[s \ {First(s)}]

(* The equation has a solution.  It is built up by the size of the subset. *)
LEMMA SumDefined ==
    ASSUME NEW f, NEW S, IsFiniteSet(S)
    PROVE  \E g : g = [s \in SUBSET S |-> Sum(g, f, s)]
<1> DEFINE Upto(n, g) ==
             /\ g = [s \in SUBSET S |-> g[s]]
             /\ \A s \in SUBSET S : Cardinality(s) <= n => g[s] = Sum(g, f, s)
           N == {n \in Nat : \E g : Upto(n, g)}
<1>0. ASSUME NEW s \in SUBSET S PROVE Cardinality(s) \in Nat /\ (Cardinality(s) = 0 => s = {})
  <2>1. IsFiniteSet(s)
    BY FS_Subset
  <2> QED BY <2>1, FS_CardinalityType, FS_EmptySet
<1>1. ASSUME NEW s \in SUBSET S, s # {}
      PROVE  /\ s \ {First(s)} \in SUBSET S
             /\ Cardinality(s \ {First(s)}) = Cardinality(s) - 1
  <2>1. IsFiniteSet(s) /\ First(s) \in s
    BY <1>1, FS_Subset DEF First
  <2> QED BY <2>1, FS_RemoveElement
<1>2. 0 \in N
  <2> DEFINE g == [s \in SUBSET S |-> 0]
  <2>1. \A s \in SUBSET S : Cardinality(s) <= 0 => s = {}
    BY <1>0
  <2>2. Upto(0, g)
    BY <2>1 DEF Sum
  <2> QED BY <2>2
<1>3. ASSUME NEW n \in Nat, n \in N PROVE n + 1 \in N
  <2>1. PICK g : Upto(n, g)
    BY <1>3
  <2> DEFINE h == [s \in SUBSET S |-> IF Cardinality(s) <= n THEN g[s] ELSE Sum(g, f, s)]
  <2>2. ASSUME NEW s \in SUBSET S, Cardinality(s) <= n + 1
        PROVE  h[s] = Sum(h, f, s)
    <3>1. CASE s = {}
      <4>1. Cardinality(s) <= n
        BY <3>1, FS_EmptySet
      <4> QED BY <4>1, <3>1, <2>1 DEF Sum
    <3>2. CASE s # {}
      <4> DEFINE r == s \ {First(s)}
      <4>1. r \in SUBSET S /\ Cardinality(r) <= n
        BY <3>2, <2>2, <1>0, <1>1
      <4>2. h[r] = g[r]
        BY <4>1
      <4>3. Sum(h, f, s) = Sum(g, f, s)
        BY <3>2, <4>2 DEF Sum
      <4>4. h[s] = Sum(g, f, s)
        BY <2>1
      <4> QED BY <4>3, <4>4
    <3> QED BY <3>1, <3>2
  <2>3. h = [s \in SUBSET S |-> h[s]]
    OBVIOUS
  <2>4. Upto(n + 1, h)
    <3> HIDE DEF h
    <3> QED BY <2>2, <2>3
  <2> HIDE DEF h, Upto
  <2> QED BY <2>4
<1>4. PICK g : Upto(Cardinality(S), g)
  <2>1. Cardinality(S) \in N
    <3> HIDE DEF N
    <3>1. Nat \subseteq N
      BY <1>2, <1>3, NatInductionSet
    <3> QED BY <3>1, <1>0
  <2> QED BY <2>1
<1>5. \A s \in SUBSET S : Cardinality(s) <= Cardinality(S)
  BY FS_Subset
<1>6. \A s \in SUBSET S : g[s] = Sum(g, f, s)
  BY <1>4, <1>5
<1>7. g = [s \in SUBSET S |-> Sum(g, f, s)]
  BY <1>4, <1>6, Zenon
<1> QED BY <1>7

(* So SumFunctionOnSet obeys its equation.                                 *)
LEMMA SumIter ==
    ASSUME NEW f, NEW S, IsFiniteSet(S)
    PROVE  \E g : /\ g = [s \in SUBSET S |-> Sum(g, f, s)]
                  /\ SumFunctionOnSet(f, S) = g[S]
<1> DEFINE It == CHOOSE g : g = [s \in SUBSET S |-> Sum(g, f, s)]
<1>1. It = [s \in SUBSET S |-> Sum(It, f, s)]
  BY SumDefined
<1>2. SumFunctionOnSet(f, S) = It[S]
  BY DEF SumFunctionOnSet, FoldFunctionOnSet, MapThenFoldSet, Sum, First
<1> QED BY <1>1, <1>2

(* Induction over the subsets of a finite set, an element at a time.       *)
LEMMA SetInduction ==
    ASSUME NEW S, IsFiniteSet(S), NEW Good, {} \in Good,
           \A s \in SUBSET S : s # {} /\ s \ {First(s)} \in Good => s \in Good
    PROVE  S \in Good
<1>1. SUFFICES ASSUME S \notin Good PROVE FALSE
  OBVIOUS
<1> DEFINE Bad == {s \in SUBSET S : s \notin Good}
<1>2. IsWellFoundedOn(StrictSubsetOrdering(S), SUBSET S)
  BY FS_StrictSubsetOrderingWellFounded, FS_FiniteSubsetsOfFinite
<1>3. Bad \subseteq SUBSET S /\ Bad # {}
  BY <1>1
<1>4. PICK s \in Bad : \A r \in Bad : <<r, s>> \notin StrictSubsetOrdering(S)
  <2> HIDE DEF Bad
  <2> QED BY <1>2, <1>3, WFMin, Zenon
<1>5. s \in SUBSET S /\ s # {} /\ First(s) \in s
  <2>1. s \in SUBSET S /\ s # {}
    OBVIOUS
  <2> QED BY <2>1 DEF First
<1>6. <<s \ {First(s)}, s>> \in StrictSubsetOrdering(S)
  BY <1>5 DEF StrictSubsetOrdering
<1> QED BY <1>4, <1>5, <1>6

(* A sum is a number, and if one summand changes, the sum changes by it.   *)
LEMMA SumChange ==
    ASSUME NEW f, NEW h, NEW S, IsFiniteSet(S), NEW i,
           \A j \in S : f[j] \in Nat /\ h[j] \in Nat,
           \A j \in S \ {i} : h[j] = f[j]
    PROVE  /\ SumFunctionOnSet(f, S) \in Nat /\ SumFunctionOnSet(h, S) \in Nat
           /\ i \in S => SumFunctionOnSet(h, S) + f[i] = SumFunctionOnSet(f, S) + h[i]
           /\ i \notin S => SumFunctionOnSet(h, S) = SumFunctionOnSet(f, S)
<1>1. PICK F : F = [s \in SUBSET S |-> Sum(F, f, s)] /\ SumFunctionOnSet(f, S) = F[S]
  BY SumIter
<1>2. PICK H : H = [s \in SUBSET S |-> Sum(H, h, s)] /\ SumFunctionOnSet(h, S) = H[S]
  BY SumIter
<1> DEFINE Differ(s) == /\ F[s] \in Nat /\ H[s] \in Nat
                        /\ i \in s => H[s] + f[i] = F[s] + h[i]
                        /\ i \notin s => H[s] = F[s]
           Good == {s \in SUBSET S : Differ(s)}
<1>3. {} \in Good
  <2>1. F[{}] = 0 /\ H[{}] = 0
    BY <1>1, <1>2 DEF Sum
  <2> QED BY <2>1
<1>4. ASSUME NEW s \in SUBSET S, s # {}, s \ {First(s)} \in Good
      PROVE  s \in Good
  <2> DEFINE x == First(s)
             r == s \ {x}
  <2>1. x \in s /\ x \in S
    BY <1>4 DEF First
  <2>2. F[s] = f[x] + F[r] /\ H[s] = h[x] + H[r]
    BY <1>1, <1>2, <1>4 DEF Sum
  <2>3. f[x] \in Nat /\ h[x] \in Nat /\ Differ(r)
    BY <1>4, <2>1
  <2>4. CASE x = i
    BY <2>1, <2>2, <2>3, <2>4
  <2>5. CASE x # i
    <3>1. h[x] = f[x] /\ (i \in r <=> i \in s)
      BY <2>1, <2>5
    <3>2. i \in s => f[i] \in Nat /\ h[i] \in Nat
      OBVIOUS
    <3> QED BY <2>2, <2>3, <3>1, <3>2
  <2> QED BY <2>4, <2>5
<1>5. S \in Good
  <2> HIDE DEF Good
  <2> QED BY <1>3, <1>4, SetInduction
<1> QED BY <1>1, <1>2, <1>5

(* The sum of zeros.                                                       *)
LEMMA SumZero ==
    ASSUME NEW f, NEW S, IsFiniteSet(S), \A j \in S : f[j] = 0
    PROVE  SumFunctionOnSet(f, S) = 0
<1>1. PICK F : F = [s \in SUBSET S |-> Sum(F, f, s)] /\ SumFunctionOnSet(f, S) = F[S]
  BY SumIter
<1> DEFINE Good == {s \in SUBSET S : F[s] = 0}
<1>2. {} \in Good
  BY <1>1 DEF Sum
<1>3. ASSUME NEW s \in SUBSET S, s # {}, s \ {First(s)} \in Good
      PROVE  s \in Good
  <2>1. First(s) \in S
    BY <1>3 DEF First
  <2>2. f[First(s)] = 0 /\ F[s \ {First(s)}] = 0
    BY <1>3, <2>1
  <2>3. F[s] = f[First(s)] + F[s \ {First(s)}]
    BY <1>1, <1>3 DEF Sum
  <2> QED BY <2>2, <2>3
<1>4. S \in Good
  <2> HIDE DEF Good
  <2> QED BY <1>2, <1>3, SetInduction
<1> QED BY <1>1, <1>4

-----------------------------------------------------------------------------
USE AggregatorAssumption

LEMMA ClientsHaveSlots == Clients \subseteq ClientSlot
BY DEF Clients, ClientSlot

(* The ids the aggregator uses as an index are inside its arrays.          *)
LEMMA SentIsMessage ==
    ASSUME NEW p \in Reporter
    PROVE  /\ [type |-> "register", id |-> MsgId(p)] \in RegisterMsg
           /\ \A tp \in Tps : [type |-> "report", id |-> MsgId(p), tp |-> tp] \in ReportMsg
<1>1. Id[p] \in Int
  OBVIOUS
<1>2. MsgId(p) \in 0..255
  BY <1>1 DEF MsgId
<1>3. MsgId(p) < MaxClients /\ MaxClients \in Nat
  OBVIOUS
<1>4. MsgId(p) \in ClientSlot
  BY <1>2, <1>3 DEF ClientSlot
<1> QED BY <1>2, <1>4 DEF RegisterMsg, ReportMsg

LEMMA SendKeepsQueue ==
    ASSUME RoundOK, NEW m \in RegisterMsg \union ReportMsg, Send(m)
    PROVE  queue' \in Seq(RegisterMsg \union ReportMsg)
BY DEF RoundOK, Send

(* The datagram at the head of the buffer, and the buffer without it.      *)
LEMMA ReceivedReport ==
    ASSUME RoundOK, Received("report")
    PROVE  /\ Head(queue).id \in ClientSlot /\ Head(queue).tp \in Nat
           /\ queue' \in Seq(RegisterMsg \union ReportMsg)
           /\ ReportedNow \in [ClientSlot -> BOOLEAN]
           /\ TpNow \in [ClientSlot -> Nat]
<1>1. Head(queue) \in RegisterMsg \union ReportMsg /\ Head(queue).type = "report"
  BY DEF RoundOK, Received
<1>2. Head(queue) \in ReportMsg
  BY <1>1 DEF RegisterMsg
<1>3. Head(queue).id \in ClientSlot /\ Head(queue).tp \in Nat
  BY <1>2 DEF ReportMsg
<1>4. queue' \in Seq(RegisterMsg \union ReportMsg)
  BY DEF RoundOK, Received
<1> QED BY <1>3, <1>4 DEF RoundOK, ReportedNow, TpNow

-----------------------------------------------------------------------------
LEMMA InitInv == ASSUME Init PROVE Inv
<1>1. RoundOK
  BY DEF Init, RoundOK, NoTps, NoneReported
<1>2. RoundInProgress
  BY ClientsHaveSlots DEF Init, RoundInProgress, NoTps, NoneReported, AllReported
<1> QED BY <1>1, <1>2 DEF Inv

(* A round goes on: a slot that is not set has had no report.              *)
LEMMA WaitKeeps == ASSUME Inv, WaitForOthers PROVE Inv'
<1>1. RoundOK'
  BY ReceivedReport DEF Inv, RoundOK, WaitForOthers
<1>2. \A i \in ClientSlot : ~gClientReported'[i] => gClientTp'[i] = 0
  BY DEF Inv, RoundOK, RoundInProgress, WaitForOthers, ReportedNow, TpNow
<1>3. ~AllReported(gClientReported')
  BY DEF WaitForOthers
<1> QED BY <1>1, <1>2, <1>3 DEF Inv, RoundInProgress, AllReported

(* A round is closed: nothing is kept for the next one.                    *)
LEMMA CloseKeeps == ASSUME Inv, CloseRound PROVE Inv'
<1>1. gClientTp' = NoTps /\ gClientReported' = NoneReported
  BY DEF CloseRound, ClearTps, ClearReported
<1>2. RoundOK'
  BY <1>1, ReceivedReport DEF Inv, RoundOK, CloseRound, NoTps, NoneReported
<1>3. RoundInProgress'
  BY <1>1, ClientsHaveSlots DEF RoundInProgress, NoTps, NoneReported, AllReported
<1> QED BY <1>2, <1>3 DEF Inv

(* The other steps leave the round alone.                                  *)
LEMMA OthersKeep ==
    ASSUME Inv,
           \/ Bind \/ HandleRegister \/ KilledByOther \/ UNCHANGED vars
           \/ \E p \in Process : Register(p) \/ Report(p) \/ Stops(p)
    PROVE  Inv' /\ UNCHANGED <<gClientTp, gClientReported>>
<1>1. UNCHANGED <<gClientTp, gClientReported>>
  BY DEF Bind, HandleRegister, KilledByOther, Register, Report, Stops, vars, aggVars,
         roundVars
<1>2. queue' \in Seq(RegisterMsg \union ReportMsg)
  <2>1. CASE Bind \/ KilledByOther \/ UNCHANGED vars \/ \E p \in Process : Stops(p)
    BY <2>1 DEF Inv, RoundOK, Bind, KilledByOther, Stops, vars
  <2>2. CASE HandleRegister
    BY <2>2 DEF Inv, RoundOK, HandleRegister, Received
  <2>3. ASSUME NEW p \in Process, Register(p)
        PROVE  queue' \in Seq(RegisterMsg \union ReportMsg)
    BY <2>3, SentIsMessage, SendKeepsQueue DEF Inv, Register
  <2>4. ASSUME NEW p \in Process, Report(p)
        PROVE  queue' \in Seq(RegisterMsg \union ReportMsg)
    BY <2>4, SentIsMessage, SendKeepsQueue DEF Inv, Report
  <2> QED BY <2>1, <2>2, <2>3, <2>4
<1> QED BY <1>1, <1>2 DEF Inv, RoundOK, RoundInProgress, AllReported

LEMMA NextInv == ASSUME Inv, [Next]_vars PROVE Inv'
<1>1. CASE HandleReport
  BY <1>1, WaitKeeps, CloseKeeps
     DEF HandleReport, SkipRound, PrintRound, PrintLastRound
<1> QED BY <1>1, OthersKeep DEF Next, Aggregate

(* After each datagram of whatever process some client is still to report, *)
(* and the throughputs start_aggregating() keeps are those of the clients  *)
(* marked as heard: a total is neither held back nor mixed of two rounds.  *)
THEOREM Rounds == Spec => []RoundInProgress
<1>1. Inv => RoundInProgress
  BY DEF Inv
<1> QED BY InitInv, NextInv, <1>1, PTL DEF Spec

-----------------------------------------------------------------------------
LEMMA LedgerInitInv == ASSUME LedgerInit PROVE LedgerInv
<1>1. Inv
  BY InitInv DEF LedgerInit
<1>2. RoundsCovered
  BY ClientsHaveSlots DEF LedgerInit, Init, RoundsCovered, NoneReported
<1> QED BY <1>1, <1>2 DEF LedgerInv

LEMMA WaitCovers ==
    ASSUME LedgerInv, WaitForOthers, RecordReport PROVE RoundsCovered'
<1>1. /\ Head(queue).id \in ClientSlot
      /\ got \in [ClientSlot -> Nat] /\ rounds \in Nat
      /\ gClientReported \in [ClientSlot -> BOOLEAN]
  BY ReceivedReport DEF LedgerInv, Inv, RoundOK, RoundsCovered, WaitForOthers
<1>2. /\ got' = [got EXCEPT ![Head(queue).id] = @ + 1]
      /\ rounds' = rounds
      /\ gClientReported' = [gClientReported EXCEPT ![Head(queue).id] = TRUE]
  BY DEF RecordReport, WaitForOthers, ReportedNow
<1>3. ASSUME NEW i \in Clients
      PROVE  IF gClientReported'[i] THEN rounds' + 1 <= got'[i] ELSE rounds' <= got'[i]
  <2>1. /\ i \in ClientSlot /\ got[i] \in Nat
        /\ IF gClientReported[i] THEN rounds + 1 <= got[i] ELSE rounds <= got[i]
    BY <1>1, ClientsHaveSlots DEF LedgerInv, RoundsCovered
  <2>2. CASE i = Head(queue).id
    BY <1>1, <1>2, <2>1, <2>2
  <2>3. CASE i # Head(queue).id
    BY <1>1, <1>2, <2>1, <2>3
  <2> QED BY <2>2, <2>3
<1> QED BY <1>1, <1>2, <1>3 DEF RoundsCovered

(* When a round is closed each client is marked, the sender of the last    *)
(* report by it, so each has been heard once more than rounds were closed. *)
LEMMA CloseCovers ==
    ASSUME LedgerInv, CloseRound, RecordReport PROVE RoundsCovered'
<1>1. /\ Head(queue).id \in ClientSlot
      /\ got \in [ClientSlot -> Nat] /\ rounds \in Nat
      /\ gClientReported \in [ClientSlot -> BOOLEAN]
  BY ReceivedReport DEF LedgerInv, Inv, RoundOK, RoundsCovered, CloseRound
<1>2. /\ got' = [got EXCEPT ![Head(queue).id] = @ + 1]
      /\ rounds' = rounds + 1
      /\ gClientReported' = NoneReported
  BY DEF RecordReport, CloseRound, ClearReported
<1>3. \A i \in Clients : i = Head(queue).id \/ gClientReported[i]
  BY <1>1, ClientsHaveSlots DEF CloseRound, AllReported, ReportedNow
<1>4. ASSUME NEW i \in Clients
      PROVE  ~gClientReported'[i] /\ rounds' <= got'[i]
  <2>1. /\ i \in ClientSlot /\ got[i] \in Nat
        /\ IF gClientReported[i] THEN rounds + 1 <= got[i] ELSE rounds <= got[i]
    BY <1>1, ClientsHaveSlots DEF LedgerInv, RoundsCovered
  <2>2. ~gClientReported'[i]
    BY <1>2, <2>1 DEF NoneReported
  <2>3. CASE i = Head(queue).id
    BY <1>1, <1>2, <2>1, <2>2, <2>3
  <2>4. CASE i # Head(queue).id
    BY <1>1, <1>2, <1>3, <2>1, <2>2, <2>4
  <2> QED BY <2>3, <2>4
<1> QED BY <1>1, <1>2, <1>4 DEF RoundsCovered

LEMMA LedgerNextInv == ASSUME LedgerInv, [LedgerNext]_ledgerVars PROVE LedgerInv'
<1>1. [Next]_vars
  BY DEF LedgerNext, Next, Aggregate, ledgerVars
<1>2. Inv'
  BY <1>1, NextInv DEF LedgerInv
<1>3. RoundsCovered'
  <2>1. CASE HandleReport /\ RecordReport
    BY <2>1, WaitCovers, CloseCovers
       DEF HandleReport, SkipRound, PrintRound, PrintLastRound
  <2>2. CASE ~(HandleReport /\ RecordReport)
    <3>1. UNCHANGED <<got, rounds, gClientReported>>
      BY <2>2, OthersKeep DEF LedgerInv, LedgerNext, ledgerVars, histVars
    <3> QED BY <3>1 DEF LedgerInv, RoundsCovered
  <2> QED BY <2>1, <2>2
<1> QED BY <1>2, <1>3 DEF LedgerInv

(* In n rounds each client has been heard n times at least, in whatever    *)
(* order reports come and however many are lost: gClientReported is set by *)
(* a report of the client only and cleared at the end of each round.       *)
THEOREM OwnReports == LedgerSpec => []NoReportCountedTwice
<1>1. LedgerInv => NoReportCountedTwice
  BY ClientsHaveSlots DEF LedgerInv, RoundsCovered, NoReportCountedTwice
<1> QED BY LedgerInitInv, LedgerNextInv, <1>1, PTL DEF LedgerSpec

-----------------------------------------------------------------------------
LEMMA ClientsFinite == IsFiniteSet(Clients)
BY FS_Interval DEF Clients

(* A report is entered: the total changes by it, and is a number.          *)
LEMMA TotalOfRound ==
    ASSUME Inv, Received("report")
    PROVE  LET m == Head(queue)
               kept == SumFunctionOnSet(gClientTp, Clients)
           IN  /\ TotTp \in Nat /\ kept \in Nat
               /\ m.id \in Clients => TotTp + gClientTp[m.id] = kept + m.tp
               /\ m.id \notin Clients => TotTp = kept
<1> DEFINE m == Head(queue)
<1>1. m.id \in ClientSlot /\ m.tp \in Nat /\ gClientTp \in [ClientSlot -> Nat]
  BY ReceivedReport DEF Inv, RoundOK
<1>2. TpNow = [gClientTp EXCEPT ![m.id] = m.tp]
  BY DEF TpNow
<1>3. \A j \in Clients : gClientTp[j] \in Nat /\ TpNow[j] \in Nat
  BY <1>1, <1>2, ClientsHaveSlots
<1>4. \A j \in Clients \ {m.id} : TpNow[j] = gClientTp[j]
  BY <1>1, <1>2, ClientsHaveSlots
<1>5. TpNow[m.id] = m.tp
  BY <1>1, <1>2
<1> HIDE DEF m
<1>6. /\ SumFunctionOnSet(gClientTp, Clients) \in Nat
      /\ SumFunctionOnSet(TpNow, Clients) \in Nat
      /\ m.id \in Clients => SumFunctionOnSet(TpNow, Clients) + gClientTp[m.id]
                             = SumFunctionOnSet(gClientTp, Clients) + TpNow[m.id]
      /\ m.id \notin Clients => SumFunctionOnSet(TpNow, Clients)
                                = SumFunctionOnSet(gClientTp, Clients)
  BY <1>3, <1>4, ClientsFinite, SumChange
<1> QED BY <1>5, <1>6 DEF TotTp, m

LEMMA NoTotalAtStart == SumFunctionOnSet(NoTps, Clients) = 0
<1>1. \A j \in Clients : NoTps[j] = 0
  BY ClientsHaveSlots DEF NoTps
<1> QED BY <1>1, ClientsFinite, SumZero

-----------------------------------------------------------------------------
(* Types.  gAvgTput grows by totals, which are sums.                       *)
TypedInv == Inv /\ TypeOK /\ ExitsAtLimit

LEMMA InitTyped == ASSUME Init PROVE TypedInv
<1>1. RoundOK /\ Inv
  BY InitInv DEF Inv
<1>2. /\ running \subseteq Process /\ registered \subseteq Reporter
      /\ aggPc \in AggPc /\ gDoReport \in BOOLEAN
  BY DEF Init, AggPc
<1>3. gNumRegistered \in Nat /\ gAvgTput \in Nat /\ reportNum \in 0..NumMeasurements
  BY DEF Init
<1>4. ExitsAtLimit
  BY DEF Init, ExitsAtLimit
<1> QED BY <1>1, <1>2, <1>3, <1>4 DEF TypedInv, TypeOK, RoundOK

LEMMA NextTyped == ASSUME TypedInv, [Next]_vars PROVE TypedInv'
<1> USE DEF TypedInv, TypeOK, ExitsAtLimit
<1>1. Inv'
  BY NextInv
<1>2. /\ queue' \in Seq(RegisterMsg \union ReportMsg)
      /\ gClientTp' \in [ClientSlot -> Nat]
      /\ gClientReported' \in [ClientSlot -> BOOLEAN]
  BY <1>1 DEF Inv, RoundOK
<1>3. CASE HandleReport
  <2>1. aggPc = "poll" /\ reportNum + 1 \in 0..NumMeasurements
    BY <1>3 DEF HandleReport, WaitForOthers, SkipRound, PrintRound, PrintLastRound,
                CloseRound, Received
  <2>2. UNCHANGED <<registered, gNumRegistered, gDoReport>>
    BY <1>3 DEF HandleReport, WaitForOthers, SkipRound, PrintRound, PrintLastRound,
                CloseRound, procVars
  <2>3. gAvgTput' \in Nat
    <3>1. CASE WaitForOthers
      BY <3>1 DEF WaitForOthers
    <3>2. CASE CloseRound
      <4>1. TotTp \in Nat
        BY <3>2, TotalOfRound DEF CloseRound
      <4> QED BY <3>2, <4>1 DEF CloseRound
    <3> QED BY <1>3, <3>1, <3>2 DEF HandleReport, SkipRound, PrintRound, PrintLastRound
  <2>4. /\ running' \subseteq Process
        /\ aggPc' \in AggPc
        /\ reportNum' \in 0..NumMeasurements
        /\ ExitsAtLimit'
    <3>1. CASE WaitForOthers
      BY <2>1, <3>1 DEF WaitForOthers, procVars
    <3>2. CASE SkipRound
      BY <2>1, <3>2 DEF SkipRound
    <3>3. CASE PrintRound
      BY <2>1, <3>3 DEF PrintRound, AtLimit
    <3>4. CASE PrintLastRound
      BY <2>1, <3>4 DEF PrintLastRound, AtLimit, AggPc
    <3> QED BY <1>3, <3>1, <3>2, <3>3, <3>4 DEF HandleReport
  <2> QED BY <1>1, <1>2, <2>2, <2>3, <2>4
<1>4. CASE Bind
  BY <1>1, <1>2, <1>4 DEF Bind, procVars, roundVars, AggPc
<1>5. CASE HandleRegister
  BY <1>1, <1>2, <1>5 DEF HandleRegister, procVars, roundVars
<1>6. ASSUME NEW p \in Process, Register(p) \/ Report(p) \/ Stops(p)
      PROVE  TypedInv'
  BY <1>1, <1>2, <1>6 DEF Register, Report, Stops, procVars, aggVars, roundVars
<1>7. CASE UNCHANGED vars
  BY <1>1, <1>2, <1>7 DEF vars, procVars, aggVars, roundVars
<1>8. CASE KilledByOther
  BY <1>1, <1>2, <1>8 DEF KilledByOther, aggVars, roundVars
<1> QED BY <1>3, <1>4, <1>5, <1>6, <1>7, <1>8 DEF Next, Aggregate

(* Every variable keeps its type; above all no measurement is made after   *)
(* the last one start_aggregating() was asked for with -m.                 *)
THEOREM Typing == Spec => []TypeOK
<1>1. TypedInv => TypeOK
  BY DEF TypedInv
<1> QED BY InitTyped, NextTyped, <1>1, PTL DEF Spec

-----------------------------------------------------------------------------
LEMMA InitTotals == ASSUME LedgerInit PROVE TotalsInv
<1>1. Inv
  BY InitInv DEF LedgerInit
<1>2. gAvgTput = 0 /\ received = 0 /\ overwritten = 0 /\ gClientTp = NoTps
  BY DEF LedgerInit, Init
<1> QED BY <1>1, <1>2, NoTotalAtStart DEF TotalsInv, TotalsOK, AverageConserved

(* A report that waits joins the kept ones, or replaces one of them.       *)
LEMMA WaitConserves ==
    ASSUME TotalsInv, WaitForOthers, RecordReport
    PROVE  TotalsOK' /\ AverageConserved'
<1> DEFINE m == Head(queue)
           kept == SumFunctionOnSet(gClientTp, Clients)
<1>1. /\ TotTp \in Nat /\ kept \in Nat
      /\ m.id \in Clients => TotTp + gClientTp[m.id] = kept + m.tp
      /\ m.id \notin Clients => TotTp = kept
  BY TotalOfRound DEF TotalsInv, WaitForOthers
<1>2. m.tp \in Nat /\ m.id \in ClientSlot /\ gClientTp[m.id] \in Nat
  BY ReceivedReport DEF TotalsInv, Inv, RoundOK, WaitForOthers
<1>3. gAvgTput' = gAvgTput /\ SumFunctionOnSet(gClientTp, Clients)' = TotTp
  BY DEF WaitForOthers, TotTp
<1>4. IF m.id \in Clients
      THEN received' = received + m.tp /\ overwritten' = overwritten + gClientTp[m.id]
      ELSE received' = received /\ overwritten' = overwritten
  BY DEF RecordReport
<1>5. /\ gAvgTput \in Nat /\ received \in Nat /\ overwritten \in Nat
      /\ gAvgTput + kept + overwritten = received
  BY DEF TotalsInv, TotalsOK, AverageConserved
<1> HIDE DEF m, kept
<1> QED BY <1>1, <1>2, <1>3, <1>4, <1>5 DEF TotalsOK, AverageConserved

(* The last report of a round: what was kept, and it, go into the average. *)
LEMMA CloseConserves ==
    ASSUME TotalsInv, CloseRound, RecordReport
    PROVE  TotalsOK' /\ AverageConserved'
<1> DEFINE m == Head(queue)
           kept == SumFunctionOnSet(gClientTp, Clients)
<1>1. /\ TotTp \in Nat /\ kept \in Nat
      /\ m.id \in Clients => TotTp + gClientTp[m.id] = kept + m.tp
      /\ m.id \notin Clients => TotTp = kept
  BY TotalOfRound DEF TotalsInv, CloseRound
<1>2. m.tp \in Nat /\ m.id \in ClientSlot /\ gClientTp[m.id] \in Nat
  BY ReceivedReport DEF TotalsInv, Inv, RoundOK, CloseRound
<1>3. gAvgTput' = gAvgTput + TotTp /\ SumFunctionOnSet(gClientTp, Clients)' = 0
  BY NoTotalAtStart DEF CloseRound, ClearTps
<1>4. IF m.id \in Clients
      THEN received' = received + m.tp /\ overwritten' = overwritten + gClientTp[m.id]
      ELSE received' = received /\ overwritten' = overwritten
  BY DEF RecordReport
<1>5. /\ gAvgTput \in Nat /\ received \in Nat /\ overwritten \in Nat
      /\ gAvgTput + kept + overwritten = received
  BY DEF TotalsInv, TotalsOK, AverageConserved
<1> HIDE DEF m, kept
<1> QED BY <1>1, <1>2, <1>3, <1>4, <1>5 DEF TotalsOK, AverageConserved

LEMMA NextTotals == ASSUME TotalsInv, [LedgerNext]_ledgerVars PROVE TotalsInv'
<1>1. Inv'
  BY NextInv DEF TotalsInv, LedgerNext, Next, Aggregate, ledgerVars
<1>2. CASE HandleReport /\ RecordReport
  BY <1>1, <1>2, WaitConserves, CloseConserves
     DEF TotalsInv, HandleReport, SkipRound, PrintRound, PrintLastRound
<1>3. CASE ~(HandleReport /\ RecordReport)
  <2>1. UNCHANGED <<received, overwritten, gClientTp>>
    BY <1>3, OthersKeep DEF TotalsInv, LedgerNext, ledgerVars, histVars
  <2>2. gAvgTput' = gAvgTput
    BY <1>3 DEF LedgerNext, Bind, HandleRegister, KilledByOther, Register, Report, Stops, ledgerVars,
                vars, aggVars, roundVars
  <2> QED BY <1>1, <2>1, <2>2 DEF TotalsInv, TotalsOK, AverageConserved
<1> QED BY <1>2, <1>3

(* The sum the printed average is computed from, with the reports kept for *)
(* the running round and those replaced in it, is every throughput that    *)
(* was received, for any clients and any order: start_aggregating() adds   *)
(* each report to gAvgTput once, also those of a round it does not print.  *)
THEOREM AverageExact == LedgerSpec => []AverageConserved
<1>1. TotalsInv => AverageConserved
  BY DEF TotalsInv
<1> QED BY InitTotals, NextTotals, <1>1, PTL DEF LedgerSpec

-----------------------------------------------------------------------------
(* Two aggregators on one host, whatever command lines they and the        *)
(* processes were given: Deployment, of which nothing is assumed.  It has  *)
(* the variables of both; running, which both write, is the one above.     *)

CONSTANTS ClientSide, ServerSide

VARIABLES
    stopped,
    cRegistered, cPc, cQueue, cNumRegistered, cDoReport,
    cClientTp, cClientReported, cAvgTput, cReportNum,
    sRegistered, sPc, sQueue, sNumRegistered, sDoReport,
    sClientTp, sClientReported, sAvgTput, sReportNum

D == INSTANCE Deployment

LEMMA InitLimit == ASSUME D!Init PROVE D!LimitInv
BY DEF D!Init, D!C!Init, D!LimitInv

(* One that handles anything has not exited; it leaves the processes alone *)
(* or kills them all as it prints the last of its measurements.            *)
LEMMA ClientSideKills ==
    ASSUME D!C!Aggregate
    PROVE  /\ cPc # "exited"
           /\ \/ running' = running
              \/ /\ running' = {} /\ cPc' = "exited"
                 /\ cReportNum' = D!cArgs.gNumMeasurements
BY DEF D!C!Aggregate, D!C!Bind, D!C!HandleRegister, D!C!HandleReport, D!C!Received,
       D!C!WaitForOthers, D!C!CloseRound, D!C!SkipRound, D!C!PrintRound,
       D!C!PrintLastRound, D!C!AtLimit, D!C!procVars

LEMMA ServerSideKills ==
    ASSUME D!S!Aggregate
    PROVE  /\ sPc # "exited"
           /\ \/ running' = running
              \/ /\ running' = {} /\ sPc' = "exited"
                 /\ sReportNum' = D!sArgs.gNumMeasurements
BY DEF D!S!Aggregate, D!S!Bind, D!S!HandleRegister, D!S!HandleReport, D!S!Received,
       D!S!WaitForOthers, D!S!CloseRound, D!S!SkipRound, D!S!PrintRound,
       D!S!PrintLastRound, D!S!AtLimit, D!S!procVars

(* Sending changes neither the processes nor where an aggregator is.       *)
LEMMA SendsKeepLimit ==
    ASSUME D!LimitInv, NEW p \in D!Process, D!ClientSends(p) \/ D!ServerSends(p)
    PROVE  D!LimitInv'
<1>1. UNCHANGED <<running, stopped, cPc, cReportNum, sPc, sReportNum>>
  <2>1. CASE D!ClientSends(p)
    BY <2>1 DEF D!ClientSends, D!C!Register, D!C!Report, D!C!procVars, D!C!aggVars,
       D!C!roundVars, D!sVars
  <2>2. CASE D!ServerSends(p)
    BY <2>2 DEF D!ServerSends, D!S!Register, D!S!Report, D!S!procVars, D!S!aggVars,
       D!S!roundVars, D!cVars
  <2> QED BY <2>1, <2>2
<1> QED BY <1>1 DEF D!LimitInv, D!cDone, D!sDone

LEMMA NextLimit == ASSUME D!LimitInv, [D!Next]_D!vars PROVE D!LimitInv'
<1> USE DEF D!LimitInv, D!cDone, D!sDone
<1>1. CASE D!ClientAggregates
  BY <1>1, ClientSideKills DEF D!ClientAggregates, D!sVars
<1>2. CASE D!ServerAggregates
  BY <1>2, ServerSideKills DEF D!ServerAggregates, D!cVars
<1>3. ASSUME NEW p \in D!Process, D!ClientSends(p) \/ D!ServerSends(p)
      PROVE  D!LimitInv'
  BY <1>3, SendsKeepLimit
<1>4. ASSUME NEW p \in D!Process, D!Stops(p) PROVE D!LimitInv'
  BY <1>4 DEF D!Stops, D!cVars, D!sVars
<1>5. CASE UNCHANGED D!vars
  BY <1>5 DEF D!vars, D!cVars, D!sVars
<1> QED BY <1>1, <1>2, <1>3, <1>4, <1>5 DEF D!Next

(* aggregator.c, system("pkill conntest"): the processes of a host go on   *)
(* until they end by themselves or one of the two aggregators has printed  *)
(* every measurement it was asked for.                                     *)
THEOREM KilledTogether == D!Spec => []D!KilledAtTheLimit
<1>1. D!LimitInv => D!KilledAtTheLimit
  BY DEF D!LimitInv, D!KilledAtTheLimit
<1> QED BY InitLimit, NextLimit, <1>1, PTL DEF D!Spec

-----------------------------------------------------------------------------
(* Either aggregator of the host does what Aggregator says of one that is  *)
(* alone: all it sees of the other is that its processes are killed.       *)

LEMMA ClientSideSteps == ASSUME [D!Next]_D!vars PROVE [D!C!Next]_D!C!vars
<1>1. CASE D!ClientAggregates
  BY <1>1 DEF D!ClientAggregates, D!C!Next
<1>2. CASE D!ServerAggregates
  <2>1. UNCHANGED D!cVars /\ (running' = running \/ running' = {})
    BY <1>2, ServerSideKills DEF D!ServerAggregates
  <2>2. running' = running => UNCHANGED D!C!vars
    BY <2>1 DEF D!cVars, D!C!vars, D!C!procVars, D!C!aggVars, D!C!roundVars
  <2>3. running # {} /\ running' = {} => D!C!KilledByOther
    BY <2>1 DEF D!cVars, D!C!KilledByOther, D!C!aggVars, D!C!roundVars
  <2> QED BY <2>1, <2>2, <2>3 DEF D!C!Next
<1>3. ASSUME NEW p \in D!Process, D!ClientSends(p) PROVE D!C!Next
  BY <1>3 DEF D!ClientSends, D!C!Next
<1>4. ASSUME NEW p \in D!Process, D!ServerSends(p) PROVE UNCHANGED D!C!vars
  BY <1>4 DEF D!ServerSends, D!S!Register, D!S!Report, D!S!procVars, D!cVars,
     D!C!vars, D!C!procVars, D!C!aggVars, D!C!roundVars
<1>5. ASSUME NEW p \in D!Process, D!Stops(p) PROVE D!C!Next
  <2>1. D!C!Stops(p)
    BY <1>5 DEF D!Stops, D!C!Stops, D!cVars, D!C!aggVars, D!C!roundVars
  <2> QED BY <2>1 DEF D!C!Next
<1>6. CASE UNCHANGED D!vars
  BY <1>6 DEF D!vars, D!cVars, D!C!vars, D!C!procVars, D!C!aggVars, D!C!roundVars
<1> QED BY <1>1, <1>2, <1>3, <1>4, <1>5, <1>6 DEF D!Next

LEMMA ServerSideSteps == ASSUME [D!Next]_D!vars PROVE [D!S!Next]_D!S!vars
<1>1. CASE D!ServerAggregates
  BY <1>1 DEF D!ServerAggregates, D!S!Next
<1>2. CASE D!ClientAggregates
  <2>1. UNCHANGED D!sVars /\ (running' = running \/ running' = {})
    BY <1>2, ClientSideKills DEF D!ClientAggregates
  <2>2. running' = running => UNCHANGED D!S!vars
    BY <2>1 DEF D!sVars, D!S!vars, D!S!procVars, D!S!aggVars, D!S!roundVars
  <2>3. running # {} /\ running' = {} => D!S!KilledByOther
    BY <2>1 DEF D!sVars, D!S!KilledByOther, D!S!aggVars, D!S!roundVars
  <2> QED BY <2>1, <2>2, <2>3 DEF D!S!Next
<1>3. ASSUME NEW p \in D!Process, D!ServerSends(p) PROVE D!S!Next
  BY <1>3 DEF D!ServerSends, D!S!Next
<1>4. ASSUME NEW p \in D!Process, D!ClientSends(p) PROVE UNCHANGED D!S!vars
  BY <1>4 DEF D!ClientSends, D!C!Register, D!C!Report, D!C!procVars, D!sVars,
     D!S!vars, D!S!procVars, D!S!aggVars, D!S!roundVars
<1>5. ASSUME NEW p \in D!Process, D!Stops(p) PROVE D!S!Next
  <2>1. D!S!Stops(p)
    BY <1>5 DEF D!Stops, D!S!Stops, D!sVars, D!S!aggVars, D!S!roundVars
  <2> QED BY <2>1 DEF D!S!Next
<1>6. CASE UNCHANGED D!vars
  BY <1>6 DEF D!vars, D!sVars, D!S!vars, D!S!procVars, D!S!aggVars, D!S!roundVars
<1> QED BY <1>1, <1>2, <1>3, <1>4, <1>5, <1>6 DEF D!Next

(* Two aggregators on one host, with processes that end when the first one *)
(* kills them, both implement Aggregator, so what is proved of it above    *)
(* holds of each of them, whatever the other one does.                     *)
THEOREM SidesAreAggregators == D!Spec => D!C!Spec /\ D!S!Spec
<1>1. D!Init => D!C!Init /\ D!S!Init
  BY DEF D!Init
<1>2. [D!Next]_D!vars => [D!C!Next]_D!C!vars
  BY ClientSideSteps
<1>3. [D!Next]_D!vars => [D!S!Next]_D!S!vars
  BY ServerSideSteps
<1> QED BY <1>1, <1>2, <1>3, PTL DEF D!Spec, D!C!Spec, D!S!Spec

=============================================================================
