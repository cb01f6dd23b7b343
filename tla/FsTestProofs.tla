---------------------------- MODULE FsTestProofs ----------------------------
(***************************************************************************)
(* Proofs about fstest, for any sizes, block sizes and durations and any   *)
(* width of the words: a write pass stays inside the file and the buffer,  *)
(* and the read test, which adds up sizes in a word, prints what it read.  *)
(***************************************************************************)
EXTENDS FsTest, TLAPS

LEMMA ProductIsNatural == ASSUME NEW a \in Nat, NEW b \in Nat PROVE a * b \in Nat
OBVIOUS

USE FsTestAssumption

-----------------------------------------------------------------------------
(* Arithmetic modulo Word.                                                 *)

LEMMA Multiple ==
    ASSUME NEW k \in Nat \ {0} PROVE k * Word \in Nat /\ k * Word >= Word
<1>1. k - 1 \in Nat /\ (k - 1) * Word \in Nat
  OBVIOUS
<1>2. k * Word = ((k - 1) * Word) + Word
  OBVIOUS
<1> QED BY <1>1, <1>2

LEMMA RemainderIsUnique ==
    ASSUME NEW a \in Nat, NEW b \in Nat, NEW r \in Unsigned, NEW s \in Unsigned,
           (a * Word) + r = (b * Word) + s
    PROVE  r = s
<1> USE DEF Unsigned
<1>1. a * Word \in Nat /\ b * Word \in Nat
  OBVIOUS
<1>2. CASE a > b
  <2>1. a - b \in Nat \ {0} /\ (a - b) * Word >= Word
    BY <1>2, Multiple
  <2>2. (a - b) * Word = (a * Word) - (b * Word)
    OBVIOUS
  <2> QED BY <1>1, <2>1, <2>2
<1>3. CASE b > a
  <2>1. b - a \in Nat \ {0} /\ (b - a) * Word >= Word
    BY <1>3, Multiple
  <2>2. (b - a) * Word = (b * Word) - (a * Word)
    OBVIOUS
  <2> QED BY <1>1, <2>1, <2>2
<1> QED BY <1>1, <1>2, <1>3

LEMMA Remainder ==
    ASSUME NEW x \in Nat
    PROVE  \E q \in Nat, r \in Unsigned : x = (q * Word) + r /\ x % Word = r
<1>1. x % Word \in Unsigned /\ x \div Word \in Nat
  BY DEF Unsigned
<1>2. x = ((x \div Word) * Word) + (x % Word)
  OBVIOUS
<1> QED BY <1>1, <1>2

LEMMA SmallRemainder == ASSUME NEW x \in Unsigned PROVE x % Word = x
BY DEF Unsigned

(* A sum of words is cut to a word once or after each addition.            *)
LEMMA SumInWords ==
    ASSUME NEW m \in Nat, NEW f \in Nat
    PROVE  ((m % Word) + f) % Word = (m + f) % Word
<1>1. PICK p \in Nat, r \in Unsigned : m = (p * Word) + r /\ m % Word = r
  BY Remainder
<1>2. r + f \in Nat /\ m + f \in Nat
  BY DEF Unsigned
<1>3. PICK q \in Nat, s \in Unsigned : r + f = (q * Word) + s /\ (r + f) % Word = s
  BY <1>2, Remainder
<1>4. PICK t \in Nat, u \in Unsigned : m + f = (t * Word) + u /\ (m + f) % Word = u
  BY <1>2, Remainder
<1>5. (p + q) * Word = (p * Word) + (q * Word)
  OBVIOUS
<1>6. p * Word \in Nat /\ q * Word \in Nat /\ t * Word \in Nat
  OBVIOUS
<1>7. ((p + q) * Word) + s = (t * Word) + u
  BY <1>1, <1>3, <1>4, <1>5, <1>6 DEF Unsigned
<1>8. s = u
  <2>1. p + q \in Nat
    OBVIOUS
  <2> QED BY <1>7, <2>1, RemainderIsUnique
<1> QED BY <1>1, <1>3, <1>4, <1>8

LEMMA SizesAreNatural ==
    ASSUME NEW k \in Nat, NEW f \in Nat
    PROVE  k * f \in Nat /\ (k + 1) * f \in Nat /\ (k + 1) * f = (k * f) + f
<1>1. k * f \in Nat
  BY ProductIsNatural
<1>2. (k + 1) * f = (k * f) + f
  OBVIOUS
<1> QED BY <1>1, <1>2

LEMMA NothingCounted ==
    ASSUME NEW p \in Nat, NEW f \in Nat
    PROVE  \E k \in 0..p : 0 = (0 + k * f) % Word
<1>1. 0 * f = 0 /\ 0 \in 0..p
  OBVIOUS
<1>2. 0 % Word = 0
  BY SmallRemainder DEF Unsigned
<1>3. 0 = (0 + 0 * f) % Word
  BY <1>1, <1>2
<1> QED BY <1>1, <1>3

LEMMA NumbersAreNatural == ASSUME NEW n \in Numbers PROVE n \in Nat
<1>1. n \in 0..(Word - 1)
  OBVIOUS
<1> QED BY <1>1

LEMMA SizesAreWords ==
    ASSUME NEW n \in Numbers, NEW u \in {"", "k", "M", "G"}
    PROVE  get_size(n, u) \in Unsigned
<1>1. Scale(u) \in Nat
  <2>1. Kilo \in Nat /\ Kilo * Kilo \in Nat /\ Kilo * Kilo * Kilo \in Nat
    <3>1. Kilo \in Nat /\ Kilo * Kilo \in Nat
      BY ProductIsNatural
    <3> QED BY <3>1, ProductIsNatural
  <2>2. CASE u = ""
    BY <2>2 DEF Scale
  <2>3. CASE u = "k"
    BY <2>1, <2>3 DEF Scale
  <2>4. CASE u = "M"
    BY <2>1, <2>4 DEF Scale
  <2>5. CASE u = "G"
    BY <2>1, <2>5 DEF Scale
  <2> QED BY <2>2, <2>3, <2>4, <2>5
<1>2. n \in Nat
  BY NumbersAreNatural
<1>3. n * Scale(u) \in Nat
  BY <1>1, <1>2, ProductIsNatural
<1> QED BY <1>3, Remainder DEF get_size

-----------------------------------------------------------------------------
LEMMA InitInv == ASSUME Init PROVE Inv
<1>1. 0 \in Unsigned /\ 1 \in Unsigned /\ 1024 % Word \in Unsigned
  BY DEF Unsigned
<1>2. TypeOK
  BY <1>1 DEF Init, TypeOK, Pc
<1>3. SizesAccepted /\ PassInOrder /\ PassStaysInFile /\ ReadIsCounted
  BY DEF Init, SizesAccepted, PassInOrder, PassStaysInFile, ReadIsCounted
<1>4. WrittenIsCounted
  BY DEF Init, WrittenIsCounted
<1> QED BY <1>2, <1>3, <1>4 DEF Inv

-----------------------------------------------------------------------------
(* main() up to the first pass, and after the last.                        *)

LEMMA ParseArgsKeeps == ASSUME Inv, ParseArgs PROVE Inv'
<1> USE DEF Inv
<1>1. gFileSize' \in Unsigned /\ gBlockSize' \in Unsigned
  BY SizesAreWords DEF ParseArgs
<1>2. UNCHANGED <<file, passVars, countVars, now, passes>>
  BY DEF ParseArgs
<1>3. /\ gTestType' \in {"read", "write"}
      /\ pc' = IF ~Accepted(gFileSize') \/ ~Accepted(gBlockSize') THEN "ended"
               ELSE IF gTestType' = "read" THEN "create"
               ELSE IF gFileSize' < gBlockSize' THEN "ended" ELSE "open"
  BY DEF ParseArgs
<1>4. TypeOK'
  BY <1>1, <1>2, <1>3 DEF TypeOK, Pc, passVars, countVars
<1>5. SizesAccepted'
  <2>1. pc' \in {"create", "open"} => 0 < gFileSize' /\ 0 < gBlockSize'
    BY <1>3 DEF Accepted
  <2>2. pc' = "open" => ~(gFileSize' < gBlockSize')
    BY <1>3
  <2>3. pc' \notin {"io", "close"} /\ (pc' = "create" => gTestType' = "read")
    BY <1>3
  <2> QED BY <1>1, <2>1, <2>2, <2>3 DEF SizesAccepted, Unsigned
<1>6. PassInOrder' /\ PassStaysInFile'
  BY <1>3 DEF PassInOrder, PassStaysInFile
<1>7. ReadIsCounted'
  BY <1>2, <1>3 DEF ParseArgs, ReadIsCounted, countVars
<1>8. WrittenIsCounted'
  <2>1. pc = "args"
    BY DEF ParseArgs
  <2>2. bytes' = 0 /\ moved' = 0 /\ passes' = passes
    BY <1>2, <2>1 DEF ReadIsCounted, countVars
  <2>3. passes \in Nat /\ passes + 1 \in Nat /\ gFileSize' \in Nat
    BY <1>1 DEF TypeOK, Unsigned
  <2> QED BY <2>2, <2>3, NothingCounted DEF WrittenIsCounted
<1> QED BY <1>4, <1>5, <1>6, <1>7, <1>8

LEMMA EndsKeep ==
    ASSUME Inv, CreateFile \/ RemoveFile \/ OpenFails PROVE Inv'
<1> USE DEF Inv
<1>1. UNCHANGED <<argVars, passVars, countVars, now, passes>>
  BY DEF CreateFile, RemoveFile, OpenFails
<1>2. file' \in Unsigned \union {NoFile}
  BY DEF CreateFile, RemoveFile, OpenFails, TypeOK, Unsigned
<1>3. TypeOK'
  BY <1>1, <1>2 DEF CreateFile, RemoveFile, OpenFails, TypeOK, Pc, argVars, passVars,
     countVars
<1>4. SizesAccepted' /\ PassInOrder' /\ PassStaysInFile'
  BY <1>1 DEF CreateFile, RemoveFile, OpenFails, SizesAccepted, PassInOrder,
     PassStaysInFile, argVars
<1>5. 0 % Word = 0
  BY SmallRemainder DEF Unsigned
<1>6. ReadIsCounted'
  BY <1>1, <1>5 DEF CreateFile, RemoveFile, OpenFails, ReadIsCounted, argVars, countVars
<1>7. WrittenIsCounted'
  BY <1>1 DEF CreateFile, RemoveFile, OpenFails, WrittenIsCounted, argVars, countVars
<1> QED BY <1>3, <1>4, <1>6, <1>7

-----------------------------------------------------------------------------
(* The passes of the read test.                                            *)

LEMMA OpenToReadKeeps == ASSUME Inv, OpenToRead PROVE Inv'
<1> USE DEF Inv
<1>1. /\ UNCHANGED <<argVars, file, left, numToWrite, countVars, now, passes>>
      /\ pos' = 0 /\ gTestType = "read" /\ pc = "open"
      /\ pc' = IF file = NoFile THEN "crashed" ELSE "io"
  BY DEF OpenToRead
<1>2. TypeOK'
  BY <1>1 DEF TypeOK, Pc, argVars, countVars
<1>3. SizesAccepted' /\ PassStaysInFile'
  BY <1>1 DEF SizesAccepted, PassStaysInFile, argVars
<1>4. PassInOrder'
  BY <1>1 DEF PassInOrder, TypeOK, Unsigned, argVars
<1>5. ReadIsCounted'
  <2>1. bytes' = bytes /\ moved' = moved /\ moved \in Nat /\ moved - pos' = moved
    BY <1>1 DEF countVars, TypeOK
  <2> QED BY <1>1, <2>1 DEF ReadIsCounted, argVars
<1>6. WrittenIsCounted'
  BY <1>1 DEF WrittenIsCounted, argVars
<1> QED BY <1>2, <1>3, <1>4, <1>5, <1>6

(* One block, or the rest of the file: what is read now is not yet in      *)
(* bytesRead.                                                              *)
LEMMA ReadBlockKeeps == ASSUME Inv, ReadBlock PROVE Inv'
<1> USE DEF Inv
<1> DEFINE n == IF file - pos < gBlockSize THEN file - pos ELSE gBlockSize
<1>1. /\ UNCHANGED <<argVars, file, left, numToWrite, bytes, now, passes>>
      /\ pc = "io" /\ gTestType = "read"
      /\ pos' = pos + n /\ moved' = moved + n
      /\ pc' = IF n < gBlockSize THEN "close" ELSE "io"
  BY DEF ReadBlock, AtEof
<1>2. /\ file \in Nat /\ pos \in Nat /\ pos <= file /\ gBlockSize \in Nat /\ moved \in Nat
  BY <1>1 DEF TypeOK, Unsigned, PassInOrder
<1>3. n \in Nat /\ pos + n <= file /\ (n < gBlockSize => pos + n = file)
  BY <1>2
<1> HIDE DEF n
<1>4. TypeOK'
  BY <1>1, <1>2, <1>3 DEF TypeOK, Pc, argVars
<1>5. SizesAccepted' /\ PassStaysInFile'
  BY <1>1 DEF SizesAccepted, PassStaysInFile, argVars
<1>6. PassInOrder'
  BY <1>1, <1>3 DEF PassInOrder, argVars
<1>7. ReadIsCounted'
  <2>1. pos <= moved => pos' <= moved' /\ moved' - pos' = moved - pos
    BY <1>1, <1>2, <1>3
  <2> QED BY <1>1, <2>1 DEF ReadIsCounted, argVars
<1>8. WrittenIsCounted'
  BY <1>1 DEF WrittenIsCounted, argVars
<1> QED BY <1>4, <1>5, <1>6, <1>7, <1>8

-----------------------------------------------------------------------------
(* The passes of the write test.                                           *)

LEMMA OpenToWriteKeeps == ASSUME Inv, OpenToWrite PROVE Inv'
<1> USE DEF Inv
<1>1. /\ UNCHANGED <<argVars, countVars, now, passes>>
      /\ pc = "open" /\ pc' = "io" /\ gTestType = "write"
      /\ file' = 0 /\ pos' = 0 /\ left' = gFileSize /\ numToWrite' = gBlockSize
  BY DEF OpenToWrite
<1>2. 0 \in Unsigned
  BY DEF Unsigned
<1>3. TypeOK'
  BY <1>1, <1>2 DEF TypeOK, Pc, argVars, countVars
<1>4. SizesAccepted' /\ PassInOrder' /\ ReadIsCounted'
  BY <1>1 DEF SizesAccepted, PassInOrder, ReadIsCounted, TypeOK, Unsigned, argVars
<1>5. PassStaysInFile'
  BY <1>1 DEF PassStaysInFile, SizesAccepted, TypeOK, Unsigned, argVars
<1>6. WrittenIsCounted'
  BY <1>1 DEF WrittenIsCounted, argVars, countVars
<1> QED BY <1>3, <1>4, <1>5, <1>6

(* The subtraction does not wrap, for a block is cut to what is left.      *)
LEMMA WriteBlockKeeps == ASSUME Inv, WriteBlock PROVE Inv'
<1> USE DEF Inv
<1>1. PICK n \in 1..numToWrite :
          /\ pos' = pos + n
          /\ moved' = moved + n
          /\ left' = (left - n) % Word
          /\ numToWrite' = NextBlock(left')
          /\ IF numToWrite' = 0
             THEN pc' = "close" /\ bytes' = (bytes + n + gFileSize) % Word
             ELSE pc' = "io" /\ bytes' = (bytes + n) % Word
  BY DEF WriteBlock, CountWritten
<1>2. /\ UNCHANGED <<argVars, file, now, passes>>
      /\ pc = "io" /\ gTestType = "write"
  BY DEF WriteBlock
<1>3. /\ numToWrite \in 1..gBlockSize /\ numToWrite <= left /\ pos + left = gFileSize
      /\ pos \in Nat /\ moved \in Nat /\ left \in Unsigned /\ bytes \in Nat
      /\ gFileSize \in Unsigned /\ gBlockSize \in Unsigned /\ gBlockSize \in Nat \ {0}
  BY <1>2 DEF PassStaysInFile, TypeOK, Unsigned, SizesAccepted
<1>4. n \in Nat /\ left - n \in Unsigned
  BY <1>3 DEF Unsigned
<1>5. left' = left - n /\ left' \in Unsigned
  BY <1>1, <1>4, SmallRemainder
<1>6. /\ numToWrite' \in Unsigned /\ numToWrite' <= left' /\ numToWrite' <= gBlockSize
      /\ numToWrite' \in Nat
  BY <1>1, <1>3, <1>5 DEF NextBlock, Unsigned
<1>7. pos' + left' = gFileSize
  BY <1>1, <1>3, <1>4, <1>5 DEF Unsigned
<1>8. bytes' \in Unsigned
  <2>1. bytes + n \in Nat /\ bytes + n + gFileSize \in Nat
    BY <1>3, <1>4 DEF Unsigned
  <2> QED BY <1>1, <2>1, Remainder
<1>9. TypeOK'
  BY <1>1, <1>2, <1>3, <1>4, <1>5, <1>6, <1>8 DEF TypeOK, Pc, argVars
<1>10. SizesAccepted'
  BY <1>1, <1>2 DEF SizesAccepted, argVars
<1>11. PassInOrder' /\ ReadIsCounted'
  BY <1>1, <1>2, <1>7 DEF PassInOrder, ReadIsCounted, argVars
<1>12. PassStaysInFile'
  BY <1>1, <1>2, <1>3, <1>6, <1>7 DEF PassStaysInFile, argVars
<1>13. WrittenIsCounted'
  <2>1. PICK k \in 0..passes : bytes = (moved + k * gFileSize) % Word
    BY <1>2 DEF WrittenIsCounted
  <2>2. passes \in Nat /\ k \in Nat /\ gFileSize \in Nat /\ passes' = passes
    BY <1>2, <1>3 DEF TypeOK, Unsigned
  <2>3. /\ k * gFileSize \in Nat /\ (k + 1) * gFileSize \in Nat
        /\ (k + 1) * gFileSize = (k * gFileSize) + gFileSize
    BY <2>2, SizesAreNatural
  <2>4. moved + k * gFileSize \in Nat
    BY <1>3, <2>3
  <2>5. CASE numToWrite' = 0
    <3>1. n + gFileSize \in Nat
      BY <1>4, <2>2
    <3>2. bytes' = (bytes + (n + gFileSize)) % Word
      BY <1>1, <1>3, <1>4, <2>2, <2>5
    <3>3. bytes' = ((moved + k * gFileSize) + (n + gFileSize)) % Word
      BY <2>1, <2>4, <3>1, <3>2, SumInWords
    <3>4. (moved + k * gFileSize) + (n + gFileSize) = moved' + (k + 1) * gFileSize
      BY <1>1, <1>3, <1>4, <2>2, <2>3
    <3>5. bytes' = (moved' + (k + 1) * gFileSize') % Word
      BY <1>2, <3>3, <3>4 DEF argVars
    <3>6. k + 1 \in 0..(passes' + 1)
      BY <2>2
    <3>7. pc' = "close"
      BY <1>1, <2>5
    <3> QED BY <3>5, <3>6, <3>7 DEF WrittenIsCounted
  <2>6. CASE numToWrite' # 0
    <3>1. bytes' = ((moved + k * gFileSize) + n) % Word
      BY <1>1, <1>4, <2>1, <2>4, <2>6, SumInWords
    <3>2. (moved + k * gFileSize) + n = moved' + k * gFileSize
      BY <1>1, <1>3, <1>4, <2>3
    <3>3. bytes' = (moved' + k * gFileSize') % Word
      BY <1>2, <3>1, <3>2 DEF argVars
    <3>4. pc' = "io" /\ k \in 0..passes'
      BY <1>1, <2>2, <2>6
    <3> QED BY <3>3, <3>4 DEF WrittenIsCounted
  <2> QED BY <2>5, <2>6
<1> QED BY <1>9, <1>10, <1>11, <1>12, <1>13

LEMMA WriteFailsKeeps == ASSUME Inv, WriteFails PROVE Inv'
<1> USE DEF Inv
<1>1. /\ UNCHANGED <<argVars, file, passVars, countVars, now, passes>>
      /\ pc = "io" /\ pc' = "close" /\ gTestType = "write"
  BY DEF WriteFails, GiveUp
<1>2. TypeOK'
  BY <1>1 DEF TypeOK, Pc, argVars, passVars, countVars
<1>3. SizesAccepted' /\ PassInOrder' /\ PassStaysInFile' /\ ReadIsCounted'
  BY <1>1 DEF SizesAccepted, PassInOrder, PassStaysInFile, ReadIsCounted, argVars, passVars
<1>4. WrittenIsCounted'
  <2>1. PICK k \in 0..passes : bytes = (moved + k * gFileSize) % Word
    BY <1>1 DEF WrittenIsCounted
  <2>2. k \in 0..(passes' + 1)
    BY <1>1 DEF TypeOK
  <2> QED BY <1>1, <2>1, <2>2 DEF WrittenIsCounted, argVars, countVars
<1> QED BY <1>2, <1>3, <1>4

-----------------------------------------------------------------------------
(* The end of a pass: the size of the file stands for what a read pass has *)
(* read.                                                                   *)
LEMMA ClosePassKeeps == ASSUME Inv, ClosePass PROVE Inv'
<1> USE DEF Inv
<1>1. /\ UNCHANGED <<argVars, passVars, moved>>
      /\ pc = "close" /\ pc' \in {"remove", "open"}
      /\ file' \in IF gTestType = "write" THEN 0..pos ELSE {file}
      /\ bytes' = IF gTestType = "read" THEN (bytes + gFileSize) % Word ELSE bytes
      /\ passes' = passes + 1 /\ now' \in {now, now + 1}
  BY DEF ClosePass
<1>2. file' \in Unsigned \union {NoFile}
  BY <1>1 DEF TypeOK, PassInOrder, Unsigned
<1>3. bytes' \in Unsigned
  <2>1. bytes + gFileSize \in Nat
    BY DEF TypeOK, Unsigned
  <2> QED BY <1>1, <2>1, Remainder DEF TypeOK
<1>4. TypeOK'
  BY <1>1, <1>2, <1>3 DEF TypeOK, Pc, argVars, passVars
<1>5. SizesAccepted' /\ PassInOrder' /\ PassStaysInFile'
  BY <1>1 DEF SizesAccepted, PassInOrder, PassStaysInFile, argVars
<1>6. ReadIsCounted'
  <2>1. CASE gTestType = "read" /\ file = gFileSize
    <3>1. /\ pos = gFileSize /\ pos <= moved /\ bytes = (moved - pos) % Word
          /\ pos \in Nat /\ moved \in Nat
      BY <1>1, <2>1 DEF PassInOrder, ReadIsCounted, TypeOK
    <3>2. moved - pos \in Nat /\ (moved - pos) + pos = moved
      BY <3>1
    <3>3. bytes' = (((moved - pos) % Word) + pos) % Word
      BY <1>1, <2>1, <3>1
    <3>4. (((moved - pos) % Word) + pos) % Word = ((moved - pos) + pos) % Word
      BY <3>1, <3>2, SumInWords
    <3>5. bytes' = moved % Word
      BY <3>2, <3>3, <3>4
    <3> QED BY <1>1, <3>5 DEF ReadIsCounted
  <2>2. CASE ~(gTestType = "read" /\ file = gFileSize)
    <3>1. ~(gTestType' = "read" /\ file' = gFileSize')
      BY <1>1, <2>2 DEF argVars, TypeOK
    <3> QED BY <1>1, <3>1 DEF ReadIsCounted
  <2> QED BY <2>1, <2>2
<1>7. WrittenIsCounted'
  BY <1>1 DEF WrittenIsCounted, TypeOK, argVars
<1> QED BY <1>4, <1>5, <1>6, <1>7

-----------------------------------------------------------------------------
LEMMA NextInv == ASSUME Inv, [Next]_vars PROVE Inv'
<1>1. CASE UNCHANGED vars
  BY <1>1 DEF Inv, vars, TypeOK, SizesAccepted, PassInOrder, PassStaysInFile,
     ReadIsCounted, WrittenIsCounted, argVars, passVars, countVars
<1> QED BY <1>1, ParseArgsKeeps, EndsKeep, OpenToReadKeeps, ReadBlockKeeps,
        OpenToWriteKeeps, WriteBlockKeeps, WriteFailsKeeps, ClosePassKeeps DEF Next

(* The sizes and counters of fstest are words in every state.              *)
THEOREM Typing == Spec => []TypeOK
<1>1. Inv => TypeOK
  BY DEF Inv
<1> QED BY InitInv, NextInv, <1>1, PTL DEF Spec

(* run_write_test(): however short the writes, what is left never wraps    *)
(* below zero and no write goes past the file size or past buff.           *)
THEOREM InsideFile == Spec => []PassStaysInFile
<1>1. Inv => PassStaysInFile
  BY DEF Inv
<1> QED BY InitInv, NextInv, <1>1, PTL DEF Spec

(* run_read_test(): bytesRead, which a size is added to after each pass,   *)
(* is what fread() has returned, modulo the width of a word.               *)
THEOREM ReadExact == Spec => []ReadIsReported
<1>1. Inv => ReadIsReported
  BY DEF Inv, ReadIsCounted, ReadIsReported
<1> QED BY InitInv, NextInv, <1>1, PTL DEF Spec

(* run_write_test(): bytesWritten is what fwrite() has taken, and the size *)
(* of the file once more for each pass that came to its end, modulo the    *)
(* width of a word, however short the writes and whatever pass fails.      *)
THEOREM WriteExact == Spec => []WrittenIsCounted
<1>1. Inv => WrittenIsCounted
  BY DEF Inv
<1> QED BY InitInv, NextInv, <1>1, PTL DEF Spec

=============================================================================
