------------------------------- MODULE FsTest -------------------------------
(***************************************************************************)
(* fstest.c: one process that reads or writes a test file over and over    *)
(* for some seconds and prints how many bytes it moved.  What can go wrong *)
(* lies in the sizes, which are uint32_t, in transfers that are short, and *)
(* in what is counted when one step of a pass fails.                       *)
(***************************************************************************)
EXTENDS Integers

CONSTANTS Word,            \* values of a uint32_t, 2^32
          Kilo,            \* 1024
          Numbers,         \* the numbers given to -s and -b
          Duration,        \* gDuration, -t
          PassesPerSecond  \* bound: passes that fit into a second

ASSUME FsTestAssumption ==
    /\ Word \in Nat \ {0, 1}
    /\ Kilo \in Nat
    /\ Numbers \subseteq 0..(Word - 1)
    /\ Duration \in Nat
    /\ PassesPerSecond \in Nat \ {0}

VARIABLES
    pc,                    \* where main, run_read_test or run_write_test is
    gTestType, gFileSize, gBlockSize,
    file,                  \* bytes in the test file, or NoFile
    left, numToWrite,      \* the counters of a pass of run_write_test
    pos,                   \* where in the file the pass is
    bytes,                 \* bytesRead or bytesWritten
    now,                   \* whole seconds since tStart
    moved,                 \* history: bytes really read or written
    passes                 \* history: fileReadTimes or fileWrittenTimes

argVars == <<gTestType, gFileSize, gBlockSize>>
passVars == <<left, numToWrite, pos>>
countVars == <<bytes, moved>>
vars == <<pc, argVars, file, passVars, countVars, now, passes>>

NoFile == -1
Unsigned == 0..(Word - 1)
Pc == {"args", "create", "open", "io", "close", "remove", "ended", "crashed"}

Init ==
    /\ pc = "args"
    /\ gTestType = "read"
    /\ gFileSize = 1024 % Word
    /\ gBlockSize = 1
    /\ file = NoFile
    /\ left = 0
    /\ numToWrite = 0
    /\ pos = 0
    /\ bytes = 0
    /\ now = 0
    /\ moved = 0
    /\ passes = 0

-----------------------------------------------------------------------------
(* The arguments.  get_size() multiplies in 32 bits; main() looks at the   *)
(* result as an int and refuses what is not positive.                      *)

Scale(unit) == CASE unit = "" -> 1 [] unit = "k" -> Kilo
                 [] unit = "M" -> Kilo * Kilo [] unit = "G" -> Kilo * Kilo * Kilo

(* Slip: the product is not cut to 32 bits.                                *)
Wide(n, unit) == n * Scale(unit)
get_size(n, unit) == (n * Scale(unit)) % Word

Accepted(size) == 0 < size /\ 2 * size < Word

ParseArgs ==
    /\ pc = "args"
    /\ gTestType' \in {"read", "write"}
    /\ \E n, b \in Numbers : \E u, v \in {"", "k", "M", "G"} :
          /\ gFileSize' = get_size(n, u)
          /\ gBlockSize' = get_size(b, v)
    /\ pc' = IF ~Accepted(gFileSize') \/ ~Accepted(gBlockSize') THEN "ended"
             ELSE IF gTestType' = "read" THEN "create"
             ELSE IF gFileSize' < gBlockSize' THEN "ended" ELSE "open"
    /\ UNCHANGED <<file, passVars, countVars, now, passes>>

-----------------------------------------------------------------------------
(* run_read_test()                                                         *)

(* system("dd ..."): the file has its size, or dd failed half way or at    *)
(* once, which the code does not see; only fork() failing ends the test.   *)
CreateFile ==
    /\ pc = "create"
    /\ \/ pc' = "open" /\ file' \in 0..gFileSize \union {NoFile}
       \/ pc' = "ended" /\ UNCHANGED file
    /\ UNCHANGED <<argVars, passVars, countVars, now, passes>>

(* Without a file fp is NULL, and feof(fp) undefined: a crash.             *)
OpenToRead ==
    /\ pc = "open"
    /\ gTestType = "read"
    /\ pc' = IF file = NoFile THEN "crashed" ELSE "io"
    /\ pos' = 0
    /\ UNCHANGED <<argVars, file, left, numToWrite, countVars, now, passes>>

(* Slip: one block is all that is read.                                    *)
AlwaysDone(n) == TRUE
AtEof(n) == n < gBlockSize

(* fread() of one block; it sets the end-of-file flag when it gets less.   *)
ReadBlock ==
    /\ pc = "io"
    /\ gTestType = "read"
    /\ LET n == IF file - pos < gBlockSize THEN file - pos ELSE gBlockSize
       IN  /\ pos' = pos + n
           /\ moved' = moved + n
           /\ pc' = IF AtEof(n) THEN "close" ELSE "io"
    /\ UNCHANGED <<argVars, file, left, numToWrite, bytes, now, passes>>

-----------------------------------------------------------------------------
(* run_write_test()                                                        *)

OpenToWrite ==
    /\ pc = "open"
    /\ gTestType = "write"
    /\ pc' = "io"
    /\ file' = 0
    /\ pos' = 0
    /\ left' = gFileSize
    /\ numToWrite' = gBlockSize
    /\ UNCHANGED <<argVars, countVars, now, passes>>

OpenFails ==
    /\ pc = "open"
    /\ gTestType = "write"
    /\ pc' = "ended"
    /\ UNCHANGED <<argVars, file, passVars, countVars, now, passes>>

(* Slip: the last block is not cut to what is left.                        *)
WholeBlock(rest) == IF rest = 0 THEN 0 ELSE gBlockSize
NextBlock(rest) == IF rest > gBlockSize THEN gBlockSize ELSE rest

(* Slip: the block is counted, not what fwrite() took of it.               *)
CountBlock(n) == bytes + numToWrite
CountWritten(n) == bytes + n

(* fwrite() takes all of the block, a part, or none.  When nothing is left *)
(* the size of the file is added to bytesWritten, blocks counted already.  *)
WriteBlock ==
    /\ pc = "io"
    /\ gTestType = "write"
    /\ \E n \in 1..numToWrite :
          /\ pos' = pos + n
          /\ moved' = moved + n
          /\ left' = (left - n) % Word
          /\ numToWrite' = NextBlock(left')
          /\ IF numToWrite' = 0
             THEN pc' = "close" /\ bytes' = (CountWritten(n) + gFileSize) % Word
             ELSE pc' = "io" /\ bytes' = CountWritten(n) % Word
    /\ UNCHANGED <<argVars, file, now, passes>>

(* Slip: a pass that fails is started over without a look at the clock.    *)
StartOver == pc' = "open"
GiveUp == pc' = "close"

WriteFails ==
    /\ pc = "io"
    /\ gTestType = "write"
    /\ GiveUp
    /\ UNCHANGED <<argVars, file, passVars, countVars, now, passes>>

-----------------------------------------------------------------------------
(* The end of a pass, and of the test.                                     *)

(* fclose() may lose what stdio still has in its buffer.                   *)
ClosePass ==
    /\ pc = "close"
    /\ file' \in IF gTestType = "write" THEN 0..pos ELSE {file}
    /\ bytes' = IF gTestType = "read" THEN (bytes + gFileSize) % Word ELSE bytes
    /\ passes' = passes + 1
    /\ now' \in {now, now + 1}
    /\ passes' < PassesPerSecond * (now' + 1)
    /\ pc' = IF now' >= Duration THEN "remove" ELSE "open"
    /\ UNCHANGED <<argVars, passVars, moved>>

RemoveFile ==
    /\ pc = "remove"
    /\ file' \in {NoFile, file}
    /\ pc' = "ended"
    /\ UNCHANGED <<argVars, passVars, countVars, now, passes>>

Next ==
    \/ ParseArgs
    \/ CreateFile \/ OpenToRead \/ ReadBlock
    \/ OpenToWrite \/ OpenFails \/ WriteBlock \/ WriteFails
    \/ ClosePass \/ RemoveFile

Spec == Init /\ [][Next]_vars

(* One process, which the system lets run.                                 *)
FairSpec == Spec /\ WF_vars(Next)

-----------------------------------------------------------------------------
TypeOK ==
    /\ pc \in Pc
    /\ gTestType \in {"read", "write"}
    /\ gFileSize \in Unsigned /\ gBlockSize \in Unsigned
    /\ left \in Unsigned /\ numToWrite \in Unsigned
    /\ bytes \in Unsigned
    /\ file \in Unsigned \union {NoFile}
    /\ pos \in Nat /\ moved \in Nat
    /\ now \in Nat /\ passes \in Nat

(* A pass of the write test never writes more than the file size and never *)
(* reads past the end of buff, however short the single writes are: what   *)
(* is left does not wrap below zero and the next block is cut to it.       *)
PassStaysInFile ==
    pc = "io" /\ gTestType = "write" =>
        /\ pos + left = gFileSize
        /\ numToWrite \in 1..gBlockSize
        /\ numToWrite <= left

(* What the read test prints is what it has read, as far as 32 bits hold   *)
(* it, although it adds the size of the file and not the lengths it read:  *)
(* each pass reads the whole file, whatever the block size, provided that  *)
(* dd has created all of it.                                               *)
ReadIsReported ==
    pc = "remove" /\ gTestType = "read" /\ file = gFileSize => bytes = moved % Word

(* What the write test prints is more than it has written by the size of   *)
(* the file, once for each pass but those that were given up, and by       *)
(* nothing else: short writes and what a failed pass did write are counted *)
(* as they are.                                                            *)
WrittenIsCounted ==
    gTestType = "write" =>
        \E whole \in 0..(IF pc = "close" THEN passes + 1 ELSE passes) :
            bytes = (moved + whole * gFileSize) % Word

(* The test comes to its end, also when writes fail in each pass.          *)
TestEnds == <>(pc \in {"ended", "crashed"})

-----------------------------------------------------------------------------
(* What makes PassStaysInFile and ReadIsReported inductive: the sizes that *)
(* main() has accepted, how far a pass has come, and that bytesRead is all *)
(* that was read but for the pass that goes on.                            *)
SizesAccepted == pc \in {"create", "open", "io", "close"} =>
    /\ gFileSize > 0 /\ gBlockSize > 0
    /\ gTestType = "write" => gBlockSize <= gFileSize

PassInOrder ==
    /\ pc = "create" => gTestType = "read"
    /\ gTestType = "read" =>
          /\ pc = "io" => file # NoFile /\ pos <= file
          /\ pc = "close" => pos = file
    /\ gTestType = "write" /\ pc \in {"io", "close"} => pos + left = gFileSize

ReadIsCounted ==
    /\ pc \in {"args", "create"} => bytes = 0 /\ moved = 0
    /\ gTestType = "read" /\ file = gFileSize =>
          /\ pc \in {"open", "remove"} => bytes = moved % Word
          /\ pc \in {"io", "close"} => pos <= moved /\ bytes = (moved - pos) % Word

Inv == TypeOK /\ SizesAccepted /\ PassInOrder /\ PassStaysInFile /\ ReadIsCounted
       /\ WrittenIsCounted

=============================================================================
