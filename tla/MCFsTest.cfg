SPECIFICATION FairSpec
CONSTANTS
    Word = 64
    Kilo = 4
    Numbers <- MCNumbers
    Duration = 2
    PassesPerSecond = 2
INVARIANTS
    TypeOK
    PassStaysInFile
    ReadIsReported
    WrittenIsCounted
PROPERTIES
    TestEnds
\* The program ends.
CHECK_DEADLOCK FALSE
