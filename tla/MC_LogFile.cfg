\* A regular file with separator "\n", reads of at most 2 bytes.
CONSTANTS
    x = x
    n = n
    r = r
    nul = nul
    Byte <- MCByte
    NUL = nul
    Sep <- LF
    ItemSet <- MCItemSet
    ReadSize = 2
    MaxItem = 4
    Kind = "FILE"
    MaxWrites = 3
SPECIFICATION Spec
PROPERTY ItemStreamSpec
INVARIANT DrainComplete
PROPERTY FetchReturns
\* Once the writer has written MaxWrites items and the controller has
\* drained them, the program waits for events that no longer come.
CHECK_DEADLOCK FALSE
