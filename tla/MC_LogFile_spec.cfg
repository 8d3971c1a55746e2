\* A FIFO (opened O_NONBLOCK, its writer kept open) with separator "\r\n",
\* reads of at most 2 bytes and an item limit of 2 bytes: the separator may
\* be split between two reads, the carry may pass the limit, and the reader
\* may catch up with the writer.
CONSTANTS
    x = x
    n = n
    r = r
    nul = nul
    Byte <- MCByte
    NUL = nul
    Sep <- CRLF
    ItemSet <- MCItemSet
    ReadSize = 2
    MaxItem = 2
    Kind = "FIFO"
    MaxWrites = 3
SPECIFICATION Spec
PROPERTY FetchNextAsSpec
\* Once the writer has written MaxWrites items and the controller has
\* drained them, the program waits for events that no longer come.
CHECK_DEADLOCK FALSE
