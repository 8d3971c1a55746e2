\* Spec 3 for two sources in one directory: each keeps its own watch.
CONSTANTS
    a = a
    b = b
    other = other
    Sources <- MCSources
    OtherName = other
    MaxInodes = 4
    MaxOps = 2
SPECIFICATION Spec
INVARIANT OwnWatchPerSource
\* The daemon idles in epoll_wait once logrotate is done.
CHECK_DEADLOCK FALSE
