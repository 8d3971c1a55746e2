\* Reopens never replay an item, and the file being read is always watched.
CONSTANTS
    MaxWrites = 2
    MaxInodes = 3
    MaxOps = 4
    MaxReloads = 1
SPECIFICATION Spec
INVARIANT TypeOK
INVARIANT NoReplay
INVARIANT FollowedFileWatched
\* The daemon idles in epoll_wait once the writer and logrotate are done,
\* and stops after logFatal: neither is a deadlock.
CHECK_DEADLOCK FALSE
