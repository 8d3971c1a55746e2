\* Spec 3 and 4.8: one active watch per source, and a reload completes.
\* A DELETE of a recreated "a" that logNOT has not reopened yet leaves the
\* source with no watch at all; rmAll never empties m_watchMap.
CONSTANTS
    MaxWrites = 1
    MaxInodes = 2
    MaxOps = 3
    MaxReloads = 1
SPECIFICATION Spec
PROPERTY WatchAsSpec
CHECK_DEADLOCK FALSE
