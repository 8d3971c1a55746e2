\* Every configuration file of up to three lines, over every kind of the
\* two paths, and with or without --uid 7 and --gid 7: start-up loads what
\* spec section 6 describes and switches to its ids.
CONSTANTS
    General = "general"
    MapOrder <- MCMapOrder
    Paths <- MCPaths
    ConfFiles <- MCConfFiles
    NoFile = NoFile
    Uninit = Uninit
    CliIds = {0, 7}
    MaxLines = 3
SPECIFICATION Spec
INVARIANT ConfigAsSpec
\* A load ends in "done" or "fatal"; the process then runs or exits.
CHECK_DEADLOCK FALSE
