\* Up, down and size handling of two rules over a bounded clock.
CONSTANTS
    r1 = r1
    r2 = r2
    a = a
    b = b
    blank = blank
    Rules <- MCRules
    Contents <- MCContents
    Blank = blank
    Pattern <- MCPattern
    Crc <- MCCrc
    UseCrc <- MCUseCrc
    HasUpAction <- MCHasUpAction
    UpFreq <- MCUpFreq
    DownFreq <- MCDownFreq
    SizeLimit <- MCSizeLimit
    SweepInterval = 5
    SweepSeconds = 1
    Positions = {0, 2, 5}
    MaxLines = 3
    MaxTime = 10
SPECIFICATION Spec
INVARIANT TypeOK
INVARIANT UpFireJustified
 
\* The clock stops at MaxTime and the lines at MaxLines: the last states
\* have no successor only because of these bounds.
CHECK_DEADLOCK FALSE
