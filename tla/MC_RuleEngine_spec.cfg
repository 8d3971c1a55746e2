\* The sweeper and the size actions against spec 4.6 and 7, with a down
\* period equal to the sweep interval and a file growing by two sizes.
CONSTANTS
    r1 = r1
    r2 = r2
    a = a
    b = b
    blank = blank
    Rules <- MCRules
    Contents <- MCContents
    Blank = blank
    Pattern <- MCPattern
    Crc <- MCCrc
    UseCrc <- MCUseCrc
    HasUpAction <- MCHasUpAction
    UpFreq <- MCUpFreq
    DownFreq <- MCDownFreqSweep
    SizeLimit <- MCSizeLimit
    SweepInterval = 5
    SweepSeconds = 1
    Positions = {0, 2, 5}
    MaxLines = 3
    MaxTime = 10
SPECIFICATION Spec
PROPERTY RulesAsSpec
CHECK_DEADLOCK FALSE
