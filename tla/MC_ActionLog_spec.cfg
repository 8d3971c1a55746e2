\* The pool and its log against spec 4.6 and 5, with the faults the code
\* meets: verbose logging, log writes that fail, and SIGHUP delivered to a
\* thread inside LNLog::log.  One push per producer is enough for a lost
\* wakeup.
CONSTANTS
    w1 = w1
    w2 = w2
    controller = controller
    sweeper = sweeper
    main = main
    mainText = mainText
    otherText = otherText
    noText = noText
    hupText = hupText
    Workers <- MCWorkers
    Producers <- MCProducers
    MaxPush = 1
    Main <- main
    MainTexts <- MCMainTexts2
    NoText <- noText
    MaxMainLogs = 3
    RetCodes = {0}
    MainTypes = {"info", "debug"}
    MaxMinute = 2
    Verbose = TRUE
    WriteOK = {TRUE, FALSE}
    HupTexts <- MCHupTexts
    MaxHups = 1
SPECIFICATION SystemFaultSpec
PROPERTY ActionLogAsSpec
CHECK_DEADLOCK FALSE
