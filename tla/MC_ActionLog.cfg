\* Safety of the queue and of the log's duplicate suppression under every
\* interleaving of two workers, two producers and the logging main thread.
CONSTANTS
    w1 = w1
    w2 = w2
    controller = controller
    sweeper = sweeper
    main = main
    mainText = mainText
    otherText = otherText
    noText = noText
    hupText = hupText
    Workers <- MCWorkers
    Producers <- MCProducers
    MaxPush = 2
    Main <- main
    MainTexts <- MCMainTexts
    NoText <- noText
    MaxMainLogs = 1
    RetCodes = {0}
    MainTypes = {"warning", "fatal"}
    MaxMinute = 2
    Verbose = FALSE
    WriteOK = {TRUE}
    HupTexts = {}
    MaxHups = 0
SPECIFICATION SystemSpec
INVARIANT CommandConservation
INVARIANT TakeOrderPerProducer
INVARIANT LogAccounting
\* The daemon idles once the producers are done and every worker is parked,
\* and stops after logFatal: both are final states of the program.
CHECK_DEADLOCK FALSE
