\* The main loop (API commands, the LED test, handleCharging) and the learn task calling setState() while millis() wraps.
CONSTANTS
    main = main
    gc1 = gc1
    learn = learn
    Tasks <- MCTasks
    MainTask = main
    MainCommands <- MCMainCommands
    Requests <- MCLearnRequests
    ClockModulus = 6
    LedSetupTicks = 2
    IdentifyTicks = 3
    TestColors = {"red"}
    ApiPrevInit = {"NOT_SET"}
    MaxCalls = 3
SPECIFICATION Spec
INVARIANT TypeOK

