\* ir_receive_off in the main loop racing the learn task's IR_LEARN_OK.
CONSTANTS
    main = main
    gc1 = gc1
    learn = learn
    Tasks <- MCTasks
    MainTask = main
    MainCommands <- MCLearnCommands
    Requests <- MCLearnRequests
    ClockModulus = 8
    LedSetupTicks = 2
    IdentifyTicks = 3
    TestColors = {"red", "other"}
    ApiPrevInit = {"NOT_SET"}
    MaxCalls = 3
SPECIFICATION Spec
INVARIANT NoPseudoStatePersists
