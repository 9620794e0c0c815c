\* Learning sessions started and stopped by GlobalCache sockets and by two
\* WebSocket client numbers over three connections while IR signals arrive.
CONSTANTS
    good = good
    bad = bad
    Signals <- MCSignals
    GoodSignals <- MCGoodSignals
    MaxSessions = 2
    MaxSignals = 2
    RespCap = 1
    ClientNums = {0, 1}
    MaxConnects = 2
SPECIFICATION Spec
INVARIANT TypeOK
INVARIANT CommandsOnlyAuthenticated
INVARIANT SendResultMisdirectedOnlyAfterClose
PROPERTY ReceiverEventuallyOff
