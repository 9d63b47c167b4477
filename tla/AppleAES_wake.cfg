CONSTANTS
    Workers = {w1, w2}
    Words <- WakeWords
    EnableVals <- WakeEnable
    ClearVals <- WakeClear
    Watermarks = {1}
    MaxQueue = 1
    MaxLevel = 2
SPECIFICATION Spec
PROPERTIES QueueServed StopReturns
CHECK_DEADLOCK FALSE
