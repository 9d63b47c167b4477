CONSTANTS
    Workers = {w1, w2}
    Words <- WorkWords
    EnableVals = {}
    ClearVals = {}
    Watermarks = {}
    MaxQueue = 1
    MaxLevel = 3
SPECIFICATION SafetySpec
SYMMETRY WorkerSymmetry
INVARIANTS TypeOK LevelCounts LoneWorker
CHECK_DEADLOCK FALSE
