CONSTANTS
    Depth = 2
    EnableVals <- SPMIEnable
    MaxNow = 3
    WriteVals <- SPMIWrites
    ReadRegs = {"alarm"}
SPECIFICATION Spec
INVARIANTS InStep RespSignalled AlarmArmed
PROPERTIES ResponsesRead AlarmGoesOff
