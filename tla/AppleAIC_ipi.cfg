CONSTANTS
    numCPU = 2
    numIRQ = 1
    DestVals <- IPIDestVals
    IPIVals <- IPIIPIVals
    EIRVals <- IPIEIRVals
    NoCPU = NoCPU
SPECIFICATION FairSpec
PROPERTIES IPIReachesCPU
