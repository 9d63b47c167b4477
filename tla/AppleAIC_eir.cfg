CONSTANTS
    numCPU = 2
    numIRQ = 3
    DestVals <- EIRDestVals
    IPIVals <- EIRIPIVals
    EIRVals <- EIREIRVals
    NoCPU = NoCPU
SPECIFICATION FairSpec
INVARIANTS TickServesAll TickWakesNobodyInVain
PROPERTIES NoDoubleClaim EIRReachesCPU
