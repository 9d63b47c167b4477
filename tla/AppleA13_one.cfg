\* The two CPUs of a cluster send everything to each other and themselves.
CONSTANTS
    CPUs <- TwoCPUs
    ClusterOf <- OneCluster
    Senders = {0, 1}
    RRTypes <- AllTypes
    CRVals = {TRUE, FALSE}
    None = None
SPECIFICATION FairSpec
INVARIANTS LineIsLatch DeliveredOnce
PROPERTIES OnlyOwedIsLatched NoWakeLetsSleep LocalDeferredDrains
