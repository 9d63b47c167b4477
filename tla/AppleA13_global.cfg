\* The two CPUs are in different clusters.
CONSTANTS
    CPUs <- TwoCPUs
    ClusterOf <- TwoClusters
    Senders = {0}
    RRTypes <- LiveTypes
    CRVals = {TRUE}
    None = None
SPECIFICATION FairSpec
PROPERTIES DeferredDrains
