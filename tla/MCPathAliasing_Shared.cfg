CONSTANTS
    ICN_TYPE <- MC_ICN_TYPE
    Pkts <- MC_Pkts
    Addrs <- MC_Addrs
    Paths <- MC_Paths
    Advances <- MC_Advances
    ShareModes = {FALSE, TRUE}
SPECIFICATION Spec
INVARIANT PathFollowsOwnCalls
