CONSTANTS
    ICN_TYPE <- MC_ICN_TYPE
    Addrs <- MC_ShortAddrs
    PktTypes <- MC_WideTypes
    Paths <- MC_LongPaths
    ExtChains <- MC_ExtChains
    Payloads <- MC_Payloads
    Advances <- MC_Advances
SPECIFICATION Spec
PROPERTY PackNotRaised
