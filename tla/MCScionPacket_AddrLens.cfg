CONSTANTS
    ICN_TYPE <- MC_ICN_TYPE
    Addrs <- MC_Addrs
    PktTypes <- MC_PktTypes
    Paths <- MC_Paths
    ExtChains <- MC_ExtChains
    Payloads <- MC_Payloads
    Advances <- MC_Advances
SPECIFICATION Spec
INVARIANT AddrLensMatch
