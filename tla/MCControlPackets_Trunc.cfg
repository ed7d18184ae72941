CONSTANTS
    ICN_TYPE <- MC_ICN_TYPE
    HOST_INT_ORDER = "little"
    NATIVE_ORDER = "little"
    Callers <- MC_Callers
    FieldVals <- MC_FieldVals
    Blobs <- MC_Blobs
    Addrs <- MC_Callers
    PktTypes <- MC_PktTypes
    Paths <- MC_Paths
    ExtChains <- MC_ExtChains
    Payloads <- MC_Payloads
    Advances <- MC_Advances
SPECIFICATION CtrlSpecTruncated
PROPERTY TruncatedNotParsed
