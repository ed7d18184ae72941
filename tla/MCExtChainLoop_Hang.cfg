CONSTANTS
    ICN_TYPE <- MC_ICN_TYPE
    HdrLen <- MC_HdrLen
    Chains <- MC_Chains
    Malformed <- MC_Looping
SPECIFICATION Spec
\* The walk really stops once the chain ends or bitstring raises.
CHECK_DEADLOCK FALSE
PROPERTY Terminates
