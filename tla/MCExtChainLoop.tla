--------------------------- MODULE MCExtChainLoop ---------------------------
(***************************************************************************)
(* Chains of 0 to 3 records mixing the ICN type and generic types, a       *)
(* chain whose last record names a successor the buffer does not hold, a   *)
(* record whose length runs past the buffer, and (MC_Looping) a record of  *)
(* length 0 with a non-zero next type.                                     *)
(***************************************************************************)
EXTENDS ExtChainLoop

MC_ICN_TYPE == 1
MC_HdrLen == 16

\* Every chain of up to 3 records of these kinds.
RecordKinds ==
    {[type |-> MC_ICN_TYPE, body |-> <<7>>], [type |-> 2, body |-> <<>>],
     [type |-> 3, body |-> <<6, 6>>]}

MC_Chains == BoundedSeq(RecordKinds, 3)

MC_Malformed ==
    {[next_hdr |-> 2, raw |-> <<4, 2>>],          \* successor 4 is missing
     [next_hdr |-> MC_ICN_TYPE, raw |-> <<0, 9, 1>>]} \* length runs past end

MC_Looping ==
    MC_Malformed \cup {[next_hdr |-> 2, raw |-> <<3, 0, 7>>]}
=============================================================================
