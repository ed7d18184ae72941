-------------------------- MODULE MCPathAliasing --------------------------
(***************************************************************************)
(* Instantiates PathAliasing for TLC: two packets, two 4-byte addresses    *)
(* (one length, so that the address split of parse is not in play), a     *)
(* two-hop core path and a one-hop peer path, increase_of by 1.            *)
(***************************************************************************)
EXTENDS PathAliasing

MC_ICN_TYPE == 1

MC_Pkts == {"A", "B"}

MC_Addrs == {<<10, 0, 0, 1>>, <<10, 0, 0, 2>>}

MC_Paths ==
    {[kind |-> "CORE", up |-> TRUE, hops |-> <<1, 2>>],
     [kind |-> "PEER_LINK", up |-> TRUE, hops |-> <<3>>]}

MC_Advances == {1}
=============================================================================
