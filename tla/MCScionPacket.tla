--------------------------- MODULE MCScionPacket ---------------------------
(***************************************************************************)
(* Instantiates ScionPacket for TLC.  Addresses of 4 and 8 bytes (an       *)
(* IPv4 and a longer SCION address), a two-hop core path, a one-hop peer   *)
(* path, the Empty path and no path, extension chains of 0, 1 and 2        *)
(* records, payloads of 0 and 3 bytes.                                     *)
(***************************************************************************)
EXTENDS ScionPacket

MC_ICN_TYPE == 1

\* [i \in 1..n |-> b]: an address of n bytes all equal to b.
AddrOf(n, b) == [i \in 1..n |-> b]

MC_Addrs == {AddrOf(4, 10), AddrOf(4, 11), AddrOf(8, 12)}

MC_PktTypes == {0, 5}           \* DATA, CERT_CHAIN_REP

MC_Paths ==
    {NoPath, EmptyPath,
     [kind |-> "CORE", up |-> TRUE, hops |-> <<1, 2>>],
     [kind |-> "PEER_LINK", up |-> FALSE, hops |-> <<3>>]}

MC_ExtChains ==
    {[next_hdr |-> 0, exts |-> <<>>],
     [next_hdr |-> MC_ICN_TYPE,
      exts |-> <<[cls |-> "ICN", raw |-> <<0, 3, 7>>]>>],
     [next_hdr |-> 2,
      exts |-> <<[cls |-> "GENERIC", raw |-> <<MC_ICN_TYPE, 2>>],
                 [cls |-> "ICN", raw |-> <<0, 4, 8, 8>>]>>]}

MC_Payloads == {<<>>, <<9, 9, 9>>}

MC_Advances == {1, 2}

\* A path of 30 hops: the header of two 4-byte addresses and this path is
\* 8 + 8 + 8 * 31 = 264 bytes, more than the 8-bit hdr_len holds.
MC_LongPaths == {[kind |-> "CORE", up |-> TRUE, hops |-> [i \in 1..30 |-> i]]}

MC_ShortAddrs == {AddrOf(4, 10), AddrOf(4, 11)}

\* DATA and BEACON: PacketType values go up to 117, the type field has 4 bits.
MC_WideTypes == {0, 101}

=============================================================================
