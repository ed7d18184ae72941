---------------------------- MODULE ScionRegistry ----------------------------
(***************************************************************************)
(* The type/address registry of lib/packet/scion.py: the PacketType        *)
(* constants, the two tables TYPES_SRC and TYPES_DST that give a control   *)
(* packet type its reserved pseudo-address, get_addr_from_type, which      *)
(* builds that address, and get_type, which dispatches a packet on its     *)
(* addresses (source table first).  Addresses are the bytes SCIONAddr      *)
(* packs to: ISD_AD_LEN bytes of ISD/AD followed by the host address.      *)
(***************************************************************************)
EXTENDS ScionCodec

CONSTANTS
    HOST_INT_ORDER   \* byte order of IPv4HostAddr(int): "big" or "little"

\* PacketType
PT == [DATA |-> 0, AID_REQ |-> 1, AID_REP |-> 2, CERT_CHAIN_REQ_LOCAL |-> 3,
       CERT_CHAIN_REQ |-> 4, CERT_CHAIN_REP |-> 5, TRC_REQ_LOCAL |-> 6,
       TRC_REQ |-> 7, TRC_REP |-> 8, TO_LOCAL_ADDR |-> 100, BEACON |-> 101,
       PATH_MGMT |-> 108, OFG_KEY_REQ |-> 114, OFG_KEY_REP |-> 115,
       IFID_REQ |-> 116, IFID_REP |-> 117]

TYPES_SRC ==
    (PT.CERT_CHAIN_REP :> 33611786) @@ (PT.PATH_MGMT :> 67166218)
    @@ (PT.TRC_REP :> 134275082) @@ (PT.BEACON :> 16834570)
    @@ (PT.OFG_KEY_REP :> 117497866) @@ (PT.IFID_REP :> 167829514)

TYPES_DST ==
    (PT.CERT_CHAIN_REQ_LOCAL :> 151052298) @@ (PT.CERT_CHAIN_REQ :> 33611786)
    @@ (PT.PATH_MGMT :> 67166218) @@ (PT.TRC_REQ_LOCAL :> 100720650)
    @@ (PT.TRC_REQ :> 134275082) @@ (PT.OFG_KEY_REQ :> 117497866)
    @@ (PT.IFID_REQ :> 167829514)

---------------------------------------------------------------------------
(* Unsigned integers as bytes.                                             *)

\* The n-byte big-endian encoding of v (v mod 256^n), computed byte by
\* byte so that no intermediate exceeds v.
RECURSIVE BEBytes(_, _)
BEBytes(v, n) == IF n = 0 THEN <<>> ELSE Append(BEBytes(v \div 256, n - 1), v % 256)

UIntBytes(v, n, order) ==
    IF order = "big" THEN BEBytes(v, n) ELSE Reverse(BEBytes(v, n))

\* int.from_bytes(s, "big") (bitstring's uintbe reading).
BEValue(s) == FoldLeft(LAMBDA acc, b : acc * 256 + b, 0, s)

---------------------------------------------------------------------------
(* Collaborator addresses (spec-modelled).                                 *)

ISD_AD_LEN == 4             \* ISD (12 bits) and AD (20 bits) of SCIONAddr

\* SCIONAddr.from_values(isd, ad, host).pack()
SCIONAddrFromValues(isd, ad, host) == BEBytes(isd * 2^20 + ad, ISD_AD_LEN) \o host

\* IPv4HostAddr(v).pack()
IPv4HostAddr(v) == UIntBytes(v, 4, HOST_INT_ORDER)

\* The host address of a parsed SCIONAddr: the bytes after ISD/AD.
HostAddrOf(a) == PySlice(a, ISD_AD_LEN, Len(a))

\* host_addr.to_int(endianness='little') = v.  Every table value needs
\* four bytes (its top byte is 10), so a shorter host never equals one.
HostIsLittle(host, v) == Len(host) >= 4 /\ host = UIntBytes(v, Len(host), "little")

---------------------------------------------------------------------------
(* The lookups.                                                            *)

NoAddr == [keyError |-> TRUE]   \* get_addr_from_type raising KeyError

\* get_addr_from_type(ptype): the source table first, then the
\* destination table; a type in neither raises KeyError.
GetAddrFromType(ptype) ==
    CASE ptype \in DOMAIN TYPES_SRC ->
             SCIONAddrFromValues(0, 0, IPv4HostAddr(TYPES_SRC[ptype]))
      [] ptype \in DOMAIN TYPES_DST ->
             SCIONAddrFromValues(0, 0, IPv4HostAddr(TYPES_DST[ptype]))
      [] OTHER -> NoAddr

\* The inverse-table lookup TYPES_x_INV[int] on a host address.
InvLookup(table, host) == CHOOSE t \in DOMAIN table : HostIsLittle(host, table[t])

InTable(table, host) == \E t \in DOMAIN table : HostIsLittle(host, table[t])

\* Mutant: to_int() with its default big-endian reading.
GetTypeBigEndian(src, dst) ==
    LET big(host, v) == Len(host) >= 4 /\ host = UIntBytes(v, Len(host), "big")
        s == HostAddrOf(src)
        d == HostAddrOf(dst)
    IN CASE \E t \in DOMAIN TYPES_SRC : big(s, TYPES_SRC[t]) ->
                CHOOSE t \in DOMAIN TYPES_SRC : big(s, TYPES_SRC[t])
         [] \E t \in DOMAIN TYPES_DST : big(d, TYPES_DST[t]) ->
                CHOOSE t \in DOMAIN TYPES_DST : big(d, TYPES_DST[t])
         [] OTHER -> PT.DATA

\* get_type(pkt) on pkt.hdr.src_addr and pkt.hdr.dst_addr.
GetType(src, dst) ==
    LET s == HostAddrOf(src)
        d == HostAddrOf(dst)
    IN CASE InTable(TYPES_SRC, s) -> InvLookup(TYPES_SRC, s)
         [] InTable(TYPES_DST, d) -> InvLookup(TYPES_DST, d)
         [] OTHER -> PT.DATA

=============================================================================
