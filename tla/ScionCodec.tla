----------------------------- MODULE ScionCodec -----------------------------
(***************************************************************************)
(* The pure byte codecs of lib/packet/scion.py: the SCION common header   *)
(* (SCIONCommonHdr), the header (SCIONHeader) with its path dispatch and   *)
(* extension walk, and the packet envelope (SCIONPacket).  A buffer is a   *)
(* sequence of byte values 0..255; Python slices raw[a:b] are PySlice.     *)
(*                                                                         *)
(* The collaborators imported by scion.py (SCIONAddr, InfoOpaqueField,     *)
(* the path classes, ExtensionHeader, PacketBase) are not part of the      *)
(* repository; they are abstracted from the spec:                         *)
(*   - an address is the byte sequence it packs to;                        *)
(*   - a path is one info opaque field (kind, up flag) followed by hop     *)
(*     opaque fields, each OF_LEN bytes; the Empty path packs to nothing;  *)
(*   - an extension header is its class and the raw bytes it packs to.     *)
(***************************************************************************)
EXTENDS Integers, Sequences, SequencesExt, Bitwise

CONSTANTS
    ICN_TYPE    \* ICNExtHdr.TYPE, the one extension type with its own class

NoPath == [noPath |-> TRUE]  \* SCIONHeader.path left unset
NoOF   == [noOF |-> TRUE]    \* get_of(index) beyond the path: None

---------------------------------------------------------------------------
(* Collaborator constants (spec-modelled).                                 *)

OF_LEN == 8                 \* OpaqueField.LEN / InfoOpaqueField.LEN

\* PathType discriminants carried in the info byte of the first OF.
PathCode == [CORE |-> 128, CROSS_OVER |-> 192, PEER_LINK |-> 240, EMPTY |-> 0]
PathKinds == DOMAIN PathCode

\* InfoOpaqueField(raw).info: the discriminant byte; InfoOpaqueField()
\* (no raw bytes) keeps its default, the EMPTY type.
IOFInfo(raw) == IF raw = <<>> THEN PathCode.EMPTY ELSE raw[1]

Zeros(n) == [i \in 1..n |-> 0]

\* path.pack(): the info OF <<info, up flag, 0...>> then one OF per hop.
PathPack(p) ==
    IF p.kind = "EMPTY" THEN <<>>
    ELSE <<PathCode[p.kind], IF p.up THEN 1 ELSE 0>> \o Zeros(OF_LEN - 2)
         \o FlattenSeq([i \in 1..Len(p.hops) |->
                            <<0, 0, p.hops[i]>> \o Zeros(OF_LEN - 3)])

\* CorePath(raw), CrossOverPath(raw), PeerPath(raw): rebuild the OFs; a
\* trailing partial OF is ignored.
PathFromRaw(kind, raw) ==
    [kind |-> kind,
     up   |-> Len(raw) >= 2 /\ raw[2] = 1,
     hops |-> [i \in 1..((Len(raw) \div OF_LEN) - 1) |-> raw[i * OF_LEN + 3]]]

EmptyPath == [kind |-> "EMPTY", up |-> FALSE, hops |-> <<>>]

\* path.get_of(index): the info OF at 0, then the hop OFs.
GetOf(p, i) ==
    CASE p = NoPath \/ p.kind = "EMPTY" \/ i < 0 \/ i > Len(p.hops) -> NoOF
      [] i = 0 -> [iof |-> TRUE, up |-> p.up]
      [] OTHER -> [iof |-> FALSE, hop |-> p.hops[i]]

\* path.reverse(): hop order reversed, direction of the segment flipped.
PathReverse(p) ==
    IF p.kind = "EMPTY" THEN p
    ELSE [p EXCEPT !.up = ~p.up, !.hops = Reverse(p.hops)]

ExtLen(e) == Len(e.raw)     \* len(ext_hdr)

---------------------------------------------------------------------------
(* Byte helpers.                                                           *)

\* Python raw[a:b] for 0 <= a.
PySlice(s, a, b) == SubSeq(s, a + 1, IF b < Len(s) THEN b ELSE Len(s))

\* bitstring "uintbe:w" accepts exactly 0 .. 2^w - 1, else raises.
FitsUint(v, w) == v \in 0..(2^w - 1)

BE16(v) == <<v \div 256, v % 256>>

---------------------------------------------------------------------------
(* SCIONCommonHdr                                                          *)

COMMON_LEN == 8             \* SCIONCommonHdr.LEN

CommonFromValues(pkt_type, src_addr_len, dst_addr_len, next_hdr) ==
    [type |-> pkt_type, src_addr_len |-> src_addr_len,
     dst_addr_len |-> dst_addr_len, next_hdr |-> next_hdr,
     curr_of_p |-> src_addr_len + dst_addr_len,
     curr_iof_p |-> src_addr_len + dst_addr_len,
     hdr_len |-> COMMON_LEN + src_addr_len + dst_addr_len,
     total_len |-> COMMON_LEN + src_addr_len + dst_addr_len]

\* The first 16-bit word as pack() builds it.
TypesWord(c) == (c.type * 2^12) | (c.dst_addr_len * 2^6) | c.src_addr_len

CommonPackable(c) ==
    /\ FitsUint(TypesWord(c), 16) /\ FitsUint(c.total_len, 16)
    /\ \A f \in {c.curr_iof_p, c.curr_of_p, c.next_hdr, c.hdr_len} : FitsUint(f, 8)

CommonPack(c) ==
    BE16(TypesWord(c)) \o BE16(c.total_len)
        \o <<c.curr_iof_p, c.curr_of_p, c.next_hdr, c.hdr_len>>

\* Mutant: parse() unpacking the two pointer bytes in the wrong order.
CommonParseSwapPtrs(raw) ==
    LET types == raw[1] * 256 + raw[2]
    IN [type |-> shiftR(types & 61440, 12),
        src_addr_len |-> shiftR(types & 4032, 6),
        dst_addr_len |-> types & 63,
        total_len |-> raw[3] * 256 + raw[4],
        curr_iof_p |-> raw[6], curr_of_p |-> raw[5],
        next_hdr |-> raw[7], hdr_len |-> raw[8]]

\* parse(raw) on at least COMMON_LEN bytes (shorter buffers: callers below).
CommonParse(raw) ==
    LET types == raw[1] * 256 + raw[2]
    IN [type |-> shiftR(types & 61440, 12),         \* 0xf000
        src_addr_len |-> shiftR(types & 4032, 6),   \* 0x0fc0
        dst_addr_len |-> types & 63,                \* 0x003f
        total_len |-> raw[3] * 256 + raw[4],
        curr_iof_p |-> raw[5], curr_of_p |-> raw[6],
        next_hdr |-> raw[7], hdr_len |-> raw[8]]

---------------------------------------------------------------------------
(* SCIONHeader                                                             *)

MIN_HDR_LEN == 16           \* SCIONHeader.MIN_LEN

ExtsLen(exts) == FoldLeft(LAMBDA acc, e : acc + ExtLen(e), 0, exts)

HeaderFromValues(src, dst, pkt_type, path, ext_hdrs, next_hdr) ==
    LET c0 == CommonFromValues(pkt_type, Len(src), Len(dst), next_hdr)
        pl == IF path = NoPath THEN 0 ELSE Len(PathPack(path))
    IN [common |-> [c0 EXCEPT !.hdr_len = @ + pl,
                              !.total_len = @ + pl + ExtsLen(ext_hdrs)],
        src |-> src, dst |-> dst, path |-> path, exts |-> ext_hdrs]

\* len(hdr)
HeaderLen(h) == h.common.hdr_len + ExtsLen(h.exts)

HeaderPackable(h) == CommonPackable(h.common)

HeaderPack(h) ==
    CommonPack(h.common) \o h.src \o h.dst
        \o (IF h.path = NoPath THEN <<>> ELSE PathPack(h.path))
        \o FlattenSeq([i \in 1..Len(h.exts) |-> h.exts[i].raw])

\* Each pass of the extension loop moves offset forward or ends it, except
\* a zero-length record with a non-zero next type, which repeats forever.
\* More passes than the buffer has bytes therefore means the loop hangs.
ExtWalkFuel(raw) == Len(raw) + 1

ExtClass(t) == IF t = ICN_TYPE THEN "ICN" ELSE "GENERIC"

\* The while loop over cur_hdr_type; status "ReadError" is the bitstring
\* exception of unpacking fewer than 2 bytes, "Hang" the endless loop.
RECURSIVE ExtWalk(_, _, _, _, _)
ExtWalk(raw, offset, cur_hdr_type, exts, fuel) ==
    CASE cur_hdr_type = 0 -> [status |-> "ok", exts |-> exts]
      [] fuel = 0 -> [status |-> "Hang", exts |-> exts]
      [] offset + 2 > Len(raw) -> [status |-> "ReadError", exts |-> exts]
      [] OTHER ->
           LET next_hdr_type == raw[offset + 1]
               hdr_len == raw[offset + 2]
               ext == [cls |-> ExtClass(cur_hdr_type),
                       raw |-> PySlice(raw, offset, offset + hdr_len)]
           IN ExtWalk(raw, offset + hdr_len, next_hdr_type,
                      Append(exts, ext), fuel - 1)

\* The path variant chosen by the discriminant at offset.
ParsePath(raw, offset, hdr_len) ==
    LET info == IF offset = hdr_len THEN PathCode.EMPTY
                ELSE IOFInfo(PySlice(raw, offset, offset + OF_LEN))
        body == PySlice(raw, offset, hdr_len)
    IN CASE info = PathCode.EMPTY -> EmptyPath
         [] \E k \in PathKinds : PathCode[k] = info ->
                PathFromRaw(CHOOSE k \in PathKinds : PathCode[k] = info, body)
         [] OTHER -> NoPath

\* SCIONHeader(raw): status "short" when raw < MIN_LEN (common_hdr stays
\* None), else the outcome of the extension walk.
HeaderParse(raw) ==
    IF Len(raw) < MIN_HDR_LEN THEN [status |-> "short"]
    ELSE
      LET c == CommonParse(PySlice(raw, 0, COMMON_LEN))
          s == c.src_addr_len
          d == c.dst_addr_len
          off == COMMON_LEN + s + d
          w == ExtWalk(raw, c.hdr_len, c.next_hdr, <<>>, ExtWalkFuel(raw))
      IN [status |-> w.status,
          hdr |-> [common |-> c,
                   src |-> PySlice(raw, COMMON_LEN, COMMON_LEN + s),
                   dst |-> PySlice(raw, COMMON_LEN + s, off),
                   path |-> ParsePath(raw, off, c.hdr_len),
                   exts |-> w.exts]]

=============================================================================
