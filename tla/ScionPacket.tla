----------------------------- MODULE ScionPacket -----------------------------
(***************************************************************************)
(* One SCIONPacket object of lib/packet/scion.py and the buffer it is      *)
(* packed into and parsed from.  Every public method that changes the      *)
(* object is an action; the caller may call them in any order, which is    *)
(* how the object is used by the routers and servers that forward, answer  *)
(* and re-pack packets.  The ghost variable sent keeps the object as it    *)
(* was when the buffer was packed, so that a parse can be compared with it.*)
(***************************************************************************)
EXTENDS ScionCodec

CONSTANTS
    Addrs,       \* addresses (as the bytes SCIONAddr.pack() gives)
    PktTypes,    \* packet types passed to from_values
    Paths,       \* paths passed to from_values (NoPath among them)
    ExtChains,   \* [next_hdr, exts] pairs passed to from_values
    Payloads,    \* payload byte strings
    Advances     \* numbers passed to increase_of

VARIABLES
    hdr,         \* SCIONPacket.hdr, or NoHdr when it was never set
    payload,     \* SCIONPacket.payload (bytes), or <<>>
    payload_len, \* SCIONPacket.payload_len
    parsed,      \* SCIONPacket.parsed
    exc,         \* exception raised by the last call ("none" if none)
    wire,        \* the last packed buffer not yet parsed, or <<>>
    sent         \* ghost: [hdr, payload] of the object when wire was packed

vars == <<hdr, payload, payload_len, parsed, exc, wire, sent>>

NoHdr == [noHdr |-> TRUE]
NoSent == [noSent |-> TRUE]

Exceptions == {"none", "AttributeError", "CreationError", "ReadError", "Hang"}

---------------------------------------------------------------------------
(* Accessors of SCIONHeader (no state change).                             *)

PathStart(h) == h.common.src_addr_len + h.common.dst_addr_len

\* offset // OpaqueField.LEN for the current OF and IOF pointers
OfIndex(h)  == (h.common.curr_of_p - PathStart(h)) \div OF_LEN
IofIndex(h) == (h.common.curr_iof_p - PathStart(h)) \div OF_LEN

GetCurrentOf(h)  == IF h.path = NoPath THEN NoOF ELSE GetOf(h.path, OfIndex(h))
GetCurrentIof(h) == IF h.path = NoPath THEN NoOF ELSE GetOf(h.path, IofIndex(h))
GetRelativeOf(h, n) ==
    IF h.path = NoPath THEN NoOF ELSE GetOf(h.path, OfIndex(h) + n)
GetNextOf(h) == IF h.path = NoPath THEN NoOF ELSE GetOf(h.path, OfIndex(h) + 1)

\* is_on_up_path(): the else branch evaluates True without returning it,
\* so the call yields None; results as "True", "False", "None".
IsOnUpPath(h) ==
    LET iof == GetCurrentIof(h)
    IN CASE iof = NoOF -> "None"
         [] iof.up -> "True"
         [] OTHER -> "False"

\* Number of OFs the path packs to.
NumOFs(p) == IF p = NoPath THEN 0 ELSE Len(PathPack(p)) \div OF_LEN

\* Mutant: the boundary test without the common header length.
IsLastPathOfShort(h) == h.common.curr_of_p + OF_LEN = h.common.hdr_len

IsLastPathOf(h) == h.common.curr_of_p + (COMMON_LEN + OF_LEN) = h.common.hdr_len

---------------------------------------------------------------------------
(* SCIONPacket.parse(raw) as the new object it returns.                    *)

MIN_PKT_LEN == 8            \* SCIONPacket.MIN_LEN

PacketParse(raw) ==
    LET dlen == Len(raw)
        r == HeaderParse(raw)
    IN CASE dlen < MIN_PKT_LEN ->
              [hdr |-> NoHdr, payload |-> <<>>, payload_len |-> 0,
               parsed |-> FALSE, exc |-> "none"]
         [] r.status = "short" ->         \* len(self.hdr) on common_hdr None
              [hdr |-> NoHdr, payload |-> <<>>, payload_len |-> 0,
               parsed |-> FALSE, exc |-> "AttributeError"]
         [] r.status # "ok" ->
              [hdr |-> NoHdr, payload |-> <<>>, payload_len |-> 0,
               parsed |-> FALSE, exc |-> r.status]
         [] OTHER ->
              LET hl == HeaderLen(r.hdr)
                  pl0 == dlen - hl                 \* self.payload_len = ...
                  pl == PySlice(raw, hl, dlen)     \* self.payload = raw[hl:]
              IN [hdr |-> [r.hdr EXCEPT !.common.total_len = @ - pl0 + Len(pl)],
                  payload |-> pl, payload_len |-> Len(pl),
                  parsed |-> TRUE, exc |-> "none"]

---------------------------------------------------------------------------
(* Actions: a hop holds the object (wire empty) and calls its methods,    *)
(* then packs it and hands the buffer to the next hop, which parses it.   *)

Held == hdr # NoHdr /\ wire = <<>>

(*                                                                 *)

\* Mutant: set_payload that forgets to subtract the old payload length.
SetPayloadNoSub ==
    /\ Held
    /\ \E pl \in Payloads :
         /\ hdr' = [hdr EXCEPT !.common.total_len = @ + Len(pl)]
         /\ payload' = pl
         /\ payload_len' = Len(pl)
    /\ exc' = "none"
    /\ UNCHANGED <<parsed, wire, sent>>

\* set_payload(payload)
SetPayload ==
    /\ Held
    /\ \E pl \in Payloads :
         /\ hdr' = [hdr EXCEPT !.common.total_len = @ - payload_len + Len(pl)]
         /\ payload' = pl
         /\ payload_len' = Len(pl)
    /\ exc' = "none"
    /\ UNCHANGED <<parsed, wire, sent>>

\* Mutant: increase_of moving the pointer backwards.
IncreaseOfNeg ==
    /\ Held
    /\ \E n \in Advances :
         /\ OfIndex(hdr) + n <= NumOFs(hdr.path)
         /\ hdr' = [hdr EXCEPT !.common.curr_of_p = @ - n * OF_LEN]
    /\ exc' = "none"
    /\ UNCHANGED <<payload, payload_len, parsed, wire, sent>>

\* increase_of(number): no check against the path; the model lets the
\* pointer run at most one OF past the last one.
IncreaseOf ==
    /\ Held
    /\ \E n \in Advances :
         /\ OfIndex(hdr) + n <= NumOFs(hdr.path)
         /\ hdr' = [hdr EXCEPT !.common.curr_of_p = @ + n * OF_LEN]
    /\ exc' = "none"
    /\ UNCHANGED <<payload, payload_len, parsed, wire, sent>>

\* set_downpath(): clears up_flag of the OF the IOF pointer designates.
SetDownpath ==
    /\ Held
    /\ LET iof == GetCurrentIof(hdr)
       IN hdr' = IF iof # NoOF /\ iof.iof
                 THEN [hdr EXCEPT !.path.up = FALSE] ELSE hdr
    /\ exc' = "none"
    /\ UNCHANGED <<payload, payload_len, parsed, wire, sent>>

\* reverse(): swaps the addresses, reverses the path, resets both
\* pointers; with no path, self.path.reverse() raises after the swap.
ReverseHeader ==
    /\ Held
    /\ LET swapped == [hdr EXCEPT !.src = hdr.dst, !.dst = hdr.src]
       IN IF hdr.path = NoPath
          THEN /\ hdr' = swapped
               /\ exc' = "AttributeError"
          ELSE /\ hdr' = [swapped EXCEPT !.path = PathReverse(hdr.path),
                                         !.common.curr_of_p = PathStart(hdr),
                                         !.common.curr_iof_p = PathStart(hdr)]
               /\ exc' = "none"
    /\ UNCHANGED <<payload, payload_len, parsed, wire, sent>>

\* pack(): bitstring raises when a common-header field exceeds its width.
Pack ==
    /\ Held
    /\ IF HeaderPackable(hdr)
       THEN /\ wire' = HeaderPack(hdr) \o payload
            /\ sent' = [hdr |-> hdr, payload |-> payload]
            /\ exc' = "none"
       ELSE /\ exc' = "CreationError"
            /\ UNCHANGED <<wire, sent>>
    /\ UNCHANGED <<hdr, payload, payload_len, parsed>>

\* SCIONPacket(raw) on a received buffer raw.
ParseBuffer(raw) ==
    \E o \in {PacketParse(raw)} :
       /\ hdr' = o.hdr
       /\ payload' = o.payload
       /\ payload_len' = o.payload_len
       /\ parsed' = o.parsed
       /\ exc' = o.exc

\* The packed buffer is received whole.
Parse ==
    /\ wire # <<>>
    /\ ParseBuffer(wire)
    /\ wire' = <<>>
    /\ UNCHANGED sent

\* SCIONPacket.from_values: the object the caller starts from; the payload
\* assignment goes through set_payload, which adds its length to total_len
\* (payload_len is 0 before it).
Init ==
    /\ \E src, dst \in Addrs, t \in PktTypes, p \in Paths, ch \in ExtChains,
          pl \in Payloads :
         LET h == HeaderFromValues(src, dst, t, p, ch.exts, ch.next_hdr)
         IN /\ hdr = [h EXCEPT !.common.total_len = @ + Len(pl)]
            /\ payload = pl
            /\ payload_len = Len(pl)
    /\ parsed = FALSE
    /\ exc = "none"
    /\ wire = <<>>
    /\ sent = NoSent

Next ==
    \/ SetPayload
    \/ IncreaseOf
    \/ SetDownpath
    \/ ReverseHeader
    \/ Pack
    \/ Parse

Spec == Init /\ [][Next]_vars

---------------------------------------------------------------------------
(* Properties                                                              *)

PathOK(p) ==
    p = NoPath \/ p \in [kind : PathKinds, up : BOOLEAN, hops : Seq(0..255)]

HdrOK(h) ==
    /\ h.common \in [type : Nat, src_addr_len : Nat, dst_addr_len : Nat,
                     total_len : Int, curr_iof_p : Nat, curr_of_p : Nat,
                     next_hdr : Nat, hdr_len : Nat]
    /\ h.src \in Seq(0..255) /\ h.dst \in Seq(0..255)
    /\ PathOK(h.path)
    /\ h.exts \in Seq([cls : {"ICN", "GENERIC"}, raw : Seq(0..255)])

TypeOK ==
    /\ hdr = NoHdr \/ HdrOK(hdr)
    /\ payload \in Seq(0..255)
    /\ payload_len \in Nat
    /\ parsed \in BOOLEAN
    /\ exc \in Exceptions
    /\ wire \in Seq(0..255)
    /\ sent = NoSent \/ (HdrOK(sent.hdr) /\ sent.payload \in Seq(0..255))

\* The length fields stay consistent with the object through every
\* sequence of from_values, set_payload, increase_of, set_downpath,
\* reverse, pack and parse: total_len = len(hdr) + payload_len,
\* payload_len = len(payload), hdr_len covers common header, addresses
\* and path (spec section 3).
LengthConsistent ==
    hdr # NoHdr =>
        /\ payload_len = Len(payload)
        /\ hdr.common.total_len = HeaderLen(hdr) + payload_len
        /\ hdr.common.hdr_len =
               COMMON_LEN + PathStart(hdr) + OF_LEN * NumOFs(hdr.path)

\* Path None and the Empty path pack to the same bytes.
SamePath(p, q) ==
    LET norm(x) == IF x = NoPath THEN EmptyPath ELSE x
    IN norm(p) = norm(q)

\* The parsed object (h, pl) shows the values of the packed one s, except
\* for how the address bytes are split between source and destination.
AgreesModuloAddrSplit(h, pl, s) ==
    /\ \A f \in {"type", "total_len", "curr_iof_p", "curr_of_p", "next_hdr",
                 "hdr_len"} : h.common[f] = s.hdr.common[f]
    /\ {h.common.src_addr_len, h.common.dst_addr_len}
           = {s.hdr.common.src_addr_len, s.hdr.common.dst_addr_len}
    /\ h.src \o h.dst = s.hdr.src \o s.hdr.dst
    /\ SamePath(h.path, s.hdr.path)
    /\ h.exts = s.hdr.exts
    /\ pl = s.payload

\* Parsing what pack() produced succeeds and gives back the header
\* pointers, lengths, path, extension chain and payload of the packed
\* object, whatever sequence of calls led to the pack (spec section 8,
\* round trip, without the address split: see RoundTrip).
RoundTripModuloAddrSplit ==
    [][Parse => /\ exc' = "none" /\ parsed'
                /\ AgreesModuloAddrSplit(hdr', payload', sent)]_vars

\* The exact round trip of spec section 8: the source and destination
\* addresses come back as they were packed.
RoundTrip ==
    [][Parse => /\ exc' = "none"
                /\ AgreesModuloAddrSplit(hdr', payload', sent)
                /\ hdr'.src = sent.hdr.src /\ hdr'.dst = sent.hdr.dst]_vars

\* is_last_path_of(), computed from curr_of_p and hdr_len alone, is true
\* exactly when get_current_of() is the last OF of the path (spec
\* section 8, boundary).
LastOfBoundary ==
    hdr # NoHdr =>
        (IsLastPathOf(hdr) <=> OfIndex(hdr) = NumOFs(hdr.path) - 1)

\* The address length fields of the common header describe the address
\* objects the header holds (spec section 3: hdr_len and the pointers
\* are computed from them).
AddrLensMatch ==
    hdr # NoHdr =>
        /\ hdr.common.src_addr_len = Len(hdr.src)
        /\ hdr.common.dst_addr_len = Len(hdr.dst)

\* pack() serializes every header that from_values and the header
\* operations produce (spec sections 4.2 and 4.3 give pack no failure, and
\* section 7 names none): bitstring never raises on a field wider than
\* the common header's 4-bit type or 8-bit hdr_len.
PackNotRaised ==
    [][Pack => exc' = "none"]_vars

\* reverse() either does what spec section 4.2 says, without raising
\* (section 7 names no failure of it), or leaves the header as it was:
\* never the addresses swapped and the call failing.
ReverseAtomic ==
    [][ReverseHeader => exc' = "none" \/ hdr' = hdr]_vars

=============================================================================
