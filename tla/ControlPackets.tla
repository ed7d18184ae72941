---------------------------- MODULE ControlPackets ----------------------------
(***************************************************************************)
(* The six control packets of lib/packet/scion.py (IFIDRequest, IFIDReply, *)
(* CertChainRequest, CertChainReply, TRCRequest, TRCReply).  Each is a     *)
(* SCIONPacket whose payload is a fixed layout of unsigned fields, built   *)
(* by from_values with an address from the registry, and decoded by       *)
(* parse after SCIONPacket.parse.  The model holds one control packet:    *)
(* from_values is Init; the sender packs it and the receiver constructs   *)
(* the same class from the buffer, then may pack it again.               *)
(***************************************************************************)
EXTENDS ScionPacket, ScionRegistry

CONSTANTS
    NATIVE_ORDER, \* byte order of struct's native "HH": "little" or "big"
    Callers,      \* addresses of the requesting or answered node
    FieldVals,    \* values of the integer fields
    Blobs         \* cert_chain and trc contents

VARIABLES
    cls,          \* the class of the object
    fields,       \* its field attributes (request_id, isd_id, ...)
    ptype,        \* ghost: the type from_values looked up in the registry
    sent_fields   \* ghost: the fields when wire was packed

cvars == <<vars, cls, fields, ptype, sent_fields>>

NoFields == [noFields |-> TRUE]

Classes == {"IFIDRequest", "IFIDReply", "CertChainRequest", "CertChainReply",
            "TRCRequest", "TRCReply"}

IFIDClasses == {"IFIDRequest", "IFIDReply"}

\* struct.error of struct.pack/unpack beside the ones of SCIONPacket.
CtrlExceptions == Exceptions \cup {"StructError"}

---------------------------------------------------------------------------
(* Payload layouts: field name and width in bytes, in wire order.          *)

F(name, n) == [f |-> name, n |-> n]

\* The format each parse() unpacks its payload with.
IFIDRequestFormat == <<F("reserved", 2), F("request_id", 2)>>    \* "HH"

IFIDReplyFormat == <<F("reply_id", 2), F("request_id", 2)>>      \* "HH"

CertChainRequestFormat ==
    <<F("ingress_if", 2), F("src_isd", 2), F("src_ad", 8), F("isd_id", 2),
      F("ad_id", 8), F("version", 4)>>

CertChainReplyFormat == <<F("isd_id", 2), F("ad_id", 8), F("version", 4)>>

TRCRequestFormat ==
    <<F("ingress_if", 2), F("src_isd", 2), F("src_ad", 8), F("isd_id", 2),
      F("version", 4)>>

TRCReplyFormat == <<F("isd_id", 2), F("version", 4)>>

Layout ==
    [IFIDRequest |-> IFIDRequestFormat, IFIDReply |-> IFIDReplyFormat,
     CertChainRequest |-> CertChainRequestFormat,
     CertChainReply |-> CertChainReplyFormat,
     TRCRequest |-> TRCRequestFormat, TRCReply |-> TRCReplyFormat]

\* The variable-length field a reply keeps after its fixed prefix.
TrailerOf(c) ==
    CASE c = "CertChainReply" -> "cert_chain"
      [] c = "TRCReply" -> "trc"
      [] OTHER -> "none"

\* Mutant: a MIN_LEN two bytes short of the fixed prefix.
CertChainReplyMinLenShort == 12

CERT_CHAIN_REPLY_MIN_LEN == 14      \* CertChainReply.MIN_LEN
TRC_REPLY_MIN_LEN == 6              \* TRCReply.MIN_LEN

ReplyMinLen(c) == IF c = "CertChainReply" THEN CERT_CHAIN_REPLY_MIN_LEN
                  ELSE TRC_REPLY_MIN_LEN

\* The attributes of a class: the layout's fields (IFIDRequest discards
\* the reserved word) and the trailer.
FieldNames(c) ==
    ({Layout[c][i].f : i \in 1..Len(Layout[c])} \ {"reserved"})
        \cup (IF TrailerOf(c) = "none" THEN {} ELSE {TrailerOf(c)})

\* The attributes each __init__ sets before "if raw:".  The IFID ids are
\* None: the object has no field values.
IFIDDefaults == NoFields

CertChainRequestDefaults ==
    [ingress_if |-> 0, src_isd |-> 0, src_ad |-> 0, isd_id |-> 0, ad_id |-> 0,
     version |-> 0]

CertChainReplyDefaults == [isd_id |-> 0, ad_id |-> 0, version |-> 0, cert_chain |-> <<>>]

TRCRequestDefaults ==
    [ingress_if |-> 0, src_isd |-> 0, src_ad |-> 0, isd_id |-> 0, version |-> 0]

TRCReplyDefaults == [isd_id |-> 0, version |-> 0, trc |-> <<>>]

Defaults(c) ==
    CASE c \in IFIDClasses -> IFIDDefaults
      [] c = "CertChainRequest" -> CertChainRequestDefaults
      [] c = "CertChainReply" -> CertChainReplyDefaults
      [] c = "TRCRequest" -> TRCRequestDefaults
      [] c = "TRCReply" -> TRCReplyDefaults

\* The byte offset of the i-th field of layout L.
Offset(L, i) == FoldLeft(LAMBDA a, e : a + e.n, 0, SubSeq(L, 1, i - 1))

PrefixLen(c) == Offset(Layout[c], Len(Layout[c]) + 1)

\* The byte order the code packs a class with: struct's native "HH" for
\* the IFID packets, bitstring's "uintbe" for the others.
OrderOf(c) == IF c \in IFIDClasses THEN NATIVE_ORDER ELSE "big"

\* struct.pack("HH", ...) / bitstring.pack("uintbe:..", ...).bytes + trailer
Serialize(c, f, order) ==
    LET L == Layout[c]
        val(k) == IF k = "reserved" THEN 0 ELSE f[k]
    IN FlattenSeq([i \in 1..Len(L) |-> UIntBytes(val(L[i].f), L[i].n, order)])
         \o (IF TrailerOf(c) = "none" THEN <<>> ELSE f[TrailerOf(c)])

\* Mutant: the fields read as signed integers ("intbe").
ReadSigned(s, order) ==
    LET b == IF order = "big" THEN s ELSE Reverse(s)
    IN IF b[1] >= 128 THEN BEValue(b) - 2^(8 * Len(b)) ELSE BEValue(b)

\* One unsigned field of the fixed prefix.
ReadUInt(s, order) == BEValue(IF order = "big" THEN s ELSE Reverse(s))

\* The decoding step of each parse(): struct.unpack("HH", payload) needs
\* exactly 4 bytes; bits.unpack needs the whole fixed prefix and ignores
\* what follows it, which a reply takes from its MIN_LEN on.
Decode(c, pl) ==
    LET L == Layout[c]
        idx(k) == CHOOSE i \in 1..Len(L) : L[i].f = k
    IN CASE c \in IFIDClasses /\ Len(pl) # PrefixLen(c) -> [status |-> "StructError"]
         [] Len(pl) < PrefixLen(c) -> [status |-> "ReadError"]
         [] OTHER ->
              [status |-> "none",
               fields |-> [k \in FieldNames(c) |->
                   IF k = TrailerOf(c) THEN PySlice(pl, ReplyMinLen(c), Len(pl))
                   ELSE ReadUInt(PySlice(pl, Offset(L, idx(k)),
                                         Offset(L, idx(k)) + L[idx(k)].n),
                                 OrderOf(c))]]

---------------------------------------------------------------------------
(* from_values of each class, as the object it returns.                    *)

\* hdr, then "payload = ..." through set_payload (payload_len 0 before).
CtrlObject(h, pl, f) ==
    [hdr |-> [h EXCEPT !.common.total_len = @ + Len(pl)],
     payload |-> pl, payload_len |-> Len(pl), fields |-> f]

RequestHdr(src, t, hdr_type) ==
    HeaderFromValues(src, GetAddrFromType(t), hdr_type, NoPath, <<>>, 0)

ReplyHdr(dst, t, hdr_type) ==
    HeaderFromValues(GetAddrFromType(t), dst, hdr_type, NoPath, <<>>, 0)

IFIDRequestFromValues(src, f) ==
    CtrlObject(RequestHdr(src, PT.IFID_REQ, PT.DATA),
               Serialize("IFIDRequest", f, NATIVE_ORDER), f)

\* The payload is left unset: only pack() writes it.
IFIDReplyFromValues(dst, f) ==
    CtrlObject(ReplyHdr(dst, PT.IFID_REP, PT.DATA), <<>>, f)

CertChainRequestFromValues(req_type, src, f) ==
    CtrlObject(RequestHdr(src, req_type, req_type),
               Serialize("CertChainRequest", f, "big"), f)

CertChainReplyFromValues(dst, f) ==
    CtrlObject(ReplyHdr(dst, PT.CERT_CHAIN_REP, PT.CERT_CHAIN_REP),
               Serialize("CertChainReply", f, "big"), f)

TRCRequestFromValues(req_type, src, f) ==
    CtrlObject(RequestHdr(src, req_type, req_type),
               Serialize("TRCRequest", f, "big"), f)

TRCReplyFromValues(dst, f) ==
    CtrlObject(ReplyHdr(dst, PT.TRC_REP, PT.TRC_REP),
               Serialize("TRCReply", f, "big"), f)

\* The registry types each from_values may look up (req_type as its
\* docstring allows).
RegTypes(c) ==
    CASE c = "IFIDRequest" -> {PT.IFID_REQ}
      [] c = "IFIDReply" -> {PT.IFID_REP}
      [] c = "CertChainRequest" -> {PT.CERT_CHAIN_REQ_LOCAL, PT.CERT_CHAIN_REQ}
      [] c = "CertChainReply" -> {PT.CERT_CHAIN_REP}
      [] c = "TRCRequest" -> {PT.TRC_REQ_LOCAL, PT.TRC_REQ}
      [] c = "TRCReply" -> {PT.TRC_REP}

FromValues(c, t, a, f) ==
    CASE c = "IFIDRequest" -> IFIDRequestFromValues(a, f)
      [] c = "IFIDReply" -> IFIDReplyFromValues(a, f)
      [] c = "CertChainRequest" -> CertChainRequestFromValues(t, a, f)
      [] c = "CertChainReply" -> CertChainReplyFromValues(a, f)
      [] c = "TRCRequest" -> TRCRequestFromValues(t, a, f)
      [] c = "TRCReply" -> TRCReplyFromValues(a, f)

\* The field values a caller passes: integers from FieldVals, the
\* trailer from Blobs.
FieldSets(c) ==
    LET ints == FieldNames(c) \ {TrailerOf(c)}
    IN IF TrailerOf(c) = "none" THEN [ints -> FieldVals]
       ELSE {[k \in FieldNames(c) |-> IF k = TrailerOf(c) THEN b ELSE g[k]] :
                 g \in [ints -> FieldVals], b \in Blobs}

---------------------------------------------------------------------------
(* Actions                                                                 *)

\* The object from_values returns.
CtrlInit ==
    /\ \E c \in Classes : \E t \in RegTypes(c), a \in Callers, f \in FieldSets(c) :
         LET o == FromValues(c, t, a, f)
         IN /\ hdr = o.hdr
            /\ payload = o.payload
            /\ payload_len = o.payload_len
            /\ fields = o.fields
            /\ cls = c
            /\ ptype = t
    /\ parsed = FALSE
    /\ exc = "none"
    /\ wire = <<>>
    /\ sent = NoSent
    /\ sent_fields = NoFields

\* Mutant: the IFID pack() writing the payload without set_payload.
CtrlPackNoSetter ==
    /\ Held
    /\ LET pl == IF cls \in IFIDClasses THEN Serialize(cls, fields, NATIVE_ORDER)
                 ELSE payload
       IN /\ hdr' = hdr
          /\ payload' = pl
          /\ payload_len' = Len(pl)
          /\ IF HeaderPackable(hdr)
             THEN /\ wire' = HeaderPack(hdr) \o pl
                  /\ sent' = [hdr |-> hdr, payload |-> pl]
                  /\ sent_fields' = fields
                  /\ exc' = "none"
             ELSE /\ exc' = "CreationError"
                  /\ UNCHANGED <<wire, sent, sent_fields>>
    /\ UNCHANGED <<parsed, cls, fields, ptype>>

\* pack(): the IFID packets first write their payload from the fields
\* through set_payload; then SCIONPacket.pack.
CtrlPack ==
    /\ Held
    /\ LET rewrite == cls \in IFIDClasses
           pl == IF rewrite THEN Serialize(cls, fields, NATIVE_ORDER) ELSE payload
           h == IF rewrite
                THEN [hdr EXCEPT !.common.total_len = @ - payload_len + Len(pl)]
                ELSE hdr
       IN /\ hdr' = h
          /\ payload' = pl
          /\ payload_len' = Len(pl)
          /\ IF HeaderPackable(h)
             THEN /\ wire' = HeaderPack(h) \o pl
                  /\ sent' = [hdr |-> h, payload |-> pl]
                  /\ sent_fields' = fields
                  /\ exc' = "none"
             ELSE /\ exc' = "CreationError"
                  /\ UNCHANGED <<wire, sent, sent_fields>>
    /\ UNCHANGED <<parsed, cls, fields, ptype>>

\* cls(raw): SCIONPacket.__init__ and the class's defaults, then, "if raw:",
\* SCIONPacket.parse and the class's decoding.  A constructor that raises
\* returns no object.
CtrlParseBuffer(raw) ==
    IF raw = <<>>
    THEN /\ hdr' = NoHdr /\ payload' = <<>> /\ payload_len' = 0
         /\ parsed' = FALSE /\ fields' = Defaults(cls) /\ exc' = "none"
    ELSE \E o \in {PacketParse(raw)} : \E d \in {Decode(cls, o.payload)} :
         LET ok == o.exc = "none" /\ d.status = "none"
         IN /\ hdr' = IF ok THEN o.hdr ELSE NoHdr
            /\ payload' = IF ok THEN o.payload ELSE <<>>
            /\ payload_len' = IF ok THEN o.payload_len ELSE 0
            /\ parsed' = (ok /\ o.parsed)
            /\ fields' = IF ok THEN d.fields ELSE NoFields
            /\ exc' = IF o.exc # "none" THEN o.exc ELSE d.status

\* The packed buffer is received whole by a node that constructs the
\* same class from it.
CtrlParse ==
    /\ wire # <<>>
    /\ CtrlParseBuffer(wire)
    /\ wire' = <<>>
    /\ UNCHANGED <<sent, sent_fields, cls, ptype>>

\* The datagram that arrives is empty (b''): the constructor skips parse.
CtrlReceiveEmpty ==
    /\ wire # <<>>
    /\ CtrlParseBuffer(<<>>)
    /\ wire' = <<>>
    /\ UNCHANGED <<sent, sent_fields, cls, ptype>>

\* pack() on an object without a header: the IFID packets raise in
\* struct.pack("HH", ...) on their None ids before SCIONPacket.pack (whose
\* self.hdr.pack() raises for the others).
CtrlPackUnset ==
    /\ hdr = NoHdr /\ wire = <<>>
    /\ exc' = IF cls \in IFIDClasses THEN "StructError" ELSE "AttributeError"
    /\ UNCHANGED <<hdr, payload, payload_len, parsed, wire, sent, cls, fields,
                   ptype, sent_fields>>

CtrlNext == CtrlPack \/ CtrlPackUnset \/ CtrlParse \/ CtrlReceiveEmpty

CtrlSpec == CtrlInit /\ [][CtrlNext]_cvars

---------------------------------------------------------------------------
(* Properties                                                              *)

FieldsOK(c, f) ==
    /\ DOMAIN f = FieldNames(c)
    /\ \A k \in DOMAIN f :
         IF k = TrailerOf(c) THEN f[k] \in Seq(0..255) ELSE f[k] \in Nat

CtrlTypeOK ==
    /\ cls \in Classes
    /\ ptype \in RegTypes(cls)
    /\ hdr = NoHdr \/ HdrOK(hdr)
    /\ payload \in Seq(0..255) /\ payload_len \in Nat /\ parsed \in BOOLEAN
    /\ exc \in CtrlExceptions
    /\ wire \in Seq(0..255)
    /\ fields = NoFields \/ FieldsOK(cls, fields)
    /\ sent_fields = NoFields \/ FieldsOK(cls, sent_fields)

\* Receiving a packed control packet whole gives back every field the
\* sender set, the trailing cert_chain or trc included (spec section 4.4:
\* parse decodes what from_values serialized), over any number of
\* pack/parse hops.
FieldsRoundTrip ==
    [][CtrlParse => /\ exc' = "none" /\ parsed'
                    /\ fields' = sent_fields]_cvars

\* get_type() on the object, built by from_values or parsed from what
\* was packed, returns the type from_values looked the pseudo-address up
\* with: a request is dispatched on its destination, a reply on its
\* source (spec section 4.5).
DispatchRecoversType ==
    hdr # NoHdr => GetType(hdr.src, hdr.dst) = ptype

\* from_values serializes the fields into the payload immediately (spec
\* section 4.4), so the payload of an object always encodes its fields
\* (IFIDReply.from_values does not set it).
PayloadEncodesFields ==
    hdr # NoHdr => payload = Serialize(cls, fields, OrderOf(cls))

=============================================================================
