------------------------- MODULE MCControlPackets -------------------------
(***************************************************************************)
(* Instantiates ControlPackets for TLC.  Two callers with IPv4 host        *)
(* addresses in different ADs, integer fields 258 (0x0102, whose bytes     *)
(* differ in the two orders) and 65535 (top bit set), and trailers of 0    *)
(* and 2 bytes.  The truncated delivery is used by the run that shows      *)
(* the code's disagreement on truncated buffers.                           *)
(***************************************************************************)
EXTENDS ControlPackets

MC_ICN_TYPE == 1

MC_Callers ==
    {SCIONAddrFromValues(1, 2, <<10, 0, 0, 1>>),
     SCIONAddrFromValues(1, 3, <<192, 168, 0, 7>>)}

MC_FieldVals == {258, 65535}

MC_Blobs == {<<>>, <<65, 66>>}

\* The constants of ScionPacket that ControlPackets does not use.
MC_PktTypes == {0}
MC_Paths == {NoPath}
MC_ExtChains == {[next_hdr |-> 0, exts |-> <<>>]}
MC_Payloads == {<<>>}
MC_Advances == {1}

\* The packed buffer received without its last k bytes.
CutBy == {1, 2}

CtrlParseCut(k) ==
    /\ wire # <<>>
    /\ CtrlParseBuffer(PySlice(wire, 0, Len(wire) - k))
    /\ wire' = <<>>
    /\ UNCHANGED <<sent, sent_fields, cls, ptype>>

CtrlSpecTruncated ==
    CtrlInit /\ [][CtrlNext \/ \E k \in CutBy : CtrlParseCut(k)]_cvars

\* A buffer shorter than the packet it was packed from is a truncated
\* packet: the constructor raises or leaves the object unparsed; it does
\* not return parsed fields (spec section 7, TruncatedPacket).
TruncatedNotParsed ==
    [][\A k \in CutBy : CtrlParseCut(k) => exc' # "none" \/ ~parsed']_cvars
=============================================================================
