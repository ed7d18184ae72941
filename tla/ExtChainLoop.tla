----------------------------- MODULE ExtChainLoop -----------------------------
(***************************************************************************)
(* The extension-header loop of SCIONHeader.parse, one pass per step:      *)
(*     cur_hdr_type = self.common_hdr.next_hdr                             *)
(*     while cur_hdr_type != 0: read (next_hdr_type, hdr_len) at offset,   *)
(*         append the record, cur_hdr_type = next_hdr_type,                *)
(*         offset += hdr_len                                               *)
(* over a buffer whose extensions start at hdr_len.  Extension chains are  *)
(* given as records [type, body]; the buffer holds each as                 *)
(* <<next type, length>> \o body, the last with next type 0, unless the   *)
(* chain is one of the malformed buffers of Malformed.                     *)
(***************************************************************************)
EXTENDS ScionCodec

CONSTANTS
    Chains,      \* well-formed chains: sequences of [type, body]
    Malformed,   \* corrupt buffers: [raw, next_hdr] with extensions at HdrLen
    HdrLen       \* common header + addresses + path, where extensions start

VARIABLES
    buf,           \* [raw, hdr_len, next_hdr, chain]: the buffer being parsed
    offset,        \* offset of the next record
    cur_hdr_type,  \* type of the next record, 0 when the chain has ended
    extension_hdrs,\* records appended so far
    pc             \* "loop", "done", or "ReadError" (bitstring raised)

vars == <<buf, offset, cur_hdr_type, extension_hdrs, pc>>

\* The bytes of record i of chain c, linked to record i + 1.
RecordBytes(c, i) ==
    LET next == IF i = Len(c) THEN 0 ELSE c[i + 1].type
    IN <<next, 2 + Len(c[i].body)>> \o c[i].body

\* The records SCIONHeader.from_values would be given for chain c.
ChainExts(c) ==
    [i \in 1..Len(c) |-> [cls |-> ExtClass(c[i].type), raw |-> RecordBytes(c, i)]]

BufferOf(c) ==
    [raw |-> Zeros(HdrLen) \o FlattenSeq([i \in 1..Len(c) |-> RecordBytes(c, i)]),
     hdr_len |-> HdrLen,
     next_hdr |-> IF c = <<>> THEN 0 ELSE c[1].type,
     chain |-> c]

Buffers ==
    {BufferOf(c) : c \in Chains} \cup
    {[raw |-> Zeros(HdrLen) \o m.raw, hdr_len |-> HdrLen,
      next_hdr |-> m.next_hdr, chain |-> <<>>] : m \in Malformed}

Init ==
    /\ buf \in Buffers
    /\ offset = buf.hdr_len
    /\ cur_hdr_type = buf.next_hdr
    /\ extension_hdrs = <<>>
    /\ pc = "loop"

(* Mutants: plausible faults in the loop body.                            *)

\* offset advanced past the 2-byte prefix only.
ReadRecordPrefixOnly ==
    /\ pc = "loop" /\ cur_hdr_type # 0
    /\ Len(extension_hdrs) < ExtWalkFuel(buf.raw)
    /\ offset + 2 <= Len(buf.raw)
    /\ LET hdr_len == buf.raw[offset + 2]
       IN /\ extension_hdrs' = Append(extension_hdrs,
                 [cls |-> ExtClass(cur_hdr_type),
                  raw |-> PySlice(buf.raw, offset, offset + hdr_len)])
          /\ cur_hdr_type' = buf.raw[offset + 1]
          /\ offset' = offset + 2
    /\ UNCHANGED <<buf, pc>>

\* offset never advanced past the record.
ReadRecordNoAdvance ==
    /\ pc = "loop" /\ cur_hdr_type # 0
    /\ Len(extension_hdrs) < ExtWalkFuel(buf.raw)
    /\ offset + 2 <= Len(buf.raw)
    /\ LET hdr_len == buf.raw[offset + 2]
       IN extension_hdrs' = Append(extension_hdrs,
              [cls |-> ExtClass(cur_hdr_type),
               raw |-> PySlice(buf.raw, offset, offset + hdr_len)])
    /\ cur_hdr_type' = buf.raw[offset + 1]
    /\ UNCHANGED <<buf, pc, offset>>

\* a short read reported as a generic error state.
ReadFailsGenericError ==
    /\ pc = "loop" /\ cur_hdr_type # 0
    /\ offset + 2 > Len(buf.raw)
    /\ pc' = "error"
    /\ UNCHANGED <<buf, offset, cur_hdr_type, extension_hdrs>>

\* One pass of the loop body.  The code has no bound; the model stops
\* after ExtWalkFuel passes, more than a walk that advances can make, so
\* a walk stopped there is one that would never end.
ReadRecord ==
    /\ pc = "loop"
    /\ cur_hdr_type # 0
    /\ Len(extension_hdrs) < ExtWalkFuel(buf.raw)
    /\ offset + 2 <= Len(buf.raw)
    /\ LET next_hdr_type == buf.raw[offset + 1]
           hdr_len == buf.raw[offset + 2]
       IN /\ extension_hdrs' =
                 Append(extension_hdrs,
                        [cls |-> ExtClass(cur_hdr_type),
                         raw |-> PySlice(buf.raw, offset, offset + hdr_len)])
          /\ cur_hdr_type' = next_hdr_type
          /\ offset' = offset + hdr_len
    /\ UNCHANGED <<buf, pc>>

\* bits.unpack of fewer than 16 bits raises.
ReadFails ==
    /\ pc = "loop"
    /\ cur_hdr_type # 0
    /\ offset + 2 > Len(buf.raw)
    /\ pc' = "ReadError"
    /\ UNCHANGED <<buf, offset, cur_hdr_type, extension_hdrs>>

\* The loop condition fails: the chain has ended.
LoopExit ==
    /\ pc = "loop"
    /\ cur_hdr_type = 0
    /\ pc' = "done"
    /\ UNCHANGED <<buf, offset, cur_hdr_type, extension_hdrs>>

Next == ReadRecord \/ ReadFails \/ LoopExit

\* The loop runs without interruption inside parse(): weak fairness.
Spec == Init /\ [][Next]_vars /\ WF_vars(Next)

---------------------------------------------------------------------------
(* Properties                                                              *)

TypeOK ==
    /\ buf \in Buffers
    /\ offset \in Nat
    /\ cur_hdr_type \in 0..255
    /\ extension_hdrs \in Seq([cls : {"ICN", "GENERIC"}, raw : Seq(0..255)])
    /\ pc \in {"loop", "done", "ReadError"}

\* A chain built from N records whose next types are t2, ..., tN, 0 parses
\* into exactly those N records in order (spec section 8).
ChainRecovered ==
    (pc = "done" /\ buf.chain # <<>>) => extension_hdrs = ChainExts(buf.chain)

\* The walk ends, with the chain or with the ReadError of a chain that runs
\* past the buffer (spec 4.2: walks of malformed chains must not go on).
Terminates == <>(pc # "loop")

=============================================================================
