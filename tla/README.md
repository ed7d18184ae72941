# TLA+ models of the SCION packet codec (`src/lib/packet/scion.py`)

## The system

`scion.py` is the wire format of SCION packets. It has these parts:

| Part | Lines | State | Operations |
|---|---|---|---|
| `PacketType`, `SignatureType`, `IDSize` | 32-68 | constants | none |
| Type/address registry: `TYPES_SRC`, `TYPES_DST`, `get_addr_from_type`, `get_type` | 70-123 | read-only tables | lookup of a pseudo-address from a type; dispatch from a packet's addresses, source table first |
| `SCIONCommonHdr` | 126-201 | type (4 bits), src/dst address lengths (6 bits each), total_len (16), curr_iof_p, curr_of_p, next_hdr, hdr_len (8 each) | `from_values`, `parse`, `pack` |
| `SCIONHeader` | 204-424 | common header, two addresses, a path (or None), a list of extension headers | `from_values`, `parse` (path dispatch, extension walk), `pack`, pointer accessors, `increase_of`, `set_downpath`, `is_on_up_path`, `is_last_path_of`, `reverse`, `__len__` |
| `SCIONPacket` | 427-495 | header, payload, payload_len | `from_values`, `set_payload`, `parse`, `pack` |
| Control packets | 498-887 | a packet plus fixed-layout payload fields | `from_values`, `parse`, and `pack` for the IFID packets |

The collaborators it imports (`SCIONAddr`, the opaque fields, the path classes,
`ExtensionHeader`, `PacketBase`) are not in the repository. The models treat
them as the spec describes them:
- an address is the bytes it packs to;
- a path is one info opaque field (kind, up flag) followed by hop opaque fields, each 8 bytes;
- the Empty path packs to nothing;
- an extension header is its class and its raw record.

These definitions are marked `spec_modelled` in `PROJECT.json`. `PacketBase`'s
`payload` property is taken to assign through `set_payload`, since the spec
names it as the only way to change a payload.

How the parts interact:
- A packet owns a header, and the header owns a common header.
- `SCIONPacket.parse` calls `SCIONHeader.parse`, which calls `SCIONCommonHdr.parse`.
  It then dispatches on the first path byte and walks the extension chain.
- `pack` concatenates the parts in the same order.
- Control packets wrap `SCIONPacket` and get their addresses from the registry.
- Nothing runs concurrently. What makes the code hard is sequences of calls on
  one object, a buffer going through `pack` and then `parse`, and corrupt or
  truncated buffers.

What makes the parts correct:
- **Common header:** `pack` and `parse` agree on the bit layout, and every field fits its width.
- **Header:**
  - `hdr_len` covers the common header, the addresses and the path;
  - the pointers stay aligned to opaque fields;
  - `is_last_path_of` agrees with the path;
  - `reverse` keeps the length fields right;
  - parsing recovers the path and the extension chain.
- **Extension walk:** it ends, and it returns the chain's records in order.
- **Packet:** `total_len = len(hdr) + payload_len` holds through every call, and `parse(pack(p))` gives back `p`.
- **Control packets:** every field round-trips, and dispatch finds the packet's type.

## Modules

| Module | Models |
|---|---|
| `ScionCodec` | Pure operators for the common header (`CommonFromValues`, `CommonPack`, `CommonParse` using `Bitwise`), the header (`HeaderFromValues`, `HeaderPack`, `HeaderParse`, `ParsePath`), and the extension walk as the recursive `ExtWalk`. Buffers are byte sequences, and `PySlice` is Python slicing. Width checks are bitstring's `uintbe:w` range check. |
| `ScionPacket` | One `SCIONPacket` object and the buffer it is packed into. `Init` is `from_values`. The actions are `SetPayload`, `IncreaseOf`, `SetDownpath`, `ReverseHeader`, `Pack` and `Parse`. A hop holds the object and calls its methods in any order. It then packs the object, and the next hop parses the buffer into a new object. The ghost `sent` keeps the packed object. `exc` records the exception the last call raised. |
| `ExtChainLoop` | The extension `while` loop of `SCIONHeader.parse`, one pass per step (`ReadRecord`, `ReadFails`, `LoopExit`). It runs over buffers built from chains and over malformed buffers. |
| `ScionRegistry` | `PacketType` (`PT`), `TYPES_SRC`/`TYPES_DST`, `get_addr_from_type` (`GetAddrFromType`, `NoAddr` for the `KeyError`) and `get_type` (`GetType`: source table first, then destination table, else `DATA`). It also has the unsigned-integer byte codecs used by the payloads (`BEBytes`, `UIntBytes`, `BEValue`). An address is `SCIONAddrFromValues(isd, ad, host)`: 4 bytes of ISD/AD, then the host. `IPv4HostAddr(v)` has the byte order `HOST_INT_ORDER`. |
| `ControlPackets` | One control packet of any of the six classes. It extends `ScionPacket`, keeps its variables, and adds `cls`, `fields`, the ghost `ptype` (the type `from_values` looked up) and the ghost `sent_fields`. `CtrlInit` is the six `from_values`. Each is an operator (`IFIDRequestFromValues`, ...) that builds the header with the registry address and sets the payload through `set_payload`. `IFIDReply` leaves the payload empty. `CtrlPack` is `pack()`: the IFID classes first rewrite the payload with native `"HH"`. `CtrlParse` is the receiver constructing the same class from the buffer: `PacketParse`, then `Decode`. `Decode` is `struct.unpack("HH")`, which needs exactly 4 bytes, or `bits.unpack`, which needs the fixed prefix, while replies take the trailer from their `MIN_LEN`. A constructor that raises returns no object (`NoHdr`, `NoFields`). The formats are one operator per class's `parse` (`IFIDRequestFormat`, ...), gathered in `Layout`. The attributes each `__init__` sets are `CertChainRequestDefaults`, ... (`IFIDDefaults` is `NoFields`: the IFID ids are `None`). `CtrlReceiveEmpty` is the constructor on an empty buffer: `if raw:` skips `parse`, and the object keeps its defaults and no header. `CtrlPackUnset` is `pack()` on an object without a header: the IFID classes raise `struct.error` on their `None` ids, and the others raise `AttributeError` on `self.hdr.pack()`. |
| `PathAliasing` | Several headers and the path objects they refer to. `heap[id]` is a path object, and a header's path field holds an id. `from_values` stores the caller's object (line 236), so `Init` gives every header either its own object or one shared object (`ShareModes`). `IncreaseOf`, `SetDownpath` and `ReverseHeader` act on one packet's header and on the object it refers to, using `ScionPacket`'s operators through `INSTANCE`. `Reparse` packs a packet and parses the buffer into a fresh path object. The ghosts `orig` and `reversed` keep what `from_values` was given and the parity of `reverse()` calls. |
| `MCScionPacket`, `MCExtChainLoop`, `MCControlPackets`, `MCPathAliasing` | Model values and bounds. `MCScionPacket` also has a 30-hop path and the BEACON type for the width run. `MCControlPackets` has `CtrlParseCut`, which delivers the buffer without its last 1 or 2 bytes. |

## Runs

| Run | Expect | Shows |
|---|---|---|
| `packet_codec` | pass | Over every call sequence: `LengthConsistent`, `LastOfBoundary`, and `RoundTripModuloAddrSplit`. The last one says `parse(pack(p))` succeeds and gives back the pointers, lengths, path, extensions and payload, with the address bytes concatenated in the same order. About 240k states. |
| `round_trip_exact` | violation | Packing `src_addr_len` and `dst_addr_len` into opposite halves of the word (line 189 vs 180) splits the addresses wrongly when their lengths differ. |
| `reverse_stale_lens` | violation | `reverse()` swaps the addresses but not their length fields (line 405). |
| `ext_walk` | pass | For well-formed chains of 0-3 records (40 chains), the loop returns exactly the chain (`ChainRecovered`). It also ends on a missing successor and on an over-long record (`Terminates`). |
| `ext_walk_zero_length` | violation | A zero-length record with a nonzero next type loops forever (lines 293-305). |
| `control_codec` | pass | For every class, caller and field choice (444 initial objects, about 4k states, including the empty-buffer constructor and `pack` on an object without a header): `LengthConsistent` holds, `DispatchRecoversType` holds (get_type on the object finds the type its pseudo-address came from, before and after every parse), and `FieldsRoundTrip` holds (parsing a packed control packet gives back all its fields, `cert_chain`/`trc` included, over repeated hops). |
| `ifid_reply_payload_unset` | violation | `IFIDReply.from_values` returns a packet whose payload is empty (line 560), against spec 4.4. |
| `truncated_control` | violation | A `CertChainReply` that lost its last bytes is returned as parsed, with a shorter `cert_chain` (line 480): `parse` never checks `total_len`. |
| `path_aliasing` | pass | Two packets, each built from its own path object, with `increase_of`, `set_downpath`, `reverse` and pack/parse interleaved in any order (12.8k states). `PathFollowsOwnCalls` holds: each packet's addresses and hop order are what `from_values` gave it, swapped and reversed after an odd number of its own `reverse()` calls. Its up flag is the one `from_values` gave, cleared by its own `set_downpath()` and flipped by its own `reverse()`. The ghosts `reversed`, `orig` and `upflag` record these calls. |
| `shared_path_object` | violation | Two packets built from one path object. A `set_downpath()` (line 376) or `reverse()` (line 406) on one changes the up flag or hop order the other sees, with no call made on it. This is line 236 with either of those lines. The trace shows `set_downpath`. |
| `field_width` | violation | `from_values` takes a 30-hop path (`hdr_len` 264) or the BEACON type 101, and `pack()` raises (`PackNotRaised`, lines 189-193): `hdr_len` is 8 bits, the type 4. The trace shows the `hdr_len` case. |
| `reverse_no_path` | violation | `reverse()` without a path swaps the addresses, then raises `AttributeError` (lines 405-406): the header is left half reversed (`ReverseAtomic`). |

Bounds (`MCScionPacket`):
- addresses of 4 and 8 bytes (two distinct 4-byte ones);
- packet types 0 and 5;
- paths: no path, the Empty path, a 2-hop Core path, and a 1-hop PeerLink path;
- extension chains of 0, 1 and 2 records, including an ICN one;
- payloads of 0 and 3 bytes;
- `increase_of` by 1 or 2, with the pointer allowed at most one OF past the path.

These bounds are enough because they cover:
- the length-difference case;
- every path dispatch branch used by construction;
- extension lengths in `len(hdr)`;
- a pointer at, before and past the last OF;
- reversal of a path and of no path.

Bounds (`MCPathAliasing`):
- two packets, two 4-byte addresses (one length, so the address split of `parse` stays out of the way);
- a 2-hop Core path and a 1-hop PeerLink path;
- `increase_of` by 1.

Two packets are enough for aliasing: the hazard needs one packet that mutates the shared object and one that observes it. The run `path_aliasing` has only separate objects. `shared_path_object` adds the shared one.

Bounds of the width run: one 30-hop Core path, past the 29 hops at which the header first exceeds 255 bytes with 4-byte addresses (8 + 4 + 4 + 8 + 29 * 8 = 256), and the types DATA and BEACON.

Bounds (`MCControlPackets`):
- two callers with IPv4 hosts in different ADs;
- integer fields 258 and 65535. 258 is `0x0102`, whose two byte orders differ. 65535 has the top bit set, which separates `uintbe` from `intbe`;
- trailers of 0 and 2 bytes;
- `req_type` both values the docstrings allow.

Every combination of field values is enumerated, so a swap of two fields of the same width shows. The control runs use `HOST_INT_ORDER = "little"`, the order in which the table values read as the addresses 10.224.0.x. `NATIVE_ORDER = "little"` is the byte order of x86 and ARM builds. TLC integers are 32-bit, so field values stay below 2^31. The 64-bit fields are therefore never near their width limit.

Lengths are kept at their real values: an OF is 8 bytes and the common header is 8 bytes.

`ExtChainLoop` stops a walk after `Len(raw)+1` passes, named `ExtWalkFuel`. A walk that advances cannot need more passes, so a walk stopped there never ends.

Fairness: `ExtChainLoop` is weakly fair. The loop runs without interruption inside `parse()`, so each enabled pass happens. `ScionPacket` has no liveness property: its calls are made by callers outside this file.

Every property of a passing run has a mutant in `PROJECT.json`, and the mutant breaks it. The mutant operators are defined in the modules, just before the definition they replace.

## Not modelled, and why

- `__str__` methods: formatting only.
- Nested packet payloads: the payload is bytes.
- Attribute assignments to control-packet fields after `from_values`: they are not methods of this file. For the `bitstring` classes, such an assignment is not reflected in the payload.
- Requests sent from a pseudo-address: no code of this file builds one. `get_type` would dispatch such a request by the source table (line 119).
- Some disagreements of the code with the spec are not checked by any run. They are read directly off the code:
  - `is_on_up_path()` returns `None` with no info field (line 391);
  - a buffer of 8 to 15 bytes makes `SCIONPacket.parse` raise `AttributeError` (line 479);
  - the IFID packets use struct's native `"HH"` instead of the spec's big-endian layout (line 528);
  - `get_type` misreads an IPv6 host address (line 117).

  - `parse()` of a buffer with an unknown path type leaves the path `None` but keeps `hdr_len`, which counts the path bytes (line 286). A re-pack then emits fewer bytes than `hdr_len` says. The runs parse only buffers that `pack()` produced.

  The runs are spent on the multi-step and interleaving hazards. The project is at its limit of twelve runs.
- An abstract specification with a refinement check: the component's promises are single-object codec laws, checked directly as invariants (`RoundTripModuloAddrSplit`, `ChainRecovered`, `PathFollowsOwnCalls`). An abstract spec built from the same operators would hold by construction.
- Paths with more than one info field: a CrossOver or PeerLink path has several segments, but the model's path has one info field. Path reversal follows the spec only, because the path code is not in the repository.

## Plan

Sitting 1:
- `ScionCodec`, `ScionPacket` and `ExtChainLoop`, with their runs.

Sitting 2:
- `ScionRegistry`, `ControlPackets` and `MCControlPackets`, with the control runs.
- Truncated delivery is checked on control packets (`truncated_control`).

Sitting 3:
- `PathAliasing` and `MCPathAliasing` (`path_aliasing`, `shared_path_object`).
- `PackNotRaised` (`field_width`) and `ReverseAtomic` (`reverse_no_path`).
- The control-packet constructors on an empty buffer, the per-class formats and defaults, and `pack` without a header.

Sitting 4:
- The up flag of `set_downpath` and `reverse` in `PathFollowsOwnCalls`, which now covers `set_downpath` on a shared object.
- Hazards: `set_downpath` in place (line 376), and an unknown path type in `parse` (line 286).

Sitting 5:
- `ExtChainAbs` and `IndependentHeaders` were removed. Each was built from the same operators as the model it abstracted, so its refinement held whatever the code does. In the separate-object run, every action writes only its own packet's state.
- The hazard lists name only properties whose runs can break on them. The `field_width` threshold is corrected.

Next sittings, in order:
1. `increase_of` past 255 on a long path (`curr_of_p` is 8 bits); this needs a bound on the pointer's growth instead of the path-end guard.
