----------------------------- MODULE PathAliasing -----------------------------
(***************************************************************************)
(* Path objects shared between headers.  SCIONHeader.from_values stores    *)
(* the path object it is given (hdr.path = path), and reverse() and        *)
(* set_downpath() change that object in place (self.path.reverse(),        *)
(* iof.up_flag = False).  A caller that builds several packets from one    *)
(* path object therefore gets headers that share it.  parse() builds a     *)
(* fresh path from the buffer.                                             *)
(*                                                                         *)
(* The paths are a heap: heap[id] is the path object id, and a header's    *)
(* path field holds the id it refers to.  The header operations are those  *)
(* of ScionPacket, acting on the header of one packet and on the object    *)
(* its path field refers to.                                               *)
(***************************************************************************)
EXTENDS ScionCodec

CONSTANTS
    Pkts,        \* the packets (headers) a caller holds
    Addrs,       \* addresses, all of one length
    Paths,       \* the paths passed to from_values (none of them NoPath)
    Advances,    \* numbers passed to increase_of
    ShareModes   \* TRUE: from_values got one path object for all packets

VARIABLES
    heap,        \* heap[id]: the path object id
    hdrs,        \* hdrs[p]: the header of p, its path field an id of heap
    actor,       \* the packet of the last call
    reversed,    \* ghost: reversed[p] is TRUE after an odd number of reverse()
    orig,        \* ghost: orig[p] is the src, dst and hops from_values gave p
    upflag       \* ghost: upflag[p] is the up flag p's own calls give its path

avars == <<heap, hdrs, actor, reversed, orig, upflag>>

SharedId == "shared"

PathIds == Pkts \cup {SharedId}

\* The operators of ScionPacket on a header value; its state is not used.
SP == INSTANCE ScionPacket WITH PktTypes <- {}, ExtChains <- {}, Payloads <- {},
          hdr <- {}, payload <- {}, payload_len <- {}, parsed <- {},
          exc <- {}, wire <- {}, sent <- {}

\* The header of p as a value, with the path object in place of its id.
View(p) == [hdrs[p] EXCEPT !.path = heap[hdrs[p].path]]

---------------------------------------------------------------------------

\* SCIONHeader.from_values(src, dst, DATA, path) for every packet; the path
\* object is one for all packets, or one per packet.
Init ==
    \E share \in ShareModes, path \in Paths :
    \E src \in [Pkts -> Addrs], dst \in [Pkts -> Addrs] :
      LET id(p) == IF share THEN SharedId ELSE p
      IN /\ heap = [i \in PathIds |-> path]
         /\ hdrs = [p \in Pkts |->
                      [HeaderFromValues(src[p], dst[p], 0, path, <<>>, 0)
                          EXCEPT !.path = id(p)]]
         /\ actor = CHOOSE p \in Pkts : TRUE
         /\ reversed = [p \in Pkts |-> FALSE]
         /\ orig = [p \in Pkts |-> [src |-> src[p], dst |-> dst[p],
                                    hops |-> path.hops]]
         /\ upflag = [p \in Pkts |-> path.up]

\* Mutant: increase_of moving the pointer backwards.
IncreaseOfBack(p) ==
    /\ \E n \in Advances :
         /\ SP!OfIndex(View(p)) + n <= SP!NumOFs(heap[hdrs[p].path])
         /\ hdrs' = [hdrs EXCEPT ![p].common.curr_of_p = @ - n * OF_LEN]
    /\ actor' = p
    /\ UNCHANGED <<heap, reversed, orig, upflag>>

\* increase_of(number) on p's header (bounded as in ScionPacket).
IncreaseOf(p) ==
    /\ \E n \in Advances :
         /\ SP!OfIndex(View(p)) + n <= SP!NumOFs(heap[hdrs[p].path])
         /\ hdrs' = [hdrs EXCEPT ![p].common.curr_of_p = @ + n * OF_LEN]
    /\ actor' = p
    /\ UNCHANGED <<heap, reversed, orig, upflag>>

\* set_downpath(): clears the up flag of the info OF of p's path object.
SetDownpath(p) ==
    /\ LET iof == SP!GetCurrentIof(View(p))
           set == iof # NoOF /\ iof.iof
       IN /\ heap' = IF set THEN [heap EXCEPT ![hdrs[p].path].up = FALSE]
                    ELSE heap
          /\ upflag' = IF set THEN [upflag EXCEPT ![p] = FALSE] ELSE upflag
    /\ actor' = p
    /\ UNCHANGED <<hdrs, reversed, orig>>

\* Mutant: reverse() that swaps the addresses but leaves the path.
ReverseHeaderKeepPath(p) ==
    /\ hdrs' = [hdrs EXCEPT ![p].src = hdrs[p].dst, ![p].dst = hdrs[p].src,
                            ![p].common.curr_of_p = SP!PathStart(hdrs[p]),
                            ![p].common.curr_iof_p = SP!PathStart(hdrs[p])]
    /\ heap' = heap
    /\ actor' = p
    /\ reversed' = [reversed EXCEPT ![p] = ~@]
    /\ upflag' = [upflag EXCEPT ![p] = IF heap[hdrs[p].path].kind = "EMPTY"
                                      THEN @ ELSE ~@]
    /\ UNCHANGED orig

\* reverse(): swaps p's addresses, reverses p's path object in place and
\* resets p's pointers.
ReverseHeader(p) ==
    /\ hdrs' = [hdrs EXCEPT ![p].src = hdrs[p].dst, ![p].dst = hdrs[p].src,
                            ![p].common.curr_of_p = SP!PathStart(hdrs[p]),
                            ![p].common.curr_iof_p = SP!PathStart(hdrs[p])]
    /\ heap' = [heap EXCEPT ![hdrs[p].path] = PathReverse(@)]
    /\ actor' = p
    /\ reversed' = [reversed EXCEPT ![p] = ~@]
    /\ upflag' = [upflag EXCEPT ![p] = IF heap[hdrs[p].path].kind = "EMPTY"
                                      THEN @ ELSE ~@]
    /\ UNCHANGED orig

\* The packet is packed and the buffer parsed into p's header: parse()
\* builds a new path object, which p alone refers to.
Reparse(p) ==
    /\ HeaderPackable(View(p))
    /\ \E o \in {SP!PacketParse(HeaderPack(View(p)))} :
          /\ o.exc = "none"
          /\ heap' = [heap EXCEPT ![p] = o.hdr.path]
          /\ hdrs' = [hdrs EXCEPT ![p] = [o.hdr EXCEPT !.path = p]]
    /\ actor' = p
    /\ UNCHANGED <<reversed, orig, upflag>>

Next ==
    \E p \in Pkts :
        \/ IncreaseOf(p)
        \/ SetDownpath(p)
        \/ ReverseHeader(p)
        \/ Reparse(p)

Spec == Init /\ [][Next]_avars

---------------------------------------------------------------------------
(* Properties                                                              *)

\* Type invariant: every header refers to a path object of the heap, and
\* its OF pointers (one byte each on the wire) stay in 0..255.
AliasTypeOK ==
    /\ heap \in [PathIds -> [kind : PathKinds, up : BOOLEAN, hops : Seq(0..255)]]
    /\ \A p \in Pkts : /\ hdrs[p].path \in PathIds
                      /\ hdrs[p].common.curr_of_p \in 0..255
                      /\ hdrs[p].common.curr_iof_p \in 0..255
    /\ actor \in Pkts
    /\ reversed \in [Pkts -> BOOLEAN]
    /\ upflag \in [Pkts -> BOOLEAN]

\* Spec sections 5 and 8: each packet's header is changed only by the calls
\* made on it.  Its addresses and hop order are those from_values gave it,
\* swapped and reversed when reverse() was called on it an odd number of
\* times, and as given after an even number (reverse(reverse(h)) restores
\* h); its up flag is the one from_values gave it, cleared by its own
\* set_downpath() and flipped by its own reverse().  This holds whatever
\* is done to the other packets, pack and parse included.
PathFollowsOwnCalls ==
    \A p \in Pkts :
        LET h == View(p)
        IN IF reversed[p]
           THEN /\ h.src = orig[p].dst /\ h.dst = orig[p].src
                /\ h.path.hops = Reverse(orig[p].hops)
           ELSE /\ h.src = orig[p].src /\ h.dst = orig[p].dst
                /\ h.path.hops = orig[p].hops
        /\ h.path.up = upflag[p]

=============================================================================
