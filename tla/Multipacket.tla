---------------------------- MODULE Multipacket ----------------------------
(* internal/multipacket: what Collect does with the fragments of a split    *)
(* response, as operators on one parsed fragment and on one collection.     *)
(*                                                                          *)
(* A fragment is a record                                                   *)
(*    [framed, hdr, id, total, number, split, payload]                      *)
(* framed: it starts with the split signature (-2); hdr: all of its header  *)
(* fields are present; id = [n, zip], zip being the top bit of the id that  *)
(* marks a compressed response; payload: the bytes after the header, here a *)
(* sequence of units (one unit stands for a run of bytes).                  *)
(*                                                                          *)
(* A collection is the local state of one Collect call: the header of the   *)
(* first fragment, the slots filled so far and the count of them.           *)
EXTENDS Integers, FiniteSets, SequencesExt

CONSTANTS
    MaxPlain,       \* maxDecompressedPayloadSize, in payload units
    Room,           \* payload units of a datagram that fit maxPacketSize
    Inflate(_),     \* compress/bzip2: [ok, out] for one stream
    Checksum(_)     \* hash/crc32: the checksum of a decompressed body

ASSUME MaxPlainAssumption == MaxPlain \in Nat
-----------------------------------------------------------------------------
(* conn.Read fills a buffer of maxPacketSize; the rest of the datagram is   *)
(* gone, without an error.                                                  *)
Cut(payload) == IF Len(payload) > Room THEN SubSeq(payload, 1, Room) ELSE payload

AsRead(p) == [p EXCEPT !.payload = Cut(@)]

(* parseHeader: the error for a datagram, or "none". *)
ParseError(p) ==
    IF ~p.framed THEN "packet_header"
    ELSE IF ~p.hdr \/ p.payload = <<>> THEN "multi_packet" ELSE "none"

(* The collection Collect builds from its first fragment: no slot filled.   *)
Opened(p) ==
    [id |-> p.id, total |-> p.total, split |-> p.split,
     parts |-> <<>>, received |-> 0]

(* Faulty variant: the id is not compared. *)
CompatibleAnyId(c, p) ==
    /\ p.total = c.total
    /\ p.split = c.split

(* validateCompatible: a later fragment repeats the first one's header.     *)
Compatible(c, p) ==
    /\ p.id = c.id
    /\ p.total = c.total
    /\ p.split = c.split

(* Faulty variants: the bound is off by one; a taken slot is filled again;  *)
(* the last slot is refused.                                                *)
PlaceableBeyond(c, p) ==
    /\ p.number <= c.total
    /\ p.number \notin DOMAIN c.parts

PlaceableTwice(c, p) == p.number < c.total

PlaceableButLast(c, p) ==
    /\ p.number + 1 < c.total
    /\ p.number \notin DOMAIN c.parts

(* The two refusals of the loop body: slot out of bounds, slot taken.       *)
Placeable(c, p) ==
    /\ p.number < c.total
    /\ p.number \notin DOMAIN c.parts

(* Why Collect stops at fragment p, or "none" when it stores it.            *)
Refusal(c, p) ==
    IF ParseError(p) # "none" THEN ParseError(p)
    ELSE IF Compatible(c, p) /\ Placeable(c, p) THEN "none" ELSE "multi_packet"

Stored(c, p) ==
    [id |-> c.id, total |-> c.total, split |-> c.split,
     parts |-> [i \in DOMAIN c.parts \cup {p.number} |->
                   IF i = p.number THEN p.payload ELSE c.parts[i]],
     received |-> c.received + 1]

Complete(c) == c.received = c.total

(* The payloads copied one after the other in slot order.                   *)
Reassembled(c) == FlattenSeq([i \in 1 .. c.total |-> c.parts[i - 1]])

(* A slot that was never filled is a nil pointer in that copy.              *)
NilSlot(c) == DOMAIN c.parts # 0 .. c.total - 1
-----------------------------------------------------------------------------
Answer(data) == [err |-> "none", data |-> data]
Failure(e)   == [err |-> e, data |-> <<>>]

(* readBzip2: the declared size is limited before anything is inflated, and *)
(* must be exactly what the stream yields.                                  *)
Inflated(stream, size) ==
    /\ size <= MaxPlain
    /\ Inflate(stream).ok
    /\ Len(Inflate(stream).out) = size

(* Faulty variant: the checksum is not compared. *)
UnpackedUnchecked(zip, body) ==
    LET stream == SubSeq(body, 3, Len(body)) IN
    IF ~zip THEN Answer(body)
    ELSE IF Len(body) >= 2 /\ Inflated(stream, body[1])
      THEN Answer(Inflate(stream).out)
      ELSE Failure("multi_packet")

(* The tail of Collect: a compressed body is a size, a checksum and a       *)
(* stream; an uncompressed one is returned as it is.                        *)
Unpacked(zip, body) ==
    LET stream == SubSeq(body, 3, Len(body)) IN
    IF ~zip THEN Answer(body)
    ELSE IF /\ Len(body) >= 2 /\ Inflated(stream, body[1])
            /\ Checksum(Inflate(stream).out) = body[2]
      THEN Answer(Inflate(stream).out)
      ELSE Failure("multi_packet")

(* What a complete collection returns.                                      *)
Outcome(c) == IF NilSlot(c) THEN Failure("panic") ELSE Unpacked(c.id.zip, Reassembled(c))
=============================================================================
