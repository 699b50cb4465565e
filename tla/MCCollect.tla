----------------------------- MODULE MCCollect -----------------------------
(* Instance of Collect: an uncompressed response in three fragments, one    *)
(* compressed in two, one that declares more than MaxPlain, one whose       *)
(* checksum is wrong, two with a fragment larger than the read buffer, and  *)
(* datagrams that are none of these.                                        *)
EXTENDS Collect

(* Stand-ins for bzip2 and CRC-32: a stream is the body between a magic     *)
(* number and an end mark that depends on the body.                         *)
MCChecksum(b) == 1000 + SumFunction(b) + Len(b)

MCZip(b) == <<900>> \o b \o <<2000 + SumFunction(b)>>

MCInflate(s) ==
    LET out == SubSeq(s, 2, Len(s) - 1) IN
    IF Len(s) >= 2 /\ s = MCZip(out) THEN [ok |-> TRUE, out |-> out] ELSE [ok |-> FALSE, out |-> <<>>]

Zipped(size, sum, b) == <<size, sum>> \o MCZip(b)

(* A body cut into two fragments after its first n units.                   *)
Halves(b, n) == <<SubSeq(b, 1, n), SubSeq(b, n + 1, Len(b))>>

Id(k, z) == [n |-> k, zip |-> z]

Response(k, z, b, chunks) == [id |-> Id(k, z), split |-> 3, chunks |-> chunks, plain |-> b]

Packing(k, size, sum, b, n) == Response(k, TRUE, b, Halves(Zipped(size, sum, b), n))

Plain  == Response(1, FALSE, <<11, 12, 13, 14>>, <<<<11, 12>>, <<13>>, <<14>>>>)
Other  == Response(6, FALSE, <<61, 62, 63>>, <<<<61>>, <<62>>, <<63>>>>)
Packed == Packing(2, 2, MCChecksum(<<21, 22>>), <<21, 22>>, 3)
Bomb   == Packing(3, 5, MCChecksum(<<1, 2, 3, 4, 5>>), <<1, 2, 3, 4, 5>>, 4)
BadSum == Packing(4, 2, 7, <<21, 22>>, 4)
Tiny   == Response(5, TRUE, <<>>, <<<<1>>>>)

Wide   == Response(7, FALSE, <<71, 72, 73, 74, 75, 76, 77>>, <<<<71, 72, 73, 74, 75, 76>>, <<77>>>>)
Long   == Response(8, TRUE, <<81, 82, 83>>, <<Zipped(3, MCChecksum(<<81, 82, 83>>), <<81, 82, 83>>)>>)

MCResponses == {Plain, Other, Packed, Bomb, BadSum, Tiny, Wide, Long}

Forged(r, i, field) == [FragmentOf(r, i) EXCEPT ![field] = 9]

From(h, p) == [src |-> h, pkt |-> p]

MCStray ==
    {From("stranger", FragmentOf(Plain, 2)),
     From("target", Forged(Plain, 3, "total")),
     From("target", Forged(Plain, 3, "number")),
     From("target", Forged(Plain, 2, "split")),
     From("target", [FragmentOf(Plain, 1) EXCEPT !.total = 0]),
     From("target", [FragmentOf(Packed, 2) EXCEPT !.payload = <<7, 22, 2029>>]),
     From("target", [FragmentOf(Packed, 2) EXCEPT !.payload = <<21, 2021>>]),
     From("target", [FragmentOf(Packed, 2) EXCEPT !.hdr = FALSE]),
     From("target", [FragmentOf(Plain, 2) EXCEPT !.framed = FALSE])}
=============================================================================
