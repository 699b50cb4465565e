---------------------------- MODULE MCA2SClient ----------------------------
(* Instances of A2SClient: two queries and a read buffer of two cells.      *)
(* Compression is left to MCCollect.                                        *)
EXTENDS A2SClient

NoInflate(s) == [ok |-> FALSE, out |-> <<>>]

NoChecksum(b) == 0

SameKind  == [q \in Queries |-> "info"]
MixedKind == [q \in Queries |-> IF q = 1 THEN "info" ELSE "rules"]

(* Queries of one kind are interchangeable when the context of none, or of  *)
(* each, may end.                                                           *)
Interchangeable == Permutations(Queries)

Form(size, split) == [size |-> size, split |-> split, nested |-> FALSE]

(* An answer in one datagram that is cut; in two of which the first is cut, *)
(* so that a hole is left; and in two that fit, with a split packet inside. *)
AllForms == {Form(3, 0), Form(4, 3), [Form(2, 1) EXCEPT !.nested = TRUE]}

InTwo == {Form(2, 1)}

(* What is in a socket that was used before: an answer of another host, and *)
(* an answer and a challenge of the target that came too late for the       *)
(* client that had it.                                                      *)
Datagrams(host, ms) == {[src |-> host, pkt |-> p] : p \in UNION {Packets(m) : m \in ms}}

NobodyBefore == {}

Before == {Message("info", TRUE, -1, Form(2, 0)), Message("challenge", TRUE, -2, Form(2, 0))}

Stranger == Datagrams("stranger", {Message("info", TRUE, 0, Form(2, 0))})

Leftovers == Stranger \cup Datagrams("target", Before)
=============================================================================
