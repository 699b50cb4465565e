---------------------------- MODULE MCSharedConn ----------------------------
(* An instance of SharedConn: two clients that ask the same server, with    *)
(* different timeouts; the context of the second ends before its timeout    *)
(* when both are called at once.                                            *)
EXTENDS SharedConn

CONSTANTS q1, q2

Pair == {q1, q2}

OneTarget == [q \in Pair |-> "a"]

PairTimeout == [q \in Pair |-> IF q = q1 THEN 1 ELSE 2]

PairContext == [q \in Pair |-> IF q = q1 THEN 9 ELSE 3]
=============================================================================
