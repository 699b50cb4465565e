--------------------------- MODULE MCMasterClient ---------------------------
(* Instances of MasterClient: callers 1, 2 and 3 with overlapping lists.    *)
EXTENDS MasterClient

MCList == [p \in Callers |-> IF p = 1 THEN <<"a", "b", "c">> ELSE <<"b">>]

(* All start at the beginning but caller 3, whose discovery is over.        *)
MCFrom == [p \in Callers |-> IF p = 3 THEN Terminal ELSE Start]

(* Caller 1 goes on behind the first server.                                *)
MCFromMiddle == [p \in Callers |-> IF p = 1 THEN NextCursor(Start, <<"a">>) ELSE Start]
=============================================================================
