----------------------------- MODULE MCScanner -----------------------------
(* An instance of Scanner: two workers, three inputs.                       *)
EXTENDS Scanner

(* A discovery channel brings an error between two servers.                 *)
ThreeServers == <<"server", "error", "server">>

Call(sources) == [nilClient |-> FALSE, sources |-> sources, parses |-> TRUE]

(* TestProbeRejectsInvalidInputShape, TestProbeWithInvalidStringAddress-    *)
(* FailsFast, and the three shapes that are accepted.                       *)
AllRequests ==
    {Call({"servers"}), Call({"addresses"}), Call({"discovery"}),
     [Call({"addresses"}) EXCEPT !.parses = FALSE],
     Call({}), Call({"servers", "discovery"}), [Call({"servers"}) EXCEPT !.nilClient = TRUE]}
=============================================================================
