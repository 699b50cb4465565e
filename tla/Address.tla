------------------------------ MODULE Address ------------------------------
(* What a string like host[:port] becomes: normalizeAddress of the a2s and  *)
(* the master client (client.go:286-313, master/client.go:198-225), the     *)
(* scanner's ParseAddress (scanner/addresses.go:33-66), and the address     *)
(* they take a server's ServerAddr back from (master/types.go:47-53).       *)
(*                                                                          *)
(* A text is what is left after TrimSpace: a host, the number of brackets   *)
(* around it, and what follows the last colon.                              *)
EXTENDS Integers, Sequences

CONSTANTS
    V4,      \* numeric IPv4 hosts
    V6,      \* numeric IPv6 hosts: the ones with colons
    Names,   \* host names
    Ports    \* numeric ports

(* An "empty" host is a text that begins with its colon, an "empty" port a  *)
(* colon with nothing behind it; "absent" : no colon; "bad" : a port that   *)
(* is no number of 16 bits.                                                 *)
Texts == [host : V4 \cup V6 \cup Names \cup {"empty"}, brackets : 0 .. 1,
          port : Ports \cup {"empty", "absent", "bad"}]

(* A UDP address; "nil" : no IP.                                            *)
Targets == [ip : V4 \cup V6 \cup {"nil"}, port : Ports]

NoTarget == [ip |-> "none", port |-> "none"]

ASSUME AddressAssumption ==
    /\ V4 \subseteq STRING /\ V6 \subseteq STRING /\ Names \subseteq STRING
    /\ "0.0.0.0" \in V4
    /\ V4 \cap V6 = {} /\ Names \cap (V4 \cup V6) = {}
    /\ {"empty", "none", "nil"} \cap (V4 \cup V6 \cup Names) = {}
    /\ Ports \subseteq STRING /\ {"27015", "27011"} \subseteq Ports
    /\ {"empty", "absent", "bad", "none"} \cap Ports = {}
-----------------------------------------------------------------------------
(* net.SplitHostPort, JoinHostPort and ResolveUDPAddr.                      *)
SplitHostPort(text) ==
    [err |-> IF text.host \in V6 /\ text.brackets = 0 THEN "too many colons"
             ELSE IF text.port = "absent" \/ text.brackets = 2 THEN "missing port"
             ELSE "none",
     host |-> text.host, port |-> text.port]

(* A host with a colon, bracketed or not, gets brackets.                    *)
JoinHostPort(text, port) ==
    [text EXCEPT !.brackets = IF text.host \in V6 THEN @ + 1 ELSE @, !.port = port]

Bare(host) == [host |-> host, brackets |-> 0, port |-> "absent"]

(* dns: the host each name stands for, or "none".                           *)
ResolveUDPAddr(network, text, dns) ==
    LET parts == SplitHostPort(text)
        ip == IF parts.host = "empty" THEN "nil"
              ELSE IF parts.host \in Names THEN dns[parts.host]
              ELSE parts.host
    IN  IF \/ parts.err # "none" \/ parts.port = "bad" \/ ip = "none"
           \/ network = "udp4" /\ ip \in V6
        THEN NoTarget
        ELSE [ip |-> ip, port |-> parts.port]
-----------------------------------------------------------------------------
(* Whether the text is refused before it is resolved, and else what is.     *)
Refuses(text) ==
    \/ text = Bare("empty")
    \/ SplitHostPort(text).err = "too many colons"
    \/ SplitHostPort(text).err = "none" /\ text.host = "empty"

WithPort(text, default) ==
    IF SplitHostPort(text).err = "missing port" THEN JoinHostPort(text, default)
    ELSE IF text.port = "empty" THEN JoinHostPort(Bare(text.host), default)
    ELSE text

NormalizeAddress(text, default, dns) ==
    IF Refuses(text) THEN NoTarget
    ELSE ResolveUDPAddr("udp", WithPort(text, default), dns)

ParseAddress(text, dns) ==
    LET found == IF Refuses(text) THEN NoTarget
                 ELSE ResolveUDPAddr("udp4", WithPort(text, "27015"), dns)
    IN  IF found.ip \in V4 THEN found ELSE NoTarget

(* ServerAddr.String: what is no IPv4 address is written as 0.0.0.0.        *)
AddrString(server) ==
    [host |-> IF server.ip \in V4 THEN server.ip ELSE "0.0.0.0",
     brackets |-> 0, port |-> server.port]

(* cloneServer of scanner/types.go: only an IPv4 address is kept.           *)
CloneServer(server) ==
    [ip |-> IF server.ip \in V4 THEN server.ip ELSE "nil", port |-> server.port]
=============================================================================
