------------------------------- MODULE Setup -------------------------------
(* From options and address strings to clients: the constructors of the     *)
(* three packages (client.go:35-97, master/client.go:29-56, scanner/        *)
(* client.go:23-39) with their options, then what a scanner makes of its    *)
(* batch: ParseAddresses (scanner/addresses.go:17-27) and one a2s client    *)
(* per server (scanner/client.go:239-246). Host names may change their      *)
(* meaning at any moment.                                                   *)
EXTENDS Address

CONSTANTS
    Calls,        \* a constructor's arguments, and for a scanner the batch it is
                  \* given then: texts, or ServerAddr values
    Resolutions,  \* what the names may stand for
    MaxChanges,   \* how often that may change
    MayFailDial

Pkgs == {"a2s", "shared", "master", "scanner"}

(* Options by the field they set; "nil" is a nil Option.                    *)
Options == [field : {"timeout", "size", "concurrency", "base", "nil"}, n : Int, addr : Texts]

ASSUME SetupAssumption ==
    /\ Calls \subseteq [pkg : Pkgs, options : Seq(Options), address : Texts, conn : BOOLEAN,
                        texts : Seq(Texts), servers : Seq(Targets)]
    /\ Resolutions \subseteq [Names -> V4 \cup V6 \cup {"none"}]
    /\ MaxChanges \in Nat /\ MayFailDial \in BOOLEAN

VARIABLES
    call,     \* which constructor is called, with what
    dns,      \* what the names stand for now
    changes,  \* how often that has changed
    stage,    \* "options" | "address" | "dial" | "made" | "refused" |
              \* "parse" | "probe" | "rejected" | "finished"
    at,       \* index of the next option, text or server
    cfg,      \* clientConfig
    target,   \* the resolved address
    socket,   \* "none" | "open" (its own) | "lent" (the caller's, open) | "closed"
    servers,  \* what ParseAddresses has so far, or the servers given
    probes    \* per server: the a2s client's target and the server reported

vars == <<call, dns, changes, stage, at, cfg, target, socket, servers, probes>>

DefaultConfig(pkg) ==
    [timeout |-> 3000,
     size |-> IF pkg = "master" THEN 1400 ELSE 4096,
     concurrency |-> 32,
     base |-> [host |-> "hl2master", brackets |-> 0, port |-> "27011"]]

Init ==
    /\ call \in Calls
    /\ dns \in Resolutions
    /\ changes = 0
    /\ stage = "options"
    /\ at = 1
    /\ cfg = DefaultConfig(call.pkg)
    /\ target = NoTarget
    /\ socket = IF call.pkg = "shared" /\ call.conn THEN "lent" ELSE "none"
    /\ servers = <<>>
    /\ probes = <<>>
-----------------------------------------------------------------------------
(* Faulty variant: the limit the a2s option's message names. *)
MinPacketSizeAsTold(pkg) == CASE pkg = "master" -> 64 [] pkg = "scanner" -> 512 [] OTHER -> 1024

MinPacketSize(pkg) == IF pkg = "master" THEN 64 ELSE 1024

(* The With functions: what they accept, and what they set.                 *)
Valid(pkg, option) ==
    CASE option.field = "timeout" -> option.n > 0
      [] option.field = "size" -> option.n >= MinPacketSize(pkg)
      [] option.field = "concurrency" -> option.n > 0
      [] option.field = "base" -> TRUE
      [] option.field = "nil" -> FALSE

Set(config, option) ==
    IF option.field = "base" THEN [config EXCEPT !.base = option.addr]
    ELSE [config EXCEPT ![option.field] = option.n]

ConnMissing == call.pkg = "shared" /\ ~call.conn

RefuseConn ==
    /\ stage = "options" /\ ConnMissing
    /\ stage' = "refused"
    /\ UNCHANGED <<call, dns, changes, at, cfg, target, socket, servers, probes>>

ApplyOption ==
    /\ stage = "options" /\ ~ConnMissing
    /\ at <= Len(call.options)
    /\ IF Valid(call.pkg, call.options[at])
       THEN cfg' = Set(cfg, call.options[at]) /\ at' = at + 1 /\ UNCHANGED stage
       ELSE stage' = "refused" /\ UNCHANGED <<cfg, at>>
    /\ UNCHANGED <<call, dns, changes, target, socket, servers, probes>>

(* The loop over the options ends.                                          *)
OptionsDone ==
    /\ stage = "options" /\ ~ConnMissing
    /\ at > Len(call.options)
    /\ stage' = IF call.pkg = "scanner" THEN "made" ELSE "address"
    /\ UNCHANGED <<call, dns, changes, at, cfg, target, socket, servers, probes>>

OwnAddress == IF call.pkg = "master" THEN cfg.base ELSE call.address

DefaultPort == IF call.pkg = "master" THEN "27011" ELSE "27015"

(* Faulty variant: a refused address closes the socket at hand, the         *)
(* caller's too.                                                            *)
NormalizeCloses ==
    /\ stage = "address"
    /\ target' = NormalizeAddress(OwnAddress, DefaultPort, dns)
    /\ stage' = IF target' = NoTarget THEN "refused"
                ELSE IF call.pkg = "shared" THEN "made" ELSE "dial"
    /\ socket' = IF stage' = "refused" /\ socket = "lent" THEN "closed" ELSE socket
    /\ UNCHANGED <<call, dns, changes, at, cfg, servers, probes>>

Normalize ==
    /\ stage = "address"
    /\ target' = NormalizeAddress(OwnAddress, DefaultPort, dns)
    /\ stage' = IF target' = NoTarget THEN "refused"
                ELSE IF call.pkg = "shared" THEN "made" ELSE "dial"
    /\ UNCHANGED <<call, dns, changes, at, cfg, socket, servers, probes>>

Dial ==
    /\ stage = "dial"
    /\ \/ stage' = "made" /\ socket' = "open"
       \/ MayFailDial /\ stage' = "refused" /\ UNCHANGED socket
    /\ UNCHANGED <<call, dns, changes, at, cfg, target, servers, probes>>
-----------------------------------------------------------------------------
(* The scanner is called with its call.                                    *)
StartBatch ==
    /\ stage = "made" /\ call.pkg = "scanner"
    /\ at' = 1
    /\ IF call.servers = <<>>
       THEN stage' = "parse" /\ UNCHANGED servers
       ELSE stage' = "probe" /\ servers' = call.servers
    /\ UNCHANGED <<call, dns, changes, cfg, target, socket, probes>>

(* ParseAddresses: one address, or its end.                                 *)
ParseNext ==
    /\ stage = "parse"
    /\ IF at > Len(call.texts)
       THEN stage' = "probe" /\ at' = 1 /\ UNCHANGED servers
       ELSE LET found == ParseAddress(call.texts[at], dns)
            IN  IF found = NoTarget
                THEN stage' = "rejected" /\ servers' = <<>> /\ UNCHANGED at
                ELSE servers' = Append(servers, found) /\ at' = at + 1 /\ UNCHANGED stage
    /\ UNCHANGED <<call, dns, changes, cfg, target, socket, probes>>

(* Faulty variant: the probe goes by the text it was given. *)
ProbeTargetAgain(server) ==
    IF call.servers = <<>> THEN NormalizeAddress(call.texts[at], "27015", dns)
    ELSE NormalizeAddress(AddrString(server), "27015", dns)

(* newA2SClient: the a2s constructor with the scanner's two settings.       *)
ProbeTarget(server) ==
    IF cfg.timeout > 0 /\ cfg.size >= MinPacketSize("shared")
    THEN NormalizeAddress(AddrString(server), "27015", dns)
    ELSE NoTarget

MakeProbeClient ==
    /\ stage = "probe"
    /\ IF at > Len(servers)
       THEN stage' = "finished" /\ UNCHANGED <<at, probes>>
       ELSE /\ probes' = Append(probes, [target |-> ProbeTarget(servers[at]),
                                         reported |-> CloneServer(servers[at])])
            /\ at' = at + 1
            /\ UNCHANGED stage
    /\ UNCHANGED <<call, dns, changes, cfg, target, socket, servers>>

DnsChanges ==
    /\ changes < MaxChanges
    /\ stage \notin {"refused", "rejected", "finished"}
    /\ dns' \in Resolutions \ {dns}
    /\ changes' = changes + 1
    /\ UNCHANGED <<call, stage, at, cfg, target, socket, servers, probes>>

Finished ==
    /\ stage \in {"refused", "rejected", "finished"} \/ (stage = "made" /\ call.pkg # "scanner")
    /\ UNCHANGED vars

Next ==
    \/ RefuseConn \/ ApplyOption \/ OptionsDone \/ Normalize \/ Dial
    \/ StartBatch \/ ParseNext \/ MakeProbeClient
    \/ DnsChanges \/ Finished

Spec == Init /\ [][Next]_vars
-----------------------------------------------------------------------------
(* A constructor that fails leaves no socket of its own, and the one it was *)
(* lent as open as it was; one that succeeds has exactly the one it is to   *)
(* use (client.go:35-64, 67-97; master/client.go:29-56).                    *)
FailureLeavesNoSocket ==
    /\ stage = "refused" => socket = IF call.pkg = "shared" /\ call.conn THEN "lent" ELSE "none"
    /\ stage = "made" => socket = CASE call.pkg = "scanner" -> "none"
                                    [] call.pkg = "shared" -> "lent"
                                    [] OTHER -> "open"

(* A scanner that could be made can make its a2s client for every server:   *)
(* what the scanner's options and ParseAddress let through is accepted by   *)
(* the a2s package too (scanner/client.go:239-246).                         *)
ProbeClientsAreMade == \A i \in DOMAIN probes : probes[i].target # NoTarget

(* The target of a probe is the server its result names; a server parsed    *)
(* from a text is looked up once, though its name may since have come to    *)
(* stand for another host (scanner/client.go:239-246, 248-253).             *)
ReportedIsProbed ==
    \A i \in DOMAIN probes :
        LET said == AddrString(probes[i].reported)
        IN  /\ probes[i].target # NoTarget =>
                 probes[i].target = [ip |-> said.host, port |-> said.port]
            /\ call.servers = <<>> => probes[i].target \in {servers[i], NoTarget}

(* ParseAddresses gives all addresses in their order, each an IPv4 address  *)
(* with the port written or 27015, or none at all                           *)
(* (scanner/addresses.go:17-66).                                            *)
AllParsedInOrder ==
    call.pkg = "scanner" /\ call.servers = <<>> =>
        /\ stage = "rejected" => servers = <<>>
        /\ stage \in {"probe", "finished"} => Len(servers) = Len(call.texts)
        /\ \A i \in DOMAIN servers :
              LET text == call.texts[i]
              IN  /\ servers[i].ip \in V4
                  /\ text.host \in V4 => servers[i].ip = text.host
                  /\ servers[i].port = IF text.port \in {"empty", "absent"} THEN "27015" ELSE text.port

(* The servers of a batch are probed as the caller gave them.               *)
BatchAsGiven == AllParsedInOrder /\ ReportedIsProbed
=============================================================================
