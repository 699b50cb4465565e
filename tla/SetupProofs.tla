---------------------------- MODULE SetupProofs ----------------------------
(* For any addresses, options, batches and changes of what a host name      *)
(* stands for: a constructor that fails leaves no socket behind, a scanner  *)
(* that could be made can make every client it needs, and the servers of a  *)
(* batch are probed and reported as they were given.                        *)
(*                                                                          *)
(* The invariant says what each stage has behind it: a configuration every  *)
(* option of which was accepted, the socket that is owned, lent or not yet  *)
(* there, the servers the texts so far stand for, and per server a probe of *)
(* its address, whatever its name stands for by then.                       *)
EXTENDS Setup, TLAPS

Stages == {"options", "address", "dial", "made", "refused", "parse", "probe", "rejected",
           "finished"}

Given == IF call.pkg = "shared" /\ call.conn THEN "lent" ELSE "none"

Typed ==
    /\ call \in Calls /\ dns \in Resolutions
    /\ stage \in Stages /\ at \in Nat \ {0}
    /\ servers \in Seq(Targets)
    /\ DOMAIN probes = 1 .. Len(probes) /\ Len(probes) \in Nat

(* The configuration is the default one changed by accepted options only.   *)
Accepted ==
    cfg.timeout \in Int /\ cfg.timeout > 0 /\ cfg.size \in Int /\ cfg.size >= MinPacketSize(call.pkg)

ScanStages == {"parse", "probe", "rejected", "finished"}

SocketInv ==
    /\ stage \in {"options", "address", "dial", "refused"} => socket = Given
    /\ stage \in {"address", "dial"} => call.pkg # "scanner"
    /\ stage = "dial" => call.pkg \in {"a2s", "master"}
    /\ stage \in {"address", "dial", "made"} => ~ConnMissing
    /\ stage = "made" => socket = CASE call.pkg = "scanner" -> "none"
                                    [] call.pkg = "shared" -> "lent"
                                    [] OTHER -> "open"
    /\ stage \in ScanStages => call.pkg = "scanner"

(* What the first texts of the batch stand for, or stood for when they were *)
(* parsed.                                                                  *)
Meant(text, server) ==
    /\ server.ip \in V4
    /\ text.host \in V4 => server.ip = text.host
    /\ server.port = IF text.port \in {"empty", "absent"} THEN "27015" ELSE text.port

BatchInv ==
    /\ stage \notin ScanStages \/ stage = "rejected" => servers = <<>>
    /\ call.servers # <<>> => /\ stage \notin {"parse", "rejected"}
                              /\ stage \in {"probe", "finished"} => servers = call.servers
    /\ call.servers = <<>> =>
          /\ Len(servers) <= Len(call.texts)
          /\ stage = "parse" => at = Len(servers) + 1
          /\ stage \in {"probe", "finished"} => Len(servers) = Len(call.texts)
          /\ \A i \in 1 .. Len(servers) : Meant(call.texts[i], servers[i])

(* The address of a server that is no IPv4 one is 0.0.0.0.                  *)
Dialled(server) == [ip |-> AddrString(server).host, port |-> server.port]

ProbeInv ==
    /\ stage \notin {"probe", "finished"} => Len(probes) = 0
    /\ stage = "probe" => at = Len(probes) + 1
    /\ Len(probes) <= Len(servers)
    /\ \A i \in 1 .. Len(probes) :
          /\ probes[i].target = Dialled(servers[i])
          /\ probes[i].reported = CloneServer(servers[i])

IInv == Typed /\ Accepted /\ SocketInv /\ BatchInv /\ ProbeInv
-----------------------------------------------------------------------------
(* A call's fields have their types.                                        *)
LEMMA CallTyped ==
    ASSUME NEW c \in Calls
    PROVE  /\ c.pkg \in Pkgs /\ c.options \in Seq(Options) /\ c.address \in Texts
           /\ c.conn \in BOOLEAN /\ c.texts \in Seq(Texts) /\ c.servers \in Seq(Targets)
BY SetupAssumption

(* Hosts, names and ports are told apart from each other and from what is   *)
(* said instead of one.                                                     *)
LEMMA Apart ==
    /\ "0.0.0.0" \in V4 /\ "27015" \in Ports
    /\ \A h \in V4 : h \notin V6 /\ h \notin Names
    /\ "empty" \notin V4 /\ "none" \notin V4 /\ "nil" \notin V4 /\ "empty" \notin V6 /\ "empty" \notin Names
    /\ "empty" \notin Ports /\ "absent" \notin Ports /\ "bad" \notin Ports /\ "none" \notin Ports
<1>1. ASSUME NEW S, NEW T, S \cap T = {} PROVE \A x \in S : x \notin T
  BY <1>1
<1>2. \A x \in {"empty", "none", "nil"} : x \notin V4 \cup V6 \cup Names
  BY <1>1, AddressAssumption
<1>3. \A x \in {"empty", "absent", "bad", "none"} : x \notin Ports
  BY <1>1, AddressAssumption
<1>4. \A x \in V4 : x \notin V6
  BY <1>1, AddressAssumption
<1>5. \A x \in Names : x \notin V4 \cup V6
  BY <1>1, AddressAssumption
<1>6. "0.0.0.0" \in V4 /\ "27015" \in Ports
  BY AddressAssumption
<1> QED BY <1>2, <1>3, <1>4, <1>5, <1>6

(* What is written of a server is taken back as its address, whatever the   *)
(* names stand for: it holds no name.                                       *)
LEMMA WrittenIsTakenBack ==
    ASSUME NEW s \in Targets, NEW d
    PROVE  /\ NormalizeAddress(AddrString(s), "27015", d) = Dialled(s)
           /\ Dialled(s) # NoTarget
<1> DEFINE t == AddrString(s)
<1>1. /\ t.host \in V4 /\ t.host \notin V6 /\ t.host \notin Names /\ t.host # "empty" /\ t.host # "none"
      /\ t.brackets = 0 /\ t.port = s.port
  BY Apart DEF AddrString
<1>2. s.port \in Ports /\ s.port \notin {"empty", "absent", "bad", "none"}
  BY Apart DEF Targets
<1> HIDE DEF t
<1>3. SplitHostPort(t).err = "none" /\ SplitHostPort(t).host = t.host /\ SplitHostPort(t).port = s.port
  BY <1>1, <1>2 DEF SplitHostPort
<1>4. t # Bare("empty")
  BY <1>1 DEF Bare
<1>5. ~Refuses(t)
  BY <1>1, <1>3, <1>4 DEF Refuses
<1>6. WithPort(t, "27015") = t
  BY <1>1, <1>2, <1>3 DEF WithPort
<1>7. ResolveUDPAddr("udp", t, d) = [ip |-> t.host, port |-> s.port]
  BY <1>1, <1>2, <1>3 DEF ResolveUDPAddr
<1>8. NormalizeAddress(t, "27015", d) = [ip |-> t.host, port |-> s.port]
  BY <1>5, <1>6, <1>7 DEF NormalizeAddress
<1>9. Dialled(s) = [ip |-> t.host, port |-> s.port]
  BY DEF Dialled, t
<1> QED BY <1>1, <1>2, <1>8, <1>9 DEF t, NoTarget

(* A text that is parsed gives an IPv4 address with its own port, or the    *)
(* default one; a numeric host stays itself.                                *)
LEMMA ParsedAsMeant ==
    ASSUME NEW t \in Texts, NEW d \in Resolutions, ParseAddress(t, d) # NoTarget
    PROVE  ParseAddress(t, d) \in Targets /\ Meant(t, ParseAddress(t, d))
<1> DEFINE w == WithPort(t, "27015")
           f == ResolveUDPAddr("udp4", w, d)
<1>1. ~Refuses(t) /\ f.ip \in V4 /\ ParseAddress(t, d) = f
  <2>1. NoTarget.ip \notin V4
    BY Apart DEF NoTarget
  <2> QED BY <2>1 DEF ParseAddress
<1>2. /\ t.host \in V4 \cup V6 \cup Names \cup {"empty"} /\ t.brackets \in 0 .. 1
      /\ t.port \in Ports \cup {"empty", "absent", "bad"}
      /\ t = [host |-> t.host, brackets |-> t.brackets, port |-> t.port]
  BY DEF Texts
<1>3. /\ w.host = t.host
      /\ w.port = IF t.port \in {"empty", "absent"} THEN "27015" ELSE t.port
  <2>1. SplitHostPort(t).err \in {"none", "missing port"}
    BY <1>1 DEF Refuses, SplitHostPort
  <2>2. SplitHostPort(t).err = "missing port" <=> t.port = "absent"
    BY <1>2, <2>1 DEF SplitHostPort
  <2>3. CASE t.port = "absent"
    BY <1>2, <2>2, <2>3 DEF WithPort, JoinHostPort
  <2>4. CASE t.port = "empty"
    BY <1>2, <2>2, <2>4 DEF WithPort, JoinHostPort, Bare
  <2>5. CASE t.port \notin {"empty", "absent"}
    BY <2>2, <2>5 DEF WithPort
  <2> QED BY <2>3, <2>4, <2>5
<1> HIDE DEF w
<1>4. /\ SplitHostPort(w).err = "none" /\ SplitHostPort(w).host = w.host
      /\ SplitHostPort(w).port = w.port
  <2>1. NoTarget.ip \notin V4
    BY Apart DEF NoTarget
  <2> QED BY <1>1, <2>1 DEF ResolveUDPAddr, SplitHostPort
<1>5. /\ w.port # "bad" /\ f.port = w.port
      /\ f.ip = IF w.host = "empty" THEN "nil" ELSE IF w.host \in Names THEN d[w.host] ELSE w.host
      /\ f = [ip |-> f.ip, port |-> f.port]
  <2>1. NoTarget.ip \notin V4
    BY Apart DEF NoTarget
  <2> QED BY <1>1, <1>4, <2>1 DEF ResolveUDPAddr
<1>6. f.port \in Ports
  BY <1>2, <1>3, <1>5, Apart
<1>7. t.host \in V4 => f.ip = t.host
  BY <1>3, <1>5, Apart
<1> HIDE DEF f
<1> QED BY <1>1, <1>3, <1>5, <1>6, <1>7 DEF Meant, Targets
-----------------------------------------------------------------------------
(* A constructor begins with the default configuration and no socket of its own.*)
THEOREM InitHolds == Init => IInv
<1> SUFFICES ASSUME Init PROVE IInv
  OBVIOUS
<1> USE DEF Init
<1>1. Typed
  BY DEF Typed, Stages
<1>2. Accepted
  BY CallTyped DEF Accepted, DefaultConfig, MinPacketSize, Pkgs
<1>3. SocketInv
  BY DEF SocketInv, Given, ScanStages
<1>4. BatchInv
  BY CallTyped DEF BatchInv, ScanStages
<1>5. ProbeInv
  BY DEF ProbeInv
<1> QED BY <1>1, <1>2, <1>3, <1>4, <1>5 DEF IInv

(* An accepted option leaves the configuration acceptable.                  *)
LEMMA AcceptedStays ==
    ASSUME IInv, NEW o \in Options, Valid(call.pkg, o), cfg' = Set(cfg, o), call' = call
    PROVE  Accepted'
<1>1. o.n \in Int /\ o.field \in {"timeout", "size", "concurrency", "base", "nil"}
  BY DEF Options
<1>2. CASE o.field = "timeout"
  BY <1>1, <1>2 DEF Valid, Set, Accepted, IInv, Typed
<1>3. CASE o.field = "size"
  BY <1>1, <1>3 DEF Valid, Set, Accepted, IInv, Typed
<1>4. CASE o.field = "concurrency"
  BY <1>1, <1>4 DEF Valid, Set, Accepted, IInv, Typed
<1>5. CASE o.field = "base"
  BY <1>1, <1>5 DEF Valid, Set, Accepted, IInv, Typed
<1>6. o.field # "nil"
  BY DEF Valid
<1> QED BY <1>1, <1>2, <1>3, <1>4, <1>5, <1>6

(* An option is refused, or leaves the configuration acceptable.            *)
THEOREM OptionHolds ==
    ASSUME IInv, RefuseConn \/ ApplyOption \/ OptionsDone
    PROVE  IInv'
<1> USE DEF IInv
<1>0. /\ stage = "options" /\ UNCHANGED <<call, dns, socket, servers, probes>>
      /\ at' \in {at, at + 1} /\ call \in Calls
  BY DEF RefuseConn, ApplyOption, OptionsDone, Typed
<1>1. stage' \in {"options", "address", "made", "refused"}
  BY <1>0 DEF RefuseConn, ApplyOption, OptionsDone
<1>2. Typed'
  BY <1>0, <1>1 DEF Typed, Stages
<1>3. Accepted'
  <2>1. CASE cfg' = cfg
    BY <1>0, <2>1 DEF Accepted
  <2>2. CASE ApplyOption /\ Valid(call.pkg, call.options[at])
    <3>1. call.options[at] \in Options
      BY <1>0, <2>2, CallTyped DEF ApplyOption, Typed
    <3> QED BY <2>2, <3>1, <1>0, AcceptedStays DEF ApplyOption
  <2> QED BY <2>1, <2>2 DEF RefuseConn, ApplyOption, OptionsDone
<1>4. SocketInv'
  <2>1. stage' \in {"address", "made"} =>
           ~ConnMissing /\ stage' = IF call.pkg = "scanner" THEN "made" ELSE "address"
    BY <1>0 DEF RefuseConn, ApplyOption, OptionsDone
  <2>2. socket' = Given /\ Given' = Given /\ ConnMissing' = ConnMissing
    BY <1>0 DEF SocketInv, Given, ConnMissing
  <2>3. call'.pkg = call.pkg
    BY <1>0
  <2>4. stage' = "made" => call.pkg = "scanner"
    BY <2>1
  <2> QED BY <1>1, <2>1, <2>2, <2>3, <2>4 DEF SocketInv, ScanStages, Given
<1>5. BatchInv'
  BY <1>0, <1>1, CallTyped DEF BatchInv, ScanStages, Meant
<1>6. ProbeInv'
  BY <1>0, <1>1 DEF ProbeInv
<1> QED BY <1>2, <1>3, <1>4, <1>5, <1>6

(* A socket is there only when the constructor succeeds.                    *)
THEOREM AddressHolds ==
    ASSUME IInv, Normalize \/ Dial
    PROVE  IInv'
<1> USE DEF IInv
<1>0. /\ stage \in {"address", "dial"} /\ UNCHANGED <<call, dns, cfg, servers, probes, at>>
      /\ stage' \in {"dial", "made", "refused"} /\ call \in Calls
  BY DEF Normalize, Dial, Typed
<1>1. Typed'
  BY <1>0 DEF Typed, Stages
<1>2. Accepted'
  BY <1>0 DEF Accepted
<1>3. SocketInv'
  <2>0. call.pkg \in Pkgs /\ call.conn \in BOOLEAN
    BY <1>0, CallTyped
  <2>1. CASE Normalize
    <3>1. PICK done \in BOOLEAN : stage' = IF done THEN "refused"
                                           ELSE IF call.pkg = "shared" THEN "made" ELSE "dial"
      BY <2>1 DEF Normalize
    <3>2. socket' = socket /\ stage = "address"
      BY <2>1 DEF Normalize
    <3> QED BY <1>0, <2>0, <3>1, <3>2 DEF SocketInv, Given, ConnMissing, ScanStages, Pkgs
  <2>2. CASE Dial
    BY <1>0, <2>0, <2>2 DEF Dial, SocketInv, Given, ConnMissing, ScanStages, Pkgs
  <2> QED BY <2>1, <2>2
<1>4. BatchInv'
  BY <1>0, CallTyped DEF BatchInv, ScanStages, Meant
<1>5. ProbeInv'
  BY <1>0 DEF ProbeInv
<1> QED BY <1>1, <1>2, <1>3, <1>4, <1>5

(* The scanner's own steps leave the socket alone.                          *)
LEMMA ScanLeavesSocket ==
    ASSUME SocketInv, stage' \in ScanStages, call' = call, call.pkg = "scanner"
    PROVE  SocketInv'
BY DEF SocketInv, ScanStages

(* A batch begins with the texts or the servers of the call.                *)
THEOREM StartHolds == ASSUME IInv, StartBatch PROVE IInv'
<1> USE DEF IInv
<1>0. /\ stage = "made" /\ call.pkg = "scanner" /\ call \in Calls
      /\ UNCHANGED <<call, dns, cfg, probes>> /\ at' = 1
  BY DEF StartBatch, Typed
<1>1. call.servers \in Seq(Targets) /\ call.texts \in Seq(Texts)
  BY <1>0, CallTyped
<1>2. \/ call.servers = <<>> /\ stage' = "parse" /\ servers' = servers
      \/ call.servers # <<>> /\ stage' = "probe" /\ servers' = call.servers
  BY DEF StartBatch
<1>3. servers = <<>> /\ Len(probes) = 0
  BY <1>0 DEF BatchInv, ProbeInv, ScanStages
<1>4. Typed'
  BY <1>0, <1>1, <1>2 DEF Typed, Stages
<1>5. Accepted' /\ SocketInv'
  BY <1>0, <1>2, ScanLeavesSocket DEF Accepted, ScanStages
<1>6. BatchInv'
  BY <1>0, <1>1, <1>2, <1>3 DEF BatchInv, ScanStages
<1>7. ProbeInv'
  BY <1>0, <1>1, <1>2, <1>3 DEF ProbeInv
<1> QED BY <1>4, <1>5, <1>6, <1>7

(* A text that is parsed is the next server; one that is not leaves none.   *)
THEOREM ParseHolds == ASSUME IInv, ParseNext PROVE IInv'
<1> USE DEF IInv
<1>0. /\ stage = "parse" /\ call.pkg = "scanner" /\ call \in Calls
      /\ UNCHANGED <<call, dns, cfg, probes>> /\ dns \in Resolutions
  BY DEF ParseNext, Typed, SocketInv, ScanStages
<1>1. /\ call.texts \in Seq(Texts) /\ call.servers = <<>> /\ at = Len(servers) + 1
      /\ servers \in Seq(Targets) /\ Len(servers) <= Len(call.texts) /\ Len(probes) = 0
  BY <1>0, CallTyped DEF Typed, BatchInv, ProbeInv
<1>2. CASE at > Len(call.texts)
  <2>1. stage' = "probe" /\ at' = 1 /\ servers' = servers
    BY <1>2 DEF ParseNext
  <2>2. Typed' /\ Accepted' /\ SocketInv'
    BY <1>0, <2>1, ScanLeavesSocket DEF Typed, Stages, Accepted, ScanStages
  <2>3. Len(servers) = Len(call.texts)
    BY <1>1, <1>2
  <2>4. BatchInv'
    BY <1>0, <1>1, <2>1, <2>3 DEF BatchInv, ScanStages, Meant
  <2>5. ProbeInv'
    BY <1>0, <1>1, <2>1 DEF ProbeInv
  <2> QED BY <2>2, <2>4, <2>5
<1>3. CASE ~(at > Len(call.texts))
  <2>1. PICK found : found = ParseAddress(call.texts[at], dns)
    OBVIOUS
  <2>2. IF found = NoTarget
        THEN stage' = "rejected" /\ servers' = <<>> /\ at' = at
        ELSE servers' = Append(servers, found) /\ at' = at + 1 /\ stage' = stage
    BY <1>3, <2>1 DEF ParseNext
  <2>3. CASE found = NoTarget
    <3>1. Typed' /\ Accepted' /\ SocketInv'
      BY <1>0, <2>2, <2>3, ScanLeavesSocket DEF Typed, Stages, Accepted, ScanStages
    <3>2. BatchInv'
      BY <1>0, <1>1, <2>2, <2>3 DEF BatchInv, ScanStages
    <3>3. ProbeInv'
      BY <1>0, <1>1, <2>2, <2>3 DEF ProbeInv
    <3> QED BY <3>1, <3>2, <3>3
  <2>4. CASE found # NoTarget
    <3>1. at \in 1 .. Len(call.texts)
      BY <1>1, <1>3
    <3>2. call.texts[at] \in Texts
      BY <1>1, <3>1
    <3>3. found \in Targets /\ Meant(call.texts[at], found)
      BY <1>0, <2>1, <2>4, <3>2, ParsedAsMeant
    <3>4. /\ servers' \in Seq(Targets) /\ Len(servers') = Len(servers) + 1
          /\ servers'[at] = found
          /\ \A i \in 1 .. Len(servers) : servers'[i] = servers[i]
      <4>1. servers' = Append(servers, found) /\ servers \in Seq(Targets) /\ found \in Targets
            /\ at = Len(servers) + 1
        BY <1>1, <2>2, <2>4, <3>3
      <4> QED BY <4>1
    <3>5. Typed' /\ Accepted' /\ SocketInv'
      BY <1>0, <2>2, <2>4, <3>4, ScanLeavesSocket DEF Typed, Stages, Accepted, ScanStages
    <3>6. \A i \in 1 .. Len(servers') : Meant(call.texts[i], servers'[i])
      <4> SUFFICES ASSUME NEW i \in 1 .. Len(servers')
                   PROVE  Meant(call.texts[i], servers'[i])
        OBVIOUS
      <4>1. CASE i = at
        BY <3>3, <3>4, <4>1
      <4>2. CASE i # at
        <5>1. i \in 1 .. Len(servers)
          BY <1>1, <3>4, <4>2
        <5>2. Meant(call.texts[i], servers[i])
          BY <1>1, <5>1 DEF BatchInv
        <5> QED BY <3>4, <5>1, <5>2
      <4> QED BY <4>1, <4>2
    <3>7. BatchInv'
      BY <1>0, <1>1, <2>2, <2>4, <3>1, <3>4, <3>6 DEF BatchInv, ScanStages, Meant
    <3>8. ProbeInv'
      BY <1>0, <1>1, <2>2, <2>4, <3>4 DEF ProbeInv
    <3> QED BY <3>5, <3>7, <3>8
  <2> QED BY <2>3, <2>4
<1> QED BY <1>2, <1>3

(* A probe goes to its server.                                              *)
THEOREM ProbeHolds == ASSUME IInv, MakeProbeClient PROVE IInv'
<1> USE DEF IInv
<1>0. /\ stage = "probe" /\ call.pkg = "scanner" /\ call \in Calls
      /\ UNCHANGED <<call, dns, cfg, servers>>
  BY DEF MakeProbeClient, Typed, SocketInv, ScanStages
<1>1. /\ servers \in Seq(Targets) /\ at = Len(probes) + 1 /\ Len(probes) <= Len(servers)
      /\ DOMAIN probes = 1 .. Len(probes) /\ Len(probes) \in Nat
  BY <1>0 DEF Typed, ProbeInv
<1>2. stage' \in {"probe", "finished"}
  BY <1>0 DEF MakeProbeClient
<1>3. Accepted' /\ SocketInv'
  BY <1>0, <1>2, ScanLeavesSocket DEF Accepted, ScanStages
<1>4. BatchInv'
  BY <1>0, <1>2 DEF BatchInv, ScanStages, Meant
<1>5. CASE at > Len(servers)
  BY <1>0, <1>1, <1>2, <1>5, <1>3, <1>4 DEF MakeProbeClient, Typed, Stages, ProbeInv
<1>6. CASE ~(at > Len(servers))
  <2>1. PICK p : p = [target |-> ProbeTarget(servers[at]), reported |-> CloneServer(servers[at])]
    OBVIOUS
  <2>2. probes' = Append(probes, p) /\ at' = at + 1 /\ stage' = stage
    BY <1>6, <2>1 DEF MakeProbeClient
  <2>3. servers[at] \in Targets
    BY <1>1, <1>6
  <2>4. ProbeTarget(servers[at]) = Dialled(servers[at])
    BY <1>0, <2>3, WrittenIsTakenBack DEF ProbeTarget, Accepted, MinPacketSize
  <2>5. p.target = Dialled(servers[at]) /\ p.reported = CloneServer(servers[at])
    BY <2>1, <2>4
  <2>6. /\ Len(probes') = Len(probes) + 1 /\ DOMAIN probes' = 1 .. Len(probes')
        /\ probes'[at] = p /\ \A i \in 1 .. Len(probes) : probes'[i] = probes[i]
    BY <1>1, <2>2
  <2>7. Typed'
    BY <1>0, <1>1, <2>2, <2>6 DEF Typed, Stages
  <2>8. ProbeInv'
    <3>1. ASSUME NEW i \in 1 .. Len(probes')
          PROVE  probes'[i].target = Dialled(servers[i]) /\ probes'[i].reported = CloneServer(servers[i])
      <4>1. CASE i = at
        BY <2>5, <2>6, <4>1
      <4>2. CASE i # at
        BY <1>1, <2>6, <4>2 DEF ProbeInv
      <4> QED BY <4>1, <4>2
    <3>2. Len(probes') <= Len(servers) /\ at' = Len(probes') + 1
      BY <1>1, <1>6, <2>2, <2>6
    <3> QED BY <1>0, <2>2, <3>1, <3>2 DEF ProbeInv, Dialled
  <2> QED BY <1>3, <1>4, <2>7, <2>8
<1> QED BY <1>5, <1>6

(* Every step preserves the invariant.                                      *)
THEOREM NextHolds == IInv /\ [Next]_vars => IInv'
<1> SUFFICES ASSUME IInv, [Next]_vars PROVE IInv'
  OBVIOUS
<1>1. CASE DnsChanges
  <2>1. dns' \in Resolutions /\ UNCHANGED <<call, stage, at, cfg, socket, servers, probes>>
    BY <1>1 DEF DnsChanges
  <2>2. Typed' /\ Accepted'
    BY <2>1 DEF IInv, Typed, Accepted
  <2>3. SocketInv' /\ BatchInv' /\ ProbeInv'
    BY <2>1 DEF IInv, SocketInv, Given, ConnMissing, BatchInv, Meant, ProbeInv, Dialled
  <2> QED BY <2>2, <2>3 DEF IInv
<1>2. CASE Finished \/ UNCHANGED vars
  <2>1. UNCHANGED vars
    BY <1>2 DEF Finished
  <2>2. Typed' /\ Accepted'
    BY <2>1 DEF vars, IInv, Typed, Accepted
  <2>3. SocketInv' /\ BatchInv' /\ ProbeInv'
    BY <2>1 DEF vars, IInv, SocketInv, Given, ConnMissing, BatchInv, Meant, ProbeInv, Dialled
  <2> QED BY <2>2, <2>3 DEF IInv
<1> QED
  BY <1>1, <1>2, OptionHolds, AddressHolds, StartHolds, ParseHolds, ProbeHolds DEF Next

(* The invariant holds in every reachable state.                            *)
THEOREM SpecHolds == Spec => []IInv
<1> QED BY InitHolds, NextHolds, PTL DEF Spec
-----------------------------------------------------------------------------
(* A constructor that fails leaves no socket behind, for any options and    *)
(* addresses (client.go:51-64, 70-97; master/client.go:45-55).              *)
THEOREM FailuresLeaveNoSocket == Spec => []FailureLeavesNoSocket
<1>1. IInv => FailureLeavesNoSocket
  BY DEF IInv, SocketInv, Given, FailureLeavesNoSocket
<1> QED BY <1>1, SpecHolds, PTL

(* Whatever a scanner was made with, it makes a client for every server of  *)
(* every batch (scanner/client.go:239-246).                                 *)
THEOREM EveryProbeClientIsMade == Spec => []ProbeClientsAreMade
<1>1. ASSUME IInv PROVE ProbeClientsAreMade
  <2> SUFFICES ASSUME NEW i \in DOMAIN probes PROVE probes[i].target # NoTarget
    BY DEF ProbeClientsAreMade
  <2>1. i \in 1 .. Len(probes) /\ servers[i] \in Targets
    BY <1>1 DEF IInv, Typed, ProbeInv
  <2> QED BY <1>1, <2>1, WrittenIsTakenBack DEF IInv, ProbeInv
<1> QED BY <1>1, SpecHolds, PTL

(* The servers of any batch are probed and reported as they were given, and *)
(* what a host name came to stand for meanwhile changes nothing             *)
(* (scanner/addresses.go:17-66, scanner/client.go:239-253).                 *)
THEOREM BatchesAsGiven == Spec => []BatchAsGiven
<1>1. ASSUME IInv PROVE AllParsedInOrder
  BY <1>1 DEF IInv, Typed, BatchInv, Meant, AllParsedInOrder, ScanStages
<1>2. ASSUME IInv PROVE ReportedIsProbed
  <2> SUFFICES ASSUME NEW i \in DOMAIN probes
               PROVE  LET said == AddrString(probes[i].reported)
                      IN  /\ probes[i].target # NoTarget =>
                               probes[i].target = [ip |-> said.host, port |-> said.port]
                          /\ call.servers = <<>> => probes[i].target \in {servers[i], NoTarget}
    BY DEF ReportedIsProbed
  <2>1. i \in 1 .. Len(probes) /\ i \in 1 .. Len(servers) /\ servers[i] \in Targets
    BY <1>2 DEF IInv, Typed, ProbeInv
  <2>2. probes[i].target = Dialled(servers[i]) /\ probes[i].reported = CloneServer(servers[i])
    BY <1>2, <2>1 DEF IInv, ProbeInv
  <2>3. AddrString(CloneServer(servers[i])) = AddrString(servers[i])
    BY Apart DEF AddrString, CloneServer
  <2>4. AddrString(servers[i]).port = servers[i].port
    BY DEF AddrString
  <2>5. call.servers = <<>> => servers[i].ip \in V4
    BY <1>2, <2>1 DEF IInv, BatchInv, Meant
  <2>6. servers[i] = [ip |-> servers[i].ip, port |-> servers[i].port]
    BY <2>1 DEF Targets
  <2>7. servers[i].ip \in V4 => Dialled(servers[i]) = servers[i]
    BY <2>6 DEF Dialled, AddrString
  <2> QED BY <2>2, <2>3, <2>4, <2>5, <2>7 DEF Dialled
<1>3. IInv => BatchAsGiven
  BY <1>1, <1>2 DEF BatchAsGiven
<1> QED BY <1>3, SpecHolds, PTL
=============================================================================
