------------------------------ MODULE MCSetup ------------------------------
(* Instances of Setup: up to two options per call at the limits of each,    *)
(* every shape of address, batches of up to two texts or servers.           *)
EXTENDS Setup

Hosts4 == {"10.0.0.1", "10.0.0.2", "0.0.0.0"}

Hosts6 == {"::1"}

HostNames == {"example", "hl2master"}

PortNumbers == {"27015", "27011", "1"}

Plain == [host |-> "10.0.0.1", brackets |-> 0, port |-> "1"]

Option(field, n) == [field |-> field, n |-> n, addr |-> Plain]

Base(text) == [field |-> "base", n |-> 0, addr |-> text]

A2SOptions ==
    {Option("timeout", 0), Option("timeout", 500), Option("size", 511), Option("size", 1023),
     Option("size", 1024), Option("nil", 0)}

MasterOptions ==
    {Option("timeout", 0), Option("timeout", 500), Option("size", 63), Option("size", 64),
     Base(Plain), Option("nil", 0)}

ScannerOptions ==
    {Option("timeout", 0), Option("timeout", 500), Option("size", 512), Option("size", 1023),
     Option("size", 1024), Option("concurrency", 0), Option("concurrency", 1), Option("nil", 0)}

Lists(S) == {<<>>} \cup {<<a>> : a \in S} \cup {<<a, b>> : a, b \in S}

Call(pkg, options, text) ==
    [pkg |-> pkg, options |-> options, address |-> text, conn |-> TRUE,
     texts |-> <<>>, servers |-> <<>>]

Text(host, port) == [host |-> host, brackets |-> 0, port |-> port]

BatchTexts ==
    {Bare("10.0.0.1"), Text("10.0.0.2", "empty"), Text("example", "1"), Bare("example"), Bare("empty"),
     Bare("::1"), [Bare("::1") EXCEPT !.brackets = 1], [Bare("empty") EXCEPT !.brackets = 1],
     Text("10.0.0.1", "bad")}

GivenServers == {[ip |-> "10.0.0.1", port |-> "1"], [ip |-> "::1", port |-> "27015"],
                 [ip |-> "nil", port |-> "1"]}

ConstructorCalls ==
    {Call("a2s", o, Plain) : o \in Lists(A2SOptions)}
    \cup {Call("shared", o, Plain) : o \in Lists(A2SOptions)}
    \cup {[Call("shared", <<>>, Plain) EXCEPT !.conn = FALSE]}
    \cup {Call(pkg, <<>>, text) : pkg \in {"a2s", "shared"}, text \in Texts}
    \cup {Call("master", o, Plain) : o \in Lists(MasterOptions)}
    \cup {Call("master", <<Base(text)>>, Plain) : text \in Texts}

ScanCalls ==
    {[Call("scanner", o, Plain) EXCEPT !.servers = <<s>>] :
        o \in Lists(ScannerOptions), s \in GivenServers}
    \cup {[Call("scanner", <<>>, Plain) EXCEPT !.texts = t] : t \in Lists(BatchTexts)}
    \cup {[Call("scanner", <<>>, Plain) EXCEPT !.servers = s] : s \in Lists(GivenServers)}

AllCalls == ConstructorCalls \cup ScanCalls

NamesMean ==
    {d \in [HostNames -> {"10.0.0.1", "10.0.0.2", "::1", "none"}] :
        d["hl2master"] \in {"10.0.0.2", "none"}}
=============================================================================
