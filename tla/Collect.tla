------------------------------ MODULE Collect ------------------------------
(* One call of multipacket.Collect against a socket that may hold the       *)
(* fragments of several split responses, in any order, some of them twice,  *)
(* some lost, beside malformed datagrams and datagrams of other hosts.      *)
(*                                                                          *)
(* The call runs on one goroutine and only its socket reads interleave with *)
(* anything, so one action is one read and all the code up to the next one. *)
EXTENDS Multipacket

CONSTANTS
    Responses,   \* split responses the target sent: [id, split, chunks, plain]
    Stray,       \* other datagrams in the socket: [src, pkt]
    MaxDups      \* bound: datagrams the network delivers a second time

Packet == [framed : BOOLEAN, hdr : BOOLEAN, id : [n : Nat, zip : BOOLEAN], total : Nat,
           number : Nat, split : Nat, payload : Seq(Nat)]

(* The target never reuses a split id while an older one is in flight.      *)
ASSUME CollectAssumption ==
    /\ Room \in Nat \ {0}
    /\ MaxDups \in Nat
    /\ \A d \in Stray : d.pkt \in Packet
    /\ \A r \in Responses :
          /\ r.id \in [n : Nat, zip : BOOLEAN] /\ r.split \in Nat
          /\ r.chunks \in Seq(Seq(Nat))
          /\ r.chunks # <<>>
          /\ \A i \in DOMAIN r.chunks : r.chunks[i] # <<>>
    /\ \A r, s \in Responses : r.id = s.id => r = s

VARIABLES
    pc,       \* "start" | "recv" | "done"
    net,      \* datagrams not yet read
    col,      \* the collection; meaningful from the first fragment on
    result,   \* what Collect returned
    dups,     \* datagrams delivered again so far
    heard     \* ghost: the fragments read so far, as read

vars == <<pc, net, col, result, dups, heard>>

FragmentOf(r, i) ==
    [framed |-> TRUE, hdr |-> TRUE, id |-> r.id, total |-> Len(r.chunks),
     number |-> i - 1, split |-> r.split, payload |-> r.chunks[i]]

Fragments(r) == {FragmentOf(r, i) : i \in DOMAIN r.chunks}

Sent == UNION {{[src |-> "target", pkt |-> p] : p \in Fragments(r)} : r \in Responses}

NoCollection == [id |-> [n |-> 0, zip |-> FALSE], total |-> 0, split |-> 0,
                 parts |-> <<>>, received |-> 0]

Init ==
    /\ pc = "start"
    /\ net = Sent \cup Stray
    /\ col = NoCollection
    /\ result = Failure("none")
    /\ dups = 0
    /\ heard = <<>>
-----------------------------------------------------------------------------
(* A datagram leaves the socket, or the network delivers it once more.      *)
Take(d) ==
    \/ net' = net \ {d} /\ UNCHANGED dups
    \/ dups < MaxDups /\ dups' = dups + 1 /\ UNCHANGED net

(* The datagrams Collect looks at: those of the target; the first one is    *)
(* the packet the client already classified as split.                       *)
Read(d) ==
    /\ pc \in {"start", "recv"}
    /\ d.src = "target"
    /\ pc = "start" => d.pkt.framed
    /\ Take(d)
    /\ heard' = Append(heard, AsRead(d.pkt))

Current(p) == IF pc = "start" THEN Opened(p) ELSE col

Refuse(d) ==
    LET p == AsRead(d.pkt) IN
    /\ Read(d)
    /\ Refusal(Current(p), p) # "none"
    /\ result' = Failure(Refusal(Current(p), p))
    /\ pc' = "done"
    /\ UNCHANGED col

Store(d) ==
    LET p == AsRead(d.pkt)
        c == Stored(Current(p), p) IN
    /\ Read(d)
    /\ Refusal(Current(p), p) = "none"
    /\ col' = c
    /\ IF Complete(c)
         THEN pc' = "done" /\ result' = Outcome(c)
         ELSE pc' = "recv" /\ UNCHANGED result

(* ReceiveFrom's loop (or the kernel, for a connected socket) discards what *)
(* another host sent.                                                       *)
DropForeign(d) ==
    /\ pc = "recv"
    /\ d.src # "target"
    /\ Take(d)
    /\ UNCHANGED <<pc, col, result, heard>>

(* receiveNext fails: the read deadline passed, the context is done or the  *)
(* socket is closed. Collect returns the error as it is.                    *)
ReceiveFails ==
    /\ pc = "recv"
    /\ pc' = "done"
    /\ result' = Failure("io")
    /\ UNCHANGED <<net, col, dups, heard>>

Done == pc = "done" /\ UNCHANGED vars

Next ==
    \/ \E d \in net : Refuse(d) \/ Store(d) \/ DropForeign(d)
    \/ ReceiveFails
    \/ Done

Spec == Init /\ [][Next]_vars
-----------------------------------------------------------------------------
CollectionOK(c) ==
    /\ c.id \in [n : Nat, zip : BOOLEAN]
    /\ c.total \in Nat /\ c.split \in Nat /\ c.received \in Nat
    /\ DOMAIN c.parts \subseteq 0 .. c.total - 1
    /\ \A i \in DOMAIN c.parts : c.parts[i] \in Seq(Nat)

(* Every variable has its type (the locals of Collect, multipacket.go:38-41, *)
(* and the socket's queue).                                                  *)
TypeOK ==
    /\ pc \in {"start", "recv", "done"}
    /\ net \subseteq Sent \cup Stray
    /\ CollectionOK(col)
    /\ result \in [err : {"none", "io", "packet_header", "multi_packet", "panic"}, data : Seq(Nat)]
    /\ dups \in 0 .. MaxDups
    /\ heard \in Seq(Packet)

(* The copy loop of multipacket.go:72-75 dereferences every slot: no slot is *)
(* empty when the count reaches the total, whatever was delivered twice, out *)
(* of range or with another total.                                           *)
NoPanic == result.err # "panic"

HeardOnly(S) == \A i \in DOMAIN heard : heard[i] \in S

(* A collection that succeeds on genuine whole fragments returns exactly the *)
(* response its first fragment belongs to: not a mixture of two responses,   *)
(* not a body with a slot twice or in arrival order (multipacket.go:43-94).  *)
Faithful ==
    \A r \in Responses :
        (/\ pc = "done" /\ result.err = "none"
         /\ HeardOnly(UNION {Fragments(s) : s \in Responses})
         /\ heard[1] \in Fragments(r))
        => result = Unpacked(r.id.zip, FlattenSeq(r.chunks))

(* Only a duplicate, a foreign, a cut or a malformed fragment makes Collect  *)
(* refuse: a response whose fragments each arrive once is returned whatever  *)
(* their order (multipacket.go:44-49, 104-115).                              *)
OrderFree ==
    \A r \in Responses :
        (/\ pc = "done" /\ result.err # "io"
         /\ HeardOnly(Fragments(r)) /\ IsInjective(heard))
        => result = Unpacked(r.id.zip, FlattenSeq(r.chunks))

(* A compressed answer is within the size limit and is a body the target     *)
(* compressed, even when fragments were cut by the read buffer or replaced:  *)
(* size and checksum are both compared (multipacket.go:81-93, 153-170).      *)
CompressedIntact ==
    pc = "done" /\ result.err = "none" /\ heard[1].id.zip
    => /\ Len(result.data) <= MaxPlain
       /\ \E r \in Responses : r.id.zip /\ result.data = r.plain
=============================================================================
