----------------------------- MODULE A2SClient -----------------------------
(* The a2s Client (client.go): queries of several goroutines on one client, *)
(* one UDP socket to one game server, and Close.                            *)
(*                                                                          *)
(* Each query is one call of QueryInfo, QueryPlayers or QueryRules, run by  *)
(* a goroutine of its own; a goroutine that makes several calls is the case *)
(* where one query begins after another returned. The steps of a query are  *)
(* the points where it can wait or where another goroutine can be seen:     *)
(* the unlocked read of `closed`, the mutex, each write, the context check  *)
(* before each read, and the read.                                          *)
EXTENDS Multipacket

CONSTANTS
    Queries,        \* the query calls
    Kind,           \* Kind[q]: "info", "players" or "rules"
    Closers,        \* the goroutines that call Close
    Connected,      \* TRUE: NewClient's own dialled socket; FALSE: NewClientWithConn
    MayCancel,      \* queries whose context may end early
    Former,         \* what the target said to users the socket had before
    Noise,          \* datagrams that are in the socket already, of any host
    Forms,          \* the ways an answer may be sent: see Bytes
    Faults,         \* wrong answers the server may give: see Replies
    MaxChallenges,  \* bound: challenges the server sends in all
    MaxDups,        \* bound: datagrams delivered a second time in all
    None            \* the holder of the free mutex

ASSUME ClientAssumption ==
    /\ Kind \in [Queries -> {"info", "players", "rules"}]
    /\ Connected \in BOOLEAN
    /\ MayCancel \subseteq Queries
    /\ Faults \subseteq {"undecodable", "emptyChallenge", "garbage", "otherKind"}
    /\ MaxChallenges \in Nat
    /\ MaxDups \in Nat
    /\ None \notin Queries

VARIABLES
    pc,        \* where each query is
    mu,        \* c.mu: the query that holds it, or None
    closed,    \* c.closed
    connOpen,  \* the socket is open
    tokens,    \* per query: the challenge field of its request, if any
    pkt,       \* per query: the packet in hand
    col,       \* per query: the collection Collect is filling, or Idle
    ctxDone,   \* per query: its context has ended
    outcome,   \* per query: what it returned
    closing,   \* where each Close call is
    sent,      \* the requests on the wire, in order, by query; an index names one
    carried,   \* the challenge field of each of them
    net,       \* the datagrams in flight to the socket, or queued in it
    served,    \* the requests the server has answered
    chals,     \* challenges sent by the server
    dups,      \* datagrams delivered again
    got        \* ghost, per query: the last challenge it read, 0 before any

vars == <<pc, mu, closed, connOpen, tokens, pkt, col, ctxDone, outcome,
          closing, sent, carried, net, served, chals, dups, got>>

local   == <<tokens, pkt, col, got>>
wire    == <<sent, carried>>
socket  == <<sent, carried, net, dups>>
server  == <<served, chals>>
-----------------------------------------------------------------------------
(* Messages and datagrams. A message of the server is one response: its     *)
(* payload header, whether the rest of it parses, the request it answers,   *)
(* which is also the token of a challenge, and the form it is sent in. The  *)
(* requests of this client have positive numbers, those of former users of  *)
(* the socket negative ones.                                                *)
Message(head, ok, n, form) == [head |-> head, ok |-> ok, re |-> n, form |-> form]

(* The form: the cells of the message (a cell stands for a run of bytes,    *)
(* the first for framing and header), the place where it is split, 0 if it  *)
(* is not, and whether what is split is not the message itself but a split  *)
(* packet with the message in it.                                           *)
IsForm(f) ==
    /\ f \in [size : Nat, split : Nat, nested : BOOLEAN]
    /\ f.split < f.size
    /\ f.nested => f.split > 0

(* A wrong answer is sent whole, a challenge whole or in two.               *)
Short == [size |-> 2, split |-> 0, nested |-> FALSE]

Brief == {Short, [Short EXCEPT !.split = 1]}

Cells(m) == [i \in 1 .. m.form.size |-> [of |-> m, at |-> i]]

(* A nested message has the header of the inner packet before it.           *)
Bytes(m) == IF m.form.nested THEN <<[of |-> m, at |-> 0]>> \o Cells(m) ELSE Cells(m)

NoId == [n |-> 0, zip |-> FALSE]

Single(payload) ==
    [framed |-> FALSE, hdr |-> FALSE, id |-> NoId, total |-> 0, number |-> 0,
     split |-> 0, payload |-> payload]

Part(m, i) ==
    IF i = 1 THEN SubSeq(Bytes(m), 1, m.form.split)
             ELSE SubSeq(Bytes(m), m.form.split + 1, Len(Bytes(m)))

(* The fragments of a split response; its id is fresh.                      *)
Fragment(m, i) ==
    [framed |-> TRUE, hdr |-> TRUE, id |-> [n |-> m.re, zip |-> FALSE],
     total |-> 2, number |-> i - 1, split |-> m.form.split, payload |-> Part(m, i)]

Packets(m) ==
    IF m.form.split = 0 THEN {Single(Bytes(m))} ELSE {Fragment(m, 1), Fragment(m, 2)}

NoPacket == Single(<<>>)
Idle == Opened(NoPacket)

(* Bytes put together by Collect as a packet: an unsplit one, or once more  *)
(* a split one, here in one fragment.                                       *)
AsPacket(data) ==
    IF data[1].at # 0 THEN Single(data)
    ELSE [framed |-> TRUE, hdr |-> TRUE, id |-> [n |-> data[1].of.re, zip |-> FALSE],
          total |-> 1, number |-> 0, split |-> 0, payload |-> Tail(data)]

(* The payload header of an unsplit packet; the middle of a message is not  *)
(* one.                                                                     *)
Header(p) == IF p.payload[1].at = 1 THEN p.payload[1].of.head ELSE "bad"

Whole(payload) == payload = Cells(payload[1].of)

(* What reading leaves of a message, when every datagram of it is cut to    *)
(* the room of the read buffer; and when it leaves all.                     *)
Left(m) ==
    IF m.form.split = 0 THEN Cut(Bytes(m)) ELSE Cut(Part(m, 1)) \o Cut(Part(m, 2))

Remains(m) == IF m.form.nested THEN Tail(Left(m)) ELSE Left(m)

Fits(m) == \A p \in Packets(m) : Len(p.payload) <= Room

Heads == {"info", "players", "rules", "challenge", "bad"}

IsMessage(m) ==
    /\ m \in [head : Heads, ok : BOOLEAN, re : Int, form : {m.form}]
    /\ IsForm(m.form)

ASSUME FormsAssumption == Room \in Nat \ {0} /\ \A f \in Forms : IsForm(f)

(* A socket that was used before may hold late packets of the target:       *)
(* answers, challenges and fragments of either. The target does not reuse   *)
(* a split id while packets of an older response are in flight.             *)
ASSUME NoiseAssumption ==
    /\ \A m \in Former : IsMessage(m) /\ m.re < 0
    /\ \A m, o \in Former : m.re = o.re => m = o
    /\ \A d \in Noise : d.src = "target" => \E m \in Former : d.pkt \in Packets(m)
-----------------------------------------------------------------------------
NoOutcome == [code |-> "none", cause |-> "none", answer |-> <<>>]

(* A2S_INFO starts without a challenge field, the others with NoChallenge.  *)
InitialTokens(kind) == IF kind = "info" THEN <<>> ELSE <<0>>

Init ==
    /\ pc = [q \in Queries |-> "new"]
    /\ mu = None
    /\ closed = FALSE
    /\ connOpen = TRUE
    /\ tokens = [q \in Queries |-> InitialTokens(Kind[q])]
    /\ pkt = [q \in Queries |-> NoPacket]
    /\ col = [q \in Queries |-> Idle]
    /\ ctxDone = [q \in Queries |-> FALSE]
    /\ outcome = [q \in Queries |-> NoOutcome]
    /\ closing = [k \in Closers |-> "idle"]
    /\ sent = <<>> /\ carried = <<>>
    /\ net = IF Connected THEN {} ELSE Noise
    /\ served = {}
    /\ chals = 0
    /\ dups = 0
    /\ got = [q \in Queries |-> 0]

Goto(q, l) == pc' = [pc EXCEPT ![q] = l]

(* A query returns; the deferred Unlock is part of it, and its locals go.   *)
Return(q, code, cause, answer) ==
    /\ pc' = [pc EXCEPT ![q] = "returned"]
    /\ outcome' = [outcome EXCEPT ![q] = [code |-> code, cause |-> cause, answer |-> answer]]
    /\ mu' = None
    /\ pkt' = [pkt EXCEPT ![q] = NoPacket]
    /\ col' = [col EXCEPT ![q] = Idle]

Fail(q, code, cause) == Return(q, code, cause, <<>>)
-----------------------------------------------------------------------------
(* ensureUsable: reads `closed` without the mutex. A stale read is the same *)
(* behaviour as this step taken earlier.                                    *)
Refused(q) ==
    /\ pc[q] = "new"
    /\ closed
    /\ Goto(q, "returned")
    /\ outcome' = [outcome EXCEPT ![q] = [code |-> "dial", cause |-> "closed", answer |-> <<>>]]
    /\ UNCHANGED <<mu, closed, connOpen, local, ctxDone, closing, socket, server>>

(* Faulty variant: `closed` is not looked at. *)
AdmittedAlways(q) ==
    /\ pc[q] = "new"
    /\ Goto(q, "lock")
    /\ UNCHANGED <<mu, closed, connOpen, local, ctxDone, outcome, closing, socket, server>>

Admitted(q) ==
    /\ pc[q] = "new"
    /\ ~closed
    /\ Goto(q, "lock")
    /\ UNCHANGED <<mu, closed, connOpen, local, ctxDone, outcome, closing, socket, server>>

(* Faulty variant: the exchange starts without waiting for the mutex. *)
LockFree(q) ==
    /\ pc[q] = "lock"
    /\ mu' = q
    /\ Goto(q, "send")
    /\ UNCHANGED <<closed, connOpen, local, ctxDone, outcome, closing, socket, server>>

Lock(q) ==
    /\ pc[q] = "lock"
    /\ mu = None
    /\ mu' = q
    /\ Goto(q, "send")
    /\ UNCHANGED <<closed, connOpen, local, ctxDone, outcome, closing, socket, server>>

(* send: transport.Send / SendTo.                                           *)
SendRequest(q) ==
    /\ pc[q] = "send"
    /\ ~ctxDone[q] /\ connOpen
    /\ sent' = Append(sent, q)
    /\ carried' = Append(carried, tokens[q])
    /\ Goto(q, "enter")
    /\ UNCHANGED <<mu, closed, connOpen, local, ctxDone, outcome, closing, net, dups, server>>

(* The context has ended, the socket is closed, or the write fails on an    *)
(* open socket: by its deadline, or because the host is unreachable.        *)
SendFails(q) ==
    /\ pc[q] = "send"
    /\ \/ ctxDone[q] /\ Fail(q, "timeout", "ctx")
       \/ ~ctxDone[q] /\ ~connOpen /\ Fail(q, "write", "socket")
       \/ ~ctxDone[q] /\ connOpen /\ Fail(q, "timeout", "deadline")
       \/ ~ctxDone[q] /\ connOpen /\ Fail(q, "write", "refused")
    /\ UNCHANGED <<closed, connOpen, tokens, got, ctxDone, closing, socket, server>>
-----------------------------------------------------------------------------
Collecting(q) == col[q] # Idle

(* How a failed read is reported: by mapTransportError in receive, but by   *)
(* mapInternalError when it happened inside Collect.                        *)
ReadError(q, cause) ==
    IF Collecting(q) THEN "decode"
    ELSE IF cause \in {"socket", "refused"} THEN "read" ELSE "timeout"

(* The context check and SetReadDeadline at the head of each read.          *)
EnterRead(q) ==
    /\ pc[q] = "enter"
    /\ ~ctxDone[q] /\ connOpen
    /\ Goto(q, "read")
    /\ UNCHANGED <<mu, closed, connOpen, local, ctxDone, outcome, closing, socket, server>>

EnterReadFails(q) ==
    /\ pc[q] = "enter"
    /\ \/ ctxDone[q] /\ Fail(q, ReadError(q, "ctx"), "ctx")
       \/ ~ctxDone[q] /\ ~connOpen /\ Fail(q, ReadError(q, "socket"), "socket")
    /\ UNCHANGED <<closed, connOpen, tokens, got, ctxDone, closing, socket, server>>

(* Faulty variant: a failed read is tried again. *)
ReadRetries(q) ==
    /\ pc[q] = "read"
    /\ Goto(q, "enter")
    /\ UNCHANGED <<mu, closed, connOpen, local, ctxDone, outcome, closing, socket, server>>

(* The blocked read ends: its deadline passes, the socket is closed, or it  *)
(* reports an error of its own, as a connected socket does when the host    *)
(* refuses. A context that ends meanwhile does not wake it.                 *)
ReadFails(q) ==
    /\ pc[q] = "read"
    /\ \/ Fail(q, ReadError(q, "deadline"), "deadline")
       \/ connOpen /\ Fail(q, ReadError(q, "refused"), "refused")
       \/ ~connOpen /\ Fail(q, ReadError(q, "socket"), "socket")
    /\ UNCHANGED <<closed, connOpen, tokens, got, ctxDone, closing, socket, server>>

(* A datagram leaves the socket, or the network delivers it once more.      *)
Take(d) ==
    \/ net' = net \ {d} /\ UNCHANGED dups
    \/ dups < MaxDups /\ dups' = dups + 1 /\ UNCHANGED net

(* Faulty variant: any sender is believed. *)
ReadableAny(q, d) ==
    /\ pc[q] = "read"
    /\ connOpen

(* ReceiveFrom's source check; a connected socket has it in the kernel.     *)
Readable(q, d) ==
    /\ pc[q] = "read"
    /\ connOpen
    /\ d.src = "target"

(* receive in doQuery and resolvePacket.                                    *)
Receive(q, d) ==
    /\ Readable(q, d)
    /\ ~Collecting(q)
    /\ Take(d)
    /\ pkt' = [pkt EXCEPT ![q] = AsRead(d.pkt)]
    /\ Goto(q, "resolve")
    /\ UNCHANGED <<mu, closed, connOpen, tokens, col, got, ctxDone, outcome, closing, wire, server>>

DropForeign(q, d) ==
    /\ pc[q] = "read"
    /\ connOpen
    /\ d.src # "target"
    /\ net' = net \ {d}
    /\ UNCHANGED <<pc, mu, closed, connOpen, local, ctxDone, outcome, closing, wire, dups, server>>
-----------------------------------------------------------------------------
(* Collect's loop on one fragment p, the collection so far being c.         *)
RefuseFragment(q, c, p) ==
    /\ Refusal(c, p) # "none"
    /\ Fail(q, Refusal(c, p), "packet")

StoreFragment(q, c, p) ==
    /\ Refusal(c, p) = "none"
    /\ ~Complete(Stored(c, p))
    /\ col' = [col EXCEPT ![q] = Stored(c, p)]
    /\ pkt' = [pkt EXCEPT ![q] = NoPacket]
    /\ Goto(q, "enter")
    /\ UNCHANGED <<mu, outcome>>

(* The reassembled response is classified anew, and may be split again.     *)
LastFragment(q, c, p) ==
    LET whole == Outcome(Stored(c, p)) IN
    /\ Refusal(c, p) = "none"
    /\ Complete(Stored(c, p))
    /\ IF whole.err = "none"
         THEN /\ col' = [col EXCEPT ![q] = Idle]
              /\ pkt' = [pkt EXCEPT ![q] = AsPacket(whole.data)]
              /\ Goto(q, "resolve")
              /\ UNCHANGED <<mu, outcome>>
         ELSE Fail(q, whole.err, "packet")

Absorb(q, c, p) ==
    RefuseFragment(q, c, p) \/ StoreFragment(q, c, p) \/ LastFragment(q, c, p)

(* resolvePacket hands its packet to Collect ...                            *)
OpenCollection(q) ==
    /\ pc[q] = "resolve"
    /\ pkt[q].framed
    /\ Absorb(q, Opened(pkt[q]), pkt[q])
    /\ UNCHANGED <<closed, connOpen, tokens, got, ctxDone, closing, socket, server>>

(* ... and Collect reads the others.                                        *)
ReceiveFragment(q, d) ==
    /\ Readable(q, d)
    /\ Collecting(q)
    /\ Take(d)
    /\ Absorb(q, col[q], AsRead(d.pkt))
    /\ UNCHANGED <<closed, connOpen, tokens, got, ctxDone, closing, wire, server>>
-----------------------------------------------------------------------------
(* Faulty variant: a second challenge is appended to the first. *)
ApplyChallengeAppends(request, token) == Append(request, token)

(* ApplyChallenge: adds the missing field or replaces the one there is.     *)
ApplyChallenge(request, token) ==
    IF request = <<>> THEN <<token>> ELSE [request EXCEPT ![Len(request)] = token]

(* resolvePacket on an unsplit packet.                                      *)
Unsplit(q) == pc[q] = "resolve" /\ ~pkt[q].framed

(* challenge.Parse finds a token.                                           *)
Usable(payload) == Whole(payload) /\ payload[1].of.ok

Challenged(q) ==
    LET m == pkt[q].payload[1].of IN
    /\ Unsplit(q)
    /\ Header(pkt[q]) = "challenge"
    /\ Usable(pkt[q].payload)
    /\ tokens' = [tokens EXCEPT ![q] = ApplyChallenge(@, m.re)]
    /\ got' = [got EXCEPT ![q] = m.re]
    /\ pkt' = [pkt EXCEPT ![q] = NoPacket]
    /\ Goto(q, "send")
    /\ UNCHANGED <<mu, closed, connOpen, col, ctxDone, outcome, closing, socket, server>>

(* What parseInfo, parsePlayers or parseRules makes of a packet with the    *)
(* right header: one that lacks bytes, or has those of two responses, may   *)
(* or may not parse.                                                        *)
Parses(payload) == IF Whole(payload) THEN {payload[1].of.ok} ELSE BOOLEAN

Answered(q) ==
    /\ Unsplit(q)
    /\ Header(pkt[q]) = Kind[q]
    /\ \E parsed \in Parses(pkt[q].payload) :
          IF parsed THEN Return(q, "ok", "packet", pkt[q].payload) ELSE Fail(q, "decode", "packet")
    /\ UNCHANGED <<closed, connOpen, tokens, got, ctxDone, closing, socket, server>>

(* The packet is neither a usable challenge nor the answer.                 *)
RejectPacket(q) ==
    LET head == Header(pkt[q]) IN
    /\ Unsplit(q)
    /\ \/ head = "bad" /\ Fail(q, "packet_header", "packet")
       \/ head = "challenge" /\ ~Usable(pkt[q].payload) /\ Fail(q, "challenge", "packet")
       \/ head \notin {"bad", "challenge", Kind[q]} /\ Fail(q, "unsupported", "packet")
    /\ UNCHANGED <<closed, connOpen, tokens, got, ctxDone, closing, socket, server>>
-----------------------------------------------------------------------------
CloseCalled(k) ==
    /\ closing[k] = "idle"
    /\ closing' = [closing EXCEPT ![k] = "lock"]
    /\ UNCHANGED <<pc, mu, closed, connOpen, local, ctxDone, outcome, socket, server>>

(* Faulty variant: Close does not take the mutex. *)
CloseUnlocked(k) ==
    /\ closing[k] = "lock"
    /\ closing' = [closing EXCEPT ![k] = "returned"]
    /\ closed' = TRUE
    /\ connOpen' = IF ~closed /\ Connected THEN FALSE ELSE connOpen
    /\ UNCHANGED <<pc, mu, local, ctxDone, outcome, socket, server>>

(* Close's critical section: only the first call closes, and only a socket  *)
(* the client dialled itself.                                               *)
Close(k) ==
    /\ closing[k] = "lock"
    /\ mu = None
    /\ closing' = [closing EXCEPT ![k] = "returned"]
    /\ closed' = TRUE
    /\ connOpen' = IF ~closed /\ Connected THEN FALSE ELSE connOpen
    /\ UNCHANGED <<pc, mu, local, ctxDone, outcome, socket, server>>

(* The owner of a socket passed to NewClientWithConn closes it.             *)
OwnerClosesConn ==
    /\ ~Connected /\ connOpen
    /\ connOpen' = FALSE
    /\ UNCHANGED <<pc, mu, closed, local, ctxDone, outcome, closing, socket, server>>

Cancel(q) ==
    /\ q \in MayCancel
    /\ ~ctxDone[q] /\ pc[q] # "returned"
    /\ ctxDone' = [ctxDone EXCEPT ![q] = TRUE]
    /\ UNCHANGED <<pc, mu, closed, connOpen, local, outcome, closing, socket, server>>
-----------------------------------------------------------------------------
(* The game server answers request n once, by a challenge, by the answer or *)
(* by a fault. A request or a datagram that is never read is a lost one;    *)
(* net has no order.                                                        *)
OtherKind(kind) == CHOOSE k \in {"info", "players", "rules"} : k # kind

Fault(f, kind, n) ==
    CASE f = "undecodable"    -> Message(kind, FALSE, n, Short)
      [] f = "emptyChallenge" -> Message("challenge", FALSE, n, Short)
      [] f = "garbage"        -> Message("bad", FALSE, n, Short)
      [] f = "otherKind"      -> Message(OtherKind(kind), TRUE, n, Short)

Replies(n) ==
    LET kind == Kind[sent[n]] IN
    {Message(kind, TRUE, n, form) : form \in Forms}
    \cup {Fault(f, kind, n) : f \in Faults}

Reply(n, m) ==
    /\ n \notin served
    /\ served' = served \cup {n}
    /\ net' = net \cup {[src |-> "target", pkt |-> p] : p \in Packets(m)}
    /\ UNCHANGED <<pc, mu, closed, connOpen, local, ctxDone, outcome, closing, wire, dups>>

Serve(n) == \E m \in Replies(n) : Reply(n, m) /\ UNCHANGED chals

SendChallenge(n) ==
    /\ chals < MaxChallenges
    /\ chals' = chals + 1
    /\ \E form \in Brief : Reply(n, Message("challenge", TRUE, n, form))
-----------------------------------------------------------------------------
Running(q) ==
    \/ SendRequest(q) \/ SendFails(q)
    \/ EnterRead(q) \/ EnterReadFails(q) \/ ReadFails(q)
    \/ OpenCollection(q) \/ Challenged(q) \/ Answered(q) \/ RejectPacket(q)

Reading(q) == \E d \in net : Receive(q, d) \/ ReceiveFragment(q, d) \/ DropForeign(q, d)

(* Every call has returned: nothing is left that must happen.               *)
Finished ==
    /\ \A q \in Queries : pc[q] = "returned"
    /\ \A k \in Closers : closing[k] = "returned"
    /\ UNCHANGED vars

Next ==
    \/ \E q \in Queries :
          \/ Refused(q) \/ Admitted(q) \/ Lock(q)
          \/ Running(q) \/ Reading(q) \/ Cancel(q)
    \/ \E k \in Closers : CloseCalled(k) \/ Close(k)
    \/ OwnerClosesConn
    \/ \E n \in DOMAIN sent : Serve(n) \/ SendChallenge(n)
    \/ Finished

(* A running goroutine is scheduled, and the deadline of a blocked read is  *)
(* a runtime timer. sync.Mutex hands the lock to a waiter that has waited   *)
(* for 1 ms (starvation mode), so a waiter is not passed over for ever. No  *)
(* fairness for the network, the server, Cancel or the start of a call.     *)
Fairness ==
    /\ \A q \in Queries : WF_vars(Running(q)) /\ SF_vars(Lock(q))
    /\ \A k \in Closers : SF_vars(Close(k))

Spec == Init /\ [][Next]_vars

FairSpec == Spec /\ Fairness
-----------------------------------------------------------------------------
Exchanging == {"send", "enter", "read", "resolve"}

ControlTypeOK ==
    /\ pc \in [Queries -> {"new", "lock", "returned"} \cup Exchanging]
    /\ mu \in Queries \cup {None}
    /\ closed \in BOOLEAN /\ connOpen \in BOOLEAN
    /\ ctxDone \in [Queries -> BOOLEAN]
    /\ closing \in [Closers -> {"idle", "lock", "returned"}]
    /\ sent \in Seq(Queries)
    /\ served \subseteq DOMAIN sent
    /\ chals \in 0 .. MaxChallenges /\ dups \in 0 .. MaxDups
    /\ DOMAIN outcome = Queries

(* Every variable has its type (Client and the locals of doQuery and        *)
(* resolvePacket, client.go:21-32, 193-253).                                *)
TypeOK ==
    /\ ControlTypeOK
    /\ tokens \in [Queries -> Seq(Int)] /\ got \in [Queries -> Int]
    /\ carried \in Seq(Seq(Int)) /\ Len(carried) = Len(sent)
    /\ DOMAIN pkt = Queries /\ DOMAIN col = Queries
    /\ \A q \in Queries : outcome[q].code \in
          {"none", "ok", "dial", "write", "read", "timeout", "packet_header",
           "challenge", "multi_packet", "decode", "unsupported"}

Returned(q, code) == pc[q] = "returned" /\ outcome[q].code = code

Answers(q) == outcome[q].answer[1].of

(* An answer has the header the query expects and is what the target said   *)
(* to a request that reached it: to one of this client or, on a lent        *)
(* socket, to one of a former user whose answer came too late. It is never  *)
(* a datagram of another host, nor assembled from one (client.go:238-276,   *)
(* transport.go:60-81, scanner/client.go:178-180).                          *)
AnswerFromTarget ==
    \A q \in Queries : Returned(q, "ok") =>
        /\ Answers(q).head = Kind[q]
        /\ Answers(q).re \in served \/ (~Connected /\ Answers(q) \in Former)

(* An answer is put together of one response, even when fragments of others *)
(* are in the socket. It may lack bytes, but those only that were beyond    *)
(* maxPacketSize in their datagram: a response whose datagrams all fit is   *)
(* returned whole, and only if it parses (client.go:242-248,                *)
(* multipacket.go:104-115, transport.go:38, 71-77).                         *)
AnswerOfOneResponse ==
    \A q \in Queries : Returned(q, "ok") =>
        LET m == Answers(q) IN
        /\ outcome[q].answer = Remains(m)
        /\ Fits(m) => Whole(outcome[q].answer) /\ m.ok

(* Every exchange but q's own ended with the reply to its last request.     *)
Undisturbed(q) ==
    /\ dups = 0
    /\ \A p \in Queries \ {q} : pc[p] = "returned" =>
          outcome[p].code \in {"ok", "dial", "challenge", "unsupported"}

(* A socket of the client's own, or a lent one without packets of the target.*)
FreshSocket == Connected \/ \A d \in Noise : d.src # "target"

(* The socket is never drained, so a query gets its own answer only as long *)
(* as nobody before it left a reply behind. On a fresh socket, after        *)
(* exchanges that each ended with a reply, without duplicates, the answer   *)
(* is to a request of the very query (client.go:193-253).                   *)
OwnAnswer ==
    \A q \in Queries :
        Returned(q, "ok") /\ FreshSocket /\ Undisturbed(q) =>
            Answers(q).re \in DOMAIN sent /\ sent[Answers(q).re] = q

(* A retried request carries the token of the last challenge the query      *)
(* read, once, and a first request none (client.go:223-231,                 *)
(* packet.go:155-176).                                                      *)
RetryCarriesToken ==
    [][sent' # sent =>
          LET q == Last(sent') IN
          Last(carried') = IF got[q] = 0 THEN InitialTokens(Kind[q]) ELSE <<got[q]>>]_vars

(* Close waits for the exchange in progress: on a socket of the client's    *)
(* own, a query that fails for a closed socket has sent no request          *)
(* (client.go:100-121).                                                     *)
CloseCutsNoExchange ==
    Connected => \A q \in Queries : outcome[q].cause = "socket" =>
                    \A n \in DOMAIN sent : sent[n] # q

(* The client implements the abstract service: its calls are served one at  *)
(* a time, and none is accepted once Close has marked the client            *)
(* (client.go:100-191).                                                     *)
Phase(l) ==
    IF l = "new" THEN "idle"
    ELSE IF l = "lock" THEN "pending"
    ELSE IF l = "returned" THEN "done" ELSE "active"

Service == INSTANCE QueryService WITH
    phase <- [q \in Queries |-> Phase(pc[q])],
    log   <- sent,
    shut  <- closed

ServesOneAtATime == Service!Spec

(* The exchanges of concurrent queries are not interleaved on the socket:   *)
(* between two requests of one query no other query sends (the mutex of     *)
(* client.go:129-130, 149-150, 169-170).                                    *)
Uninterleaved == Service!Contiguous

(* Every query that is called returns, and every Close, whatever is lost:   *)
(* each read has a deadline (client.go:278-284) and the server stops        *)
(* sending challenges.                                                      *)
EveryCallReturns ==
    /\ \A q \in Queries : pc[q] = "lock" ~> pc[q] = "returned"
    /\ \A k \in Closers : closing[k] = "lock" ~> closing[k] = "returned"

(* A query that ended because a deadline passed or its context ended says   *)
(* so (client.go:315-330; client_test.go:495 for a query without an answer).*)
TimeoutReported ==
    \A q \in Queries : outcome[q].cause \in {"ctx", "deadline"} => outcome[q].code = "timeout"
=============================================================================
